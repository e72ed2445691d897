------------------------------- MODULE Router -------------------------------
(***************************************************************************)
(* The model router (packages/router): the circuit breaker of each         *)
(* provider, the two retry loops around a fetch (fetchWithRetry, and       *)
(* Provider.stream around it), and the dispatcher that falls back from a   *)
(* model to the others of its tier, or escalates a cascade over all of     *)
(* them.                                                                   *)
(*                                                                         *)
(* A provider may own several models, of several tiers, and every model    *)
(* supports tools, as in the default configuration.  A request that has    *)
(* ended may be followed by another under the same identity.  Every await  *)
(* (a fetch, a body, a rejected promise) is a step boundary, so requests   *)
(* interleave there.  A completion asks its first model in the tick of its *)
(* arrival; the model lets others in between, as they come before the      *)
(* first pull of a stream.                                                 *)
(***************************************************************************)
EXTENDS Naturals, SequencesExt

CONSTANTS
  Completes,  \* concurrent chat completions that want one response
  Streams,    \* those that want a stream
  Registry,   \* of each model: its provider, tier, quality and cost
  Retries,    \* max_retries of a provider
  Threshold   \* BREAKER_THRESHOLD

Models == DOMAIN Registry

ASSUME RouterAssumption ==
  /\ Retries \in Nat
  /\ Threshold \in Nat \ {0}
  /\ IsFiniteSet(Models)
  /\ \A m \in Models : Registry[m].quality \in Nat /\ Registry[m].cost \in Nat
  /\ Completes \cap Streams = {}

VARIABLES
  breaker,    \* [Providers -> CircuitBreaker.state]
  req         \* what the handler of each request has on its stack

routerVars == <<breaker, req>>

Requests == Completes \cup Streams
Owner(m) == Registry[m].provider
Providers == {Owner(m) : m \in Models}
Nobody == "nobody"

\* model "auto", a named model, cascade_enabled (which streams pass over, and
\* which takes more than one model)
Kinds(r) ==
  {"auto", "direct"} \cup
  (IF r \in Completes /\ \E m, n \in Models : m # n THEN {"cascade"} ELSE {})
Ended == {"served", "failed", "left"}

\* What one request keeps: the models still to be asked, the one that is being
\* asked, how often the inner and the outer loop have tried, whose chunks the
\* client has received, and which model is charged for the answer.
NoRequest == [pc |-> "idle", kind |-> "none", todo |-> {},
         primary |-> Nobody, at |-> Nobody, asked |-> <<>>, skipped |-> {},
         try |-> 0, round |-> 0, sent |-> 0, yielded |-> FALSE, got |-> <<>>,
         booked |-> Nobody]

RouterInit ==
  /\ breaker = [p \in Providers |-> [failures |-> 0, state |-> "closed", due |-> FALSE]]
  /\ req = [r \in Requests |-> NoRequest]

-----------------------------------------------------------------------------
(* The circuit breaker.  "due" says that next_attempt has passed.  Failures *)
(* beyond the threshold are indistinguishable from it: only a success       *)
(* lowers the count, and it sets it to zero.                                *)

IsOpen(b) == b.state = "open" /\ ~b.due

\* isOpen() of a breaker whose time has come also turns it half-open.
Peek(b) == IF b.state = "open" /\ b.due
             THEN [b EXCEPT !.state = "half-open", !.due = FALSE]
             ELSE b

RecordSuccess(b) == [failures |-> 0, state |-> "closed", due |-> FALSE]

\* mutant: the count is compared before it is raised
RecordFailureLate(b) ==
  [b EXCEPT !.failures = IF @ < Threshold THEN @ + 1 ELSE @,
            !.state = IF b.failures >= Threshold THEN "open" ELSE @,
            !.due = FALSE]

RecordFailure(b) ==
  LET n == IF b.failures < Threshold THEN b.failures + 1 ELSE Threshold IN
  IF n = Threshold THEN [failures |-> n, state |-> "open", due |-> FALSE]
                   ELSE [b EXCEPT !.failures = n]

\* BREAKER_RESET_MS go by.
CoolDown(p) ==
  /\ IsOpen(breaker[p])
  /\ breaker' = [breaker EXCEPT ![p].due = TRUE]
  /\ UNCHANGED req

-----------------------------------------------------------------------------
(* Arrival: routing, up to the first await.                                *)

Free(r) == req[r].pc = "idle"

\* the models of the same tier that other providers own
Fallbacks(m) ==
  {n \in Models : Registry[n].tier = Registry[m].tier /\ Owner(n) # Owner(m)}

\* The models a request of a kind goes over when m is the one selected.
Candidates(kind, m) ==
  IF kind = "direct" THEN {m}
  ELSE IF kind = "auto" THEN {m} \cup Fallbacks(m)
  ELSE Models

Begun(kind, m) ==
  [NoRequest EXCEPT !.pc = "choose", !.kind = kind, !.primary = m,
                    !.todo = Candidates(kind, m)]

\* handlePassthrough: the provider that owns the named model, open or not.
\* A sticky session keeps its model without a look at the breaker either.
ArriveBound(r) ==
  /\ Free(r)
  /\ \E kind \in Kinds(r), m \in Models :
        req' = [req EXCEPT ![r] = Begun(kind, m)]
  /\ UNCHANGED breaker

\* RoutingEngine.route: the policy picks among the models whose breaker lets
\* requests through; asking all of them turns every breaker that is due
\* half-open.  With none left the policy has nothing to select: the handler
\* throws and the request gets a 500.
ArriveRouted(r) ==
  /\ Free(r)
  /\ breaker' = [p \in Providers |-> Peek(breaker[p])]
  /\ LET open == {m \in Models : ~IsOpen(breaker[Owner(m)])} IN
     IF open = {}
       THEN req' = [req EXCEPT ![r] = [NoRequest EXCEPT !.pc = "failed",
                                                        !.skipped = Models]]
       ELSE \E kind \in Kinds(r) \ {"direct"}, m \in open :
              req' = [req EXCEPT ![r] = Begun(kind, m)]

-----------------------------------------------------------------------------
(* Dispatch, fallback and cascade: whose turn is it?                       *)

\* A cascade starts with the cheapest model, the fallbacks of the selected one
\* with that of the lowest quality.
Rank(kind, m) == IF kind = "cascade" THEN Registry[m].cost ELSE Registry[m].quality

\* Models of one rank come in the order of the registry: any.
UpNext(f) ==
  IF f.kind # "cascade" /\ f.primary \in f.todo
    THEN {f.primary}
    ELSE {m \in f.todo : \A n \in f.todo : Rank(f.kind, m) <= Rank(f.kind, n)}

\* mutant: an open breaker ends the loop
TurnOrEnd(r, m) ==
  LET f == [req[r] EXCEPT !.todo = @ \ {m}] IN
  /\ breaker' = [breaker EXCEPT ![Owner(m)] = Peek(@)]
  /\ req' = [req EXCEPT ![r] =
       IF IsOpen(breaker[Owner(m)])
         THEN [f EXCEPT !.todo = {}]
         ELSE [f EXCEPT !.asked = Append(@, m), !.at = m, !.pc = "asking",
                        !.try = 0, !.round = 0, !.sent = 1, !.yielded = FALSE]]

\* The loop comes to model m: its provider is asked, or passed over while its
\* breaker is open.
TurnOf(r, m) ==
  LET f == [req[r] EXCEPT !.todo = @ \ {m}] IN
  /\ breaker' = [breaker EXCEPT ![Owner(m)] = Peek(@)]
  /\ req' = [req EXCEPT ![r] =
       IF IsOpen(breaker[Owner(m)])
         THEN [f EXCEPT !.skipped = @ \cup {m}]
         ELSE [f EXCEPT !.asked = Append(@, m), !.at = m, !.pc = "asking",
                        !.try = 0, !.round = 0, !.sent = 1, !.yielded = FALSE]]

Choose(r) ==
  /\ req[r].pc = "choose"
  /\ \/ \E m \in UpNext(req[r]) : TurnOf(r, m)
     \/ /\ req[r].todo = {}
        /\ req' = [req EXCEPT ![r].pc = "failed"]
        /\ UNCHANGED breaker

-----------------------------------------------------------------------------
(* One model's turn: Provider.complete and Provider.stream.                *)

\* The turn is over, and with it its counters: the loop goes on.
Turned(r) == [req[r] EXCEPT !.pc = "choose", !.at = Nobody, !.try = 0, !.round = 0,
                            !.sent = 0, !.yielded = FALSE]

\* The error leaves the provider: it counts against its breaker and the
\* dispatcher goes on to whoever is next.
GiveUp(r) ==
  /\ breaker' = [breaker EXCEPT ![Owner(req[r].at)] = RecordFailure(@)]
  /\ req' = [req EXCEPT ![r] = Turned(r)]

\* The outer loop: a stream that yielded nothing starts over when its error
\* looks retryable and the provider has retries left.
StartOver(r, retryable) ==
  IF r \in Streams /\ ~req[r].yielded /\ retryable /\ req[r].round < Retries
    THEN /\ req' = [req EXCEPT ![r].pc = "asking", ![r].round = @ + 1, ![r].try = 0,
                               ![r].sent = @ + 1]
         /\ UNCHANGED breaker
    ELSE GiveUp(r)

\* fetchWithRetry: a transient answer, a network error or the timeout of the
\* fetch.  The last answer is handed to the caller, whose error the outer loop
\* takes for retryable or not by its text (a timeout's is not).
Transient(r) ==
  /\ req[r].pc = "asking"
  /\ IF req[r].try < Retries
       THEN /\ req' = [req EXCEPT ![r].try = @ + 1, ![r].sent = @ + 1]
            /\ UNCHANGED breaker
       ELSE \E retryable \in BOOLEAN : StartOver(r, retryable)

\* An HTTP error or a failure of the network that fetchWithRetry throws at
\* once; the outer loop judges its text, which may well hold a "500".
Refused(r) ==
  /\ req[r].pc = "asking"
  /\ \E retryable \in BOOLEAN : StartOver(r, retryable)

\* The headers of a good answer: from here on no timeout is armed.
Headers(r) ==
  /\ req[r].pc = "asking"
  /\ req' = [req EXCEPT ![r].pc = "reading"]
  /\ UNCHANGED breaker

Chunk(r) ==
  /\ req[r].pc = "reading" /\ r \in Streams /\ ~req[r].yielded
  /\ req' = [req EXCEPT ![r].yielded = TRUE, ![r].got = Append(@, req[r].at)]
  /\ UNCHANGED breaker

\* The body breaks off, or does not parse.
BodyBreaks(r) ==
  /\ req[r].pc = "reading"
  /\ \E retryable \in BOOLEAN : StartOver(r, retryable)

\* The whole answer.  A cascade takes an answer of low confidence only from
\* its last model.  What is booked is the decision's model; streams and
\* requests for a named model are not booked.
Answered(r) ==
  /\ req[r].pc = "reading"
  /\ breaker' = [breaker EXCEPT ![Owner(req[r].at)] = RecordSuccess(@)]
  /\ \/ req' = [req EXCEPT ![r] =
                   [NoRequest EXCEPT
                      !.pc = "served", !.at = req[r].at,
                      !.booked = IF r \in Streams \/ req[r].kind = "direct"
                                   THEN Nobody ELSE req[r].primary]]
     \/ /\ req[r].kind = "cascade" /\ req[r].todo # {}
        /\ req' = [req EXCEPT ![r] = Turned(r)]

\* The client closes its connection: the generator is asked to return, which
\* it does at a yield, and the breaker hears nothing.
Leave(r) ==
  /\ req[r].pc = "reading" /\ req[r].yielded
  /\ req' = [req EXCEPT ![r] = [NoRequest EXCEPT !.pc = "left"]]
  /\ UNCHANGED breaker

\* The handler has returned: another request may come under its identity.
HandlerReturned(r) ==
  /\ req[r].pc \in Ended
  /\ req' = [req EXCEPT ![r] = NoRequest]
  /\ UNCHANGED breaker

RouterNext ==
  \/ \E p \in Providers : CoolDown(p)
  \/ \E r \in Requests :
        \/ ArriveBound(r) \/ ArriveRouted(r) \/ Choose(r)
        \/ Transient(r) \/ Refused(r) \/ Headers(r)
        \/ Chunk(r) \/ BodyBreaks(r) \/ Answered(r) \/ Leave(r)
        \/ HandlerReturned(r)

RouterSpec == RouterInit /\ [][RouterNext]_routerVars

\* The event loop runs what is ready, and fetchWithTimeout ends every fetch.
\* Nothing ends a body, and nobody has to send requests.
Fairness ==
  \A r \in Requests : /\ WF_routerVars(Choose(r))
                      /\ WF_routerVars(Transient(r) \/ Refused(r) \/ Headers(r))

RouterFairSpec == RouterSpec /\ Fairness

-----------------------------------------------------------------------------
\* The types.
RouterTypeOK ==
  /\ breaker \in [Providers -> [failures : 0..Threshold, due : BOOLEAN,
                                state : {"closed", "open", "half-open"}]]
  /\ req \in [Requests ->
       [pc : Ended \cup {"idle", "choose", "asking", "reading"},
        kind : {"none", "auto", "direct", "cascade"}, todo : SUBSET Models,
        primary : Models \cup {Nobody}, at : Models \cup {Nobody},
        asked : Seq(Models), skipped : SUBSET Models, try : 0..Retries,
        round : 0..Retries, sent : Nat, yielded : BOOLEAN, got : Seq(Models),
        booked : Models \cup {Nobody}]]
  /\ \A r \in Requests : req[r].kind \in Kinds(r) \cup {"none"}

\* With answers of many requests arriving in any order (late failures of a
\* breaker that is open, late successes that close it) a breaker is closed
\* exactly while it has counted fewer failures than the threshold, and only an
\* open one has a time to wait for.
BreakerCounts ==
  \A p \in Providers :
    /\ breaker[p].state = "closed" <=> breaker[p].failures < Threshold
    /\ breaker[p].due => breaker[p].state = "open"

\* A request fails only when no model is left: each one it may go over (the
\* named model; the selected one and those of its tier that others own; every
\* model, in a cascade) failed it, had an open breaker at its turn, or answered
\* a cascade with too little confidence.
FailsLast ==
  \A r \in Requests : req[r].pc = "failed" =>
    ToSet(req[r].asked) \cup req[r].skipped = Candidates(req[r].kind, req[r].primary)

\* No model has two turns in a request, and while a cascade or a fallback may
\* come back to a provider with another model, the provider of the model that
\* was selected and failed gets no second turn by way of the fallbacks.
OneTurnEach ==
  \A r \in Requests :
    LET f == req[r] IN
    /\ IsInjective(f.asked)
    /\ f.kind = "auto" =>
         \A m \in ToSet(f.asked) : Owner(m) = Owner(f.primary) => m = f.primary

\* A model whose stream has reached the client does not start it over: no
\* model's chunks are sent twice.
NoSelfReplay == \A r \in Requests : IsInjective(req[r].got)

\* The two loops together send a model no more than the square of its
\* budget in one turn, and the inner one alone no more than the budget.
Budget ==
  \A r \in Requests :
    req[r].sent <= (Retries + 1) * (IF r \in Streams THEN Retries + 1 ELSE 1)

\* Whatever the providers answer, a request that waits for headers or for its
\* next turn gets to a body or to its end.
HeadersCome ==
  \A r \in Requests :
    req[r].pc \in {"choose", "asking"} ~> req[r].pc \notin {"choose", "asking"}

-----------------------------------------------------------------------------
(* What the documents and comments promise, and the code does not keep.    *)

\* "replaying after partial output would duplicate tokens": the client of a
\* stream receives the output of one attempt of one model.
NoReplay == \A r \in Requests : Len(req[r].got) <= 1

\* "the number of additional attempts after the initial call, so 2 means up to
\* 3 total requests", for Provider.complete and Provider.stream.
RetryBudget == \A r \in Requests : req[r].sent <= Retries + 1

\* "one test request is allowed through" a half-open breaker.
OneProbe ==
  \A p \in Providers : breaker[p].state = "half-open" =>
    \A r, s \in Requests :
      (/\ req[r].pc = "asking" /\ Owner(req[r].at) = p
       /\ req[s].pc = "asking" /\ Owner(req[s].at) = p) => r = s

\* "Costs are attributed by model, provider, and session": what is booked is
\* booked on the model that answered.
BookedOnServer ==
  \A r \in Requests :
    (req[r].pc = "served" /\ req[r].booked # Nobody) => req[r].booked = req[r].at

=============================================================================
