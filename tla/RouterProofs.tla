---------------------------- MODULE RouterProofs ----------------------------
(***************************************************************************)
(* What the model router guarantees for any number of requests, of         *)
(* providers, of retries and of failures a breaker stands.                 *)
(***************************************************************************)
EXTENDS MCServices, ChannelBusProofs, AgentRuntimeProofs, ComputeLifecycleProofs,
        SequenceTheorems, TLAPS

---------------------------------------------------------------------------
(* Sequences of models                                                     *)

\* Appending an element.
LEMMA Appended ==
  ASSUME NEW S, NEW s \in Seq(S), NEW e \in S
  PROVE  /\ Append(s, e) \in Seq(S)
         /\ ToSet(Append(s, e)) = ToSet(s) \cup {e}
         /\ IsInjective(s) /\ e \notin ToSet(s) => IsInjective(Append(s, e))
<1> DEFINE longer == Append(s, e)
<1>1. /\ longer \in Seq(S) /\ Len(s) \in Nat
      /\ DOMAIN s = 1..Len(s) /\ DOMAIN longer = 1..(Len(s) + 1)
      /\ \A i \in 1..Len(s) : longer[i] = s[i]
      /\ longer[Len(s) + 1] = e
  OBVIOUS
<1>2. \A i \in 1..(Len(s) + 1) : i \in 1..Len(s) \/ i = Len(s) + 1
  BY <1>1
<1>3. 1..Len(s) \subseteq 1..(Len(s) + 1) /\ Len(s) + 1 \in 1..(Len(s) + 1)
  BY <1>1
<1>4. ToSet(longer) = ToSet(s) \cup {e}
  BY <1>1, <1>2, <1>3 DEF ToSet
<1>5. IsInjective(s) /\ e \notin ToSet(s) => IsInjective(longer)
  BY <1>1, <1>2, <1>3 DEF IsInjective, ToSet
<1> QED
  BY <1>1, <1>4, <1>5

---------------------------------------------------------------------------
(* Breakers                                                                *)

\* What a breaker is, and what its count says.
Breakers == [failures : 0..Threshold, due : BOOLEAN,
             state : {"closed", "open", "half-open"}]
Counts(b) ==
  /\ b.state = "closed" <=> b.failures < Threshold
  /\ b.due => b.state = "open"

\* None of the circuit breaker's methods, nor the time, makes it lie.
LEMMA BreakersKeepCount ==
  ASSUME NEW b \in Breakers, Counts(b)
  PROVE  /\ Peek(b) \in Breakers /\ Counts(Peek(b))
         /\ RecordSuccess(b) \in Breakers /\ Counts(RecordSuccess(b))
         /\ RecordFailure(b) \in Breakers /\ Counts(RecordFailure(b))
         /\ IsOpen(b) => LET c == [b EXCEPT !.due = TRUE] IN c \in Breakers /\ Counts(c)
<1>1. Threshold \in Nat \ {0} /\ 0 \in 0..Threshold /\ Threshold \in 0..Threshold
  BY RouterAssumption
<1>2. \A m \in 0..Threshold : m < Threshold => m + 1 \in 0..Threshold
  BY <1>1
<1>3. Peek(b) \in Breakers /\ Counts(Peek(b))
  BY <1>1 DEF Peek, Breakers, Counts
<1>4. RecordSuccess(b) \in Breakers /\ Counts(RecordSuccess(b))
  BY <1>1 DEF RecordSuccess, Breakers, Counts
<1>5. RecordFailure(b) \in Breakers /\ Counts(RecordFailure(b))
  BY <1>1, <1>2 DEF RecordFailure, Breakers, Counts
<1>6. IsOpen(b) => LET c == [b EXCEPT !.due = TRUE] IN c \in Breakers /\ Counts(c)
  BY DEF IsOpen, Breakers, Counts
<1> QED
  BY <1>3, <1>4, <1>5, <1>6

---------------------------------------------------------------------------
(* What a request keeps                                                    *)

Frames == [pc : Ended \cup {"idle", "choose", "asking", "reading"},
           kind : {"none", "auto", "direct", "cascade"}, todo : SUBSET Models,
           primary : Models \cup {Nobody}, at : Models \cup {Nobody},
           asked : Seq(Models), skipped : SUBSET Models, try : 0..Retries,
           round : 0..Retries, sent : Nat, yielded : BOOLEAN, got : Seq(Models),
           booked : Models \cup {Nobody}]

\* every candidate is being asked, was, was skipped, or will be
Accounts(f) ==
  /\ f.pc \in {"choose", "asking", "reading", "failed"} =>
       f.todo \cup ToSet(f.asked) \cup f.skipped = Candidates(f.kind, f.primary)
  /\ f.pc = "failed" => f.todo = {}

\* no model is asked twice, none but the candidates, and each streams once at most
TakesTurns(f) ==
  /\ IsInjective(f.asked) /\ IsInjective(f.got)
  /\ f.todo \cap ToSet(f.asked) = {}
  /\ f.todo \cup ToSet(f.asked) \subseteq Candidates(f.kind, f.primary)
  /\ ToSet(f.got) \subseteq ToSet(f.asked)
  /\ f.pc \in {"asking", "reading"} =>
       f.at \in ToSet(f.asked) /\ (f.at \in ToSet(f.got) => f.yielded)

\* what was sent in the present turn
Sends(r, f) ==
  /\ f.sent <= f.round * (Retries + 1) + f.try + 1
  /\ r \notin Streams => f.round = 0

FrameInv(r, f) ==
  /\ f \in Frames /\ f.kind \in Kinds(r) \cup {"none"}
  /\ Accounts(f) /\ TakesTurns(f) /\ Sends(r, f)

LEMMA EmptySequence ==
  ASSUME NEW S
  PROVE  <<>> \in Seq(S) /\ ToSet(<<>>) = {} /\ IsInjective(<<>>)
<1>1. DOMAIN <<>> = {}
  OBVIOUS
<1> QED
  BY <1>1 DEF IsInjective, ToSet

LEMMA NoRequestKept ==
  ASSUME NEW r \in Requests
  PROVE  FrameInv(r, NoRequest)
<1>1. Retries \in Nat /\ 0 \in 0..Retries
  BY RouterAssumption
<1>2. NoRequest \in Frames /\ NoRequest.kind \in Kinds(r) \cup {"none"}
  BY <1>1, EmptySequence DEF NoRequest, Frames
<1>3. Accounts(NoRequest) /\ TakesTurns(NoRequest)
  BY EmptySequence DEF Accounts, TakesTurns, NoRequest
<1>4. Sends(r, NoRequest)
  BY <1>1 DEF Sends, NoRequest
<1> QED
  BY <1>2, <1>3, <1>4 DEF FrameInv

\* The candidates are models.
LEMMA CandidatesAreModels ==
  ASSUME NEW kind, NEW m \in Models
  PROVE  Candidates(kind, m) \subseteq Models
BY DEF Candidates, Fallbacks

\* A request begins with all of its candidates to be asked.
LEMMA BegunKept ==
  ASSUME NEW r \in Requests, NEW kind \in Kinds(r), NEW m \in Models
  PROVE  FrameInv(r, Begun(kind, m))
<1> DEFINE todo == Candidates(kind, m)
           f == [NoRequest EXCEPT !.pc = "choose", !.kind = kind, !.primary = m,
                                  !.todo = todo]
<1>1. Begun(kind, m) = f
  BY DEF Begun
<1>2. kind \in {"auto", "direct", "cascade"}
  BY DEF Kinds
<1>3. todo \in SUBSET Models
  BY CandidatesAreModels
<1>4. NoRequest \in Frames /\ Sends(r, NoRequest)
  BY NoRequestKept DEF FrameInv
<1>5. /\ f \in Frames /\ f.pc = "choose" /\ f.kind = kind /\ f.primary = m /\ f.todo = todo
      /\ f.asked = <<>> /\ f.skipped = {} /\ f.got = <<>>
      /\ f.sent = 0 /\ f.round = 0 /\ f.try = 0
  BY <1>2, <1>3, <1>4 DEF Frames, NoRequest
<1> HIDE DEF f
<1>6. Accounts(f)
  BY <1>5, EmptySequence DEF Accounts
<1>7. TakesTurns(f)
  BY <1>5, EmptySequence DEF TakesTurns
<1>8. Sends(r, f)
  BY <1>4, <1>5 DEF Sends, NoRequest
<1> QED
  BY <1>1, <1>5, <1>6, <1>7, <1>8 DEF FrameInv

\* A request that is over keeps nothing but who answered and who is charged.
LEMMA OverKept ==
  ASSUME NEW r \in Requests, NEW pc \in {"served", "left"},
         NEW at \in Models \cup {Nobody}, NEW b \in Models \cup {Nobody}
  PROVE  FrameInv(r, [NoRequest EXCEPT !.pc = pc, !.at = at, !.booked = b])
<1> DEFINE f == [NoRequest EXCEPT !.pc = pc, !.at = at, !.booked = b]
<1>1. FrameInv(r, NoRequest)
  BY NoRequestKept
<1>2. f \in Frames
  BY <1>1 DEF FrameInv, Frames, Ended
<1>3. Accounts(f) /\ TakesTurns(f)
  BY EmptySequence DEF Accounts, TakesTurns, NoRequest
<1>4. Sends(r, f) /\ f.kind \in Kinds(r) \cup {"none"}
  BY <1>1 DEF FrameInv, Sends, NoRequest
<1> QED
  BY <1>2, <1>3, <1>4 DEF FrameInv

\* The end of a turn.
LEMMA TurnedKept ==
  ASSUME NEW r \in Requests, FrameInv(r, req[r]), req[r].pc \in {"asking", "reading"}
  PROVE  FrameInv(r, Turned(r))
<1> DEFINE f == req[r]
           g == Turned(r)
<1>1. Retries \in Nat /\ 0 \in 0..Retries /\ 0 * (Retries + 1) = 0
  BY RouterAssumption
<1>2. f \in Frames /\ f.kind \in Kinds(r) \cup {"none"} /\ Accounts(f) /\ TakesTurns(f)
  BY DEF FrameInv
<1>3. /\ g.pc = "choose" /\ g.kind = f.kind /\ g.todo = f.todo /\ g.primary = f.primary
      /\ g.asked = f.asked /\ g.skipped = f.skipped /\ g.got = f.got
      /\ g.round = 0 /\ g.try = 0 /\ g.sent = 0
      /\ g \in Frames
  BY <1>1, <1>2 DEF Frames, Turned
<1> HIDE DEF f, g
<1>4. Accounts(g)
  BY <1>2, <1>3 DEF Accounts, f
<1>5. TakesTurns(g)
  BY <1>2, <1>3 DEF TakesTurns
<1>6. Sends(r, g)
  BY <1>1, <1>3 DEF Sends
<1> QED
  BY <1>2, <1>3, <1>4, <1>5, <1>6 DEF FrameInv, g, f

---------------------------------------------------------------------------
(* The invariant                                                           *)

RouterInv ==
  /\ breaker \in [Providers -> Breakers]
  /\ \A p \in Providers : Counts(breaker[p])
  /\ req \in [Requests -> Frames]
  /\ \A r \in Requests : FrameInv(r, req[r])

LEMMA RouterInvInit == RouterInit => RouterInv
<1>1. Threshold \in Nat \ {0}
  BY RouterAssumption
<1>2. \A r \in Requests : FrameInv(r, NoRequest)
  BY NoRequestKept
<1> QED
  BY <1>1, <1>2 DEF RouterInit, RouterInv, Breakers, Counts, FrameInv

\* One request goes on, and one breaker hears of it at most.
LEMMA OneGoesOn ==
  ASSUME RouterInv, NEW r \in Requests, NEW f, FrameInv(r, f),
         req' = [req EXCEPT ![r] = f],
         breaker' \in [Providers -> Breakers],
         \A p \in Providers : Counts(breaker'[p])
  PROVE  RouterInv'
<1>1. f \in Frames
  BY DEF FrameInv
<1>2. req' \in [Requests -> Frames] /\ \A q \in Requests : req'[q] = IF q = r THEN f ELSE req[q]
  BY <1>1 DEF RouterInv
<1> QED
  BY <1>2 DEF RouterInv

LEMMA BreakersHear ==
  ASSUME RouterInv, NEW p \in Providers,
         NEW b \in {breaker[p], Peek(breaker[p]), RecordSuccess(breaker[p]),
                    RecordFailure(breaker[p])},
         breaker' = [breaker EXCEPT ![p] = b]
  PROVE  /\ breaker' \in [Providers -> Breakers]
         /\ \A q \in Providers : Counts(breaker'[q])
<1>1. breaker[p] \in Breakers /\ Counts(breaker[p])
  BY DEF RouterInv
<1>2. b \in Breakers /\ Counts(b)
  BY <1>1, BreakersKeepCount
<1> QED
  BY <1>2 DEF RouterInv

\* The one whose turn is next is among those to be asked.
LEMMA UpNextIsToDo ==
  ASSUME NEW f, NEW m \in UpNext(f)
  PROVE  m \in f.todo
BY DEF UpNext

\* The turn goes to a model, or passes over it.
LEMMA TurnKeeps ==
  ASSUME RouterInv, NEW r \in Requests, NEW m \in req[r].todo,
         req[r].pc = "choose", TurnOf(r, m)
  PROVE  RouterInv'
<1> DEFINE f == req[r]
           p == Owner(m)
           rest == f.todo \ {m}
           passed == [f EXCEPT !.todo = rest, !.skipped = f.skipped \cup {m}]
           turn == [f EXCEPT !.todo = rest, !.asked = Append(f.asked, m), !.at = m,
                             !.pc = "asking", !.try = 0, !.round = 0, !.sent = 1,
                             !.yielded = FALSE]
<1>1. /\ f \in Frames /\ f.kind \in Kinds(r) \cup {"none"} /\ Accounts(f) /\ TakesTurns(f)
      /\ Sends(r, f) /\ f.pc = "choose"
  BY DEF RouterInv, FrameInv
<1>2. Retries \in Nat /\ 0 \in 0..Retries /\ 0 * (Retries + 1) = 0
  BY RouterAssumption
<1>3. /\ f.todo \subseteq Models /\ f.asked \in Seq(Models) /\ f.skipped \subseteq Models
      /\ m \in Models /\ m \in f.todo /\ rest \subseteq Models
  BY <1>1 DEF Frames
<1>4. p \in Providers
  BY <1>3 DEF Providers
<1>5. /\ Append(f.asked, m) \in Seq(Models)
      /\ ToSet(Append(f.asked, m)) = ToSet(f.asked) \cup {m}
      /\ m \notin ToSet(f.asked) => IsInjective(Append(f.asked, m))
  BY <1>1, <1>3, Appended DEF TakesTurns
<1>6. m \notin ToSet(f.asked) /\ m \notin ToSet(f.got)
  BY <1>1, <1>3 DEF TakesTurns
<1>7. breaker' = [breaker EXCEPT ![p] = Peek(breaker[p])]
  BY DEF TurnOf
<1>8. /\ breaker' \in [Providers -> Breakers]
      /\ \A q \in Providers : Counts(breaker'[q])
  <2> HIDE DEF p
  <2> QED
    BY <1>4, <1>7, BreakersHear
<1>9. req' = [req EXCEPT ![r] = passed] \/ req' = [req EXCEPT ![r] = turn]
  <2> DEFINE h == [f EXCEPT !.todo = rest]
  <2>1. \/ req' = [req EXCEPT ![r] = [h EXCEPT !.skipped = @ \cup {m}]]
        \/ req' = [req EXCEPT ![r] =
             [h EXCEPT !.asked = Append(@, m), !.at = m, !.pc = "asking", !.try = 0,
                       !.round = 0, !.sent = 1, !.yielded = FALSE]]
    BY DEF TurnOf
  <2>2. [h EXCEPT !.skipped = @ \cup {m}] = passed
    BY <1>1 DEF Frames
  <2>3. [h EXCEPT !.asked = Append(@, m), !.at = m, !.pc = "asking", !.try = 0,
                  !.round = 0, !.sent = 1, !.yielded = FALSE] = turn
    BY <1>1 DEF Frames
  <2> HIDE DEF h, passed, turn
  <2> QED
    BY <2>1, <2>2, <2>3
<1> HIDE DEF p, rest
<1>r. rest = f.todo \ {m}
  BY DEF rest
<1>10. FrameInv(r, passed)
  <2>1. /\ passed \in Frames /\ passed.pc = "choose" /\ passed.kind = f.kind
        /\ passed.primary = f.primary /\ passed.todo = rest /\ passed.asked = f.asked
        /\ passed.skipped = f.skipped \cup {m} /\ passed.got = f.got
        /\ passed.sent = f.sent /\ passed.round = f.round /\ passed.try = f.try
    BY <1>1, <1>3 DEF Frames
  <2> HIDE DEF passed
  <2>2. Accounts(passed)
    BY <1>1, <1>3, <1>r, <2>1 DEF Accounts
  <2>3. TakesTurns(passed)
    BY <1>1, <1>3, <1>r, <2>1 DEF TakesTurns
  <2>4. Sends(r, passed)
    BY <1>1, <2>1 DEF Sends
  <2> QED
    BY <1>1, <2>1, <2>2, <2>3, <2>4 DEF FrameInv
<1>11. FrameInv(r, turn)
  <2>1. /\ turn \in Frames /\ turn.pc = "asking" /\ turn.kind = f.kind
        /\ turn.primary = f.primary /\ turn.todo = rest /\ turn.asked = Append(f.asked, m)
        /\ turn.skipped = f.skipped /\ turn.got = f.got /\ turn.at = m
        /\ turn.sent = 1 /\ turn.round = 0 /\ turn.try = 0
    BY <1>1, <1>2, <1>3, <1>5 DEF Frames
  <2> HIDE DEF turn
  <2>2. Accounts(turn)
    BY <1>1, <1>3, <1>5, <1>r, <2>1 DEF Accounts
  <2>3. TakesTurns(turn)
    BY <1>1, <1>3, <1>5, <1>6, <1>r, <2>1 DEF TakesTurns
  <2>4. Sends(r, turn)
    BY <1>2, <2>1 DEF Sends
  <2> QED
    BY <1>1, <2>1, <2>2, <2>3, <2>4 DEF FrameInv
<1> QED
  BY <1>8, <1>9, <1>10, <1>11, OneGoesOn

\* The loop goes on to the next model, or finds none.
LEMMA ChooseKeeps ==
  ASSUME RouterInv, NEW r \in Requests, Choose(r)
  PROVE  RouterInv'
<1> DEFINE f == req[r]
<1>1. /\ f \in Frames /\ f.kind \in Kinds(r) \cup {"none"} /\ Accounts(f) /\ TakesTurns(f)
      /\ Sends(r, f) /\ f.pc = "choose"
  BY DEF RouterInv, FrameInv, Choose
<1>2. CASE \E m \in UpNext(f) : TurnOf(r, m)
  BY <1>1, <1>2, UpNextIsToDo, TurnKeeps
<1>3. CASE f.todo = {} /\ req' = [req EXCEPT ![r].pc = "failed"] /\ UNCHANGED breaker
  <2> DEFINE g == [f EXCEPT !.pc = "failed"]
  <2>1. FrameInv(r, g)
    <3>1. g \in Frames
      BY <1>1 DEF Frames, Ended
    <3> QED
      BY <1>1, <1>3, <3>1 DEF FrameInv, Accounts, TakesTurns, Sends, Frames
  <2>2. req' = [req EXCEPT ![r] = g] /\ breaker' = breaker
    BY <1>3
  <2>3. breaker' \in [Providers -> Breakers] /\ \A p \in Providers : Counts(breaker'[p])
    BY <2>2 DEF RouterInv
  <2> QED
    BY <2>1, <2>2, <2>3, OneGoesOn
<1> QED
  BY <1>2, <1>3 DEF Choose

\* The error leaves the provider.
LEMMA GiveUpKeeps ==
  ASSUME RouterInv, NEW r \in Requests, req[r].pc \in {"asking", "reading"}, GiveUp(r)
  PROVE  RouterInv'
<1> DEFINE f == req[r]
           p == Owner(f.at)
<1>1. FrameInv(r, f) /\ f \in Frames /\ f.at \in ToSet(f.asked)
  BY DEF RouterInv, FrameInv, TakesTurns
<1>2. p \in Providers
  BY <1>1 DEF Frames, ToSet, Providers
<1>3. FrameInv(r, Turned(r))
  BY <1>1, TurnedKept
<1>4. breaker' = [breaker EXCEPT ![p] = RecordFailure(breaker[p])]
  BY DEF GiveUp
<1> HIDE DEF p
<1>5. breaker' \in [Providers -> Breakers] /\ \A q \in Providers : Counts(breaker'[q])
  BY <1>2, <1>4, BreakersHear
<1>6. req' = [req EXCEPT ![r] = Turned(r)]
  BY DEF GiveUp
<1> QED
  BY <1>3, <1>5, <1>6, OneGoesOn

\* A round more is (Retries + 1) more that may be sent.
LEMMA RoundsAdd ==
  ASSUME NEW round \in Nat, NEW retries \in Nat
  PROVE  /\ (round + 1) * (retries + 1) = round * (retries + 1) + retries + 1
         /\ round * (retries + 1) \in Nat
OBVIOUS

LEMMA StartOverKeeps ==
  ASSUME RouterInv, NEW r \in Requests, req[r].pc \in {"asking", "reading"},
         NEW retryable \in BOOLEAN, StartOver(r, retryable)
  PROVE  RouterInv'
<1> DEFINE f == req[r]
           again == r \in Streams /\ ~f.yielded /\ retryable /\ f.round < Retries
           g == [f EXCEPT !.pc = "asking", !.round = @ + 1, !.try = 0, !.sent = @ + 1]
<1>1. CASE ~again
  BY <1>1, GiveUpKeeps DEF StartOver
<1>2. CASE again
  <2>1. FrameInv(r, f) /\ f \in Frames
    BY DEF RouterInv
  <2>2. Retries \in Nat /\ f.round \in 0..Retries /\ f.try \in 0..Retries /\ f.sent \in Nat
    BY <2>1, RouterAssumption DEF Frames
  <2>3. f.round + 1 \in 0..Retries /\ 0 \in 0..Retries /\ f.sent + 1 \in Nat
    BY <2>2, <1>2
  <2>4. /\ g \in Frames /\ g.pc = "asking" /\ g.kind = f.kind /\ g.primary = f.primary
        /\ g.todo = f.todo /\ g.asked = f.asked /\ g.skipped = f.skipped /\ g.got = f.got
        /\ g.at = f.at /\ g.yielded = f.yielded
        /\ g.sent = f.sent + 1 /\ g.round = f.round + 1 /\ g.try = 0
    BY <2>1, <2>3 DEF Frames
  <2>5. req' = [req EXCEPT ![r] = g] /\ breaker' = breaker
    BY <1>2, <2>1 DEF StartOver, RouterInv, Frames
  <2> HIDE DEF g
  <2>6. Accounts(g)
    BY <2>1, <2>4 DEF Accounts, FrameInv
  <2>7. TakesTurns(g)
    BY <2>1, <2>4 DEF TakesTurns, FrameInv
  <2>8. Sends(r, g)
    <3>1. f.sent <= f.round * (Retries + 1) + f.try + 1
      BY <2>1 DEF FrameInv, Sends
    <3>2. f.round \in Nat
      BY <2>2
    <3> DEFINE x == f.round * (Retries + 1)
    <3>3. (f.round + 1) * (Retries + 1) = x + Retries + 1 /\ x \in Nat
      BY <2>2, <3>2, RoundsAdd
    <3>4. f.sent <= x + f.try + 1
      BY <3>1
    <3> HIDE DEF x
    <3>5. f.sent + 1 <= x + Retries + 1 + 0 + 1
      BY <2>2, <3>3, <3>4
    <3>6. r \in Streams
      BY <1>2
    <3> QED
      BY <2>4, <3>3, <3>5, <3>6 DEF Sends
  <2>9. FrameInv(r, g)
    BY <2>1, <2>4, <2>6, <2>7, <2>8 DEF FrameInv
  <2>10. breaker' \in [Providers -> Breakers] /\ \A p \in Providers : Counts(breaker'[p])
    BY <2>5 DEF RouterInv
  <2> QED
    BY <2>5, <2>9, <2>10, OneGoesOn
<1> QED
  BY <1>1, <1>2

\* Every step of the router keeps the invariant.
LEMMA RouterInvStep == RouterInv /\ [RouterNext]_routerVars => RouterInv'
<1> SUFFICES ASSUME RouterInv, [RouterNext]_routerVars
             PROVE  RouterInv'
  OBVIOUS
<1>u. breaker' = breaker =>
        breaker' \in [Providers -> Breakers] /\ \A p \in Providers : Counts(breaker'[p])
  BY DEF RouterInv
<1>f. ASSUME NEW r \in Requests
      PROVE  /\ FrameInv(r, req[r]) /\ req[r] \in Frames
             /\ req = [req EXCEPT ![r] = req[r]] /\ req \in [Requests -> Frames]
  BY DEF RouterInv
<1>1. ASSUME NEW p \in Providers, CoolDown(p)
      PROVE  RouterInv'
  <2>1. breaker[p] \in Breakers /\ Counts(breaker[p]) /\ IsOpen(breaker[p])
    BY <1>1 DEF RouterInv, CoolDown
  <2> DEFINE b == [breaker[p] EXCEPT !.due = TRUE]
  <2>2. b \in Breakers /\ Counts(b)
    BY <2>1, BreakersKeepCount
  <2>3. breaker' = [breaker EXCEPT ![p] = b] /\ req' = req
    BY <1>1, <2>1 DEF CoolDown, RouterInv
  <2> QED
    BY <2>2, <2>3 DEF RouterInv
<1>2. ASSUME NEW r \in Requests, ArriveBound(r)
      PROVE  RouterInv'
  <2>1. PICK kind \in Kinds(r), m \in Models : req' = [req EXCEPT ![r] = Begun(kind, m)]
    BY <1>2 DEF ArriveBound
  <2> QED
    BY <2>1, <1>2, <1>u, BegunKept, OneGoesOn DEF ArriveBound
<1>3. ASSUME NEW r \in Requests, ArriveRouted(r)
      PROVE  RouterInv'
  <2>1. breaker' \in [Providers -> Breakers] /\ \A p \in Providers : Counts(breaker'[p])
    <3>1. \A p \in Providers : Peek(breaker[p]) \in Breakers /\ Counts(Peek(breaker[p]))
      BY BreakersKeepCount DEF RouterInv
    <3> QED
      BY <1>3, <3>1 DEF ArriveRouted
  <2> DEFINE none == [NoRequest EXCEPT !.pc = "failed", !.skipped = Models]
  <2>2. CASE req' = [req EXCEPT ![r] = none]
    <3>1. FrameInv(r, NoRequest)
      BY NoRequestKept
    <3>2. none \in Frames /\ none.kind \in Kinds(r) \cup {"none"} /\ Sends(r, none)
      BY <3>1 DEF FrameInv, Frames, Ended, Sends, NoRequest
    <3>3. Accounts(none) /\ TakesTurns(none)
      BY EmptySequence DEF Accounts, TakesTurns, NoRequest, Candidates
    <3> QED
      BY <2>1, <2>2, <3>2, <3>3, OneGoesOn DEF FrameInv
  <2>3. CASE \E kind \in Kinds(r) \ {"direct"}, m \in Models :
                req' = [req EXCEPT ![r] = Begun(kind, m)]
    BY <2>1, <2>3, BegunKept, OneGoesOn
  <2> QED
    BY <1>3, <2>2, <2>3 DEF ArriveRouted
<1>4. ASSUME NEW r \in Requests, Transient(r)
      PROVE  RouterInv'
  <2> DEFINE f == req[r]
             g == [f EXCEPT !.try = @ + 1, !.sent = @ + 1]
  <2>1. CASE f.try < Retries
    <3>1. Retries \in Nat /\ f.try + 1 \in 0..Retries /\ f.sent + 1 \in Nat
          /\ f.round * (Retries + 1) \in Nat /\ f.try \in Nat /\ f.sent \in Nat
      BY <1>f, <2>1, RouterAssumption, RoundsAdd, SMTT(30) DEF Frames
    <3>2. /\ g \in Frames /\ g.pc = f.pc /\ g.kind = f.kind /\ g.primary = f.primary
          /\ g.todo = f.todo /\ g.asked = f.asked /\ g.skipped = f.skipped /\ g.got = f.got
          /\ g.at = f.at /\ g.yielded = f.yielded
          /\ g.sent = f.sent + 1 /\ g.round = f.round /\ g.try = f.try + 1
      BY <1>f, <3>1 DEF Frames
    <3>3. req' = [req EXCEPT ![r] = g] /\ breaker' = breaker
      BY <1>4, <2>1, <1>f DEF Transient, Frames
    <3> HIDE DEF g
    <3>a. Accounts(f) /\ TakesTurns(f)
      BY <1>f DEF FrameInv
    <3>b. Accounts(g)
      BY <3>2, <3>a DEF Accounts
    <3>c. TakesTurns(g)
      BY <3>2, <3>a DEF TakesTurns
    <3>4. Accounts(g) /\ TakesTurns(g)
      BY <3>b, <3>c
    <3>5. Sends(r, g)
      <4> DEFINE x == f.round * (Retries + 1)
      <4>1. f.sent <= x + f.try + 1 /\ (r \notin Streams => f.round = 0)
        BY <1>f DEF FrameInv, Sends
      <4>2. x \in Nat
        BY <3>1
      <4> HIDE DEF x
      <4>3. f.sent + 1 <= x + (f.try + 1) + 1
        BY <3>1, <4>1, <4>2
      <4> QED
        BY <3>2, <4>1, <4>3 DEF Sends, x
    <3> QED
      BY <1>f, <1>u, <3>2, <3>3, <3>4, <3>5, OneGoesOn DEF FrameInv
  <2>2. CASE ~(f.try < Retries)
    BY <1>4, <2>2, StartOverKeeps DEF Transient
  <2> QED
    BY <2>1, <2>2
<1>5. ASSUME NEW r \in Requests, Refused(r) \/ BodyBreaks(r)
      PROVE  RouterInv'
  BY <1>5, StartOverKeeps DEF Refused, BodyBreaks
<1>6. ASSUME NEW r \in Requests, Headers(r)
      PROVE  RouterInv'
  <2> DEFINE f == req[r]
             g == [f EXCEPT !.pc = "reading"]
  <2>1. f.pc = "asking" /\ req' = [req EXCEPT ![r] = g] /\ breaker' = breaker
    BY <1>6 DEF Headers
  <2>2. /\ g \in Frames /\ g.pc = "reading" /\ g.kind = f.kind /\ g.primary = f.primary
        /\ g.todo = f.todo /\ g.asked = f.asked /\ g.skipped = f.skipped /\ g.got = f.got
        /\ g.at = f.at /\ g.yielded = f.yielded
        /\ g.sent = f.sent /\ g.round = f.round /\ g.try = f.try
    <3>1. f \in Frames
      BY <1>f
    <3> HIDE DEF f
    <3> QED
      BY <3>1 DEF Frames
  <2> HIDE DEF g
  <2>3. FrameInv(r, g)
    <3>1. FrameInv(r, f) /\ f.pc = "asking"
      BY <1>f, <2>1
    <3> HIDE DEF f
    <3>2. Accounts(g)
      BY <2>2, <3>1 DEF FrameInv, Accounts
    <3>3. TakesTurns(g)
      BY <2>2, <3>1 DEF FrameInv, TakesTurns
    <3>4. Sends(r, g)
      BY <2>2, <3>1 DEF FrameInv, Sends
    <3> QED
      BY <2>2, <3>1, <3>2, <3>3, <3>4 DEF FrameInv
  <2> QED
    BY <1>u, <2>1, <2>3, OneGoesOn
<1>7. ASSUME NEW r \in Requests, Chunk(r)
      PROVE  RouterInv'
  <2> DEFINE f == req[r]
             g == [f EXCEPT !.yielded = TRUE, !.got = Append(f.got, f.at)]
  <2>1. /\ f.pc = "reading" /\ ~f.yielded
        /\ req' = [req EXCEPT ![r] = g] /\ breaker' = breaker
    BY <1>7, <1>f DEF Chunk, Frames
  <2>2. /\ f.got \in Seq(Models) /\ f.at \in Models
        /\ f.at \in ToSet(f.asked) /\ f.at \notin ToSet(f.got)
    BY <1>f, <2>1 DEF FrameInv, Frames, TakesTurns, ToSet
  <2>3. /\ Append(f.got, f.at) \in Seq(Models)
        /\ ToSet(Append(f.got, f.at)) = ToSet(f.got) \cup {f.at}
        /\ IsInjective(f.got) => IsInjective(Append(f.got, f.at))
    BY <2>2, Appended
  <2>4. /\ g \in Frames /\ g.pc = f.pc /\ g.kind = f.kind /\ g.primary = f.primary
        /\ g.todo = f.todo /\ g.asked = f.asked /\ g.skipped = f.skipped
        /\ g.got = Append(f.got, f.at) /\ g.at = f.at /\ g.yielded
        /\ g.sent = f.sent /\ g.round = f.round /\ g.try = f.try
    BY <1>f, <2>3 DEF Frames
  <2> HIDE DEF g
  <2>5. Accounts(f) /\ TakesTurns(f) /\ Sends(r, f) /\ f.kind \in Kinds(r) \cup {"none"}
    BY <1>f DEF FrameInv
  <2> HIDE DEF f
  <2>6. Accounts(g)
    BY <2>4, <2>5 DEF Accounts
  <2>7. TakesTurns(g)
    BY <2>2, <2>3, <2>4, <2>5 DEF TakesTurns
  <2>8. Sends(r, g)
    BY <2>4, <2>5 DEF Sends
  <2>9. FrameInv(r, g)
    BY <2>4, <2>5, <2>6, <2>7, <2>8 DEF FrameInv
  <2> QED
    BY <1>u, <2>1, <2>9, OneGoesOn
<1>8. ASSUME NEW r \in Requests, Answered(r)
      PROVE  RouterInv'
  <2> DEFINE f == req[r]
             p == Owner(f.at)
             b == IF r \in Streams \/ f.kind = "direct" THEN Nobody ELSE f.primary
             served == [NoRequest EXCEPT !.pc = "served", !.at = f.at, !.booked = b]
  <2>1. /\ f.pc = "reading" /\ f \in Frames /\ FrameInv(r, f)
        /\ f.at \in Models /\ b \in Models \cup {Nobody}
    <3>1. f.pc = "reading" /\ f \in Frames /\ FrameInv(r, f)
      BY <1>8, <1>f DEF Answered
    <3>2. f.asked \in Seq(Models) /\ f.at \in ToSet(f.asked)
      BY <3>1 DEF FrameInv, TakesTurns, Frames
    <3>3. f.at \in Models
      BY <3>2 DEF ToSet
    <3> QED
      BY <3>1, <3>3 DEF Frames
  <2>2. p \in Providers /\ breaker' = [breaker EXCEPT ![p] = RecordSuccess(breaker[p])]
    BY <1>8, <2>1 DEF Answered, Providers
  <2>3. breaker' \in [Providers -> Breakers] /\ \A q \in Providers : Counts(breaker'[q])
    <3> HIDE DEF p
    <3> QED
      BY <2>2, BreakersHear
  <2>4. FrameInv(r, served) /\ FrameInv(r, Turned(r))
    <3>1. f.at \in Models \cup {Nobody}
      BY <2>1
    <3> HIDE DEF b
    <3> QED
      BY <2>1, <3>1, TurnedKept, OverKept
  <2>5. req' = [req EXCEPT ![r] = served] \/ req' = [req EXCEPT ![r] = Turned(r)]
    BY <1>8 DEF Answered
  <2> QED
    BY <2>3, <2>4, <2>5, OneGoesOn
<1>9. ASSUME NEW r \in Requests, Leave(r)
      PROVE  RouterInv'
  <2> DEFINE g == [NoRequest EXCEPT !.pc = "left"]
  <2>1. FrameInv(r, g)
    <3>1. NoRequest.at = Nobody /\ NoRequest.booked = Nobody
      BY DEF NoRequest
    <3>2. g = [NoRequest EXCEPT !.pc = "left", !.at = Nobody, !.booked = Nobody]
      BY <3>1 DEF NoRequest
    <3>3. FrameInv(r, [NoRequest EXCEPT !.pc = "left", !.at = Nobody, !.booked = Nobody])
      BY OverKept
    <3> QED
      BY <3>2, <3>3
  <2>2. req' = [req EXCEPT ![r] = g] /\ breaker' = breaker
    BY <1>9 DEF Leave
  <2> QED
    BY <1>u, <2>1, <2>2, OneGoesOn
<1>r. ASSUME NEW r \in Requests, HandlerReturned(r)
      PROVE  RouterInv'
  BY <1>r, <1>u, NoRequestKept, OneGoesOn DEF HandlerReturned
<1>10. CASE UNCHANGED routerVars
  BY <1>10 DEF routerVars, RouterInv
<1> QED
  BY <1>1, <1>2, <1>3, <1>4, <1>5, <1>6, <1>7, <1>8, <1>9, <1>10, <1>r, ChooseKeeps
  DEF RouterNext

LEMMA RouterInvHolds == RouterSpec => []RouterInv
BY RouterInvInit, RouterInvStep, PTL DEF RouterSpec

---------------------------------------------------------------------------
(* What follows from it                                                    *)

\* Breakers, counters and lists keep their types, whatever the providers
\* answer and in whichever order requests go on (dispatch.ts, providers.ts).
THEOREM RouterTypesHold == RouterSpec => []RouterTypeOK
<1>1. RouterInv => RouterTypeOK
  BY DEF RouterInv, FrameInv, Frames, Breakers, RouterTypeOK
<1> QED
  BY <1>1, RouterInvHolds, PTL

\* However many requests end in whatever order, late failures of an open
\* breaker and late successes that close it among them, a breaker is closed
\* exactly while it counts fewer failures than the threshold, and only an open
\* one waits (CircuitBreaker, for any BREAKER_THRESHOLD).
THEOREM BreakersCount == RouterSpec => []BreakerCounts
<1>1. RouterInv => BreakerCounts
  BY DEF RouterInv, Counts, BreakerCounts
<1> QED
  BY <1>1, RouterInvHolds, PTL

\* With any number of providers and models a request fails only when each of
\* those it may go over has been asked, had an open breaker at its turn, or has
\* answered a cascade with too little confidence (Dispatcher.dispatch,
\* dispatchStream, cascade).
THEOREM RequestsFailLast == RouterSpec => []FailsLast
<1>1. RouterInv => FailsLast
  <2> SUFFICES ASSUME RouterInv, NEW r \in Requests, req[r].pc = "failed"
               PROVE  ToSet(req[r].asked) \cup req[r].skipped
                        = Candidates(req[r].kind, req[r].primary)
    BY DEF FailsLast
  <2>1. Accounts(req[r])
    BY DEF RouterInv, FrameInv
  <2> QED
    BY <2>1 DEF Accounts
<1> QED
  BY <1>1, RouterInvHolds, PTL

\* However many models the providers own, no model has two turns in a request,
\* and the provider of the model that was selected and failed gets no second
\* turn by way of the fallbacks (Dispatcher.dispatch and dispatchStream, the
\* filter of fallbackModels); a cascade comes back to a provider.
THEOREM TurnsAreTakenOnce == RouterSpec => []OneTurnEach
<1>1. RouterInv => OneTurnEach
  <2> SUFFICES ASSUME RouterInv, NEW r \in Requests
               PROVE  /\ IsInjective(req[r].asked)
                      /\ req[r].kind = "auto" =>
                           \A m \in ToSet(req[r].asked) :
                              Owner(m) = Owner(req[r].primary) => m = req[r].primary
    BY DEF OneTurnEach
  <2>1. TakesTurns(req[r])
    BY DEF RouterInv, FrameInv
  <2> QED
    BY <2>1 DEF TakesTurns, Candidates, Fallbacks
<1> QED
  BY <1>1, RouterInvHolds, PTL

\* No model's chunks reach a client twice: a stream that has yielded does
\* not start over (Provider.stream).
THEOREM NoProviderReplays == RouterSpec => []NoSelfReplay
<1>1. RouterInv => NoSelfReplay
  BY DEF RouterInv, FrameInv, TakesTurns, NoSelfReplay
<1> QED
  BY <1>1, RouterInvHolds, PTL

\* Whatever max_retries is, one turn of a model sends it no more than the
\* square of its budget, and a completion no more than the budget itself
\* (Provider.stream around fetchWithRetry).
THEOREM BudgetIsSquared == RouterSpec => []Budget
<1>1. RouterInv => Budget
  <2> SUFFICES ASSUME RouterInv, NEW r \in Requests
               PROVE  req[r].sent <= (Retries + 1) * (IF r \in Streams THEN Retries + 1 ELSE 1)
    BY DEF Budget
  <2> DEFINE round == req[r].round
             x == round * (Retries + 1)
  <2>1. /\ Retries \in Nat /\ round \in 0..Retries /\ req[r].try \in 0..Retries
        /\ req[r].sent \in Nat /\ req[r].sent <= x + req[r].try + 1
        /\ r \notin Streams => round = 0
    BY RouterAssumption DEF RouterInv, FrameInv, Frames, Sends
  <2>2. x <= Retries * (Retries + 1) /\ x \in Nat
    <3> HIDE DEF round
    <3> QED
      BY <2>1
  <2>3. (Retries + 1) * (Retries + 1) = Retries * (Retries + 1) + Retries + 1
    BY <2>1, RoundsAdd
  <2>4. round = 0 => x = 0
    BY <2>1
  <2> DEFINE y == Retries * (Retries + 1)
             z == (Retries + 1) * (Retries + 1)
  <2>5. y \in Nat /\ z \in Nat /\ x <= y /\ z = y + Retries + 1 /\ (Retries + 1) * 1 = Retries + 1
    BY <2>1, <2>2, <2>3
  <2>6. CASE r \in Streams
    <3>1. req[r].sent <= z
      <4> HIDE DEF x, y, z
      <4> QED
        BY <2>1, <2>2, <2>5
    <3> QED
      BY <2>6, <3>1
  <2>7. CASE r \notin Streams
    <3>1. req[r].sent <= Retries + 1
      <4>1. x = 0
        BY <2>1, <2>4, <2>7
      <4> HIDE DEF x
      <4> QED
        BY <2>1, <4>1
    <3> QED
      BY <2>7, <3>1, <2>5
  <2> QED
    BY <2>6, <2>7
<1> QED
  BY <1>1, RouterInvHolds, PTL

-----------------------------------------------------------------------------
(* The parts beside a session together (MCServices)                          *)

\* Each of the parts does what it alone would do: a step of one leaves the
\* others where they rest.
THEOREM EachPartIsItself ==
  PartsSpec => Spec /\ RuntimeSpec /\ RouterSpec /\ ComputeSpec
<1>1. PartsInit => Init /\ RuntimeInit /\ RouterInit /\ ComputeInit
  BY DEF PartsInit
<1>2. BusStep => Next /\ UNCHANGED <<runtimeVars, routerVars, computeVars>>
  BY DEF BusStep, Next, Bus0
<1>3. AgentStep => RuntimeNext /\ UNCHANGED <<vars, routerVars, computeVars>>
  BY DEF AgentStep, RuntimeNext, Loop, Query, Agent0, bus
<1>4. RouterStep => RouterNext /\ UNCHANGED <<vars, runtimeVars, computeVars>>
  BY DEF RouterStep, RouterNext, Router0, bus
<1>5. ComputesStep => ComputeNext /\ UNCHANGED <<vars, runtimeVars, routerVars>>
  BY DEF ComputesStep, ComputeNext, Computes0, bus
<1>6. UNCHANGED all => UNCHANGED <<vars, runtimeVars, routerVars, computeVars>>
  BY DEF all, bus
<1>7. [PartsNext]_all => /\ [Next]_vars /\ [RuntimeNext]_runtimeVars
                         /\ [RouterNext]_routerVars /\ [ComputeNext]_computeVars
  BY <1>2, <1>3, <1>4, <1>5, <1>6 DEF PartsNext
<1> QED
  BY <1>1, <1>7, PTL DEF PartsSpec, Spec, RuntimeSpec, RouterSpec, ComputeSpec

\* The variables of every part have their types, whichever is active.
THEOREM PartsHaveTheirTypes == PartsSpec => []TypesOK
<1>1. TypeOK /\ RuntimeTypeOK /\ RouterTypeOK /\ ComputeTypeOK => TypesOK
  BY DEF TypesOK
<1> QED
  BY <1>1, EachPartIsItself, BusTypeCorrect, RuntimeTypesHold, RouterTypesHold,
     ComputeTypesHold, PTL
=============================================================================
