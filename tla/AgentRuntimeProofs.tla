------------------------- MODULE AgentRuntimeProofs --------------------------
(***************************************************************************)
(* What the process of a claude-agent guarantees for any number of steers, *)
(* of failing queries, of compactions and of interrupts it allows.         *)
(***************************************************************************)
EXTENDS AgentRuntime, SequenceTheorems, TLAPS

---------------------------------------------------------------------------
(* The invariant                                                           *)

\* What is kept back came during this query, what is pending before it; and
\* whatever was fed to a query came before that query began.
Steered ==
    /\ \A i \in DOMAIN kept : seen.came[kept[i]] = run.attempt
    /\ \A i \in DOMAIN queue.pending : queue.pending[i] \in Steers =>
          /\ seen.came[queue.pending[i]] # 0
          /\ seen.came[queue.pending[i]] < run.attempt
    /\ \A n \in Steers :
          /\ seen.came[n] <= run.attempt
          /\ seen.given[n] # 0 => seen.came[n] # 0 /\ seen.given[n] > seen.came[n]

\* The flag of an interrupt lasts as long as the query it was meant for.
Flagged ==
    /\ sdk.told \/ sdk.out = "aborted" => run.fired
    /\ run.fired => \E n \in Steers : seen.came[n] = run.attempt

\* A query succeeds only behind complete_stage and with nothing pending.
Stops ==
    /\ sdk.at = "stop" => run.done /\ queue.pending = << >>
    /\ sdk.out = "success" => sdk.at = "stop"
    /\ run.at = "post" => run.res = sdk.out /\ sdk.out # "none"

RuntimeInv ==
    /\ RuntimeTypeOK /\ Steered /\ Flagged /\ Stops
    /\ ZeroMeansDone /\ NoFalseFailure /\ EndIsTheEnd

---------------------------------------------------------------------------
(* Records and sequences                                                   *)

Runs == [at : {"stream", "post", "exited"}, attempt : Nat \ {0},
         res : {"none", "success", "limit", "aborted", "execution", "thrown", "ended"},
         code : {0, 1, 137}, fired : BOOLEAN, window : BOOLEAN,
         done : BOOLEAN, aborted : BOOLEAN, resume : BOOLEAN]
Queries == [at : {"idle", "turn", "stop"}, told : BOOLEAN, unread : Seq(Messages),
            out : {"none", "success", "limit", "aborted", "execution", "thrown", "ended"}]
Histories == [came : [Steers -> Nat], given : [Steers -> Nat],
              answered : SUBSET Steers, ended : Nat, killed : BOOLEAN]

LEMMA Typed ==
    ASSUME RuntimeTypeOK
    PROVE  /\ run \in Runs /\ sdk \in Queries /\ seen \in Histories
           /\ queue.pending \in Seq(Messages) /\ kept \in Seq(Steers)
BY DEF RuntimeTypeOK, Runs, Queries, Histories

LEMMA TaskIsNoSteer == Task \notin Steers /\ Task \in Messages /\ Steers \subseteq Messages
BY RuntimeAssumption DEF Task, Steers, Messages

LEMMA HeadTail ==
    ASSUME NEW S, NEW s \in Seq(S), s # << >>
    PROVE  /\ Head(s) \in S /\ Tail(s) \in Seq(S)
           /\ 1 \in DOMAIN s /\ Head(s) = s[1]
           /\ \A i \in DOMAIN Tail(s) : i + 1 \in DOMAIN s /\ Tail(s)[i] = s[i + 1]
OBVIOUS

LEMMA Added ==
    ASSUME NEW S, NEW s \in Seq(S), NEW e \in S
    PROVE  /\ Append(s, e) \in Seq(S)
           /\ \A i \in DOMAIN Append(s, e) :
                 (i \in DOMAIN s /\ Append(s, e)[i] = s[i]) \/ Append(s, e)[i] = e
OBVIOUS

LEMMA Joined ==
    ASSUME NEW S, NEW s \in Seq(S), NEW t \in Seq(S)
    PROVE  /\ s \o t \in Seq(S)
           /\ \A i \in DOMAIN (s \o t) :
                 \/ i \in DOMAIN s /\ (s \o t)[i] = s[i]
                 \/ i - Len(s) \in DOMAIN t /\ (s \o t)[i] = t[i - Len(s)]
OBVIOUS

---------------------------------------------------------------------------
LEMMA RuntimeInvInit == RuntimeInit => RuntimeInv
<1> SUFFICES ASSUME RuntimeInit
             PROVE  RuntimeInv
  OBVIOUS
<1>1. RuntimeTypeOK
  BY RuntimeAssumption, TaskIsNoSteer DEF RuntimeInit, RuntimeTypeOK, Fresh
<1>2. Steered
  BY TaskIsNoSteer DEF RuntimeInit, Steered
<1> QED
  BY <1>1, <1>2 DEF RuntimeInit, RuntimeInv, Flagged, Stops, Fresh,
                    ZeroMeansDone, NoFalseFailure, EndIsTheEnd

---------------------------------------------------------------------------
(* The next query, and the exit                                            *)

\* The next query begins with what was kept back; the conductor was told of
\* the end of the last one only if a steer had interrupted it.
LEMMA NextQueryKeeps ==
    ASSUME RuntimeInv, Running, NextQuery, UNCHANGED <<read, bound>>,
           \/ seen' = seen
           \/ run.fired /\ seen' = [seen EXCEPT !.ended = run.attempt]
    PROVE  RuntimeInv'
<1>1. /\ run \in Runs /\ sdk \in Queries /\ seen \in Histories
      /\ queue.pending \in Seq(Messages) /\ kept \in Seq(Steers)
  BY Typed DEF RuntimeInv
<1>2. /\ run' = [run EXCEPT !.at = "stream", !.attempt = @ + 1, !.res = "none",
                            !.fired = FALSE, !.aborted = FALSE]
      /\ run' \in Runs /\ run'.at = "stream" /\ run'.attempt = run.attempt + 1
      /\ run'.res = "none" /\ run'.fired = FALSE /\ run'.done = run.done
      /\ run.attempt \in Nat \ {0}
  <2>1. run.attempt \in Nat \ {0} /\ run.attempt + 1 \in Nat \ {0}
    BY <1>1 DEF Runs
  <2> QED
    BY <1>1, <2>1 DEF NextQuery, Runs
<1>3. /\ kept' = << >> /\ sdk' = Fresh /\ sdk' \in Queries
      /\ queue' = [pending |-> queue.pending \o kept, waiting |-> << >>]
  BY DEF NextQuery, Fresh, Queries
<1>4. /\ seen' \in Histories /\ seen'.came = seen.came /\ seen'.given = seen.given
      /\ seen'.ended = seen.ended \/ (run.fired /\ seen'.ended = run.attempt)
  BY <1>1, <1>2 DEF Histories
<1>5. /\ queue'.pending \in Seq(Messages)
      /\ \A i \in DOMAIN queue'.pending :
            \/ i \in DOMAIN queue.pending /\ queue'.pending[i] = queue.pending[i]
            \/ i - Len(queue.pending) \in DOMAIN kept
                  /\ queue'.pending[i] = kept[i - Len(queue.pending)]
  <2>1. kept \in Seq(Messages)
    BY <1>1, TaskIsNoSteer, SeqMonotonic
  <2> QED
    BY <1>1, <1>3, <2>1, Joined
<1>6. RuntimeTypeOK'
  BY <1>1, <1>2, <1>3, <1>4, <1>5 DEF RuntimeTypeOK, RuntimeInv, Runs, Queries, Histories
<1>7. Steered'
  <2>1. \A i \in DOMAIN kept : kept[i] \in Steers /\ seen.came[kept[i]] = run.attempt
    BY <1>1 DEF RuntimeInv, Steered
  <2>2. ASSUME NEW i \in DOMAIN queue'.pending, queue'.pending[i] \in Steers
        PROVE  /\ seen'.came[queue'.pending[i]] # 0
               /\ seen'.came[queue'.pending[i]] < run'.attempt
    <3>1. CASE i \in DOMAIN queue.pending /\ queue'.pending[i] = queue.pending[i]
      <4>1. /\ seen.came[queue.pending[i]] # 0
            /\ seen.came[queue.pending[i]] < run.attempt
            /\ seen.came[queue.pending[i]] \in Nat
        BY <1>1, <2>2, <3>1 DEF RuntimeInv, Steered, Histories
      <4> QED
        BY <1>2, <1>4, <3>1, <4>1
    <3>2. CASE i - Len(queue.pending) \in DOMAIN kept
                 /\ queue'.pending[i] = kept[i - Len(queue.pending)]
      BY <1>2, <1>4, <2>1, <3>2
    <3> QED
      BY <1>5, <3>1, <3>2
  <2>3. ASSUME NEW n \in Steers
        PROVE  /\ seen'.came[n] <= run'.attempt
               /\ seen'.given[n] # 0 => seen'.came[n] # 0 /\ seen'.given[n] > seen'.came[n]
    <3>1. seen.came[n] \in Nat /\ seen.came[n] <= run.attempt
      BY <1>1 DEF RuntimeInv, Steered, Histories
    <3>2. seen.given[n] # 0 => seen.came[n] # 0 /\ seen.given[n] > seen.came[n]
      BY DEF RuntimeInv, Steered
    <3> QED
      BY <1>2, <1>4, <3>1, <3>2
  <2> QED
    BY <1>3, <2>2, <2>3 DEF Steered
<1>8. Flagged' /\ Stops'
  BY <1>2, <1>3 DEF Flagged, Stops, Fresh
<1>9. EndIsTheEnd'
  <2>1. run.fired => \E n \in Steers : seen.came[n] = run.attempt
    BY DEF RuntimeInv, Flagged
  <2>2. seen.ended # 0 => \E n \in Steers : seen.came[n] = seen.ended
    BY DEF RuntimeInv, EndIsTheEnd
  <2> QED
    BY <1>4, <2>1, <2>2 DEF EndIsTheEnd
<1> QED
  BY <1>2, <1>6, <1>7, <1>8, <1>9 DEF RuntimeInv, ZeroMeansDone, NoFalseFailure

\* The process exits, with 0 only if the stage is done or no interrupt is left.
LEMMA ExitKeeps ==
    ASSUME RuntimeInv, NEW code \in {0, 1, 137}, Exit(code), UNCHANGED <<read, bound>>,
           code = 0 => run.done \/ run.attempt >= MaxInterrupts,
           seen' = seen \/ seen' = [seen EXCEPT !.ended = run.attempt]
    PROVE  RuntimeInv'
<1>1. run \in Runs /\ sdk \in Queries /\ seen \in Histories
  BY Typed DEF RuntimeInv
<1>2. /\ run' \in Runs /\ run'.at = "exited" /\ run'.code = code
      /\ run'.attempt = run.attempt /\ run'.res = run.res /\ run'.fired = run.fired
      /\ run'.done = run.done
  BY <1>1 DEF Exit, Runs
<1>3. /\ queue' = queue /\ kept' = kept /\ sdk' = sdk
      /\ seen' \in Histories /\ seen'.came = seen.came /\ seen'.given = seen.given
  BY <1>1 DEF Exit, Histories, Runs
<1>4. RuntimeTypeOK'
  BY <1>2, <1>3 DEF RuntimeTypeOK, RuntimeInv, Runs, Histories
<1>5. Steered' /\ Flagged' /\ Stops'
  BY <1>2, <1>3 DEF RuntimeInv, Steered, Flagged, Stops
<1> QED
  BY <1>2, <1>4, <1>5 DEF RuntimeInv, ZeroMeansDone, NoFalseFailure, EndIsTheEnd, Running

\* Behind a result or an error the loop does one or the other.
LEMMA ConcludesKeeps ==
    ASSUME RuntimeInv, Running, NEW sawResult \in BOOLEAN, NEW code \in {0, 1},
           Concludes(sawResult, code), UNCHANGED <<read, bound>>,
           code = 0 => sawResult,
           \/ seen' = seen
           \/ /\ seen' = [seen EXCEPT !.ended = run.attempt]
              /\ run.done /\ queue.pending = << >>
    PROVE  RuntimeInv'
<1>1. CASE run.fired /\ run.attempt < MaxInterrupts
  BY <1>1, NextQueryKeeps DEF Concludes
<1>2. CASE ~(run.fired /\ run.attempt < MaxInterrupts) /\ run.done /\ queue.pending = << >>
  BY <1>2, ExitKeeps DEF Concludes
<1>3. CASE /\ ~(run.fired /\ run.attempt < MaxInterrupts)
           /\ ~(run.done /\ queue.pending = << >>)
  <2>1. CASE sawResult
    BY <1>3, <2>1, NextQueryKeeps DEF Concludes
  <2>2. CASE ~sawResult
    BY <1>3, <2>2, ExitKeeps DEF Concludes
  <2> QED
    BY <2>1, <2>2
<1> QED
  BY <1>1, <1>2, <1>3

\* What the loop hears of a query.
LEMMA LoopKeeps ==
    ASSUME RuntimeInv, Loop \/ Sigkill
    PROVE  RuntimeInv'
<1>1. CASE Interrupted
  <2>1. Running /\ UNCHANGED <<read, seen, bound>>
    BY <1>1 DEF Interrupted, Running, Quietly
  <2>2. run.attempt \in Nat /\ MaxInterrupts \in Nat
    BY Typed, RuntimeAssumption DEF RuntimeInv, Runs
  <2>3. CASE run.attempt < MaxInterrupts
    BY <1>1, <2>1, <2>3, NextQueryKeeps DEF Interrupted
  <2>4. CASE ~(run.attempt < MaxInterrupts)
    BY <1>1, <2>1, <2>2, <2>4, ExitKeeps DEF Interrupted
  <2> QED
    BY <2>3, <2>4
<1>2. CASE Aborted
  BY <1>2, ExitKeeps DEF Aborted, Quietly
<1>3. CASE Results
  <2>1. /\ run \in Runs /\ sdk \in Queries /\ run.at = "stream"
        /\ run' = [run EXCEPT !.at = "post", !.res = sdk.out]
        /\ UNCHANGED <<queue, kept, sdk, read, seen, bound>>
    BY <1>3, Typed DEF Results, Quietly, RuntimeInv
  <2>2. /\ run' \in Runs /\ run'.at = "post" /\ run'.res = sdk.out
        /\ run'.attempt = run.attempt /\ run'.fired = run.fired /\ run'.done = run.done
    BY <2>1 DEF Runs, Queries
  <2>3. sdk.out \notin {"none", "aborted"}
    BY <1>3 DEF Results, IsInterruptResult, RuntimeInv, Flagged
  <2>4. RuntimeTypeOK'
    BY <2>1, <2>2 DEF RuntimeTypeOK, RuntimeInv, Runs
  <2>5. Steered' /\ Flagged' /\ Stops'
    BY <2>1, <2>2, <2>3 DEF RuntimeInv, Steered, Flagged, Stops
  <2> QED
    BY <2>1, <2>2, <2>3, <2>4, <2>5
       DEF RuntimeInv, ZeroMeansDone, NoFalseFailure, EndIsTheEnd, Running
<1>4. CASE Told
  <2>1. Running /\ UNCHANGED <<read, bound>> /\ run.at = "post"
    BY <1>4 DEF Told, Running
  <2>2. CASE run.res = "success"
    <3>1. run.done /\ queue.pending = << >>
      BY <2>1, <2>2 DEF RuntimeInv, Stops
    <3> QED
      BY <1>4, <2>1, <2>2, <3>1, ConcludesKeeps DEF Told
  <2>3. CASE run.res # "success"
    <3> DEFINE saw == run.res \notin {"thrown", "ended"}
    <3>1. Concludes(saw, 1) /\ seen' = seen /\ saw \in BOOLEAN
      BY <1>4, <2>3 DEF Told
    <3> HIDE DEF saw
    <3> QED
      BY <2>1, <3>1, ConcludesKeeps
  <2> QED
    BY <2>2, <2>3
<1>5. CASE Sigkill
  BY <1>5, ExitKeeps DEF Sigkill, Quietly
<1> QED
  BY <1>1, <1>2, <1>3, <1>4, <1>5 DEF Loop

---------------------------------------------------------------------------
(* The queue                                                               *)

\* Messages go from the queue to the query under way.
LEMMA SdkAsksKeeps ==
    ASSUME RuntimeInv, SdkAsks
    PROVE  RuntimeInv'
<1>1. /\ run \in Runs /\ sdk \in Queries /\ seen \in Histories
      /\ queue.pending \in Seq(Messages) /\ run.attempt \in Nat \ {0}
  BY Typed DEF RuntimeInv, Runs
<1>2. UNCHANGED <<run, kept, read, bound>> /\ sdk.out = "none" /\ queue.waiting = << >>
  BY DEF SdkAsks
<1>3. CASE queue.pending = << >>
  <2>1. /\ queue' = [queue EXCEPT !.waiting = <<run.attempt>>] /\ UNCHANGED <<sdk, seen>>
    <3>1. Append(<< >>, run.attempt) = <<run.attempt>>
      OBVIOUS
    <3> QED
      BY <1>2, <1>3, <3>1 DEF SdkAsks
  <2>2. queue'.pending = queue.pending /\ queue'.waiting \in {<< >>, <<run.attempt>>}
    BY <2>1 DEF RuntimeInv, RuntimeTypeOK
  <2> QED
    BY <1>2, <2>1, <2>2 DEF RuntimeInv, RuntimeTypeOK, Steered, Flagged, Stops,
                            ZeroMeansDone, NoFalseFailure, EndIsTheEnd, Running
<1>4. CASE queue.pending # << >>
  <2> DEFINE m == Head(queue.pending)
  <2>1. /\ queue' = [queue EXCEPT !.pending = Tail(queue.pending)]
        /\ Hand(m, run.attempt)
    BY <1>4 DEF SdkAsks
  <2>2. /\ m \in Messages /\ Tail(queue.pending) \in Seq(Messages)
        /\ 1 \in DOMAIN queue.pending /\ m = queue.pending[1]
        /\ \A i \in DOMAIN Tail(queue.pending) :
              i + 1 \in DOMAIN queue.pending /\ Tail(queue.pending)[i] = queue.pending[i + 1]
    BY <1>1, <1>4, HeadTail
  <2>3. /\ queue'.pending = Tail(queue.pending) /\ queue'.waiting = << >>
    BY <1>2, <2>1 DEF RuntimeInv, RuntimeTypeOK
  <2>4. /\ sdk' = [sdk EXCEPT !.unread = Append(sdk.unread, m)] /\ sdk' \in Queries
        /\ sdk'.at = sdk.at /\ sdk'.out = sdk.out /\ sdk'.told = sdk.told
    <3>1. sdk' = [sdk EXCEPT !.unread = Append(sdk.unread, m)]
      BY <2>1 DEF Hand
    <3>2. Append(sdk.unread, m) \in Seq(Messages)
      BY <1>1, <2>2, Added DEF Queries
    <3> QED
      BY <1>1, <3>1, <3>2 DEF Queries
  <2> HIDE DEF m
  <2>5. /\ seen' \in Histories /\ seen'.came = seen.came /\ seen'.ended = seen.ended
        /\ \A n \in Steers : \/ seen'.given[n] = seen.given[n]
                             \/ n = m /\ seen'.given[n] = run.attempt
    BY <1>1, <2>1 DEF Hand, Histories
  <2>6. \A n \in Steers : n = m =>
           seen.came[n] # 0 /\ seen.came[n] < run.attempt /\ seen.came[n] \in Nat
    BY <1>1, <2>2 DEF RuntimeInv, Steered, Histories
  <2>7. RuntimeTypeOK'
    BY <1>2, <2>2, <2>3, <2>4, <2>5 DEF RuntimeInv, RuntimeTypeOK, Queries, Histories
  <2>8. Steered'
    <3>1. \A n \in Steers : seen'.given[n] # 0 =>
             seen'.came[n] # 0 /\ seen'.given[n] > seen'.came[n]
      BY <1>1, <2>5, <2>6 DEF RuntimeInv, Steered
    <3>2. \A i \in DOMAIN queue'.pending : queue'.pending[i] \in Steers =>
             /\ seen.came[queue'.pending[i]] # 0
             /\ seen.came[queue'.pending[i]] < run.attempt
      BY <2>2, <2>3 DEF RuntimeInv, Steered
    <3> QED
      BY <1>2, <2>5, <3>1, <3>2 DEF RuntimeInv, Steered
  <2>9. Flagged' /\ Stops'
    BY <1>2, <1>4, <2>4, <2>5 DEF RuntimeInv, Flagged, Stops
  <2> QED
    BY <1>2, <2>5, <2>7, <2>8, <2>9
       DEF RuntimeInv, ZeroMeansDone, NoFalseFailure, EndIsTheEnd, Running
<1> QED
  BY <1>3, <1>4

\* A compaction feeds the task once more; no steer moves.
LEMMA CompactsKeeps ==
    ASSUME RuntimeInv, Compacts
    PROVE  RuntimeInv'
<1>1. /\ run \in Runs /\ sdk \in Queries /\ queue.pending \in Seq(Messages)
  BY Typed DEF RuntimeInv
<1>2. /\ UNCHANGED <<run, kept, read>> /\ sdk.at = "turn" /\ sdk.out = "none"
      /\ bound' = [bound EXCEPT !.reminders = bound.reminders + 1]
      /\ bound.reminders < MaxReminders /\ run.at = "stream"
      /\ queue' = Pushed(queue, Task)
  BY DEF Compacts, InTurn
<1>3. bound' \in [failures : 0..MaxFailures, reminders : 0..MaxReminders]
  <2>1. bound \in [failures : 0..MaxFailures, reminders : 0..MaxReminders]
    BY DEF RuntimeInv, RuntimeTypeOK
  <2>2. bound.reminders + 1 \in 0..MaxReminders
    BY <1>2, <2>1, RuntimeAssumption
  <2> QED
    BY <1>2, <2>1, <2>2
<1>4. /\ seen' = seen /\ sdk' \in Queries
      /\ sdk'.at = sdk.at /\ sdk'.out = sdk.out /\ sdk'.told = sdk.told
  <2>1. CASE queue.waiting # << >>
    <3>1. Hand(Task, Head(queue.waiting))
      BY <2>1 DEF Compacts
    <3>2. seen' = seen /\ (sdk' = sdk \/ sdk' = [sdk EXCEPT !.unread = Append(sdk.unread, Task)])
      BY <3>1, TaskIsNoSteer DEF Hand
    <3>3. Append(sdk.unread, Task) \in Seq(Messages)
      BY <1>1, TaskIsNoSteer, Added DEF Queries
    <3> QED
      BY <1>1, <3>2, <3>3 DEF Queries
  <2>2. CASE queue.waiting = << >>
    BY <1>1, <2>2 DEF Compacts
  <2> QED
    BY <2>1, <2>2
<1>5. /\ queue'.pending \in Seq(Messages) /\ queue'.waiting \in {<< >>, <<run.attempt>>}
      /\ \A i \in DOMAIN queue'.pending :
            (i \in DOMAIN queue.pending /\ queue'.pending[i] = queue.pending[i])
              \/ queue'.pending[i] = Task
  <2>1. CASE queue.waiting = << >>
    <3>1. queue'.pending = Append(queue.pending, Task) /\ queue'.waiting = queue.waiting
      BY <1>2, <2>1 DEF Pushed, RuntimeInv, RuntimeTypeOK
    <3> QED
      BY <1>1, <2>1, <3>1, TaskIsNoSteer, Added
  <2>2. CASE queue.waiting = <<run.attempt>>
    <3>1. Tail(queue.waiting) = << >> /\ queue.waiting # << >>
      BY <2>2
    <3>2. queue'.pending = queue.pending /\ queue'.waiting = << >>
      BY <1>2, <3>1 DEF Pushed, RuntimeInv, RuntimeTypeOK
    <3> QED
      BY <1>1, <3>2
  <2> QED
    BY <2>1, <2>2 DEF RuntimeInv, RuntimeTypeOK
<1>6. RuntimeTypeOK'
  BY <1>2, <1>3, <1>4, <1>5 DEF RuntimeInv, RuntimeTypeOK, Queries
<1>7. Steered' /\ Flagged' /\ Stops'
  BY <1>2, <1>4, <1>5, TaskIsNoSteer DEF RuntimeInv, Steered, Flagged, Stops
<1> QED
  BY <1>2, <1>4, <1>6, <1>7
     DEF RuntimeInv, ZeroMeansDone, NoFalseFailure, EndIsTheEnd, Running

\* A steer is kept back, and flags the query it interrupts.
LEMMA FireInterruptKeeps ==
    ASSUME RuntimeInv, NEW n \in Steers, FireInterrupt(n)
    PROVE  RuntimeInv'
<1>1. /\ run \in Runs /\ sdk \in Queries /\ seen \in Histories
      /\ kept \in Seq(Steers) /\ run.attempt \in Nat \ {0} /\ run.at # "exited"
  BY Typed DEF RuntimeInv, Runs, FireInterrupt, Running
<1>2. /\ run' \in Runs /\ run'.at = run.at /\ run'.attempt = run.attempt /\ run'.fired
      /\ run'.res = run.res /\ run'.done = run.done /\ run'.code = run.code
  <2>1. run' = [run EXCEPT !.fired = TRUE, !.window = TRUE]
    BY DEF FireInterrupt
  <2>2. run' \in Runs
    BY <1>1, <2>1 DEF Runs
  <2> QED
    BY <1>1, <2>1, <2>2 DEF Runs
<1>3. /\ sdk' \in Queries /\ sdk'.at = sdk.at /\ sdk'.out = sdk.out
      /\ UNCHANGED <<queue, read, bound>>
  BY <1>1 DEF FireInterrupt, Queries
<1>4. /\ seen.came[n] = 0
      /\ seen' = [seen EXCEPT !.came = [seen.came EXCEPT ![n] = run.attempt]]
      /\ seen' \in Histories /\ seen'.given = seen.given /\ seen'.ended = seen.ended
      /\ seen'.came = [seen.came EXCEPT ![n] = run.attempt]
  BY <1>1 DEF FireInterrupt, Histories
<1>5. /\ kept' \in Seq(Steers)
      /\ \A i \in DOMAIN kept' :
            (i \in DOMAIN kept /\ kept'[i] = kept[i]) \/ kept'[i] = n
  BY <1>1, Added DEF FireInterrupt
<1>6. RuntimeTypeOK'
  BY <1>2, <1>3, <1>4, <1>5 DEF RuntimeInv, RuntimeTypeOK, Runs, Queries, Histories
<1>7. Steered'
  <2>1. seen.came \in [Steers -> Nat] /\ \A i \in DOMAIN kept : kept[i] \in Steers
    BY <1>1 DEF Histories
  <2>2. \A i \in DOMAIN kept' : seen'.came[kept'[i]] = run'.attempt
    BY <1>2, <1>4, <1>5, <2>1 DEF RuntimeInv, Steered
  <2>3. \A i \in DOMAIN queue'.pending : queue'.pending[i] \in Steers =>
          /\ seen'.came[queue'.pending[i]] # 0
          /\ seen'.came[queue'.pending[i]] < run'.attempt
    BY <1>2, <1>3, <1>4, <2>1 DEF RuntimeInv, Steered
  <2>4. seen.given[n] = 0
    BY <1>4 DEF RuntimeInv, Steered
  <2>5. \A k \in Steers :
          /\ seen'.came[k] <= run'.attempt
          /\ seen'.given[k] # 0 => seen'.came[k] # 0 /\ seen'.given[k] > seen'.came[k]
    BY <1>1, <1>2, <1>4, <2>1, <2>4 DEF RuntimeInv, Steered
  <2> QED
    BY <2>2, <2>3, <2>5 DEF Steered
<1>8. Flagged' /\ Stops'
  <2>1. seen'.came[n] = run'.attempt
    BY <1>1, <1>2, <1>4 DEF Histories
  <2> QED
    BY <1>2, <1>3, <2>1 DEF RuntimeInv, Flagged, Stops
<1>9. EndIsTheEnd'
  <2>1. \A k \in Steers : seen.ended # 0 /\ seen.came[k] = seen.ended => seen'.came[k] = seen.ended
    BY <1>1, <1>4 DEF Histories
  <2>2. seen.ended # 0 => \E k \in Steers : seen.came[k] = seen.ended
    BY <1>1 DEF RuntimeInv, EndIsTheEnd, Running
  <2> QED
    BY <1>4, <2>1, <2>2 DEF EndIsTheEnd
<1> QED
  BY <1>1, <1>2, <1>6, <1>7, <1>8, <1>9 DEF RuntimeInv, ZeroMeansDone, NoFalseFailure

---------------------------------------------------------------------------
(* The agent, and the ends of its queries                                  *)

\* What the agent reads, calls and is asked by the Stop hook.
LEMMA AgentKeeps ==
    ASSUME RuntimeInv,
           AgentReads \/ CompleteStage \/ StopHookAllows \/ StopHookBlocks
    PROVE  RuntimeInv'
<1>1. /\ run \in Runs /\ sdk \in Queries /\ seen \in Histories
      /\ read \subseteq Messages /\ run.at # "exited" /\ sdk.out = "none"
  BY Typed DEF RuntimeInv, RuntimeTypeOK, AgentReads, CompleteStage, StopHookAllows,
               StopHookBlocks, InTurn, Running
<1>2. CASE AgentReads
  <2>1. /\ UNCHANGED <<queue, kept, seen, bound>> /\ sdk.at \in {"idle", "turn"}
        /\ sdk' = [sdk EXCEPT !.at = "turn", !.unread = Tail(sdk.unread)]
        /\ run' = [run EXCEPT !.resume = TRUE]
        /\ Head(sdk.unread) \in Messages /\ Tail(sdk.unread) \in Seq(Messages)
    BY <1>1, <1>2, HeadTail DEF AgentReads, Queries
  <2>2. /\ sdk' \in Queries /\ sdk'.at = "turn" /\ sdk'.out = sdk.out /\ sdk'.told = sdk.told
        /\ run' \in Runs /\ run'.at = run.at /\ run'.attempt = run.attempt
        /\ run'.fired = run.fired /\ run'.res = run.res /\ run'.done = run.done
        /\ run'.code = run.code
    BY <1>1, <2>1 DEF Queries, Runs
  <2>3. read' \subseteq Messages
    BY <1>1, <1>2, <2>1 DEF AgentReads
  <2>4. RuntimeTypeOK'
    BY <2>1, <2>2, <2>3 DEF RuntimeInv, RuntimeTypeOK, Runs, Queries
  <2> QED
    BY <1>1, <2>1, <2>2, <2>4 DEF RuntimeInv, Steered, Flagged, Stops,
                             ZeroMeansDone, NoFalseFailure, EndIsTheEnd, Running
<1>3. CASE CompleteStage
  <2>1. UNCHANGED <<queue, kept, sdk, read, seen, bound>> /\ run' = [run EXCEPT !.done = TRUE]
    BY <1>3 DEF CompleteStage
  <2>2. /\ run' \in Runs /\ run'.at = run.at /\ run'.attempt = run.attempt
        /\ run'.fired = run.fired /\ run'.res = run.res /\ run'.done
    BY <1>1, <2>1 DEF Runs
  <2>3. RuntimeTypeOK'
    BY <2>1, <2>2 DEF RuntimeInv, RuntimeTypeOK, Runs
  <2> QED
    BY <1>1, <2>1, <2>2, <2>3 DEF RuntimeInv, Steered, Flagged, Stops,
                             ZeroMeansDone, NoFalseFailure, EndIsTheEnd, Running
<1>4. ASSUME Answers
      PROVE  /\ seen' \in Histories /\ seen'.came = seen.came
             /\ seen'.given = seen.given /\ seen'.ended = seen.ended
  BY <1>1, <1>4 DEF Answers, Histories
<1>5. CASE StopHookAllows
  <2>1. /\ UNCHANGED <<run, queue, kept, read, bound>> /\ run.done
        /\ queue.pending = << >> /\ sdk' = [sdk EXCEPT !.at = "stop"]
        /\ seen' \in Histories /\ seen'.came = seen.came
        /\ seen'.given = seen.given /\ seen'.ended = seen.ended
    BY <1>4, <1>5 DEF StopHookAllows
  <2>2. sdk' \in Queries /\ sdk'.at = "stop" /\ sdk'.out = sdk.out /\ sdk'.told = sdk.told
    BY <1>1, <2>1 DEF Queries
  <2>3. RuntimeTypeOK'
    BY <2>1, <2>2 DEF RuntimeInv, RuntimeTypeOK, Queries, Histories
  <2> QED
    BY <2>1, <2>2, <2>3 DEF RuntimeInv, Steered, Flagged, Stops,
                       ZeroMeansDone, NoFalseFailure, EndIsTheEnd, Running
<1>6. CASE StopHookBlocks
  <2>1. /\ UNCHANGED <<queue, kept, sdk, read, bound>> /\ run' = [run EXCEPT !.window = FALSE]
        /\ seen' \in Histories /\ seen'.came = seen.came
        /\ seen'.given = seen.given /\ seen'.ended = seen.ended
    BY <1>4, <1>6 DEF StopHookBlocks
  <2>2. /\ run' \in Runs /\ run'.at = run.at /\ run'.attempt = run.attempt
        /\ run'.fired = run.fired /\ run'.res = run.res /\ run'.done = run.done
        /\ run'.code = run.code
    BY <1>1, <2>1 DEF Runs
  <2>3. RuntimeTypeOK'
    BY <2>1, <2>2 DEF RuntimeInv, RuntimeTypeOK, Runs, Histories
  <2> QED
    BY <1>1, <2>1, <2>2, <2>3 DEF RuntimeInv, Steered, Flagged, Stops,
                             ZeroMeansDone, NoFalseFailure, EndIsTheEnd, Running
<1> QED
  BY <1>2, <1>3, <1>5, <1>6

\* How a query ends; and a signal.
LEMMA YieldsKeeps ==
    ASSUME RuntimeInv, NEW out \in {"success", "limit", "aborted", "execution", "thrown", "ended"},
           Yields(out), bound' \in [failures : 0..MaxFailures, reminders : 0..MaxReminders],
           out = "success" => sdk.at = "stop",
           out = "aborted" => run.fired
    PROVE  RuntimeInv'
<1>1. /\ UNCHANGED <<run, queue, kept, read, seen>> /\ sdk.out = "none"
      /\ sdk' = [sdk EXCEPT !.out = out] /\ sdk \in Queries /\ run.at # "exited"
  BY Typed DEF Yields, RuntimeInv, Running
<1>2. sdk' \in Queries /\ sdk'.at = sdk.at /\ sdk'.told = sdk.told /\ sdk'.out = out
  BY <1>1 DEF Queries
<1>3. run.at # "post"
  BY <1>1 DEF RuntimeInv, Stops
<1>4. RuntimeTypeOK'
  BY <1>1, <1>2 DEF RuntimeInv, RuntimeTypeOK, Queries
<1> QED
  BY <1>1, <1>2, <1>3, <1>4 DEF RuntimeInv, Steered, Flagged, Stops,
                           ZeroMeansDone, NoFalseFailure, EndIsTheEnd, Running

LEMMA EndsKeep ==
    ASSUME RuntimeInv, SdkStops \/ SdkInterrupted \/ SdkAborted \/ SdkFails
    PROVE  RuntimeInv'
<1>1. bound \in [failures : 0..MaxFailures, reminders : 0..MaxReminders]
  BY DEF RuntimeInv, RuntimeTypeOK
<1>2. CASE SdkStops
  BY <1>1, <1>2, YieldsKeeps DEF SdkStops
<1>3. CASE SdkInterrupted
  BY <1>1, <1>3, YieldsKeeps DEF SdkInterrupted, RuntimeInv, Flagged
<1>4. CASE SdkAborted
  BY <1>1, <1>4, YieldsKeeps DEF SdkAborted
<1>5. CASE SdkFails
  <2>1. bound' = [bound EXCEPT !.failures = bound.failures + 1] /\ bound.failures + 1 \in 0..MaxFailures
    BY <1>1, <1>5, RuntimeAssumption DEF SdkFails
  <2>2. bound' \in [failures : 0..MaxFailures, reminders : 0..MaxReminders]
    BY <1>1, <2>1
  <2>3. Yields("limit") \/ Yields("execution") \/ Yields("thrown") \/ Yields("ended")
    BY <1>5 DEF SdkFails
  <2> QED
    BY <2>2, <2>3, YieldsKeeps
<1> QED
  BY <1>2, <1>3, <1>4, <1>5

LEMMA SigtermKeeps ==
    ASSUME RuntimeInv, Sigterm
    PROVE  RuntimeInv'
<1>1. /\ UNCHANGED <<queue, kept, sdk, read, bound>> /\ run.at # "exited"
      /\ run' = [run EXCEPT !.aborted = TRUE] /\ seen' = [seen EXCEPT !.killed = TRUE]
      /\ run \in Runs /\ seen \in Histories
  BY Typed DEF RuntimeInv, Sigterm, Running
<1>2. /\ run' \in Runs /\ run'.at = run.at /\ run'.attempt = run.attempt
      /\ run'.fired = run.fired /\ run'.res = run.res /\ run'.done = run.done
      /\ run'.code = run.code
      /\ seen' \in Histories /\ seen'.came = seen.came
      /\ seen'.given = seen.given /\ seen'.ended = seen.ended
  BY <1>1 DEF Runs, Histories
<1>3. RuntimeTypeOK'
  BY <1>1, <1>2 DEF RuntimeInv, RuntimeTypeOK, Runs, Histories
<1> QED
  BY <1>1, <1>2, <1>3 DEF RuntimeInv, Steered, Flagged, Stops,
                     ZeroMeansDone, NoFalseFailure, EndIsTheEnd, Running

---------------------------------------------------------------------------
LEMMA RuntimeInvStep == RuntimeInv /\ [RuntimeNext]_runtimeVars => RuntimeInv'
<1> SUFFICES ASSUME RuntimeInv, [RuntimeNext]_runtimeVars
             PROVE  RuntimeInv'
  OBVIOUS
<1>1. CASE UNCHANGED runtimeVars
  BY <1>1 DEF runtimeVars, RuntimeInv, RuntimeTypeOK, Steered, Flagged, Stops,
              ZeroMeansDone, NoFalseFailure, EndIsTheEnd, Running
<1> QED
  BY <1>1, LoopKeeps, SdkAsksKeeps, AgentKeeps, EndsKeep, CompactsKeeps,
     FireInterruptKeeps, SigtermKeeps DEF RuntimeNext, Query

LEMMA RuntimeInvHolds == RuntimeSpec => []RuntimeInv
BY RuntimeInvInit, RuntimeInvStep, PTL DEF RuntimeSpec

---------------------------------------------------------------------------
(* What follows from it                                                    *)

\* The loop, its queue and its query keep their types, whatever is sent to the
\* agent and however its queries end (runAgentSdkLaunch, drainStream).
THEOREM RuntimeTypesHold == RuntimeSpec => []RuntimeTypeOK
BY RuntimeInvHolds, PTL DEF RuntimeInv

\* Every steer that is fed to a query came before that query began: none is
\* handed to the one it interrupts, however far ahead that one has asked
\* (fireInterrupt and the head of the outer loop).
THEOREM SteersReachFreshQueries == RuntimeSpec => []SteersGoToFresh
<1>1. RuntimeInv => SteersGoToFresh
  BY DEF RuntimeInv, Steered, SteersGoToFresh
<1> QED
  BY <1>1, RuntimeInvHolds, PTL

\* The process exits with 0 only behind complete_stage, or when it has been
\* interrupted as often as it may; so a broken stream, a limit or a signal
\* never reads as a finished stage (the exits of the outer loop).
THEOREM ZeroIsDone == RuntimeSpec => []ZeroMeansDone
BY RuntimeInvHolds, PTL DEF RuntimeInv

\* An interrupt's synthetic result is never posted as a failure, whatever comes
\* between the interrupt and that result (drainStream).
THEOREM InterruptsAreNoFailures == RuntimeSpec => []NoFalseFailure
BY RuntimeInvHolds, PTL DEF RuntimeInv

\* After SessionEnd was posted the process goes on only for a steer that
\* interrupted that very query (the outer loop behind a result).
THEOREM TheEndIsFinal == RuntimeSpec => []EndIsTheEnd
BY RuntimeInvHolds, PTL DEF RuntimeInv

---------------------------------------------------------------------------
(* Where the steers are                                                    *)

Asked == queue.pending

\* The queue holds the steers in the order of the queries they came in, and
\* nothing was fed before one of them that came in an earlier query.
Ordered ==
    /\ \A i, j \in DOMAIN Asked :
          i < j /\ Asked[i] \in Steers /\ Asked[j] \in Steers
             => seen.came[Asked[i]] <= seen.came[Asked[j]]
    /\ \A m \in Steers, j \in DOMAIN Asked :
          seen.given[m] # 0 /\ Asked[j] \in Steers => seen.came[m] <= seen.came[Asked[j]]
    /\ \A n \in Steers : seen.given[n] <= run.attempt

SteerInv == RuntimeInv /\ SteersAreHeld /\ Ordered /\ SteersFedInOrder

\* What a step does to the steers: nothing, ...
Stays ==
    /\ UNCHANGED <<kept, run.attempt, seen.came, seen.given>>
    /\ queue'.pending = queue.pending \/ queue'.pending = Append(queue.pending, Task)

\* ... the next query takes over what was kept back, ...
Drains ==
    /\ queue'.pending = queue.pending \o kept /\ kept' = << >>
    /\ run'.attempt = run.attempt + 1 /\ UNCHANGED <<seen.came, seen.given>>

\* ... the query is fed the first message, ...
Feeds ==
    /\ queue.pending # << >> /\ queue'.pending = Tail(queue.pending)
    /\ UNCHANGED <<kept, run.attempt, seen.came>>
    /\ seen'.given = IF Head(queue.pending) \in Steers
                     THEN [seen.given EXCEPT ![Head(queue.pending)] = run.attempt]
                     ELSE seen.given

\* ... or one comes.
Comes(n) ==
    /\ seen.came[n] = 0 /\ seen'.came = [seen.came EXCEPT ![n] = run.attempt]
    /\ kept' = Append(kept, n)
    /\ UNCHANGED <<queue, run.attempt, seen.given>>

LEMMA NextQueryDrains ==
    ASSUME RuntimeInv, NextQuery, UNCHANGED <<seen.came, seen.given>>
    PROVE  Drains
<1>1. run \in Runs
  BY Typed DEF RuntimeInv
<1> QED
  BY <1>1 DEF NextQuery, Drains, Runs

LEMMA LoopOnSteers ==
    ASSUME RuntimeInv, Loop \/ Sigkill
    PROVE  Stays \/ Drains
<1>1. run \in Runs /\ seen \in Histories
  BY Typed DEF RuntimeInv
<1>2. /\ UNCHANGED <<seen.came, seen.given>>
      /\ NextQuery \/ (\E code : Exit(code)) \/ Results
  <2>1. CASE Told
    <3>1. seen' = seen \/ seen' = [seen EXCEPT !.ended = run.attempt]
      BY <2>1 DEF Told
    <3>2. NextQuery \/ \E code : Exit(code)
      BY <2>1 DEF Told, Concludes
    <3> QED
      BY <1>1, <3>1, <3>2 DEF Histories
  <2>2. CASE Interrupted \/ Aborted \/ Results \/ Sigkill
    BY <2>2 DEF Interrupted, Aborted, Results, Sigkill, Quietly
  <2> QED
    BY <2>1, <2>2 DEF Loop
<1>3. CASE NextQuery
  BY <1>2, <1>3, NextQueryDrains
<1>4. ASSUME NEW code, Exit(code)
      PROVE  Stays
  BY <1>1, <1>2, <1>4 DEF Exit, Stays, Runs
<1>5. CASE Results
  BY <1>1, <1>2, <1>5 DEF Results, Stays, Runs
<1> QED
  BY <1>2, <1>3, <1>4, <1>5

LEMMA QueryOnSteers ==
    ASSUME RuntimeInv, SdkAsks \/ Compacts
    PROVE  Stays \/ Feeds
<1>1. /\ run \in Runs /\ seen \in Histories /\ queue.waiting \in {<< >>, <<run.attempt>>}
      /\ queue.pending \in Seq(Messages)
  BY Typed DEF RuntimeInv, RuntimeTypeOK
<1>2. CASE SdkAsks /\ queue.pending # << >>
  <2> DEFINE m == Head(queue.pending)
  <2>1. /\ queue' = [queue EXCEPT !.pending = Tail(queue.pending)] /\ UNCHANGED <<run, kept>>
        /\ Hand(m, run.attempt)
    BY <1>2 DEF SdkAsks
  <2>2. queue'.pending = Tail(queue.pending)
    BY <2>1 DEF RuntimeInv, RuntimeTypeOK
  <2> HIDE DEF m
  <2>3. /\ UNCHANGED seen.came
        /\ seen'.given = IF m \in Steers THEN [seen.given EXCEPT ![m] = run.attempt] ELSE seen.given
    BY <1>1, <2>1 DEF Hand, Histories
  <2> QED
    BY <1>2, <2>1, <2>2, <2>3 DEF Feeds, m
<1>3. CASE SdkAsks /\ queue.pending = << >>
  <2>1. /\ queue' = [queue EXCEPT !.waiting = Append(queue.waiting, run.attempt)]
        /\ UNCHANGED <<run, kept, seen>>
    BY <1>3 DEF SdkAsks
  <2> QED
    BY <2>1 DEF RuntimeInv, RuntimeTypeOK, Stays
<1>4. CASE Compacts
  <2>1. UNCHANGED <<run, kept, seen>> /\ queue' = Pushed(queue, Task)
    BY <1>4, TaskIsNoSteer DEF Compacts, Hand
  <2> QED
    BY <2>1 DEF RuntimeInv, RuntimeTypeOK, Stays, Pushed
<1> QED
  BY <1>2, <1>3, <1>4

LEMMA StepsOnSteers ==
    ASSUME RuntimeInv, [RuntimeNext]_runtimeVars
    PROVE  Stays \/ Drains \/ Feeds \/ \E n \in Steers : Comes(n)
<1>1. run \in Runs /\ seen \in Histories
  BY Typed DEF RuntimeInv
<1>2. CASE UNCHANGED runtimeVars
  BY <1>2 DEF runtimeVars, Stays
<1>3. CASE AgentReads \/ CompleteStage \/ StopHookAllows \/ StopHookBlocks \/ Sigterm
  <2>1. /\ UNCHANGED <<queue, kept>> /\ UNCHANGED run.attempt
        /\ UNCHANGED <<seen.came, seen.given>>
    BY <1>1, <1>3 DEF AgentReads, CompleteStage, StopHookAllows, StopHookBlocks, Sigterm, Answers,
                      Runs, Histories
  <2> QED
    BY <2>1 DEF Stays
<1>4. CASE SdkStops \/ SdkInterrupted \/ SdkAborted \/ SdkFails
  BY <1>4 DEF SdkStops, SdkInterrupted, SdkAborted, SdkFails, Yields, Stays
<1>5. ASSUME NEW n \in Steers, FireInterrupt(n)
      PROVE  Comes(n)
  BY <1>1, <1>5 DEF FireInterrupt, Comes, Runs, Histories
<1> QED
  BY <1>2, <1>3, <1>4, <1>5, LoopOnSteers, QueryOnSteers DEF RuntimeNext, Query

LEMMA SteerInvInit == RuntimeInit => SteerInv
<1> SUFFICES ASSUME RuntimeInit
             PROVE  SteerInv
  OBVIOUS
<1>1. SteersAreHeld /\ SteersFedInOrder
  BY TaskIsNoSteer DEF RuntimeInit, SteersAreHeld, SteersFedInOrder
<1>2. Ordered
  BY TaskIsNoSteer DEF RuntimeInit, Ordered, Asked
<1> QED
  BY <1>1, <1>2, RuntimeInvInit DEF SteerInv

LEMMA SteerTypes ==
    ASSUME RuntimeInv
    PROVE  /\ run.attempt \in Nat \ {0} /\ seen.came \in [Steers -> Nat]
           /\ seen.given \in [Steers -> Nat]
           /\ Asked \in Seq(Messages) /\ kept \in Seq(Steers)
           /\ DOMAIN Asked = 1..Len(Asked) /\ Len(Asked) \in Nat
           /\ DOMAIN kept = 1..Len(kept) /\ Len(kept) \in Nat
           /\ \A i \in DOMAIN Asked : Asked[i] \in Messages
           /\ \A i \in DOMAIN kept : kept[i] \in Steers
<1>1. /\ run.attempt \in Nat \ {0} /\ seen.came \in [Steers -> Nat]
      /\ seen.given \in [Steers -> Nat]
      /\ Asked \in Seq(Messages) /\ kept \in Seq(Steers)
  BY Typed DEF RuntimeInv, Runs, Histories, Asked
<1> QED
  BY <1>1

\* A reminder goes behind the steers and moves none.
LEMMA StaysKeeps ==
    ASSUME SteerInv, Stays
    PROVE  SteersAreHeld' /\ Ordered' /\ SteersFedInOrder'
<1>1. /\ Asked \in Seq(Messages) /\ Task \in Messages /\ Task \notin Steers
      /\ \A n \in Steers : n # Task
  BY SteerTypes, TaskIsNoSteer DEF SteerInv
<1>2. /\ \A i \in DOMAIN Asked' :
            (i \in DOMAIN Asked /\ Asked'[i] = Asked[i]) \/ Asked'[i] = Task
      /\ \A i \in DOMAIN Asked : i \in DOMAIN Asked' /\ Asked'[i] = Asked[i]
  <2>1. CASE Asked' = Asked
    BY <2>1
  <2>2. CASE Asked' = Append(Asked, Task)
    BY <1>1, <2>2
  <2> QED
    BY <2>1, <2>2 DEF Stays, Asked
<1>3. /\ UNCHANGED kept /\ run'.attempt = run.attempt
      /\ seen'.came = seen.came /\ seen'.given = seen.given
  BY DEF Stays
<1>4. SteersAreHeld'
  <2>1. \A n \in Steers : (\E i \in DOMAIN Asked' : Asked'[i] = n)
                             <=> (\E i \in DOMAIN Asked : Asked[i] = n)
    BY <1>1, <1>2
  <2>2. \A i, j \in DOMAIN Asked' : Asked'[i] = Asked'[j] /\ Asked'[i] # Task => i = j
    BY <1>2 DEF SteerInv, SteersAreHeld, Asked
  <2> QED
    BY <1>3, <2>1, <2>2 DEF SteerInv, SteersAreHeld, Asked
<1>5. Ordered'
  <2>1. \A i, j \in DOMAIN Asked' :
           i < j /\ Asked'[i] \in Steers /\ Asked'[j] \in Steers
              => seen'.came[Asked'[i]] <= seen'.came[Asked'[j]]
    BY <1>1, <1>2, <1>3 DEF SteerInv, Ordered
  <2>2. \A m \in Steers, j \in DOMAIN Asked' :
           seen'.given[m] # 0 /\ Asked'[j] \in Steers => seen'.came[m] <= seen'.came[Asked'[j]]
    BY <1>1, <1>2, <1>3 DEF SteerInv, Ordered
  <2> QED
    BY <1>3, <2>1, <2>2 DEF SteerInv, Ordered
<1> QED
  BY <1>3, <1>4, <1>5 DEF SteerInv, SteersFedInOrder

\* What was kept back came later than all that is in the queue.
LEMMA DrainsKeeps ==
    ASSUME SteerInv, Drains
    PROVE  SteersAreHeld' /\ Ordered' /\ SteersFedInOrder'
<1>1. /\ Asked \in Seq(Messages) /\ kept \in Seq(Messages) /\ Asked' = Asked \o kept
      /\ kept' = << >> /\ run'.attempt = run.attempt + 1 /\ run.attempt \in Nat
      /\ seen'.came = seen.came /\ seen'.given = seen.given
      /\ seen.came \in [Steers -> Nat] /\ seen.given \in [Steers -> Nat]
      /\ \A i \in DOMAIN kept : kept[i] \in Steers /\ kept[i] # Task
  <2>1. \A i \in DOMAIN kept : kept[i] \in Steers /\ kept[i] # Task
    BY SteerTypes, TaskIsNoSteer DEF SteerInv
  <2>2. kept \in Seq(Messages)
    BY SteerTypes, TaskIsNoSteer, SeqMonotonic DEF SteerInv
  <2> QED
    BY <2>1, <2>2, SteerTypes DEF SteerInv, Drains, Asked
<1> DEFINE n == Len(Asked)
<1>2. /\ n \in Nat /\ DOMAIN Asked = 1..n /\ DOMAIN kept = 1..Len(kept) /\ Len(kept) \in Nat
      /\ DOMAIN Asked' = 1..(n + Len(kept))
      /\ \A i \in 1..n : Asked'[i] = Asked[i]
      /\ \A i \in 1..Len(kept) : Asked'[n + i] = kept[i]
  BY <1>1
<1> HIDE DEF n
<1>3. \A i \in DOMAIN Asked' : \/ i \in 1..n /\ Asked'[i] = Asked[i]
                               \/ /\ i > n /\ i - n \in DOMAIN kept
                                  /\ Asked'[i] = kept[i - n] /\ Asked'[i] \in Steers
  <2> SUFFICES ASSUME NEW i \in DOMAIN Asked', i \notin 1..n
               PROVE  i > n /\ i - n \in DOMAIN kept /\ Asked'[i] = kept[i - n] /\ Asked'[i] \in Steers
    BY <1>2
  <2>1. i > n /\ i - n \in 1..Len(kept) /\ n + (i - n) = i
    BY <1>2
  <2> QED
    BY <1>1, <1>2, <2>1
<1>4. /\ \A i \in DOMAIN kept : seen.came[kept[i]] = run.attempt
      /\ \A i \in DOMAIN Asked : Asked[i] \in Steers =>
            seen.came[Asked[i]] < run.attempt /\ seen.came[Asked[i]] \in Nat
  BY <1>1 DEF SteerInv, RuntimeInv, Steered, Asked
<1>5. SteersAreHeld'
  <2>1. \A m \in Steers : (\E i \in DOMAIN Asked' : Asked'[i] = m)
           <=> (\E i \in DOMAIN kept : kept[i] = m) \/ (\E i \in DOMAIN Asked : Asked[i] = m)
    <3> SUFFICES ASSUME NEW m \in Steers
                 PROVE  (\E i \in DOMAIN Asked' : Asked'[i] = m)
                           <=> (\E i \in DOMAIN kept : kept[i] = m) \/ (\E i \in DOMAIN Asked : Asked[i] = m)
      OBVIOUS
    <3>1. ASSUME NEW i \in DOMAIN kept, kept[i] = m
          PROVE  \E j \in DOMAIN Asked' : Asked'[j] = m
      <4>1. n + i \in DOMAIN Asked' /\ Asked'[n + i] = m
        BY <1>2, <3>1
      <4> QED
        BY <4>1
    <3>2. ASSUME NEW i \in DOMAIN Asked, Asked[i] = m
          PROVE  \E j \in DOMAIN Asked' : Asked'[j] = m
      <4>1. i \in DOMAIN Asked' /\ Asked'[i] = m
        BY <1>2, <3>2
      <4> QED
        BY <4>1
    <3> QED
      BY <1>2, <1>3, <3>1, <3>2
  <2>2. \A i, j \in DOMAIN Asked' : Asked'[i] = Asked'[j] /\ Asked'[i] # Task => i = j
    <3> SUFFICES ASSUME NEW i \in DOMAIN Asked', NEW j \in DOMAIN Asked',
                        Asked'[i] = Asked'[j], Asked'[i] # Task
                 PROVE  i = j
      OBVIOUS
    <3>1. CASE i \in 1..n /\ j \in 1..n
      BY <1>2, <3>1 DEF SteerInv, SteersAreHeld, Asked
    <3>2. CASE i \notin 1..n /\ j \notin 1..n
      <4>1. i - n \in DOMAIN kept /\ j - n \in DOMAIN kept /\ kept[i - n] = kept[j - n]
        BY <1>3, <3>2
      <4>2. i - n = j - n
        BY <4>1 DEF SteerInv, SteersAreHeld
      <4> QED
        BY <1>2, <4>2
    <3>3. ~(i \in 1..n /\ j \notin 1..n) /\ ~(j \in 1..n /\ i \notin 1..n)
      <4>1. ASSUME NEW x \in DOMAIN Asked', NEW y \in DOMAIN Asked',
                   x \in 1..n, y \notin 1..n, Asked'[x] = Asked'[y]
            PROVE  FALSE
        <5>1. /\ y - n \in DOMAIN kept /\ Asked'[y] = kept[y - n] /\ Asked'[y] \in Steers
              /\ x \in DOMAIN Asked /\ Asked'[x] = Asked[x]
          BY <1>2, <1>3, <4>1
        <5>2. /\ seen.came[kept[y - n]] = run.attempt
              /\ seen.came[Asked[x]] < run.attempt /\ seen.came[Asked[x]] \in Nat
          BY <1>4, <4>1, <5>1
        <5>3. seen.came[Asked[x]] = seen.came[kept[y - n]]
          BY <4>1, <5>1
        <5> QED
          BY <5>2, <5>3
      <4> QED
        BY <4>1
    <3> QED
      BY <3>1, <3>2, <3>3
  <2>3. kept' = << >> /\ DOMAIN kept' = {}
    BY <1>1
  <2>4. \A m \in Steers : seen'.came[m] # 0 /\ seen'.given[m] = 0
           <=> (\E i \in DOMAIN Asked' : Asked'[i] = m)
    BY <1>1, <2>1 DEF SteerInv, SteersAreHeld, Asked
  <2> QED
    BY <2>2, <2>3, <2>4 DEF SteersAreHeld, Asked
<1>6. Ordered'
  <2>1. ASSUME NEW i \in DOMAIN Asked', NEW j \in DOMAIN Asked', i < j,
               Asked'[i] \in Steers, Asked'[j] \in Steers
        PROVE  seen.came[Asked'[i]] <= seen.came[Asked'[j]]
    <3>1. CASE i \in 1..n /\ j \in 1..n
      BY <1>2, <2>1, <3>1 DEF SteerInv, Ordered
    <3>2. CASE j \notin 1..n
      <4>1. seen.came[Asked'[j]] = run.attempt
        BY <1>3, <1>4, <3>2
      <4>2. seen.came[Asked'[i]] <= run.attempt /\ seen.came[Asked'[i]] \in Nat
        BY <1>1, <2>1 DEF SteerInv, RuntimeInv, Steered
      <4> QED
        BY <4>1, <4>2
    <3>3. ~(i \notin 1..n /\ j \in 1..n)
      BY <1>2, <1>3, <2>1
    <3> QED
      BY <3>1, <3>2, <3>3
  <2>2. ASSUME NEW m \in Steers, NEW j \in DOMAIN Asked', seen.given[m] # 0, Asked'[j] \in Steers
        PROVE  seen.came[m] <= seen.came[Asked'[j]]
    <3>1. CASE j \in 1..n
      BY <1>2, <2>2, <3>1 DEF SteerInv, Ordered
    <3>2. CASE j \notin 1..n
      <4>1. seen.came[Asked'[j]] = run.attempt
        BY <1>3, <1>4, <3>2
      <4> QED
        BY <4>1 DEF SteerInv, RuntimeInv, Steered
    <3> QED
      BY <3>1, <3>2
  <2>3. \A m \in Steers : seen.given[m] <= run.attempt + 1
    BY <1>1 DEF SteerInv, Ordered
  <2> QED
    BY <1>1, <2>1, <2>2, <2>3 DEF Ordered
<1> QED
  BY <1>1, <1>5, <1>6 DEF SteerInv, SteersFedInOrder

\* The first of the queue came no later than any other.
LEMMA FeedsKeeps ==
    ASSUME SteerInv, Feeds
    PROVE  SteersAreHeld' /\ Ordered' /\ SteersFedInOrder'
<1> DEFINE m == Head(queue.pending)
<1>1. /\ Asked \in Seq(Messages) /\ Asked # << >> /\ Asked' = Tail(Asked)
      /\ UNCHANGED kept /\ run'.attempt = run.attempt /\ run.attempt \in Nat \ {0}
      /\ seen'.came = seen.came
      /\ seen.came \in [Steers -> Nat] /\ seen.given \in [Steers -> Nat]
      /\ seen'.given = IF m \in Steers THEN [seen.given EXCEPT ![m] = run.attempt] ELSE seen.given
      /\ m \in Messages /\ (m \in Steers <=> m # Task)
  <2>1. m \in Steers <=> m # Task /\ m \in Messages
    BY TaskIsNoSteer DEF Messages
  <2> QED
    BY <2>1, SteerTypes, HeadTail DEF SteerInv, Feeds, Asked
<1>2. /\ 1 \in DOMAIN Asked /\ m = Asked[1]
      /\ \A i \in DOMAIN Asked' : i + 1 \in DOMAIN Asked /\ i + 1 # 1 /\ i \in Nat
                                    /\ Asked'[i] = Asked[i + 1]
      /\ \A i \in DOMAIN Asked : i = 1 \/ (i - 1 \in DOMAIN Asked' /\ Asked'[i - 1] = Asked[i])
      /\ DOMAIN Asked \subseteq Nat /\ \A i \in DOMAIN Asked : 1 <= i
  BY <1>1 DEF Asked
<1> HIDE DEF m
<1>3. \A k \in Steers : k # m => seen'.given[k] = seen.given[k]
  BY <1>1
<1>4. m \in Steers => /\ seen'.given[m] = run.attempt /\ seen.came[m] # 0 /\ seen.given[m] = 0
                      /\ \A i \in DOMAIN kept : kept[i] # m
                      /\ \A i \in DOMAIN Asked' : Asked'[i] # m
  <2> SUFFICES ASSUME m \in Steers
               PROVE  /\ seen'.given[m] = run.attempt /\ seen.came[m] # 0 /\ seen.given[m] = 0
                      /\ \A i \in DOMAIN kept : kept[i] # m
                      /\ \A i \in DOMAIN Asked' : Asked'[i] # m
    OBVIOUS
  <2>1. seen'.given[m] = run.attempt
    BY <1>1
  <2>2. seen.came[m] # 0 /\ seen.given[m] = 0
    BY <1>2 DEF SteerInv, SteersAreHeld, Asked
  <2>3. \A i \in DOMAIN kept : kept[i] # m
    <3>1. seen.came[m] < run.attempt /\ seen.came[m] \in Nat
      BY <1>1, <1>2 DEF SteerInv, RuntimeInv, Steered, Asked
    <3> QED
      BY <1>1, <3>1 DEF SteerInv, RuntimeInv, Steered
  <2>4. ASSUME NEW i \in DOMAIN Asked', Asked'[i] = m PROVE FALSE
    <3>1. i + 1 \in DOMAIN Asked /\ i + 1 # 1 /\ Asked[i + 1] = Asked[1] /\ Asked[1] # Task
      BY <1>1, <1>2, <2>4
    <3> QED
      BY <1>2, <3>1 DEF SteerInv, SteersAreHeld, Asked
  <2> QED
    BY <2>1, <2>2, <2>3, <2>4
<1>5. SteersAreHeld'
  <2>1. ASSUME NEW k \in Steers
        PROVE  seen'.came[k] # 0 /\ seen'.given[k] = 0
                  <=> (\E i \in DOMAIN kept' : kept'[i] = k) \/ (\E i \in DOMAIN Asked' : Asked'[i] = k)
    <3>1. CASE k = m
      BY <1>1, <1>4, <3>1
    <3>2. CASE k # m
      <4>1. (\E i \in DOMAIN Asked : Asked[i] = k) <=> (\E i \in DOMAIN Asked' : Asked'[i] = k)
        BY <1>2, <3>2
      <4>2. seen'.came[k] = seen.came[k] /\ seen'.given[k] = seen.given[k] /\ kept' = kept
        BY <1>1, <1>3, <3>2
      <4> QED
        BY <4>1, <4>2 DEF SteerInv, SteersAreHeld, Asked
    <3> QED
      BY <3>1, <3>2
  <2>2. ASSUME NEW i \in DOMAIN Asked', NEW j \in DOMAIN Asked', Asked'[i] = Asked'[j],
               Asked'[i] # Task
        PROVE  i = j
    <3>1. i + 1 \in DOMAIN Asked /\ j + 1 \in DOMAIN Asked /\ Asked[i + 1] = Asked[j + 1]
          /\ Asked[i + 1] # Task
      BY <1>2, <2>2
    <3>2. i + 1 = j + 1
      BY <3>1 DEF SteerInv, SteersAreHeld, Asked
    <3> QED
      BY <1>2, <3>2
  <2> QED
    BY <1>1, <2>1, <2>2 DEF SteerInv, SteersAreHeld, Asked
<1>6. Ordered'
  <2>1. ASSUME NEW i \in DOMAIN Asked', NEW j \in DOMAIN Asked', i < j,
               Asked'[i] \in Steers, Asked'[j] \in Steers
        PROVE  seen.came[Asked'[i]] <= seen.came[Asked'[j]]
    <3>1. /\ i + 1 \in DOMAIN Asked /\ j + 1 \in DOMAIN Asked /\ i + 1 < j + 1
          /\ Asked'[i] = Asked[i + 1] /\ Asked'[j] = Asked[j + 1]
      BY <1>2, <2>1
    <3> QED
      BY <2>1, <3>1 DEF SteerInv, Ordered
  <2>2. ASSUME NEW k \in Steers, NEW j \in DOMAIN Asked', seen'.given[k] # 0, Asked'[j] \in Steers
        PROVE  seen.came[k] <= seen.came[Asked'[j]]
    <3>1. /\ j + 1 \in DOMAIN Asked /\ Asked'[j] = Asked[j + 1] /\ 1 < j + 1
      BY <1>2
    <3>2. CASE k = m
      BY <1>2, <2>2, <3>1, <3>2 DEF SteerInv, Ordered
    <3>3. CASE k # m
      BY <1>3, <2>2, <3>1, <3>3 DEF SteerInv, Ordered
    <3> QED
      BY <3>2, <3>3
  <2>3. \A k \in Steers : seen'.given[k] <= run.attempt
    BY <1>1, <1>3, <1>4 DEF SteerInv, Ordered
  <2> QED
    BY <1>1, <2>1, <2>2, <2>3 DEF Ordered
<1>7. SteersFedInOrder'
  <2> SUFFICES ASSUME NEW k \in Steers, NEW l \in Steers, seen.came[k] # 0,
                      seen.came[k] < seen.came[l], seen'.given[l] # 0
               PROVE  seen'.given[k] \in 1..seen'.given[l]
    BY <1>1 DEF SteersFedInOrder
  <2>0. seen.came[k] \in Nat /\ seen.came[l] \in Nat /\ seen.given[k] \in Nat /\ seen.given[l] \in Nat
        /\ seen.given[k] <= run.attempt
    BY <1>1 DEF SteerInv, Ordered
  <2>1. CASE l # m /\ k # m
    BY <1>3, <2>1 DEF SteerInv, SteersFedInOrder
  <2>2. CASE k = m
    <3>1. seen.given[l] = 0
      BY <1>2, <2>0, <2>2 DEF SteerInv, Ordered
    <3>2. l # m
      BY <2>0, <2>2
    <3> QED
      BY <1>3, <3>1, <3>2
  <2>3. CASE l = m /\ k # m
    <3>1. seen'.given[l] = run.attempt /\ seen'.given[k] = seen.given[k]
      BY <1>3, <1>4, <2>3
    <3>2. seen.given[k] # 0
      <4>1. SUFFICES ASSUME seen.given[k] = 0 PROVE FALSE
        OBVIOUS
      <4>2. CASE \E i \in DOMAIN kept : kept[i] = k
        <5>1. seen.came[k] = run.attempt
          BY <4>2 DEF SteerInv, RuntimeInv, Steered
        <5>2. seen.came[l] <= run.attempt
          BY DEF SteerInv, RuntimeInv, Steered
        <5> QED
          BY <1>1, <2>0, <5>1, <5>2
      <4>3. ASSUME NEW i \in DOMAIN Asked, Asked[i] = k PROVE FALSE
        <5>1. i # 1 /\ 1 < i
          BY <1>2, <2>3, <4>3
        <5>2. seen.came[l] <= seen.came[k]
          BY <1>2, <2>3, <4>3, <5>1 DEF SteerInv, Ordered
        <5> QED
          BY <2>0, <5>2
      <4> QED
        BY <4>1, <4>2, <4>3 DEF SteerInv, SteersAreHeld, Asked
    <3> QED
      BY <1>1, <2>0, <3>1, <3>2
  <2> QED
    BY <2>1, <2>2, <2>3
<1> QED
  BY <1>5, <1>6, <1>7

\* One that comes is kept back, and came later than all that was fed.
LEMMA ComesKeeps ==
    ASSUME SteerInv, NEW n \in Steers, Comes(n)
    PROVE  SteersAreHeld' /\ Ordered' /\ SteersFedInOrder'
<1>1. /\ Asked' = Asked /\ kept \in Seq(Steers) /\ kept' = Append(kept, n)
      /\ run'.attempt = run.attempt /\ run.attempt \in Nat \ {0}
      /\ seen.came \in [Steers -> Nat] /\ seen.given \in [Steers -> Nat]
      /\ seen.came[n] = 0 /\ seen'.given = seen.given
      /\ seen'.came = [seen.came EXCEPT ![n] = run.attempt]
  BY SteerTypes DEF SteerInv, Comes, Asked
<1>2. /\ \A i \in DOMAIN kept' : (i \in DOMAIN kept /\ kept'[i] = kept[i])
                                   \/ (i = Len(kept) + 1 /\ kept'[i] = n)
      /\ \A i \in DOMAIN kept : i \in DOMAIN kept' /\ kept'[i] = kept[i]
      /\ Len(kept) + 1 \in DOMAIN kept' /\ kept'[Len(kept) + 1] = n
  BY <1>1
<1>3. /\ seen'.came[n] = run.attempt /\ \A k \in Steers : k # n => seen'.came[k] = seen.came[k]
      /\ seen.given[n] = 0
  BY <1>1 DEF SteerInv, RuntimeInv, Steered
<1>4. /\ \A i \in DOMAIN kept : kept[i] # n
      /\ \A i \in DOMAIN Asked : Asked[i] # n
  BY <1>1 DEF SteerInv, SteersAreHeld, Asked
<1>5. SteersAreHeld'
  <2>1. ASSUME NEW k \in Steers
        PROVE  seen'.came[k] # 0 /\ seen'.given[k] = 0
                  <=> (\E i \in DOMAIN kept' : kept'[i] = k) \/ (\E i \in DOMAIN Asked' : Asked'[i] = k)
    <3>1. CASE k = n
      BY <1>1, <1>2, <1>3, <3>1
    <3>2. CASE k # n
      <4>1. (\E i \in DOMAIN kept' : kept'[i] = k) <=> (\E i \in DOMAIN kept : kept[i] = k)
        BY <1>2, <3>2
      <4> QED
        BY <1>1, <1>3, <3>2, <4>1, SMTT(30) DEF SteerInv, SteersAreHeld, Asked
    <3> QED
      BY <3>1, <3>2
  <2>2. \A i, j \in DOMAIN kept' : kept'[i] = kept'[j] => i = j
    BY <1>2, <1>4 DEF SteerInv, SteersAreHeld
  <2>3. queue'.pending = queue.pending
    BY <1>1 DEF Asked
  <2>4. \A i, j \in DOMAIN queue'.pending :
           queue'.pending[i] = queue'.pending[j] /\ queue'.pending[i] # Task => i = j
    BY <2>3 DEF SteerInv, SteersAreHeld
  <2> QED
    BY <2>1, <2>2, <2>4 DEF SteersAreHeld, Asked
<1>6. Ordered'
  <2>1. \A i \in DOMAIN Asked : Asked[i] \in Steers => seen'.came[Asked[i]] = seen.came[Asked[i]]
    BY <1>3, <1>4
  <2>2. \A m \in Steers : seen.given[m] # 0 => seen'.came[m] = seen.came[m]
    BY <1>3
  <2> QED
    BY <1>1, <2>1, <2>2 DEF SteerInv, Ordered
<1>7. SteersFedInOrder'
  <2> SUFFICES ASSUME NEW k \in Steers, NEW l \in Steers, seen'.came[k] # 0,
                      seen'.came[k] < seen'.came[l], seen.given[l] # 0
               PROVE  seen.given[k] \in 1..seen.given[l]
    BY <1>1 DEF SteersFedInOrder
  <2>1. k # n /\ l # n
    <3>1. l # n
      BY <1>3
    <3>2. seen.came[l] <= run.attempt /\ seen.came[l] \in Nat
      BY <1>1 DEF SteerInv, RuntimeInv, Steered
    <3> QED
      BY <1>1, <1>3, <3>1, <3>2
  <2> QED
    BY <1>3, <2>1 DEF SteerInv, SteersFedInOrder
<1> QED
  BY <1>5, <1>6, <1>7

LEMMA SteerInvStep == SteerInv /\ [RuntimeNext]_runtimeVars => SteerInv'
BY StepsOnSteers, RuntimeInvStep, StaysKeeps, DrainsKeeps, FeedsKeeps, ComesKeeps DEF SteerInv

LEMMA SteerInvHolds == RuntimeSpec => []SteerInv
BY SteerInvInit, SteerInvStep, PTL DEF RuntimeSpec

\* Until it is fed a steer is in one place, kept back or in the queue, and then
\* in none: what a query leaves behind when it is torn down, the reminders of a
\* compaction and the end of the process lose no steer and double none.
THEOREM SteersAreHeldOnce == RuntimeSpec => []SteersAreHeld
BY SteerInvHolds, PTL DEF SteerInv

\* Steers are fed in the order of the queries they interrupted.
THEOREM SteersKeepTheirOrder == RuntimeSpec => []SteersFedInOrder
BY SteerInvHolds, PTL DEF SteerInv

\* No steer is fed twice.
THEOREM SteersAreFedOnce == RuntimeSpec => FedOnce
<1>1. ASSUME SteerInv, [RuntimeNext]_runtimeVars
      PROVE  \A n \in Steers : seen.given[n] # 0 => seen'.given[n] = seen.given[n]
  <2> SUFFICES ASSUME NEW n \in Steers, seen.given[n] # 0
               PROVE  seen'.given[n] = seen.given[n]
    OBVIOUS
  <2>1. CASE Feeds
    <3>1. queue.pending # << >> /\ queue.pending \in Seq(Messages) /\ seen.given \in [Steers -> Nat]
      BY <1>1, <2>1, SteerTypes DEF Feeds, SteerInv, Asked
    <3>2. 1 \in DOMAIN queue.pending /\ Head(queue.pending) = queue.pending[1]
      BY <3>1, HeadTail
    <3>3. Head(queue.pending) # n
      BY <1>1, <3>2 DEF SteerInv, SteersAreHeld
    <3> QED
      BY <2>1, <3>1, <3>3 DEF Feeds
  <2>2. CASE Stays \/ Drains \/ \E k \in Steers : Comes(k)
    BY <2>2 DEF Stays, Drains, Comes
  <2> QED
    BY <1>1, <2>1, <2>2, StepsOnSteers DEF SteerInv
<1>2. SteerInv /\ [RuntimeNext]_runtimeVars
         => [\A n \in Steers : seen.given[n] # 0 => seen'.given[n] = seen.given[n]]_runtimeVars
  BY <1>1
<1> QED
  BY <1>2, SteerInvInit, SteerInvStep, PTL DEF RuntimeSpec, FedOnce
=============================================================================
