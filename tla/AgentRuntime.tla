---------------------------- MODULE AgentRuntime -----------------------------
(***************************************************************************)
(* The process of a claude-agent (runAgentSdkLaunch and drainStream,       *)
(* core/runtimes/claude-agent/launch.ts). It feeds a queue of prompts to   *)
(* one query of the Agent SDK after the other, keeps the SDK from stopping *)
(* until the agent has called complete_stage, and tells the conductor of   *)
(* every result. A user's message, a steer, interrupts the query under way *)
(* (user-message-stream.ts): it is kept back and fed to the next query.    *)
(*                                                                         *)
(* The SDK and the agent in it are the environment. A query asks the queue *)
(* for messages, also ahead of what its agent reads, and ends with one     *)
(* result, an exception, or nothing; when it is over it asks no more. The  *)
(* runtime waits for the SDK and, at a result, for the two posts that tell *)
(* the conductor; steers, tools, hooks and signals come in between.        *)
(***************************************************************************)
EXTENDS Naturals, Sequences

CONSTANTS
    MaxInterrupts,  \* MAX_INTERRUPTS: queries after which nothing interrupts
    MaxSteers,      \* bound: steers sent to the agent
    MaxFailures,    \* bound: queries that fail of themselves
    MaxReminders    \* bound: compactions

ASSUME RuntimeAssumption ==
    /\ MaxInterrupts \in Nat \ {0}
    /\ MaxSteers \in Nat
    /\ MaxFailures \in Nat
    /\ MaxReminders \in Nat

\* a message is the text of the task, or one of the steers
Task == 0
Steers == 1..MaxSteers
Messages == {Task} \cup Steers

VARIABLES
    run,    \* the outer loop: what it waits for, its flags, its exit code
    queue,  \* PromptQueue: what is pending, and the queries that wait for more
    kept,   \* pendingInterruptSteers
    sdk,    \* the query under way: how far it is, and what it holds unread
    read,   \* what the agent has read in its conversation
    seen,   \* history: of each steer, of the signals and the hooks posted
    bound   \* failures and compactions so far

runtimeVars == <<run, queue, kept, sdk, read, seen, bound>>

---------------------------------------------------------------------------
Fresh == [at |-> "idle", out |-> "none", told |-> FALSE, unread |-> << >>]
Running == run.at # "exited"

RuntimeInit ==
    /\ run = [at |-> "stream", attempt |-> 1, res |-> "none", code |-> 0,
              fired |-> FALSE, window |-> FALSE, done |-> FALSE,
              aborted |-> FALSE, resume |-> FALSE]
    /\ queue = [pending |-> <<Task>>, waiting |-> << >>]
    /\ kept = << >>
    /\ sdk = Fresh
    /\ read = {}
    /\ seen = [came |-> [n \in Steers |-> 0], given |-> [n \in Steers |-> 0],
               answered |-> {}, ended |-> 0, killed |-> FALSE]
    /\ bound = [failures |-> 0, reminders |-> 0]

---------------------------------------------------------------------------
(* The queue                                                               *)

\* push: the first query that waits gets the message, be it over or not
Pushed(q, m) ==
    IF q.waiting = << >>
    THEN [q EXCEPT !.pending = Append(@, m)]
    ELSE [q EXCEPT !.waiting = Tail(@)]

\* a message is handed to query a
Hand(m, a) ==
    /\ seen' = IF m \in Steers THEN [seen EXCEPT !.given[m] = a] ELSE seen
    /\ sdk' = IF a = run.attempt THEN [sdk EXCEPT !.unread = Append(@, m)] ELSE sdk

\* next() of the query's iterator
SdkAsks ==
    /\ Running
    /\ sdk.out = "none"
    /\ queue.waiting = << >>
    /\ IF queue.pending # << >>
       THEN /\ queue' = [queue EXCEPT !.pending = Tail(@)]
            /\ Hand(Head(queue.pending), run.attempt)
       ELSE /\ queue' = [queue EXCEPT !.waiting = Append(@, run.attempt)]
            /\ UNCHANGED <<sdk, seen>>
    /\ UNCHANGED <<run, kept, read, bound>>

---------------------------------------------------------------------------
(* The agent, in a turn of the query                                       *)

\* the turn begins, or goes on with what came meanwhile. Without `resume` the
\* conversation is a new one.
AgentReads ==
    /\ Running
    /\ sdk.at \in {"idle", "turn"}
    /\ sdk.out = "none"
    /\ sdk.unread # << >>
    /\ sdk' = [sdk EXCEPT !.at = "turn", !.unread = Tail(@)]
    /\ read' = (IF sdk.at = "idle" /\ ~run.resume THEN {} ELSE read)
                  \cup {Head(sdk.unread)}
    /\ run' = [run EXCEPT !.resume = TRUE]
    /\ UNCHANGED <<queue, kept, seen, bound>>

InTurn == Running /\ sdk.at = "turn" /\ sdk.out = "none"

\* complete_stage: rejected while a steer is being answered
CompleteStage ==
    /\ InTurn
    /\ ~run.window
    /\ run' = [run EXCEPT !.done = TRUE]
    /\ UNCHANGED <<queue, kept, sdk, read, seen, bound>>

\* the steers the agent has read are answered by the end of its turn
Answers == seen' = [seen EXCEPT !.answered = read \cap Steers]

\* the Stop hook lets the SDK stop
StopHookAllows ==
    /\ InTurn
    /\ run.done
    /\ queue.pending = << >>
    /\ sdk' = [sdk EXCEPT !.at = "stop"]
    /\ Answers
    /\ UNCHANGED <<run, queue, kept, read, bound>>

\* ... or keeps it going, and closes the window behind a steer
StopHookBlocks ==
    /\ InTurn
    /\ ~run.done \/ queue.pending # << >>
    /\ run' = [run EXCEPT !.window = FALSE]
    /\ Answers
    /\ UNCHANGED <<queue, kept, sdk, read, bound>>

\* a compaction: the task is fed to the agent once more (drainStream)
Compacts ==
    /\ InTurn
    /\ run.at = "stream"
    /\ bound.reminders < MaxReminders
    /\ bound' = [bound EXCEPT !.reminders = @ + 1]
    /\ queue' = Pushed(queue, Task)
    /\ IF queue.waiting # << >> THEN Hand(Task, Head(queue.waiting))
       ELSE UNCHANGED <<sdk, seen>>
    /\ UNCHANGED <<run, kept, read>>

---------------------------------------------------------------------------
(* How a query ends                                                        *)

Yields(out) ==
    /\ Running
    /\ sdk.out = "none"
    /\ sdk' = [sdk EXCEPT !.out = out]
    /\ UNCHANGED <<run, queue, kept, read, seen>>

SdkStops == sdk.at = "stop" /\ Yields("success") /\ UNCHANGED bound

\* query.interrupt(): the turn is torn down
SdkInterrupted ==
    /\ sdk.told
    /\ sdk.at = "turn"
    /\ Yields("aborted")
    /\ UNCHANGED bound

\* the iterator throws when its controller is aborted
SdkAborted == run.aborted /\ Yields("thrown") /\ UNCHANGED bound

\* of itself: a limit is reached, the execution fails, the stream breaks
SdkFails ==
    /\ bound.failures < MaxFailures
    /\ bound' = [bound EXCEPT !.failures = @ + 1]
    /\ \/ sdk.at = "turn" /\ (Yields("limit") \/ Yields("execution"))
       \/ Yields("thrown")
       \/ Yields("ended")

---------------------------------------------------------------------------
(* The outer loop                                                          *)

\* mutant: what was kept back stays there
NextQueryUndrained ==
    /\ run' = [run EXCEPT !.at = "stream", !.attempt = @ + 1, !.res = "none",
                          !.fired = FALSE, !.aborted = FALSE]
    /\ queue' = [queue EXCEPT !.waiting = << >>]
    /\ sdk' = Fresh
    /\ UNCHANGED kept

\* the head of the loop: dead iterators are detached, steers pushed, and a
\* new query begins
NextQuery ==
    /\ run' = [run EXCEPT !.at = "stream", !.attempt = @ + 1, !.res = "none",
                          !.fired = FALSE, !.aborted = FALSE]
    /\ queue' = [pending |-> queue.pending \o kept, waiting |-> << >>]
    /\ kept' = << >>
    /\ sdk' = Fresh

Exit(code) ==
    /\ run' = [run EXCEPT !.at = "exited", !.code = code]
    /\ UNCHANGED <<queue, kept, sdk>>

\* behind a query that was not interrupted
Concludes(sawResult, code) ==
    IF run.fired /\ run.attempt < MaxInterrupts THEN NextQuery
    ELSE IF run.done /\ queue.pending = << >> THEN Exit(code)
    ELSE IF sawResult THEN NextQuery
    ELSE Exit(code)

Quietly == UNCHANGED <<read, seen, bound>>

\* mutant: the synthetic result of an interrupt is told like any other
InterruptIsResult == FALSE

\* the result the SDK gives to an interrupt looks like a failing execution
IsInterruptResult == run.fired /\ sdk.out \in {"aborted", "execution"}

\* drainStream returns "interrupted"; nothing is told
Interrupted ==
    /\ run.at = "stream"
    /\ IsInterruptResult \/ (sdk.out = "thrown" /\ run.fired)
    /\ IF run.attempt < MaxInterrupts THEN NextQuery ELSE Exit(0)
    /\ Quietly

\* drainStream returns "aborted"
Aborted ==
    /\ run.at = "stream"
    /\ sdk.out = "thrown"
    /\ run.aborted
    /\ ~run.fired
    /\ Exit(1)
    /\ Quietly

\* every other end is told: the wait for the posts begins
Results ==
    /\ run.at = "stream"
    /\ \/ sdk.out \in {"success", "limit", "aborted", "execution"} /\ ~IsInterruptResult
       \/ sdk.out = "thrown" /\ ~run.fired /\ ~run.aborted
       \/ sdk.out = "ended"
    /\ run' = [run EXCEPT !.at = "post", !.res = sdk.out]
    /\ UNCHANGED <<queue, kept, sdk>>
    /\ Quietly

\* mutant: a stream that breaks is no error
ToldClean ==
    /\ run.at = "post"
    /\ IF run.res = "success"
       THEN Concludes(TRUE, 0) /\ seen' = [seen EXCEPT !.ended = run.attempt]
       ELSE Concludes(run.res \notin {"thrown", "ended"}, 0) /\ UNCHANGED seen
    /\ UNCHANGED <<read, bound>>

\* SessionEnd or StopFailure is the last hook; a post that fails is swallowed
Told ==
    /\ run.at = "post"
    /\ IF run.res = "success"
       THEN Concludes(TRUE, 0) /\ seen' = [seen EXCEPT !.ended = run.attempt]
       ELSE Concludes(run.res \notin {"thrown", "ended"}, 1) /\ UNCHANGED seen
    /\ UNCHANGED <<read, bound>>

---------------------------------------------------------------------------
(* From outside                                                            *)

\* mutant: a steer is pushed at once, to the query that is being torn down
FireAtOnce(n) ==
    /\ Running
    /\ seen.came[n] = 0
    /\ run' = [run EXCEPT !.fired = TRUE, !.window = TRUE]
    /\ queue' = Pushed(queue, n)
    /\ seen' = [seen EXCEPT !.came[n] = run.attempt,
                            !.given[n] = IF queue.waiting = << >> THEN 0
                                         ELSE Head(queue.waiting)]
    /\ sdk' = [sdk EXCEPT !.told = TRUE]
    /\ UNCHANGED <<kept, read, bound>>

\* an interrupt envelope of the user-input channel: fireInterrupt
FireInterrupt(n) ==
    /\ Running
    /\ seen.came[n] = 0
    /\ run' = [run EXCEPT !.fired = TRUE, !.window = TRUE]
    /\ kept' = Append(kept, n)
    /\ seen' = [seen EXCEPT !.came[n] = run.attempt]
    /\ \/ sdk' = [sdk EXCEPT !.told = TRUE]
       \/ UNCHANGED sdk   \* interrupt() is rejected, which is logged
    /\ UNCHANGED <<queue, read, bound>>

\* arkd's killProcess
Sigterm ==
    /\ Running
    /\ ~seen.killed
    /\ run' = [run EXCEPT !.aborted = TRUE]
    /\ seen' = [seen EXCEPT !.killed = TRUE]
    /\ UNCHANGED <<queue, kept, sdk, read, bound>>

\* ... a second later
Sigkill ==
    /\ Running
    /\ seen.killed
    /\ Exit(137)
    /\ Quietly

Loop == Interrupted \/ Aborted \/ Results \/ Told
Query == SdkAsks \/ AgentReads \/ SdkStops

RuntimeNext ==
    \/ Loop \/ Query
    \/ CompleteStage \/ StopHookAllows \/ StopHookBlocks \/ Compacts
    \/ SdkInterrupted \/ SdkAborted \/ SdkFails
    \/ \E n \in Steers : FireInterrupt(n)
    \/ Sigterm \/ Sigkill

RuntimeSpec == RuntimeInit /\ [][RuntimeNext]_runtimeVars

\* The loop and its posts go on, a query asks for messages and its agent reads
\* them, and an agent that has been told to stop its turn does so; else it may
\* work for ever.
RuntimeFairSpec ==
    /\ RuntimeSpec
    /\ WF_runtimeVars(Loop) /\ WF_runtimeVars(SdkAsks) /\ WF_runtimeVars(AgentReads)
    /\ WF_runtimeVars(SdkStops) /\ WF_runtimeVars(SdkInterrupted)

---------------------------------------------------------------------------
(* Properties                                                              *)

RuntimeTypeOK ==
    /\ run \in [at : {"stream", "post", "exited"}, attempt : Nat \ {0},
                res : {"none", "success", "limit", "aborted", "execution", "thrown", "ended"},
                code : {0, 1, 137}, fired : BOOLEAN, window : BOOLEAN,
                done : BOOLEAN, aborted : BOOLEAN, resume : BOOLEAN]
    /\ queue.pending \in Seq(Messages)
    /\ queue.waiting \in {<< >>, <<run.attempt>>}
    /\ kept \in Seq(Steers)
    /\ sdk \in [at : {"idle", "turn", "stop"}, told : BOOLEAN, unread : Seq(Messages),
                out : {"none", "success", "limit", "aborted", "execution", "thrown", "ended"}]
    /\ read \subseteq Messages
    /\ seen \in [came : [Steers -> Nat], given : [Steers -> Nat],
                 answered : SUBSET Steers, ended : Nat, killed : BOOLEAN]
    /\ bound \in [failures : 0..MaxFailures, reminders : 0..MaxReminders]

\* No steer is lost to the query it interrupts: whatever one asked for ahead,
\* a steer is fed to a query that began after it came (fireInterrupt).
SteersGoToFresh == \A n \in Steers : seen.given[n] # 0 => seen.given[n] > seen.came[n]

\* The exit code tells the poller that the stage is done: it is 0 only if the
\* agent called complete_stage, or was interrupted too often for a resume.
ZeroMeansDone ==
    run.at = "exited" /\ run.code = 0 => run.done \/ run.attempt >= MaxInterrupts

\* The conductor is not told of a failure because a user interrupted: the flag
\* outlives whatever comes between the interrupt and its synthetic result.
NoFalseFailure == run.res # "aborted"

\* After SessionEnd the process goes on only for a steer that came before it
\* in the same query; else it exits at once (the outer loop).
EndIsTheEnd ==
    seen.ended # 0 /\ Running => \E n \in Steers : seen.came[n] = seen.ended

\* Every steer whose interrupt the SDK takes is fed to the agent, or the
\* process exits, as long as no query fails: no order of tools, hooks, results
\* and other steers leaves it in the buffer.
SteersArrive ==
    \A n \in Steers :
        seen.came[n] # 0
            ~> \/ seen.given[n] # 0
               \/ ~Running
               \/ bound.failures > 0
               \/ run.fired /\ ~sdk.told

\* ... because until then it is kept back or in the queue, in one place, and
\* from then on nowhere: no drain, no reminder and no detached iterator loses a
\* steer or doubles it;
SteersAreHeld ==
    /\ \A n \in Steers :
          seen.came[n] # 0 /\ seen.given[n] = 0
             <=> (\E i \in DOMAIN kept : kept[i] = n)
                    \/ \E i \in DOMAIN queue.pending : queue.pending[i] = n
    /\ \A i, j \in DOMAIN kept : kept[i] = kept[j] => i = j
    /\ \A i, j \in DOMAIN queue.pending :
          queue.pending[i] = queue.pending[j] /\ queue.pending[i] # Task => i = j

\* ... and no steer is fed before one that came in an earlier query, or twice.
SteersFedInOrder ==
    \A m, n \in Steers :
        seen.came[m] # 0 /\ seen.came[m] < seen.came[n] /\ seen.given[n] # 0
            => seen.given[m] \in 1..seen.given[n]
FedOnce ==
    [][\A n \in Steers : seen.given[n] # 0 => seen'.given[n] = seen.given[n]]_runtimeVars

---------------------------------------------------------------------------
(* What the comments in the code say                                       *)

\* launch.ts:834: the window is open from the arrival of a steer to the first
\* Stop hook after the agent has consumed it.
WindowCoversSteer ==
    Running => \A n \in Steers :
        seen.came[n] # 0 /\ n \notin seen.answered => run.window

\* mcp-stage-control.ts:64: the conductor is told of the end when every message
\* of the user has been processed.
EndHearsAll ==
    [][seen'.ended # seen.ended
          => \A n \in Steers : seen.came[n] # 0 => n \in read]_runtimeVars

\* launch.ts:502: a signal ends the loop; no further query begins.
AbortIsFinal == [][seen.killed => run'.attempt = run.attempt]_runtimeVars

\* launch.ts:7: the process exits on an error result.
ErrorExits ==
    [][run.res \in {"limit", "execution"} /\ ~run.fired
          => run'.attempt = run.attempt]_runtimeVars
=============================================================================
