---------------------------- MODULE ForEachLoop ----------------------------
(***************************************************************************)
(* A session whose one stage is for_each with mode: spawn                  *)
(* (core/services/dispatch/foreach/): the dispatch of the session is the   *)
(* loop itself. It creates a child session for each item, waits for it,    *)
(* and hands the stage off behind the last one. A checkpoint in the row    *)
(* lets boot take the loop up again (AppContext._reconcileForEachSessions).*)
(*                                                                         *)
(* The dispatch waits where `loop.at` says so; what it writes at the head  *)
(* of an iteration it writes in one stretch, in which the process may die  *)
(* but nobody else runs. The children are sessions of their own: here they *)
(* are launched, and end. A child that ends costs one unit of the budget.  *)
(***************************************************************************)
EXTENDS Naturals, Sequences, FiniteSets

CONSTANTS
    MaxItems,     \* bound: items of a list
    Caps,         \* the values of max_budget_usd
    MaxRestarts   \* bound: times the conductor dies

ASSUME LoopAssumption ==
    /\ MaxItems \in Nat
    /\ Caps \subseteq Nat
    /\ MaxRestarts \in Nat

VARIABLES
    forEach,   \* the loop, as the flow and session/start have it
    tended,    \* does an operator interfere?
    row,       \* the sessions row of the parent
    cp,        \* has its config a for_each_checkpoint?
    child,     \* the children created so far, in order
    loop,      \* the dispatch in flight, what it waits for and counts
    kicked,    \* is the watchdog of kickDispatch armed?
    boot,      \* is boot to dispatch the session again, and has not yet?
    poller,    \* does a status poller probe the synthetic handle?
    restarts   \* times the conductor died

loopVars == <<forEach, tended, row, cp, child, loop, kicked, boot, poller, restarts>>

---------------------------------------------------------------------------
Items == 1..forEach.items
Ended == {"completed", "failed"}
NoDispatch == [at |-> "none", i |-> 1, done |-> {}, bad |-> FALSE, spawned |-> {}]

\* buildCompletedStateFromChildren
Completed == {k \in DOMAIN child : child[k].status = "completed"}
Indices(K) == {child[k].index : k \in K}

\* sumPriorIterationCosts
Spend(K) == Cardinality({k \in K : child[k].status \in Ended})

Failed == [row EXCEPT !.status = "failed", !.error = TRUE]

LoopInit ==
    /\ forEach \in [items : 0..MaxItems, policy : {"stop", "continue"},
                  cap : Caps, agent : BOOLEAN]
    /\ tended \in BOOLEAN
    /\ row = [status |-> "ready", error |-> FALSE, handle |-> FALSE]
    /\ cp = FALSE
    /\ child = << >>
    /\ loop = [NoDispatch EXCEPT !.at = "dispatch"]
    /\ kicked \in BOOLEAN
    /\ boot = FALSE
    /\ poller = "off"
    /\ restarts = 0

\* the head of an iteration has no wait: nothing but a crash comes between
Yields == loop.at # "head"

---------------------------------------------------------------------------
(* The dispatch                                                            *)

\* dispatch returned: the watchdog lost its race
DispatchReturns == loop' = NoDispatch /\ kicked' = FALSE

\* The clone, the guard or the compute fails. A kicked dispatch marks the row;
\* boot does not look at the result.
DispatchFails ==
    /\ loop.at = "dispatch"
    /\ row' = IF kicked /\ row.status \notin {"failed", "completed"}
              THEN Failed ELSE row
    /\ DispatchReturns
    /\ UNCHANGED <<forEach, tended, cp, child, boot, poller, restarts>>

\* mutant: the children of the interrupted loop are not looked at
EnterAfresh ==
    /\ loop.at = "dispatch"
    /\ forEach.items > 0
    /\ cp' = TRUE
    /\ row' = [row EXCEPT !.status = "running", !.handle = TRUE]
    /\ loop' = [NoDispatch EXCEPT !.at = "head"]
    /\ UNCHANGED <<forEach, tended, child, kicked, boot, poller, restarts>>

\* mutant: every child there is counts, whatever became of it
EnterCounted ==
    /\ loop.at = "dispatch"
    /\ forEach.items > 0
    /\ cp' = TRUE
    /\ row' = [row EXCEPT !.status = "running", !.handle = TRUE]
    /\ loop' = [NoDispatch EXCEPT !.at = "head", !.done = IF cp THEN Indices(DOMAIN child) ELSE {}]
    /\ UNCHANGED <<forEach, tended, child, kicked, boot, poller, restarts>>

\* mutant: the budget of a resumed loop starts at nothing
EnterUnpaid ==
    /\ loop.at = "dispatch"
    /\ forEach.items > 0
    /\ cp' = TRUE
    /\ row' = [row EXCEPT !.status = "running", !.handle = TRUE]
    /\ loop' = [NoDispatch EXCEPT !.at = "head",
                            !.done = IF cp THEN Indices(Completed) ELSE {}]
    /\ UNCHANGED <<forEach, tended, child, kicked, boot, poller, restarts>>

\* dispatchForEachSpawn up to the loop. The synthetic handle is written
\* whatever became of the row during the clone.
Enter ==
    /\ loop.at = "dispatch"
    /\ forEach.items > 0
    /\ cp' = TRUE
    /\ row' = [row EXCEPT !.status = "running", !.handle = TRUE]
    /\ LET prior == IF cp THEN Completed ELSE {} IN
          loop' = [NoDispatch EXCEPT !.at = "head", !.done = Indices(prior),
                               !.spawned = prior]
    /\ UNCHANGED <<forEach, tended, child, kicked, boot, poller, restarts>>

\* emitEmptyListComplete
EnterEmpty ==
    /\ loop.at = "dispatch"
    /\ forEach.items = 0
    /\ cp' = FALSE
    /\ loop' = [loop EXCEPT !.at = "verify"]
    /\ UNCHANGED <<forEach, tended, row, child, kicked, boot, poller, restarts>>

Skip ==
    /\ loop.at = "head"
    /\ loop.i \in Items \cap loop.done
    /\ loop' = [loop EXCEPT !.i = @ + 1]
    /\ UNCHANGED <<forEach, tended, row, cp, child, kicked, boot, poller, restarts>>

\* the iterations that are run: neither skipped nor beyond the budget
Runs == loop.at = "head" /\ loop.i \in Items \ loop.done
Affordable == Spend(loop.spawned) < forEach.cap

\* enforceBudgetCap
BudgetExceeded ==
    /\ Runs
    /\ ~Affordable
    /\ row' = Failed
    /\ cp' = FALSE
    /\ DispatchReturns
    /\ UNCHANGED <<forEach, tended, child, boot, poller, restarts>>

\* The index in flight that the checkpoint names before and behind it makes no
\* difference to who resumes: the children themselves are asked.
Spawn ==
    /\ Runs
    /\ Affordable
    /\ child' = Append(child, [index |-> loop.i, status |-> "ready"])
    /\ loop' = [loop EXCEPT !.at = "launch",
                            !.spawned = @ \cup {Len(child) + 1}]
    /\ UNCHANGED <<forEach, tended, row, cp, kicked, boot, poller, restarts>>

\* an iteration failed: on_iteration_failure decides
IterationFails ==
    \/ /\ forEach.policy = "stop"
       /\ cp' = FALSE
       /\ row' = Failed
       /\ DispatchReturns
    \/ /\ forEach.policy = "continue"
       /\ loop' = [loop EXCEPT !.at = "head", !.i = @ + 1, !.bad = TRUE]
       /\ UNCHANGED <<row, cp, kicked>>

\* spawnChild finds no flow for the child
SpawnFails ==
    /\ Runs
    /\ Affordable
    /\ IterationFails
    /\ UNCHANGED <<forEach, tended, child, boot, poller, restarts>>

\* the child of the iteration under way is the last one created
Current == Len(child)

\* mutant: nobody waits for the child
LaunchedFreely ==
    /\ loop.at = "launch"
    /\ child' = [child EXCEPT ![Current].status = "running"]
    /\ loop' = [loop EXCEPT !.at = "head", !.i = @ + 1]
    /\ UNCHANGED <<forEach, tended, row, cp, kicked, boot, poller, restarts>>

\* the child may end before anybody waits for it
Launched ==
    /\ loop.at = "launch"
    /\ child' = [child EXCEPT ![Current].status = "running"]
    /\ loop' = [loop EXCEPT !.at = "wait"]
    /\ UNCHANGED <<forEach, tended, row, cp, kicked, boot, poller, restarts>>

\* dispatchChild answers ok: false, and the child stays as it is
LaunchFails ==
    /\ loop.at = "launch"
    /\ IterationFails
    /\ UNCHANGED <<forEach, tended, child, boot, poller, restarts>>

\* what becomes of a child, also of one that nobody waits for any more
ChildEnds(k) ==
    /\ Yields
    /\ child[k].status = "running"
    /\ \E s \in Ended : child' = [child EXCEPT ![k].status = s]
    /\ UNCHANGED <<forEach, tended, row, cp, loop, kicked, boot, poller, restarts>>

\* waitForChild returns "completed"
ChildCompleted ==
    /\ loop.at = "wait"
    /\ child[Current].status = "completed"
    /\ loop' = [loop EXCEPT !.at = "head", !.i = @ + 1]
    /\ UNCHANGED <<forEach, tended, row, cp, child, kicked, boot, poller, restarts>>

\* ... "failed", or "timeout": the child was silent for its idle window
ChildFailed ==
    /\ loop.at = "wait"
    /\ child[Current].status \in {"failed", "running"}
    /\ IterationFails
    /\ UNCHANGED <<forEach, tended, child, boot, poller, restarts>>

\* behind the last item: the checkpoint goes, a failure is the loop's
Finish ==
    /\ loop.at = "head"
    /\ loop.i \notin Items
    /\ cp' = FALSE
    /\ \/ loop.bad /\ row' = Failed /\ DispatchReturns
       \/ ~loop.bad /\ loop' = [loop EXCEPT !.at = "verify"] /\ UNCHANGED <<row, kicked>>
    /\ UNCHANGED <<forEach, tended, child, boot, poller, restarts>>

---------------------------------------------------------------------------
(* The hand-off, when no iteration failed (HandoffMediator.mediate)        *)

\* the auto gate of the stage stays shut on a row with an error
VerifyPasses ==
    /\ loop.at = "verify"
    /\ \/ row.error /\ DispatchReturns
       \/ ~row.error /\ loop' = [loop EXCEPT !.at = "advance"] /\ UNCHANGED kicked
    /\ UNCHANGED <<forEach, tended, row, cp, child, boot, poller, restarts>>

VerifyFails ==
    /\ loop.at = "verify"
    /\ row' = [row EXCEPT !.status = "blocked"]
    /\ DispatchReturns
    /\ UNCHANGED <<forEach, tended, cp, child, boot, poller, restarts>>

\* after the capture of PLAN.md, whatever the row is by then
CompleteFlow ==
    /\ loop.at = "advance"
    /\ row' = [row EXCEPT !.status = "completed"]
    /\ DispatchReturns
    /\ UNCHANGED <<forEach, tended, cp, child, boot, poller, restarts>>

---------------------------------------------------------------------------
(* Around the loop                                                         *)

\* kickDispatch's deadline passes while the loop goes on
Watchdog ==
    /\ Yields
    /\ kicked
    /\ kicked' = FALSE
    /\ row' = IF row.status \in {"failed", "completed"} THEN row ELSE Failed
    /\ UNCHANGED <<forEach, tended, cp, child, loop, boot, poller, restarts>>

\* a tick finds nothing that bears the synthetic handle
PollGone ==
    /\ Yields
    /\ poller = "on"
    /\ poller' = IF row.status = "running" /\ row.handle THEN "gone" ELSE "off"
    /\ UNCHANGED <<forEach, tended, row, cp, child, loop, kicked, boot, restarts>>

\* and writes after the capture of the logs: no SessionEnd is in the log
WriteGone ==
    /\ Yields
    /\ poller = "gone"
    /\ poller' = "off"
    /\ row' = [Failed EXCEPT !.handle = FALSE]
    /\ UNCHANGED <<forEach, tended, cp, child, loop, kicked, boot, restarts>>

\* the RPCs do not know of the loop
Stop ==
    /\ Yields
    /\ tended
    /\ row.status \in {"stopped", "completed", "failed"} => row.handle
    /\ row' = [status |-> "stopped", error |-> FALSE, handle |-> FALSE]
    /\ poller' = IF poller = "on" THEN "off" ELSE poller
    /\ UNCHANGED <<forEach, tended, cp, child, loop, kicked, boot, restarts>>

\* resolveResumeRoute has no route for a for_each stage
ResumeRow ==
    /\ Yields
    /\ tended
    /\ row.status # "completed"
    /\ ~(row.status = "running" /\ row.handle)
    /\ row' = [status |-> "ready", error |-> FALSE, handle |-> FALSE]
    /\ UNCHANGED <<forEach, tended, cp, child, loop, kicked, boot, poller, restarts>>

Dies ==
    /\ restarts < MaxRestarts
    /\ restarts' = restarts + 1
    /\ loop' = NoDispatch
    /\ kicked' = FALSE
    /\ UNCHANGED <<forEach, tended, row, cp, child>>

\* mutant: the reconciliation looks for ready sessions
RestartReady ==
    /\ Dies
    /\ boot' = (row.status = "ready" /\ cp)
    /\ poller' = "off"

\* The conductor dies and boots. Reconciliation and rehydration list the
\* running sessions at once; the poller misses a row that is reset first.
Restart ==
    /\ Dies
    /\ boot' = (row.status = "running" /\ cp)
    /\ \/ row.status = "running" /\ row.handle /\ forEach.agent /\ poller' = "on"
       \/ ~(row.status = "running" /\ row.handle /\ forEach.agent) /\ poller' = "off"
       \/ boot' /\ poller' = "off"

\* the turn of this session: boot awaits the loops of the others first
Reconcile ==
    /\ boot
    /\ boot' = FALSE
    /\ row' = [row EXCEPT !.status = "ready", !.handle = FALSE]
    /\ loop' = [NoDispatch EXCEPT !.at = "dispatch"]
    /\ UNCHANGED <<forEach, tended, cp, child, kicked, poller, restarts>>

LoopStep ==
    \/ Enter \/ EnterEmpty \/ Skip \/ BudgetExceeded \/ Spawn
    \/ Launched \/ ChildCompleted \/ ChildFailed \/ Finish
    \/ VerifyPasses \/ CompleteFlow \/ Reconcile

LoopNext ==
    \/ LoopStep \/ DispatchFails \/ SpawnFails \/ LaunchFails \/ VerifyFails
    \/ \E k \in DOMAIN child : ChildEnds(k)
    \/ Watchdog \/ PollGone \/ WriteGone
    \/ Stop \/ ResumeRow \/ Restart

LoopSpec == LoopInit /\ [][LoopNext]_loopVars

\* The waits of the loop come to an end; that for a child does so because a
\* child that neither ends nor does anything times out.
LoopFairSpec == LoopSpec /\ WF_loopVars(LoopStep)

---------------------------------------------------------------------------
(* Properties                                                              *)

Statuses == {"ready", "running", "blocked", "completed", "failed", "stopped"}

LoopTypeOK ==
    /\ forEach \in [items : 0..MaxItems, policy : {"stop", "continue"},
                  cap : Caps, agent : BOOLEAN]
    /\ tended \in BOOLEAN
    /\ row \in [status : Statuses, error : BOOLEAN, handle : BOOLEAN]
    /\ cp \in BOOLEAN
    /\ child \in Seq([index : Items, status : {"ready", "running"} \cup Ended])
    /\ loop \in [at : {"none", "dispatch", "head", "launch", "wait", "verify", "advance"},
                 i : 1..(forEach.items + 1), done : SUBSET Items, bad : BOOLEAN,
                 spawned : SUBSET DOMAIN child]
    /\ loop.at = "wait" => child[Current].index = loop.i
    /\ kicked \in BOOLEAN
    /\ boot \in BOOLEAN
    /\ poller \in {"off", "on", "gone"}
    /\ restarts \in 0..MaxRestarts

\* A session completes only if every item of the list has a child that
\* completed: whatever timed out, was retried by boot, was stopped, resumed or
\* declared dead by the watchdog or a poller meanwhile (spawn-loop.ts).
LoopIsComplete == row.status = "completed" => Items \subseteq Indices(Completed)

\* Where a failure stops the loop, no item that has a completed child gets
\* another, also in the loops that boot takes up again
\* (buildCompletedStateFromChildren).
NoRework ==
    [][forEach.policy = "stop" /\ Len(child') > Len(child)
          => loop.i \notin Indices(Completed)]_loopVars

\* ... and there the children are worked on one after the other: each death
\* of the conductor leaves at most one more of them behind.
Alive == {k \in DOMAIN child : child[k].status = "running"}
OneAtATime == forEach.policy = "stop" => Cardinality(Alive) <= restarts + 1

\* No child is created once those that completed have used up the budget,
\* also when some of them did so before a restart (enforceBudgetCap).
BudgetHolds ==
    [][Len(child') > Len(child) /\ (forEach.policy = "stop" \/ restarts = 0)
          => Cardinality(Indices(Completed)) < forEach.cap]_loopVars

\* Nobody interferes: a loop that runs ends, although the conductor dies and
\* children hang. What boot fails to dispatch again is forgotten.
Forgotten == row.status = "ready" /\ loop.at = "none" /\ ~boot
RunningLoopEnds ==
    ~tended /\ row.status = "running" /\ cp
        ~> ~cp \/ row.status = "failed" \/ Forgotten

\* ... because it is always carried on: a dispatch walks it, or boot has still
\* to dispatch it; and whoever waits for a child waits for one that was
\* launched, so that it ends or times out;
RunningLoopIsCarried ==
    /\ ~tended /\ row.status = "running" /\ cp => loop.at # "none" \/ boot
    /\ loop.at = "wait" => child[Current].status # "ready"

\* ... and because each step of the loop leaves fewer to be made: three for
\* each item, and those at the ends. Only a death of the conductor begins anew.
HeadsLeft == 3 * (forEach.items + 1 - loop.i)
LoopStepsLeft ==
    IF boot THEN 3 * forEach.items + 5
    ELSE CASE loop.at = "dispatch" -> 3 * forEach.items + 4
           [] loop.at = "head" -> HeadsLeft + 3
           [] loop.at = "launch" -> HeadsLeft + 2
           [] loop.at = "wait" -> HeadsLeft + 1
           [] loop.at = "verify" -> 2
           [] loop.at = "advance" -> 1
           [] OTHER -> 0
LoopShrinks ==
    [][\/ UNCHANGED <<loop, boot>>
       \/ restarts' = restarts + 1
       \/ LoopStepsLeft' \in Nat /\ LoopStepsLeft' < LoopStepsLeft]_loopVars
=============================================================================
