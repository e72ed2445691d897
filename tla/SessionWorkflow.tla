--------------------------- MODULE SessionWorkflow ---------------------------
(***************************************************************************)
(* A hosted session under Temporal (core/temporal/): the durable workflow  *)
(* sessionWorkflow walks the stages itself and reaches the session only    *)
(* through activities that run in a worker process, while the hooks of the *)
(* agents, the worker's status poller and the operator write the same row  *)
(* (activities/*.ts, status-poller.ts, session-hooks/hook-status.ts,       *)
(* services/session.ts).                                                   *)
(*                                                                         *)
(* An activity is attempted twice at most. One that answers within         *)
(* milliseconds is one step; the dispatch of a stage takes several, and    *)
(* nothing stops it when its attempt has timed out. `world` names what may *)
(* go wrong. Unless launches are "slow" or frames and verdicts "late", a   *)
(* launch takes longer than a frame or a verdict, and is over within its   *)
(* attempt and before its agent. The stages declare no on_failure; each    *)
(* branch of a fan-out has a session and a compute of its own.             *)
(***************************************************************************)
EXTENDS Naturals, Sequences, FiniteSets

CONSTANTS
    Kind,    \* the stages in topological order, each of one of the StageKinds;
             \* a flow without stages is the fault "empty"
    Branches, \* <<stage, number>>: the subtasks of the fan-outs
    Worlds   \* the sets of faults a behaviour may show

Stages == DOMAIN Kind
Gates == {"manual", "review"}
StageKinds == {"agent", "action", "fan_out"} \cup Gates
Attempts == 1..2
Faults == {"launch", "crash", "throw", "worker", "slow", "late", "arkd", "stop",
           "reject", "empty"}

ASSUME WorkflowAssumption ==
    /\ Kind \in Seq(StageKinds) \ {<< >>}
    /\ Branches \subseteq {s \in Stages : Kind[s] = "fan_out"} \X Nat
    /\ Worlds \subseteq SUBSET Faults

VARIABLES
    world,     \* the faults of this behaviour
    wf,        \* the workflow: the activity it waits for, and its locals
    row,       \* the sessions row
    call,      \* the dispatch of each stage and attempt, in the worker
    agent,     \* the agents spawned so far; arkd knows the last one
    mail,      \* their hook frames on the way
    poller,    \* the status poller of the worker
    pod,       \* its compute: the one its config names, and one it lost
    approvals, \* approve signals sent, a history variable
    stopping,  \* is a stop between its kill and its write?
    branch     \* the child workflow of each branch, and whether it has a compute

own == <<world, wf, row, call, agent, mail, poller, pod, approvals, stopping>>
vars == <<own, branch>>

---------------------------------------------------------------------------
May(fault) == fault \in world
LastStage == Len(Kind)
KindOf(s) == IF s \in Stages THEN Kind[s] ELSE "none"
Open == wf.at \notin {"closed", "gone"}
Over == {"completed", "failed", "stopped"}
Lives(i) == agent[i].state \in {"works", "stuck"}

At(at) == [wf EXCEPT !.at = at, !.try = 1]
Conclude(result) == [At("conclude") EXCEPT !.result = result]
Outcome(result) == [At("record") EXCEPT !.result = result]
Thrown == [At("reap") EXCEPT !.result = "thrown"]

\* the head of the loop: what the workflow does first for stage s
Enter(s) ==
    IF s > LastStage
    THEN [Conclude("completed") EXCEPT !.stage = s]
    ELSE [At(CASE Kind[s] \in Gates -> "park"
               [] Kind[s] = "fan_out" -> "fan_out"
               [] OTHER -> "provision") EXCEPT !.stage = s]

\* mutant: the first attempt is not counted
AttemptFailsAgain ==
    IF wf.try <= 2
    THEN [wf EXCEPT !.try = @ + 1]
    ELSE IF wf.at = "dispatch"
    THEN Conclude("failed")
    ELSE Thrown

\* an attempt of an activity fails: Temporal repeats it once, then the
\* activity throws. A failing dispatch is caught, any other failure is not.
AttemptFails ==
    IF wf.try < 2
    THEN [wf EXCEPT !.try = @ + 1]
    ELSE IF wf.at = "dispatch"
    THEN Conclude("failed")
    ELSE Thrown

\* frames and verdicts are handled before a launch, or a conclusion, is over
Prompt ==
    May("late") \/ (mail = {} /\ poller.seen = "none" /\ poller.verdict = "none")

Update(status) == row' = [row EXCEPT !.status = status]
NoHandle(status) == row' = [row EXCEPT !.status = status, !.handle = FALSE]

\* What the activity the workflow waits for writes (projectSessionActivity,
\* projectStageActivity). "running" is dropped from a row without a handle.
Projected ==
    LET staged(status) == [row EXCEPT !.status = status, !.stage = wf.stage] IN
    CASE wf.at = "begin" -> [row EXCEPT !.status = "ready"]
      [] wf.at = "park" -> staged("ready")
      [] wf.at = "fan_out" -> staged("fanning_out")
      [] wf.at = "project" -> staged("dispatching")
      [] wf.at = "launched" -> staged(IF row.handle THEN "running" ELSE row.status)
      [] wf.at = "record" -> staged(wf.result)
      [] wf.at = "conclude" -> [row EXCEPT !.status = wf.result]
      [] OTHER -> row

Init ==
    /\ world \in Worlds
    /\ wf = [at |-> "begin", stage |-> 1, try |-> 1, result |-> "none",
             approved |-> FALSE, rejected |-> FALSE]
    /\ row = [status |-> "ready", stage |-> 1, handle |-> FALSE]
    /\ call = [d \in Stages \X Attempts |-> "none"]
    /\ agent = << >>
    /\ mail = {}
    /\ poller = [on |-> FALSE, seen |-> "none", verdict |-> "none"]
    /\ pod = [kept |-> "none", lost |-> FALSE]
    /\ approvals = 0
    /\ stopping = FALSE
    /\ branch = [b \in Branches |-> [at |-> "begun", pod |-> FALSE]]

---------------------------------------------------------------------------
(* The workflow (workflows/session-workflow.ts)                            *)

aside == <<world, agent, mail, poller, approvals, stopping, branch>>

\* the projection is written, and the workflow goes on
Project(at, next) ==
    /\ wf.at = at
    /\ row' = Projected
    /\ wf' = next
    /\ UNCHANGED <<aside, call, pod>>

\* the workflow hears something
Learn(at, next) ==
    /\ wf.at = at
    /\ wf' = next
    /\ UNCHANGED <<aside, row, call, pod>>

Begin == Project("begin", At("load"))
LoadFlow == ~May("empty") /\ Learn("load", Enter(1))

LoadNoStages == May("empty") /\ Learn("load", Conclude("failed"))

\* an inline flow, which the store of the worker does not know
LoadUnknown == May("empty") /\ Learn("load", AttemptFails)

\* a stage with a manual or a review gate is nothing but its gate
Park == Project("park", At("gate"))

\* mutant: the signal of this gate still opens the next one
PassGateAgain ==
    /\ wf.approved
    /\ ~wf.rejected
    /\ Learn("gate", Outcome("completed"))

PassGate ==
    /\ wf.approved
    /\ ~wf.rejected
    /\ Learn("gate", [Outcome("completed") EXCEPT !.approved = FALSE])

RejectGate ==
    /\ wf.rejected
    /\ Learn("gate", Outcome("rejected"))

\* a fan-out starts its branches and waits for all of them
FanOut == Project("fan_out", At("join"))
Siblings == {b \in Branches : b[1] = wf.stage}

\* mutant: the first branches that are done decide
JoinFirst ==
    /\ \E b \in Siblings : branch[b].at = "completed"
    /\ Learn("join", Outcome("completed"))

\* all have answered: every one completed, or some did not
Join ==
    /\ \A b \in Siblings : branch[b].at \in {"completed", "failed"}
    /\ Learn("join", Outcome(IF \A b \in Siblings : branch[b].at = "completed"
                             THEN "completed" ELSE "failed"))

\* one threw: nothing catches that, and nothing waits for the others
JoinThrows ==
    /\ \E b \in Siblings : branch[b].at = "thrown"
    /\ Learn("join", Thrown)

\* provisionComputeActivity: the handle in the config is taken up again
Provision ==
    /\ wf.at = "provision"
    /\ pod' = [pod EXCEPT !.kept = "live"]
    /\ wf' = At("project")
    /\ UNCHANGED <<aside, row, call>>

\* ... or the new compute never gets there
ProvisionLost ==
    /\ wf.at = "provision"
    /\ May("throw") \/ May("worker")
    /\ pod.kept = "none"
    /\ pod' = [pod EXCEPT !.lost = TRUE]
    /\ wf' = AttemptFails
    /\ UNCHANGED <<aside, row, call>>

ProjectDispatching == Project("project", At("dispatch"))
MarkRunning == Project("launched", At("await"))

\* awaitStageCompletionActivity: "ready" is the sign that the stage is done
Settled == row.status \in Over \cup {"ready"}
AwaitAnswers ==
    /\ Settled
    /\ Learn("await", Outcome(IF row.status = "ready" THEN "completed" ELSE row.status))

\* mutant: a session that runs is waited for without end
AwaitPatiently ==
    /\ ~Settled
    /\ row.status # "running"
    /\ Learn("await", Outcome("failed"))

\* the hour is over: the poll loop says so, or Temporal, which grants the
\* attempt the same hour
AwaitTimesOut ==
    /\ ~Settled
    /\ \E next \in {Outcome("failed"), AttemptFails} : Learn("await", next)

Record ==
    Project("record", CASE wf.result = "completed" -> Enter(wf.stage + 1)
                        [] wf.result = "rejected" -> Conclude("failed")
                        [] OTHER -> Conclude(wf.result))

\* mutant: the workflow has no finally
FinishOnly == Prompt /\ Project("conclude", At("closed"))

\* the last projection of the session
Finish == Prompt /\ Project("conclude", At("reap"))

\* destroyComputeActivity: what runs on the compute goes with it
Reap ==
    /\ wf.at = "reap"
    /\ wf' = At("closed")
    /\ pod' = [pod EXCEPT !.kept = IF @ = "live" THEN "gone" ELSE @]
    /\ agent' = [i \in DOMAIN agent |->
                    IF Lives(i) THEN [agent[i] EXCEPT !.state = "killed"] ELSE agent[i]]
    /\ UNCHANGED <<world, row, call, mail, poller, approvals, stopping, branch>>

\* the destruction fails, which is swallowed
ReapFails ==
    /\ wf.at = "reap"
    /\ May("arkd") \/ May("throw")
    /\ wf' = At("closed")
    /\ UNCHANGED <<aside, row, call, pod>>

Activities == {"begin", "load", "park", "fan_out", "provision", "project",
               "launched", "await", "record", "conclude"}

\* an activity throws, or exceeds its time, before or behind its write
ActivityThrows ==
    /\ May("throw")
    /\ wf.at \in Activities
    /\ row' \in {row, Projected}
    /\ wf' = AttemptFails
    /\ UNCHANGED <<aside, call, pod>>

---------------------------------------------------------------------------
(* dispatchStageActivity and the dispatch it calls                         *)

\* the stage is brought to the row; a retry finds what the first try left
Synced ==
    IF row.stage # wf.stage
    THEN [row EXCEPT !.stage = wf.stage, !.status = "ready"]
    ELSE IF row.status \in {"failed", "dispatching"}
    THEN [row EXCEPT !.status = "ready"]
    ELSE row

Current == <<wf.stage, wf.try>>
Unbegun == wf.at = "dispatch" /\ call[Current] = "none"

DispatchBegins ==
    /\ Unbegun
    /\ row' = Synced
    /\ Synced.status = "ready"
    /\ call' = [call EXCEPT ![Current] =
                   IF Kind[wf.stage] = "action" THEN "action" ELSE "launch"]
    /\ UNCHANGED <<aside, wf, pod>>

\* validateSessionForDispatch: an earlier attempt has launched the agent
DispatchFindsRunning ==
    /\ Unbegun
    /\ row' = Synced
    /\ Synced.status = "running"
    /\ wf' = IF Synced.handle THEN At("launched") ELSE Conclude("failed")
    /\ UNCHANGED <<aside, call, pod>>

DispatchRefused ==
    /\ Unbegun
    /\ row' = Synced
    /\ Synced.status \notin {"ready", "running"}
    /\ wf' = Conclude("failed")
    /\ UNCHANGED <<aside, call, pod>>

\* a dispatch is over; its workflow may not wait for it any more
Answers(d, then) ==
    /\ call' = [call EXCEPT ![d] = "done"]
    /\ wf' = IF wf.at = "dispatch" /\ d = Current THEN then ELSE wf

\* ok: false is not repeated
LaunchFails(d) ==
    /\ call[d] = "launch"
    /\ May("launch") \/ pod.kept # "live"
    /\ Answers(d, Conclude("failed"))
    /\ UNCHANGED <<aside, row, pod>>

\* an exception is
DispatchThrows(d) ==
    /\ call[d] \in {"launch", "action"}
    /\ May("throw")
    /\ Answers(d, AttemptFails)
    /\ UNCHANGED <<aside, row, pod>>

Last == Len(agent)

\* SessionStart says "running": that comes with the launch, unless it is late
Starts(i) == IF May("late") THEN {[from |-> i, kind |-> "SessionStart"]} ELSE {}

\* claude-agent's launch: arkd spawns the process under the session's handle
\* and forgets the one it had there
Spawn(d) ==
    /\ call[d] = "launch"
    /\ pod.kept = "live"
    /\ Prompt
    /\ agent' = Append(agent, [stage |-> d[1], state |-> "works"])
    /\ mail' = mail \cup Starts(Last + 1)
    /\ row' = [row EXCEPT !.handle = TRUE]
    /\ call' = [call EXCEPT ![d] = "finalize"]
    /\ UNCHANGED <<world, wf, poller, pod, approvals, stopping, branch>>

\* finalizeLaunch; a poller that runs already stays
Finalize(d) ==
    /\ call[d] = "finalize"
    /\ row.stage = d[1]
    /\ row.status # "completed"
    /\ row' = [row EXCEPT !.status = "running", !.handle = TRUE]
    /\ poller' = [poller EXCEPT !.on = TRUE]
    /\ Answers(d, At("launched"))
    /\ UNCHANGED <<world, agent, mail, pod, approvals, stopping, branch>>

\* the session moved on; without a launcher the agent is not killed
FinalizeTooLate(d) ==
    /\ call[d] = "finalize"
    /\ row.stage # d[1] \/ row.status = "completed"
    /\ Answers(d, Conclude("failed"))
    /\ UNCHANGED <<aside, row, pod>>

ActionSucceeds(d) ==
    /\ call[d] = "action"
    /\ NoHandle("ready")
    /\ Answers(d, At("launched"))
    /\ UNCHANGED <<aside, pod>>

ActionFails(d) ==
    /\ call[d] = "action"
    /\ May("launch")
    /\ Update("failed")
    /\ Answers(d, Conclude("failed"))
    /\ UNCHANGED <<aside, pod>>

\* a dispatch does not heartbeat: after a minute its attempt has failed, and
\* the dispatch goes on
HeartbeatLost ==
    /\ wf.at = "dispatch"
    /\ May("slow")
    /\ call[Current] \notin {"none", "done"}
    /\ wf' = AttemptFails
    /\ UNCHANGED <<aside, row, call, pod>>

---------------------------------------------------------------------------
(* The branches of a fan-out (workflows/stage-workflow.ts)                 *)

\* Child workflows run while their parent is open, one that has thrown and is
\* in its finally too; when it closes, they are terminated.
Alive(b) ==
    /\ b \in Siblings
    /\ wf.at = "join" \/ (wf.at = "reap" /\ \E c \in Siblings : branch[c].at = "thrown")

BranchGoes(b, from, to, has) ==
    /\ Alive(b)
    /\ branch[b].at = from
    /\ branch' = [branch EXCEPT ![b] = [at |-> to, pod |-> has]]
    /\ UNCHANGED own

\* a compute of the branch's own, which nothing will destroy
BranchProvisions(b) == BranchGoes(b, "begun", "dispatch", TRUE)
BranchLaunches(b) == BranchGoes(b, "dispatch", "works", branch[b].pod)

\* awaitStageCompletion answers for its session, or its hour is over
BranchEnds(b) ==
    \E status \in {"completed", "failed"} : BranchGoes(b, "works", status, branch[b].pod)

\* ok: false throws, and so does the second failure of any activity: the
\* provisioning of a subtask that names no session is one
BranchThrows(b) ==
    \/ /\ May("launch")
       /\ BranchGoes(b, "dispatch", "thrown", branch[b].pod)
    \/ /\ May("throw") \/ May("worker")
       /\ \E has \in {branch[b].pod, TRUE} : BranchGoes(b, "begun", "thrown", has)
    \/ /\ May("throw") \/ May("worker")
       /\ \E from \in {"dispatch", "works"} : BranchGoes(b, from, "thrown", branch[b].pod)

BranchStep(b) == BranchProvisions(b) \/ BranchLaunches(b) \/ BranchEnds(b)

---------------------------------------------------------------------------
(* The agents and their hooks                                              *)

kept == <<world, wf, call, pod, approvals, stopping, branch>>

\* a result ends the agent: SessionEnd or StopFailure, then the process exits
AgentEnds(i) ==
    /\ agent[i].state = "works"
    /\ May("slow") \/ wf.at \notin {"dispatch", "launched"}
    /\ agent' = [agent EXCEPT ![i].state = "ended"]
    /\ mail' = mail \cup {[from |-> i, kind |-> "SessionEnd"]}
    /\ UNCHANGED <<kept, row, poller>>

\* ... or it dies, with a StopFailure or without a word. A process whose agent
\* failed in its turn stays, and waits for a user (AgentRuntime's ErrorExits).
AgentFails(i) ==
    /\ agent[i].state = "works"
    /\ May("crash")
    /\ LET failure == mail \cup {[from |-> i, kind |-> "StopFailure"]} IN
          \/ agent' = [agent EXCEPT ![i].state = "failed"] /\ mail' \in {mail, failure}
          \/ agent' = [agent EXCEPT ![i].state = "stuck"] /\ mail' = failure
    /\ UNCHANGED <<kept, row, poller>>

FrameLost(f) ==
    /\ May("arkd")
    /\ mail' = mail \ {f}
    /\ UNCHANGED <<kept, row, agent, poller>>

HookOver(f) ==
    /\ mail' = mail \ {f}
    /\ UNCHANGED <<kept, agent, poller>>

\* the repository takes no "running" for a row without a handle
StillRuns == row' = [row EXCEPT !.status = IF row.handle THEN "running" ELSE @]

\* mutant: a late hook may change a session that is over
HookIgnoresNothing(f) ==
    /\ HookOver(f)
    /\ KindOf(row.stage) # "manual"
    /\ f.kind # "SessionStart"
    /\ Update(IF f.kind = "SessionEnd" THEN "ready" ELSE "failed")

\* an agent's end: the stage is done, unless nothing was committed. A hook
\* says nothing of the stage its agent was launched for that apply() heeds.
HookEnds(f) ==
    /\ HookOver(f)
    /\ row.status \notin Over
    /\ KindOf(row.stage) # "manual"
    /\ \/ f.kind = "SessionStart" /\ StillRuns
       \/ f.kind = "SessionEnd" /\ Update("ready")
       \/ f.kind = "SessionEnd" /\ row.status = "running" /\ May("crash") /\ Update("failed")
       \/ f.kind = "StopFailure" /\ Update("failed")

\* at a manual stage the row stays, or becomes, running
HookAtManual(f) ==
    /\ HookOver(f)
    /\ row.status \notin Over
    /\ KindOf(row.stage) = "manual"
    /\ StillRuns

HookTooLate(f) ==
    /\ HookOver(f)
    /\ row.status \in Over
    /\ UNCHANGED row

---------------------------------------------------------------------------
(* The status poller of the worker (executors/status-poller.ts)            *)

\* /process/status of the handle: how the last process exited
Verdict(i) == IF agent[i].state = "ended" THEN "ready" ELSE "failed"

PollSeesExit ==
    /\ poller.on
    /\ poller.seen = "none"
    /\ Last > 0
    /\ ~Lives(Last)
    /\ pod.kept = "live"
    /\ poller' = [poller EXCEPT !.seen = Verdict(Last)]
    /\ UNCHANGED <<kept, row, agent, mail>>

\* _handleStatus up to the forensic capture
PollJudges ==
    /\ poller.seen # "none"
    /\ poller' = [on |-> FALSE, seen |-> "none",
                  verdict |-> IF row.status = "running" THEN poller.seen ELSE poller.verdict]
    /\ UNCHANGED <<kept, row, agent, mail>>

\* ... and behind it
PollWrites ==
    /\ poller.verdict # "none"
    /\ NoHandle(poller.verdict)
    /\ poller' = [poller EXCEPT !.verdict = "none"]
    /\ UNCHANGED <<kept, agent, mail>>

\* three probes in a row do not reach arkd
PollUnreachable ==
    /\ poller.on
    /\ May("arkd") \/ pod.kept # "live"
    /\ poller' = [poller EXCEPT !.on = FALSE]
    /\ IF row.status = "running" THEN NoHandle("failed") ELSE UNCHANGED row
    /\ UNCHANGED <<kept, agent, mail>>

---------------------------------------------------------------------------
(* The operator, and the worker process                                    *)

Approve ==
    /\ Open
    /\ approvals < Cardinality({s \in Stages : Kind[s] \in Gates})
    /\ wf' = [wf EXCEPT !.approved = TRUE]
    /\ approvals' = approvals + 1
    /\ UNCHANGED <<world, row, call, agent, mail, poller, pod, stopping, branch>>

Reject ==
    /\ Open
    /\ May("reject")
    /\ wf' = [wf EXCEPT !.rejected = TRUE]
    /\ UNCHANGED <<aside, row, call, pod>>

\* The workflow is terminated, which runs no finally; or Temporal cannot be
\* reached, which is swallowed. What the session's projection said stands.
Terminate ==
    \/ wf' = IF ~Open THEN wf
             ELSE IF wf.at = "reap" THEN At("gone")
             ELSE [At("gone") EXCEPT !.result = "stopped"]
    \/ May("throw") /\ UNCHANGED wf

\* SessionService.stop of a row without a handle
StopRow ==
    /\ May("stop")
    /\ ~stopping
    /\ row.status \notin Over
    /\ ~row.handle
    /\ Terminate
    /\ NoHandle("stopped")
    /\ UNCHANGED <<aside, call, pod>>

\* with a handle its process is killed first
StopAgent ==
    /\ May("stop")
    /\ ~stopping
    /\ row.handle
    /\ Terminate
    /\ stopping' = TRUE
    /\ agent' = [i \in DOMAIN agent |->
                   IF i = Last /\ Lives(i) /\ pod.kept = "live"
                   THEN [agent[i] EXCEPT !.state = "killed"] ELSE agent[i]]
    /\ UNCHANGED <<world, row, call, mail, poller, pod, approvals, branch>>

StopEnds ==
    /\ stopping
    /\ NoHandle("stopped")
    /\ stopping' = FALSE
    /\ UNCHANGED <<world, wf, call, agent, mail, poller, pod, approvals, branch>>

\* The worker dies and boots: what ran in it is gone, its activities are
\* found out by their heartbeats, and running sessions get a poller.
WorkerDies ==
    /\ May("worker")
    /\ call' = [d \in DOMAIN call |-> IF call[d] = "none" THEN "none" ELSE "done"]
    /\ poller' = [on |-> row.status = "running" /\ row.handle,
                  seen |-> "none", verdict |-> "none"]
    /\ wf' = IF wf.at = "reap" THEN At("closed")
             ELSE IF wf.at \in Activities \/ (wf.at = "dispatch" /\ call[Current] # "none")
             THEN AttemptFails
             ELSE wf
    /\ row' \in {row, Projected}
    /\ UNCHANGED <<world, agent, mail, pod, approvals, stopping, branch>>

---------------------------------------------------------------------------
Activity ==
    \/ Begin \/ LoadFlow \/ LoadNoStages \/ Park \/ PassGate \/ RejectGate
    \/ FanOut \/ Join \/ JoinThrows
    \/ Provision \/ ProjectDispatching \/ MarkRunning
    \/ AwaitAnswers \/ AwaitTimesOut \/ Record \/ Finish \/ Reap
    \/ DispatchBegins \/ DispatchFindsRunning \/ DispatchRefused

CallStep(d) ==
    \/ LaunchFails(d) \/ Spawn(d) \/ Finalize(d) \/ FinalizeTooLate(d)
    \/ ActionSucceeds(d) \/ ActionFails(d)

HookFrame(f) == HookEnds(f) \/ HookAtManual(f) \/ HookTooLate(f)
PollStep == PollJudges \/ PollWrites

SessionNext ==
    \/ Activity \/ PollStep
    \/ \E d \in DOMAIN call : CallStep(d) \/ DispatchThrows(d)
    \/ \E f \in mail : HookFrame(f) \/ FrameLost(f)
    \/ \E i \in DOMAIN agent : AgentEnds(i) \/ AgentFails(i)
    \/ LoadUnknown \/ ActivityThrows \/ ProvisionLost \/ ReapFails \/ HeartbeatLost \/ WorkerDies
    \/ PollSeesExit \/ PollUnreachable
    \/ Approve \/ Reject \/ StopRow \/ StopAgent \/ StopEnds

Next == SessionNext \/ \E b \in Branches : BranchStep(b) \/ BranchThrows(b)

Spec == Init /\ [][Next]_vars

\* Temporal gives every activity a worker, sooner or later, a call in the
\* worker returns, and frames and verdicts are handled; agents may work on.
FairSpec ==
    /\ Spec
    /\ WF_vars(Activity) /\ WF_vars(PollStep)
    /\ WF_vars(\E d \in DOMAIN call : CallStep(d))
    /\ WF_vars(\E b \in Branches : BranchStep(b))
    /\ WF_vars(\E f \in mail : HookFrame(f))
    /\ WF_vars(StopEnds)

---------------------------------------------------------------------------
(* Properties                                                              *)

TypeOK ==
    /\ world \in Worlds
    /\ wf \in [at : Activities \cup {"gate", "join", "dispatch", "reap", "closed", "gone"},
               stage : 1..(LastStage + 1), try : Attempts,
               result : {"none", "thrown", "rejected"} \cup Over,
               approved : BOOLEAN, rejected : BOOLEAN]
    /\ wf.at \notin {"begin", "load", "conclude", "reap", "closed", "gone"}
           => wf.stage \in Stages
    /\ row \in [status : {"ready", "dispatching", "running", "fanning_out", "rejected"} \cup Over,
                stage : Stages \cup {1}, handle : BOOLEAN]
    /\ call \in [Stages \X Attempts -> {"none", "launch", "action", "finalize", "done"}]
    /\ agent \in Seq([stage : Stages, state : {"works", "stuck", "ended", "failed", "killed"}])
    /\ mail \subseteq [from : DOMAIN agent, kind : {"SessionStart", "SessionEnd", "StopFailure"}]
    /\ poller \in [on : BOOLEAN, seen : {"none", "ready", "failed"},
                   verdict : {"none", "ready", "failed"}]
    /\ pod \in [kept : {"none", "live", "gone"}, lost : BOOLEAN]
    /\ approvals \in Nat
    /\ stopping \in BOOLEAN
    /\ branch \in [Branches ->
          [at : {"begun", "dispatch", "works", "completed", "failed", "thrown"}, pod : BOOLEAN]]

\* A gate is passed by an approval of its own: signals that come early, twice
\* or while a gate is being left, retries and dead workers never get the
\* workflow past two gates with one (sessionWorkflow's flags).
GatesNeedApproval ==
    Cardinality({s \in Stages : s < wf.stage /\ Kind[s] \in Gates}) <= approvals

\* As long as the worker lives and is prompt, the workflow keeps the flow's
\* promise: no stage is left before its agent, or every branch of it, ended
\* well, whatever is thrown, fails, is lost or stopped.
Calm == {"slow", "late", "worker"} \cap world = {}
Forks == {b[1] : b \in Branches}
Pipeline == INSTANCE StagePipeline WITH
    AgentStages <- {s \in Stages : Kind[s] = "agent"} \cup Forks,
    stage <- IF Calm /\ wf.stage \in Stages THEN wf.stage
             ELSE IF Calm THEN LastStage ELSE 1,
    ended <- IF Calm
             THEN {agent[i].stage : i \in {j \in DOMAIN agent : agent[j].state = "ended"}}
                    \cup {s \in Forks : \A b \in Branches : b[1] = s => branch[b].at = "completed"}
             ELSE {},
    outcome <- IF ~Calm \/ wf.at \notin {"reap", "closed", "gone"} THEN "open"
               ELSE IF wf.result = "completed" THEN "completed"
               ELSE "failed"
ImplementsPipeline == Pipeline!PipelineSpec

\* What the row says in the end is what the workflow found, although hooks
\* and verdicts go on arriving after it closed.
EndsAgree ==
    wf.at = "closed" /\ wf.result # "thrown"
      /\ {"slow", "late", "worker", "stop"} \cap world = {}
        => row.status = wf.result

\* A stopped session whose workflow was terminated stays stopped, unless a
\* launch or a verdict was on its way: no hook, no activity revives it.
StopHolds ==
    [][row.status = "stopped" /\ wf.at = "gone" /\ poller.verdict = "none"
         /\ (\A d \in DOMAIN call : call[d] \in {"none", "done"})
         => row'.status = "stopped"]_vars

\* A closed workflow leaves nothing of its session behind, no compute and no
\* agent at work; and one that did not throw leaves no branch at work.
NothingLeft ==
    /\ wf.at = "closed" /\ {"worker", "arkd", "throw"} \cap world = {}
        => /\ pod.kept # "live"
           /\ ~pod.lost
           /\ \A i \in DOMAIN agent : ~Lives(i)
    /\ wf.at = "closed" /\ wf.result # "thrown"
        => \A b \in Branches : branch[b].at \notin {"dispatch", "works", "thrown"}

\* Every workflow closes, or waits for its human, whatever goes wrong.
AlwaysCloses == []<>(wf.at \in {"gate", "closed", "gone"})

\* ... because it never waits for a dispatch that has answered already, be the
\* attempt a retry behind a slow one or behind a dead worker;
DispatchIsAwaited == wf.at = "dispatch" => call[Current] # "done"

\* ... and because it only ever goes forward, by an activity, an attempt or a
\* stage, towards an end that the flow's length sets.
PlaceOf(at) ==
    CASE at \in {"park", "fan_out", "provision"} -> 2
      [] at \in {"gate", "join", "project"} -> 3
      [] at = "load" -> 1
      [] at = "dispatch" -> 4
      [] at = "launched" -> 5
      [] at = "await" -> 6
      [] at = "record" -> 7
      [] OTHER -> 0
EndOfFlow == 16 * (LastStage + 2)
Progress ==
    CASE wf.at = "conclude" -> EndOfFlow + wf.try
      [] wf.at = "reap" -> EndOfFlow + 2 + wf.try
      [] wf.at \in {"closed", "gone"} -> EndOfFlow + 5
      [] OTHER -> 16 * wf.stage + 2 * PlaceOf(wf.at) + wf.try
WorkflowGoesForward ==
    [][/\ Progress \in 1..(EndOfFlow + 5)
       /\ <<wf.at, wf.stage, wf.try>>' # <<wf.at, wf.stage, wf.try>> => Progress < Progress']_vars

---------------------------------------------------------------------------
(* What a comment promises, and the code does not keep                     *)

\* "Reap the session's provisioned compute on every terminal path": neither of
\* the session nor of a branch is a compute left.
NoComputeLeft ==
    wf.at = "closed" /\ {"worker", "arkd", "throw"} \cap world = {}
        => /\ pod.kept # "live"
           /\ \A b \in Branches : ~branch[b].pod
=============================================================================
