-------------------------- MODULE SessionLifecycle --------------------------
(***************************************************************************)
(* One session of a linear flow, from its creation to the end of its last  *)
(* stage, as the local-mode conductor drives it: dispatch, launch, agent   *)
(* hooks and channel reports, stage hand-off, the status poller, retries   *)
(* and the operator's RPCs (core/services/..., core/executors).            *)
(*                                                                         *)
(* The conductor is one JavaScript process over a synchronous SQLite       *)
(* driver: code between two real waits (a subprocess, an HTTP call, a      *)
(* file) runs without interleaving, so an action is one such stretch and   *)
(* a job is an asynchronous call chain parked at one of those waits,       *)
(* holding what it read before it.                                         *)
(***************************************************************************)
EXTENDS Naturals, Sequences, SequencesExt

CONSTANTS
    LastStage,     \* number of stages of the flow
    ActionStages,  \* the stages the conductor runs itself (create_pr, ...)
    GateOf,        \* the gate of every stage
    MaxRetries,    \* n of an agent stage's on_failure: retry(n), 0: none
    Verify,        \* does a stage carry verify scripts or open todos?
    MayPrompt,     \* the frames an agent may send while it works
    Operations,    \* the operator's RPCs in play
    Faults,        \* what may go wrong around the conductor
    Workers,       \* bound: call chains in flight at the same time
    MaxSpawns,     \* bound: agents launched
    MaxMail        \* bound: prompts on the channel at the same time

Stages == 1..LastStage
Gates == {"auto", "manual", "review", "condition"}
Hooks == {"Working", "Notification", "StopFailure", "SessionEnd"}
Reports == {"completed", "question", "error", "progress"}
Prompts == (Hooks \ {"SessionEnd"}) \cup Reports
AllOperations == {"stop", "kill", "archive", "restore", "resume", "rewind",
                  "pause", "interrupt", "complete", "advance", "force",
                  "reject", "delete", "undelete", "restart"}
AllFaults == {"launch",     \* a clone, a settings file or a launch fails
              "watchdog",   \* a kicked dispatch outlives its deadline
              "crash",      \* an agent exits with a non-zero code
              "pane",       \* a tmux session disappears
              "loss",       \* a hook's curl or a report's fetch gives up
              "reorder",    \* frames overtake each other
              "slowLaunch", \* an agent speaks before its launch returns
              "slowProbe",  \* a poller tick outlives its interval
              "arkd"}       \* a probe or a kill does not reach arkd

ASSUME ConstantsAssumption ==
    /\ LastStage \in Nat \ {0}
    /\ ActionStages \subseteq Stages
    /\ GateOf \in [Stages -> Gates]
    /\ MaxRetries \in Nat
    /\ Verify \in BOOLEAN
    /\ MayPrompt \subseteq Prompts
    /\ Operations \subseteq AllOperations
    /\ Faults \subseteq AllFaults
    /\ Workers # {}
    /\ MaxSpawns \in Nat \ {0}
    /\ MaxMail \in Nat

VARIABLES
    row,       \* the sessions row, as the repository stores it
    retries,   \* retry_with_context events in the session's log
    endSeen,   \* is there a SessionEnd hook_status event in the log?
    sentinel,  \* does $ARK_SESSION_DIR/exit-code hold a non-zero code?
    poller,    \* is an interval registered in StatusPollerRegistry?
    job,       \* what every call chain in flight waits for
    agent,     \* the agents launched so far, in order
    spawned,   \* how many
    pane,      \* whose tmux session bears the handle ark-<id>, 0: nobody's
    mail       \* frames on arkd's hooks channel, not yet handled

vars == <<row, retries, endSeen, sentinel, poller, job,
          agent, spawned, pane, mail>>

---------------------------------------------------------------------------
(* Types *)

Statuses == {"ready", "running", "waiting", "blocked", "completed",
             "failed", "stopped", "archived", "deleting"}
Terminal == {"completed", "failed", "stopped", "archived"}
Launched == 1..MaxSpawns

Row == [status : Statuses, stage : Stages, handle : BOOLEAN,
        error : BOOLEAN, claude : 0..MaxSpawns, saved : Statuses]

Waits == {"idle", "prepare", "create", "finalize", "abort", "verify",
          "advance", "action", "dispatchAction", "gone", "forensics",
          "killing", "killed", "keys"}
Callers == {"none", "kick", "mediate", "hookRetry", "reportRetry", "orphan",
            "completed", "failed"} \cup AllOperations
Job == [at : Waits, who : Callers, stage : Stages,
        claude : 0..MaxSpawns, agent : 0..MaxSpawns]

Agent == [state : {"none", "alive", "ended", "crashed", "killed"},
          stage : Stages, claude : 0..MaxSpawns]

Frame == [from : Launched, kind : Hooks \cup Reports]

TypeOK ==
    /\ row \in Row
    /\ retries \in Nat
    /\ endSeen \in BOOLEAN
    /\ sentinel \in BOOLEAN
    /\ poller \in BOOLEAN
    /\ job \in [Workers -> Job]
    /\ agent \in [Launched -> Agent]
    /\ spawned \in 0..MaxSpawns
    /\ pane \in 0..spawned
    /\ mail \in Seq(Frame)

---------------------------------------------------------------------------
(* The row and the chains that work on it *)

Idle == [at |-> "idle", who |-> "none", stage |-> 1, claude |-> 0, agent |-> 0]
Parked(at, who, stage) == [Idle EXCEPT !.at = at, !.who = who, !.stage = stage]

\* mutant: without the check of #435
UpdateUnchecked(r) == row' = r

\* SessionRepository.update throws on a running row without a handle
Update(r) == row' = IF r.status = "running" /\ ~r.handle THEN row ELSE r

Continue(w, j) == job' = [job EXCEPT ![w] = j]

\* the chain on w writes r and then waits as j
Write(w, r, j) == Update(r) /\ Continue(w, j)

Manual(r) == GateOf[r.stage] = "manual"

\* mutant: only the error is looked at
GateOpensOnAnyKind(r) == ~r.error

\* evaluateGate: may the flow leave the row's stage unforced?
GateOpens(r) ==
    \/ GateOf[r.stage] = "condition"
    \/ GateOf[r.stage] = "auto" /\ ~r.error

\* dispatch() of a ready row, up to its first wait
Dispatch(r, who) ==
    IF r.stage \in ActionStages
    THEN Parked("dispatchAction", who, r.stage)
    ELSE [Parked("prepare", who, r.stage) EXCEPT !.claude = r.claude]

\* advance(): the gate, then the wait for PLAN.md; force skips the gate
Advance(r, who) ==
    IF who \in {"force", "complete"} \/ GateOpens(r)
    THEN Parked("advance", who, r.stage) ELSE Idle

\* mediateStageHandoff(): verification, then advance()
Mediate(r) ==
    IF Verify THEN Parked("verify", "mediate", r.stage)
    ELSE Advance(r, "mediate")

\* markDispatchFailedShared
Failed(r) == [r EXCEPT !.status = "failed", !.error = TRUE]
MarkFailed(r) == IF r.status \in {"failed", "completed"} THEN r ELSE Failed(r)

\* what becomes of a dispatch that returns ok: false, by its caller
DispatchFails(w) ==
    Write(w, IF job[w].who \in {"kick", "mediate", "reportRetry"}
             THEN MarkFailed(row) ELSE row, Idle)

\* mutant: the session goes, the agent in it does not
KillPaneOnly == pane' = 0 /\ UNCHANGED agent

\* tmux kill-session of the handle, whoever runs in it
KillPane ==
    /\ pane' = 0
    /\ agent' = IF pane # 0 /\ agent[pane].state = "alive"
                THEN [agent EXCEPT ![pane].state = "killed"] ELSE agent

Init ==
    /\ row = [status |-> "ready", stage |-> 1, handle |-> FALSE,
              error |-> FALSE, claude |-> 0, saved |-> "ready"]
    /\ retries = 0
    /\ endSeen = FALSE /\ sentinel = FALSE /\ poller = FALSE
    /\ \E w \in Workers :
          job = [v \in Workers |-> IF v = w THEN Dispatch(row, "kick") ELSE Idle]
    /\ agent = [i \in Launched |->
                  [state |-> "none", stage |-> 1, claude |-> 0]]
    /\ spawned = 0 /\ pane = 0 /\ mail = <<>>

---------------------------------------------------------------------------
(* Dispatch: prepare, launch, finalise *)

\* the clone, the settings or the launch itself fails
LaunchFails(w) ==
    /\ "launch" \in Faults
    /\ job[w].at \in {"prepare", "create"}
    /\ DispatchFails(w)
    /\ UNCHANGED <<retries, endSeen, sentinel, poller, agent, spawned, pane, mail>>

\* createSessionAsync first kills whatever holds the name ark-<id>
LaunchKillsOld(w) ==
    /\ job[w].at = "prepare"
    /\ KillPane
    /\ Continue(w, [job[w] EXCEPT !.at = "create"])
    /\ UNCHANGED <<row, retries, endSeen, sentinel, poller, spawned, mail>>

\* tmux new-session: a second one of the same name is refused
CreatePane(w) ==
    /\ job[w].at = "create"
    /\ pane = 0
    /\ spawned < MaxSpawns
    /\ LET new == spawned + 1 IN
          /\ spawned' = new /\ pane' = new
          /\ agent' = [agent EXCEPT ![new] =
                [state |-> "alive", stage |-> job[w].stage,
                 claude |-> IF job[w].claude = 0 THEN new ELSE job[w].claude]]
          /\ Continue(w, [job[w] EXCEPT !.at = "finalize", !.agent = new])
    /\ UNCHANGED <<row, retries, endSeen, sentinel, poller, mail>>

CreateDuplicate(w) ==
    /\ job[w].at = "create"
    /\ pane # 0
    /\ DispatchFails(w)
    /\ UNCHANGED <<retries, endSeen, sentinel, poller, agent, spawned, pane, mail>>

\* the row takes the launcher's fresh claude id, then finalizeLaunch's guard
FinalizeRow(w) == [row EXCEPT !.claude = job[w].agent]

\* mutant: the row's stage is not compared
MovedOnIfCompleted(w) == row.status = "completed"

MovedOn(w) == row.stage # job[w].stage \/ row.status = "completed"

Finalize(w) ==
    /\ job[w].at = "finalize"
    /\ ~MovedOn(w)
    /\ Write(w, [FinalizeRow(w) EXCEPT !.status = "running", !.handle = TRUE], Idle)
    /\ poller' = TRUE
    /\ UNCHANGED <<retries, endSeen, sentinel, agent, spawned, pane, mail>>

FinalizeTooLate(w) ==
    /\ job[w].at = "finalize"
    /\ MovedOn(w)
    /\ Write(w, FinalizeRow(w), [job[w] EXCEPT !.at = "abort"])
    /\ UNCHANGED <<retries, endSeen, sentinel, poller, agent, spawned, pane, mail>>

AbortLaunch(w) ==
    /\ job[w].at = "abort"
    /\ KillPane
    /\ DispatchFails(w)
    /\ UNCHANGED <<retries, endSeen, sentinel, poller, spawned, mail>>

\* the five-minute watchdog of a kicked dispatch, which runs on as an orphan
Watchdog(w) ==
    /\ "watchdog" \in Faults
    /\ job[w].who = "kick"
    /\ job[w].at \in {"prepare", "create", "finalize", "abort", "dispatchAction"}
    /\ Write(w, MarkFailed(row), [job[w] EXCEPT !.who = "orphan"])
    /\ UNCHANGED <<retries, endSeen, sentinel, poller, agent, spawned, pane, mail>>

---------------------------------------------------------------------------
(* Hand-off from stage to stage *)

VerifyPasses(w) ==
    /\ job[w].at = "verify"
    /\ Continue(w, Advance(row, "mediate"))
    /\ UNCHANGED <<row, retries, endSeen, sentinel, poller,
                   agent, spawned, pane, mail>>

VerifyFails(w) ==
    /\ job[w].at = "verify"
    /\ Write(w, [row EXCEPT !.status = "blocked"], Idle)
    /\ UNCHANGED <<retries, endSeen, sentinel, poller, agent, spawned, pane, mail>>

\* mutant: the stage is the row's, not the one read before the wait
NextStageOfRow(w) ==
    [row EXCEPT !.stage = @ + 1, !.status = "ready",
                !.error = FALSE, !.handle = FALSE, !.claude = 0]

NextStage(w) ==
    [row EXCEPT !.stage = job[w].stage + 1, !.status = "ready",
                !.error = FALSE, !.handle = FALSE, !.claude = 0]

\* advanceLinear past the stage read before the wait, then mediate's dispatch
AdvanceStage(w) ==
    /\ job[w].at = "advance"
    /\ job[w].stage < LastStage
    /\ LET r == NextStage(w) IN
          Write(w, r, IF job[w].who # "mediate" THEN Idle
                      ELSE IF r.stage \in ActionStages
                           THEN Parked("action", "mediate", r.stage)
                           ELSE Dispatch(r, "mediate"))
    /\ poller' = FALSE
    /\ UNCHANGED <<retries, endSeen, sentinel, agent, spawned, pane, mail>>

CompleteFlow(w) ==
    /\ job[w].at = "advance"
    /\ job[w].stage = LastStage
    /\ Write(w, [row EXCEPT !.status = "completed"], Idle)
    /\ UNCHANGED <<retries, endSeen, sentinel, poller, agent, spawned, pane, mail>>

\* mutant: nobody hands off after the action
ActionSucceedsAlone(w) ==
    /\ job[w].at = "action"
    /\ \E s \in {row.status, "waiting"} :
          Write(w, [row EXCEPT !.status = s], Idle)
    /\ UNCHANGED <<retries, endSeen, sentinel, poller, agent, spawned, pane, mail>>

\* executeAction for a stage the mediator or a resume runs; auto_merge
\* leaves the session waiting for its pull request
ActionSucceeds(w) ==
    /\ job[w].at = "action"
    /\ \E s \in {row.status, "waiting"} :
          LET r == [row EXCEPT !.status = s] IN
             Write(w, r, IF s = "ready" THEN Mediate(r) ELSE Idle)
    /\ UNCHANGED <<retries, endSeen, sentinel, poller, agent, spawned, pane, mail>>

ActionFails(w) ==
    /\ job[w].at = "action"
    /\ \/ Write(w, MarkFailed(row), Idle)
       \/ /\ Verify /\ job[w].who = "mediate"
          /\ Write(w, [row EXCEPT !.status = "blocked"], Idle)
    /\ UNCHANGED <<retries, endSeen, sentinel, poller, agent, spawned, pane, mail>>

\* maybeHandleActionStage, the action of a dispatched action stage
DispatchedActionSucceeds(w) ==
    /\ job[w].at = "dispatchAction"
    /\ LET r == [row EXCEPT !.status = "ready", !.handle = FALSE] IN
          Write(w, r, Mediate(r))
    /\ UNCHANGED <<retries, endSeen, sentinel, poller, agent, spawned, pane, mail>>

DispatchedActionFails(w) ==
    /\ job[w].at = "dispatchAction"
    /\ Write(w, Failed(row), Idle)
    /\ UNCHANGED <<retries, endSeen, sentinel, poller, agent, spawned, pane, mail>>

---------------------------------------------------------------------------
(* Agents, outside the conductor *)

Alive(i) == agent[i].state = "alive"

\* a launch returns in less time than an agent needs to start
Speaks(i, kind) ==
    /\ Alive(i)
    /\ \/ "slowLaunch" \in Faults
       \/ \A w \in Workers : job[w].at = "finalize" => job[w].agent # i
    /\ mail' = Append(mail, [from |-> i, kind |-> kind])

AgentSends(i) ==
    /\ Len(mail) < MaxMail
    /\ \E kind \in MayPrompt : Speaks(i, kind)
    /\ UNCHANGED <<row, retries, endSeen, sentinel, poller, job,
                   agent, spawned, pane>>

\* a clean exit fires SessionEnd; exec bash keeps the pane
AgentExits(i) ==
    /\ Speaks(i, "SessionEnd")
    /\ agent' = [agent EXCEPT ![i].state = "ended"]
    /\ UNCHANGED <<row, retries, endSeen, sentinel, poller, job, spawned, pane>>

\* mutant: the launcher writes no exit-code file
AgentCrashesUnseen(i) ==
    /\ "crash" \in Faults
    /\ Alive(i)
    /\ agent' = [agent EXCEPT ![i].state = "crashed"]
    /\ UNCHANGED <<row, retries, endSeen, sentinel, poller, job, spawned, pane, mail>>

\* a non-zero exit: a resumed conversation falls back to a fresh one, a
\* fresh one leaves the exit-code file, which nothing ever removes
AgentCrashes(i) ==
    /\ "crash" \in Faults
    /\ Alive(i)
    /\ IF agent[i].claude # i
       THEN agent' = [agent EXCEPT ![i].claude = i] /\ UNCHANGED sentinel
       ELSE agent' = [agent EXCEPT ![i].state = "crashed"] /\ sentinel' = TRUE
    /\ UNCHANGED <<row, retries, endSeen, poller, job, spawned, pane, mail>>

PaneLost ==
    /\ "pane" \in Faults
    /\ pane # 0
    /\ KillPane
    /\ UNCHANGED <<row, retries, endSeen, sentinel, poller, job, spawned, mail>>

FrameLost ==
    /\ "loss" \in Faults
    /\ \E n \in DOMAIN mail : mail' = RemoveAt(mail, n)
    /\ UNCHANGED <<row, retries, endSeen, sentinel, poller, job,
                   agent, spawned, pane>>

---------------------------------------------------------------------------
(* Hook frames: processHookPayload. Every handler is a chain of its own    *)
(* that runs to its first wait, on a free worker.                          *)

Free(w) == job[w].at = "idle"

\* w handles the frame f, of one of these kinds
Takes(w, f, kinds) ==
    /\ Free(w)
    /\ \E n \in DOMAIN mail :
          /\ n = 1 \/ "reorder" \in Faults
          /\ mail[n] = f /\ f.kind \in kinds
          /\ mail' = RemoveAt(mail, n)


\* hooks of another conversation than the row's are ignored
Stale(f) == row.claude # 0 /\ agent[f.from].claude # row.claude

\* mutant: the guard against late hooks is missing
UnlessNothing(r, status) == [r EXCEPT !.status = status]

\* a late hook must not move a terminal row to another status
UnlessTerminal(r, status) ==
    IF r.status \in Terminal \ {status} THEN r ELSE [r EXCEPT !.status = status]

\* mutant: one retry too many
FailOrRetryOnceMore(w, r, who) ==
    LET again == [r EXCEPT !.status = "ready", !.error = FALSE] IN
    IF r.stage \notin ActionStages /\ retries <= MaxRetries
    THEN /\ retries' = retries + 1
         /\ Write(w, again, Dispatch(again, who))
    ELSE Write(w, r, Idle) /\ UNCHANGED retries

\* the row r has failed: on_failure retry(n) makes it ready again and
\* dispatches it for who, else it stays failed
FailOrRetry(w, r, who) ==
    LET again == [r EXCEPT !.status = "ready", !.error = FALSE] IN
    IF r.stage \notin ActionStages /\ retries < MaxRetries
    THEN /\ retries' = retries + 1
         /\ Write(w, again, Dispatch(again, who))
    ELSE Write(w, r, Idle) /\ UNCHANGED retries

HookStale(w) ==
    /\ \E f \in Frame : Takes(w, f, Hooks) /\ Stale(f)
    /\ UNCHANGED <<row, retries, endSeen, sentinel, poller, job,
                   agent, spawned, pane>>

\* SessionStart, UserPromptSubmit
HookWorking(w) ==
    /\ \E f \in Frame : Takes(w, f, {"Working"}) /\ ~Stale(f)
    /\ Write(w, UnlessTerminal(row, "running"), Idle)
    /\ UNCHANGED <<retries, endSeen, sentinel, poller, agent, spawned, pane>>

\* permission_prompt, idle_prompt: after the terminal guard
HookNotification(w) ==
    /\ \E f \in Frame : Takes(w, f, {"Notification"}) /\ ~Stale(f)
    /\ Write(w, [row EXCEPT !.status = "waiting"], Idle)
    /\ UNCHANGED <<retries, endSeen, sentinel, poller, agent, spawned, pane>>

HookStopFailure(w) ==
    /\ \E f \in Frame : Takes(w, f, {"StopFailure"}) /\ ~Stale(f)
    /\ IF Manual(row)
       THEN Write(w, UnlessTerminal(row, "running"), Idle) /\ UNCHANGED retries
       ELSE IF row.status \in Terminal \ {"failed"}
       THEN UNCHANGED <<row, job, retries>>
       ELSE FailOrRetry(w, Failed(row), "hookRetry")
    /\ UNCHANGED <<endSeen, sentinel, poller, agent, spawned, pane>>

HookSessionEnd(w) ==
    /\ \E f \in Frame : Takes(w, f, {"SessionEnd"}) /\ ~Stale(f)
    /\ endSeen' = TRUE
    /\ \/ \* a manual stage stays with its user
          /\ Manual(row)
          /\ Write(w, UnlessTerminal(row, "running"), Idle)
          /\ UNCHANGED retries
       \/ \* the agent committed its work, or said there is none
          /\ ~Manual(row) /\ row.status = "running"
          /\ LET r == [row EXCEPT !.status = "ready"] IN Write(w, r, Mediate(r))
          /\ UNCHANGED retries
       \/ \* it did not
          /\ ~Manual(row) /\ row.status = "running"
          /\ FailOrRetry(w, Failed(row), "hookRetry")
       \/ \* somebody else already moved the row
          /\ ~Manual(row) /\ row.status # "running"
          /\ Write(w, UnlessTerminal(row, "ready"), Idle)
          /\ UNCHANGED retries
    /\ UNCHANGED <<sentinel, poller, agent, spawned, pane>>

---------------------------------------------------------------------------
(* Channel reports: handleReport, which checks neither agent nor stage     *)

ReportStale(w) ==
    /\ row.status \in Terminal
    /\ \E f \in Frame : Takes(w, f, Reports)
    /\ UNCHANGED <<row, retries, endSeen, sentinel, poller, job,
                   agent, spawned, pane>>

ReportCompleted(w) ==
    /\ row.status \notin Terminal
    /\ \E f \in Frame : Takes(w, f, {"completed"})
    /\ LET off == [row EXCEPT !.handle = FALSE] IN
          IF Manual(row)
          THEN Write(w, [off EXCEPT !.status = "blocked"], Idle)
          ELSE LET r == [off EXCEPT !.status = "ready", !.error = FALSE] IN
                  Write(w, r, Mediate(r))
    /\ UNCHANGED <<retries, endSeen, sentinel, poller, agent, spawned, pane>>

\* no commits for this stage: the report changes nothing
ReportRejected(w) ==
    /\ row.status \notin Terminal
    /\ \E f \in Frame : Takes(w, f, {"completed"})
    /\ UNCHANGED <<row, retries, endSeen, sentinel, poller, job,
                   agent, spawned, pane>>

ReportQuestion(w) ==
    /\ row.status \notin Terminal
    /\ \E f \in Frame : Takes(w, f, {"question"})
    /\ Write(w, [row EXCEPT !.status = "waiting"], Idle)
    /\ UNCHANGED <<retries, endSeen, sentinel, poller, agent, spawned, pane>>

ReportError(w) ==
    /\ row.status \notin Terminal
    /\ \E f \in Frame : Takes(w, f, {"error"})
    /\ FailOrRetry(w, Failed(row), "reportRetry")
    /\ UNCHANGED <<endSeen, sentinel, poller, agent, spawned, pane>>

ReportProgress(w) ==
    /\ row.status \notin Terminal
    /\ \E f \in Frame : Takes(w, f, {"progress"})
    /\ Write(w, IF row.status = "waiting"
                THEN [row EXCEPT !.status = "running"] ELSE row, Idle)
    /\ UNCHANGED <<retries, endSeen, sentinel, poller, agent, spawned, pane>>

---------------------------------------------------------------------------
(* The status poller                                                       *)

\* one tick at a time, unless a probe outlives the interval
MayTick == \/ "slowProbe" \in Faults
           \/ \A w \in Workers : job[w].at # "gone"

\* the poller stops and gives up a session that still runs
PollFails ==
    /\ poller /\ MayTick
    /\ poller' = FALSE
    /\ Update(IF row.status = "running"
              THEN [Failed(row) EXCEPT !.handle = FALSE] ELSE row)
    /\ UNCHANGED <<retries, endSeen, sentinel, job, agent, spawned, pane, mail>>

PollExitCode == sentinel /\ PollFails

\* three probes in a row that did not reach arkd
PollUnreachable == "arkd" \in Faults /\ ~sentinel /\ PollFails

\* the probe's answer "not_found"; any other answer changes nothing
PollPaneGone(w) ==
    /\ poller /\ MayTick
    /\ ~sentinel /\ pane = 0
    /\ Free(w)
    /\ Continue(w, Parked("gone", "none", 1))
    /\ UNCHANGED <<row, retries, endSeen, sentinel, poller,
                   agent, spawned, pane, mail>>

\* stop polling; a running session ends by the hooks seen so far
JudgeGone(w) ==
    /\ job[w].at = "gone"
    /\ poller' = FALSE
    /\ Continue(w, IF row.status # "running" THEN Idle
                   ELSE Parked("forensics",
                               IF endSeen THEN "completed" ELSE "failed", 1))
    /\ UNCHANGED <<row, retries, endSeen, sentinel, agent, spawned, pane, mail>>

WriteGone(w) ==
    /\ job[w].at = "forensics"
    /\ LET off == [row EXCEPT !.handle = FALSE] IN
          IF job[w].who = "completed"
          THEN LET r == [off EXCEPT !.status = "ready", !.error = FALSE] IN
                  Write(w, r, Mediate(r))
          ELSE Write(w, Failed(off), Idle)
    /\ UNCHANGED <<retries, endSeen, sentinel, poller, agent, spawned, pane, mail>>

---------------------------------------------------------------------------
(* The operator's RPCs                                                     *)

Calls(w, op) == op \in Operations /\ Free(w)

Untouched == UNCHANGED <<retries, endSeen, sentinel, poller,
                         agent, spawned, pane, mail>>

Stopped(r) == [r EXCEPT !.status = "stopped", !.error = FALSE, !.handle = FALSE]
Killed(r)  == [r EXCEPT !.status = "stopped", !.error = TRUE, !.handle = FALSE]
Archived(r) == [r EXCEPT !.status = "archived", !.handle = FALSE]

\* a row with a handle has its agent killed first
KillFirst(w, who, stage) ==
    row.handle /\ Write(w, row, Parked("killing", who, stage))

Stop(w) ==
    /\ Calls(w, "stop")
    /\ row.status \in {"stopped", "completed", "failed"} => row.handle
    /\ \/ KillFirst(w, "stop", 1)
       \/ ~row.handle /\ Write(w, Stopped(row), Idle)
    /\ Untouched

Kill(w) ==
    /\ Calls(w, "kill")
    /\ row.status \notin Terminal
    /\ \/ KillFirst(w, "kill", 1)
       \/ ~row.handle /\ Write(w, Killed(row), Idle)
    /\ Untouched

Archive(w) ==
    /\ Calls(w, "archive")
    /\ \/ KillFirst(w, "archive", 1)
       \/ ~row.handle /\ Write(w, Archived(row), Idle)
    /\ Untouched

Restore(w) ==
    /\ Calls(w, "restore")
    /\ row.status = "archived"
    /\ Write(w, [row EXCEPT !.status = "stopped"], Idle)
    /\ Untouched

\* the row resume() leaves, for the stage it chose before the kill
Resumed(who, stage) ==
    LET r == [row EXCEPT !.status = "ready", !.error = FALSE, !.handle = FALSE]
    IN IF who = "rewind" THEN [r EXCEPT !.stage = stage, !.claude = 0] ELSE r

\* by the chosen stage: the dispatcher, or kickActionStage, which looks again
ResumeRoute(r, stage) ==
    IF stage \notin ActionStages THEN Dispatch(r, "kick")
    ELSE IF r.stage \in ActionStages THEN Parked("action", "resume", r.stage)
    ELSE Idle

ResumeNow(w, who, stage) ==
    LET r == Resumed(who, stage) IN Write(w, r, ResumeRoute(r, stage))

\* resume, with or without rewindToStage
Resume(w) ==
    /\ Free(w)
    /\ row.status # "running"
    /\ \E stage \in Stages :
          LET who == IF stage = row.stage THEN "resume" ELSE "rewind" IN
          /\ \/ "rewind" \in Operations
             \/ "resume" \in Operations /\ who = "resume"
                /\ row.status # "completed"
          /\ \/ KillFirst(w, who, stage)
             \/ ~row.handle /\ ResumeNow(w, who, stage)
    /\ Untouched

\* stop() kills through arkd, the others through tmux, and stops the poller
KillAgent(w) ==
    /\ job[w].at = "killing"
    /\ \/ KillPane
       \/ /\ "arkd" \in Faults /\ job[w].who = "stop"
          /\ UNCHANGED <<agent, pane>>
    /\ poller' = (poller /\ job[w].who # "stop")
    /\ Continue(w, [job[w] EXCEPT !.at = "killed"])
    /\ UNCHANGED <<row, retries, endSeen, sentinel, spawned, mail>>

\* what the RPC does once the agent is dead, whatever the row says by then
AfterKill(w) ==
    /\ job[w].at = "killed"
    /\ CASE job[w].who = "stop"    -> Write(w, Stopped(row), Idle)
         [] job[w].who = "kill"    -> Write(w, Killed(row), Idle)
         [] job[w].who = "archive" -> Write(w, Archived(row), Idle)
         [] OTHER -> ResumeNow(w, job[w].who, job[w].stage)
    /\ UNCHANGED <<retries, endSeen, sentinel, poller, agent, spawned, pane, mail>>

Pause(w) ==
    /\ Calls(w, "pause")
    /\ Write(w, [row EXCEPT !.status = "blocked"], Idle)
    /\ Untouched

\* C-c to the pane, then waiting
Interrupt(w) ==
    /\ Calls(w, "interrupt")
    /\ row.status = "running"
    /\ Continue(w, Parked("keys", "interrupt", 1))
    /\ UNCHANGED row /\ Untouched

AfterInterrupt(w) ==
    /\ job[w].at = "keys"
    /\ Write(w, [row EXCEPT !.status = "waiting"], Idle)
    /\ Untouched

\* session/complete: ready, then a forced advance()
Complete(w) ==
    /\ Calls(w, "complete")
    /\ LET r == [row EXCEPT !.status = "ready", !.handle = FALSE] IN
          Write(w, r, Advance(r, "complete"))
    /\ Untouched

\* session/advance with force or without, and a review's approval
AdvanceStart(w) ==
    /\ \E who \in {"advance", "force"} :
          /\ Calls(w, who)
          /\ Continue(w, Advance(row, who))
    /\ UNCHANGED row /\ Untouched

\* a review sent back, up to on_reject.max_rejections times
Reject(w) ==
    /\ Calls(w, "reject")
    /\ GateOf[row.stage] \in {"manual", "review"}
    /\ \/ LET r == [row EXCEPT !.status = "ready", !.error = FALSE,
                               !.handle = FALSE, !.claude = 0] IN
             Write(w, r, Dispatch(r, "reject"))
       \/ Write(w, Failed(row), Idle)
    /\ Untouched

\* the soft delete keeps the status to come back to
Delete(w) ==
    /\ Calls(w, "delete")
    /\ Write(w, [row EXCEPT !.status = "deleting", !.saved = row.status], Idle)
    /\ Untouched

Undelete(w) ==
    /\ Calls(w, "undelete")
    /\ row.status = "deleting"
    /\ Write(w, [row EXCEPT !.status = row.saved], Idle)
    /\ Untouched

\* mutant: boot re-attaches no poller
RestartUnwatched ==
    /\ "restart" \in Operations
    /\ job' = [w \in Workers |-> Idle]
    /\ poller' = FALSE
    /\ UNCHANGED <<row, retries, endSeen, sentinel, agent, spawned, pane, mail>>

\* the conductor dies and boots: chains and intervals are lost, and only
\* running rows get a poller back
Restart ==
    /\ "restart" \in Operations
    /\ job' = [w \in Workers |-> Idle]
    /\ poller' = (row.status = "running" /\ row.handle)
    /\ UNCHANGED <<row, retries, endSeen, sentinel, agent, spawned, pane, mail>>

---------------------------------------------------------------------------
(* The next-state relation *)

DispatchStep(w) ==
    \/ LaunchFails(w) \/ LaunchKillsOld(w)
    \/ CreatePane(w) \/ CreateDuplicate(w)
    \/ Finalize(w) \/ FinalizeTooLate(w) \/ AbortLaunch(w)

HandoffStep(w) ==
    \/ VerifyPasses(w) \/ VerifyFails(w)
    \/ AdvanceStage(w) \/ CompleteFlow(w)
    \/ ActionSucceeds(w) \/ ActionFails(w)
    \/ DispatchedActionSucceeds(w) \/ DispatchedActionFails(w)

HookFrame(w) ==
    \/ HookStale(w) \/ HookWorking(w) \/ HookNotification(w)
    \/ HookStopFailure(w) \/ HookSessionEnd(w)

ReportFrame(w) ==
    \/ ReportStale(w) \/ ReportCompleted(w) \/ ReportRejected(w)
    \/ ReportQuestion(w) \/ ReportError(w) \/ ReportProgress(w)

PollStep(w) == PollPaneGone(w) \/ JudgeGone(w) \/ WriteGone(w)

OperatorStep(w) ==
    \/ Stop(w) \/ Kill(w) \/ Archive(w) \/ Restore(w)
    \/ Resume(w) \/ KillAgent(w) \/ AfterKill(w)
    \/ Pause(w) \/ Interrupt(w) \/ AfterInterrupt(w)
    \/ Complete(w) \/ AdvanceStart(w) \/ Reject(w)
    \/ Delete(w) \/ Undelete(w)

Step(w) ==
    \/ DispatchStep(w) \/ Watchdog(w) \/ HandoffStep(w)
    \/ HookFrame(w) \/ ReportFrame(w) \/ PollStep(w) \/ OperatorStep(w)

Next ==
    \/ \E w \in Workers : Step(w)
    \/ \E i \in Launched : AgentSends(i) \/ AgentExits(i) \/ AgentCrashes(i)
    \/ PaneLost \/ FrameLost \/ Restart
    \/ PollExitCode \/ PollUnreachable

Spec == Init /\ [][Next]_vars

\* what the conductor's event loop, timers and channel keep doing: every
\* wait of a chain ends, a frame that arrived is handled, the poller ticks
Fairness ==
    /\ \A w \in Workers :
          /\ WF_vars(DispatchStep(w)) /\ WF_vars(HandoffStep(w))
          /\ WF_vars(PollStep(w))
    /\ WF_vars(\E w \in Workers : HookFrame(w) \/ ReportFrame(w))
    /\ WF_vars(PollExitCode)

FairSpec == Spec /\ Fairness

---------------------------------------------------------------------------
(* Properties                                                              *)

\* A running session has a handle to probe, whatever writes raced (#435,
\* SessionRepository.update).
RunningHasHandle == row.status = "running" => row.handle

\* on_failure: retry(n) grants n retries to a session, however many
\* failures are reported at once (retryWithContext).
RetriesBounded == retries <= MaxRetries

\* At most one agent works on a session's worktree at any time: a launch
\* kills what bears the session's tmux name before it takes that name.
OneAgent == \A i, j \in Launched : Alive(i) /\ Alive(j) => i = j

\* A launch that the session overtook does not stay: once no launch is in
\* flight, whoever works in a running session's tmux session was launched
\* for the stage the row names (finalizeLaunch's guard and its kill).
Launching(w) == job[w].at \in {"prepare", "create", "finalize"}
AgentOfStage ==
    row.status = "running" /\ pane # 0
        => \/ agent[pane].stage = row.stage
           \/ \E w \in Workers : Launching(w) \/ job[w].at = "abort"

\* Somebody looks after a running session: its poller is registered, or a
\* chain that will move it on is in flight (post-launch.ts, advance.ts).
RunningIsWatched ==
    row.status = "running" => poller \/ \E w \in Workers : ~Free(w)

\* A ready session is not forgotten: a dispatch or a hand-off is in flight.
Driving(w) ==
    job[w].at \notin {"idle", "gone", "killing", "killed", "keys"}
ReadyIsDriven == row.status = "ready" => \E w \in Workers : Driving(w)

\* A stage behind a manual or a review gate is left, and a flow that ends in
\* one completes, only by an operator who forces, completes or rewinds: no
\* late, repeated or overtaking frame, no verdict of the poller, no retry and
\* no stale chain gets the session past it (evaluateGate, advanceLinear).
HumanGates == {"manual", "review"}
Overrides == {"force", "complete", "rewind"}
GatesHold ==
    Operations \cap Overrides = {} =>
        /\ \A s \in Stages : s < row.stage => GateOf[s] \notin HumanGates
        /\ row.status = "completed" => GateOf[LastStage] \notin HumanGates

\* The flow's promise, with the stages that agents ended read off the agents.
Pipeline == INSTANCE StagePipeline WITH
    AgentStages <- Stages \ ActionStages,
    stage <- row.stage,
    ended <- {agent[i].stage : i \in {j \in Launched : agent[j].state = "ended"}},
    outcome <- IF row.status \in {"completed", "failed"}
               THEN row.status ELSE "open"
ImplementsPipeline == Pipeline!PipelineSpec

\* A session always comes to rest again: over, or waiting for a human, or
\* running with an agent that works.
Settled ==
    \/ row.status \in Terminal \cup {"waiting", "blocked"}
    \/ row.status = "running" /\ \E i \in Launched : Alive(i)
AlwaysSettles == []<>Settled

\* Behind AlwaysSettles, first half: what will settle a session is at hand. A
\* ready one has a chain in flight; one that still runs without an agent has
\* its end before it, as the exit code its poller reads or as the SessionEnd
\* that closes the channel and that the row's conversation vouches for.
EndAtHand ==
    \/ poller /\ sentinel
    \/ mail # <<>> /\ Last(mail).kind = "SessionEnd" /\ ~Stale(Last(mail))
SettlingIsUnderWay ==
    ~Settled => \/ row.status = "ready" /\ \E w \in Workers : Driving(w)
                \/ row.status = "running" /\ EndAtHand

\* Second half: no step from one unsettled state to another is in vain. The
\* session enters a later stage, or comes closer to the end of this one, or
\* there is less to hear: a frame, an exit code, a tick of the poller.
Waiting == [at \in Waits |->
              CASE at = "prepare" -> 7 [] at = "create" -> 6 [] at = "finalize" -> 5
                [] at \in {"action", "dispatchAction"} -> 3
                [] at = "verify" -> 2 [] at = "advance" -> 1 [] OTHER -> 0]
WaitsLeft ==
    IF row.status = "running" THEN 4 ELSE Max({Waiting[job[w].at] : w \in Workers})
NewsLeft ==
    Len(mail) + (IF poller THEN 1 ELSE 0) + (IF sentinel THEN 0 ELSE 1)
GoesOn ==
    \/ row'.stage > row.stage
    \/ /\ row'.stage = row.stage
       /\ \/ WaitsLeft' < WaitsLeft
          \/ WaitsLeft' = WaitsLeft /\ NewsLeft' < NewsLeft
SettlingGoesOn == [][~Settled /\ ~Settled' => GoesOn]_vars

\* Of the hooks, only a retry and a notification move a terminal row to another
\* kind of status (hook-status.ts; see HooksKeepTerminal).
OnlyNotificationsReopen ==
    [][\A w \in Workers : HookFrame(w) /\ row.status \in Terminal
          => row'.status \in Terminal \/ retries' # retries \/ HookNotification(w)]_vars

\* A session that is over and has no chain to finish stays over, in the same
\* status, at the same stage and without a new agent, whatever frames arrive,
\* panes vanish or pollers tick, until an operator, a retry or a notification.
Over == row.status \in Terminal /\ \A w \in Workers : job[w].at \in {"idle", "gone"}
OverIsOver ==
    [][Over => \/ /\ Over' /\ spawned' = spawned
                  /\ row'.status = row.status /\ row'.stage = row.stage
               \/ retries' # retries
               \/ \E w \in Workers : OperatorStep(w) \/ HookNotification(w)]_vars

\* An end that is on the channel or in the log is the end of an agent: the
\* poller calls no session completed of which every agent was killed or
\* crashed (status-poller.ts; see GoneIsJudgedRightly).
SomeEnded == \E i \in Launched : agent[i].state = "ended"
EndsAreReal ==
    /\ \A n \in DOMAIN mail :
          mail[n].kind = "SessionEnd" => agent[mail[n].from].state = "ended"
    /\ endSeen => SomeEnded
    /\ \A w \in Workers :
          job[w].at = "forensics" /\ job[w].who = "completed" => SomeEnded

---------------------------------------------------------------------------
(* What comments in the code promise and the code does not keep           *)

\* post-launch.ts: a session stopped during its launch must not be stomped
\* with "running" when the launcher returns.
StopIsKept ==
    [][\A w \in Workers : Finalize(w) => row.status # "stopped"]_vars

\* hook-status.ts: the only way out of a terminal status is a retry or a
\* restore; no late hook may flip the row.
HooksKeepTerminal ==
    [][\A w \in Workers : HookFrame(w) /\ row.status \in Terminal
          => row'.status \in Terminal \/ retries' # retries]_vars

\* status-poller.ts: when the pane is gone the completion hook tells an
\* agent that ended from one that was killed.
GoneIsJudgedRightly ==
    [][\A w \in Workers : JudgeGone(w) /\ job'[w].who = "completed"
          => \E i \in Launched : agent[i].state = "ended"
                                /\ agent[i].stage = row.stage]_vars

\* channel/hook-status.ts: the hooks ignored as stale are those of an
\* earlier stage's agent, never those of the agent the session now runs.
OnlyEarlierHooksAreStale ==
    row.status = "running"
        => \A n \in DOMAIN mail :
              mail[n].kind \in Hooks /\ mail[n].from = pane /\ Stale(mail[n])
                  => agent[pane].stage # row.stage
=============================================================================
