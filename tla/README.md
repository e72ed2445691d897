# Ark, specified

TLA+ models of Ark, the orchestration layer for coding agents in this
repository, with the TLC runs that check them and the TLAPS proofs of what
matters most. The source is the reference: every definition of a model is
translated from the code, and the header of a definition says which code it is
about. Paths below are relative to `src/packages/`.

## 1. The system

Ark takes a task, picks a *flow* (a list or a graph of stages) and drives an
agent through each stage. In local mode one *conductor* process (Bun,
TypeScript) owns a SQLite database, launches agents, hears from them over a
channel, and decides after each signal whether the stage is over, has failed, is
to be retried, or waits for a human. In hosted mode a Temporal workflow walks the
stages instead and reaches the session through activities of a worker.

| Component | State it keeps | Operations | Correct when |
|---|---|---|---|
| Dispatch and launch (`core/services/dispatch/*`, `session-dispatch-listeners.ts`) | the call chain in flight; the row | dispatch, launch, finalizeLaunch, watchdog | one agent at a time, for the stage the session is at; no ready session without a dispatch |
| Agent launcher and tmux (`core/executors/claude-code.ts`, `core/claude/launcher.ts`, `core/infra/tmux.ts`) | the pane named `ark-<id>`, the exit-code file | kill-then-create, resume or fall back to a fresh conversation, write the sentinel | the name identifies one live agent; a crash can be noticed |
| Stage hand-off and gates (`session-hooks/handoff.ts`, `stage-advance/advance.ts`, `flow.ts`) | stage and status of the row | verify, evaluate the gate, advance, complete, chain actions, retry | stages in order; human gates hold; retries are bounded |
| Graph flows (`flow-graph.ts`, `stage-advance/advance.ts`, `repositories/flow-state.ts`) | completed and skipped stages | resolveNextStages, computeSkippedStages, advanceGraph | joins wait for their live predecessors, no stage runs twice or is run and skipped, a walk ends |
| for_each loops (`dispatch/foreach/*`, `app.ts`) | the children, a checkpoint in the row | spawn, wait, checkpoint, budget, reconcile at boot | completes only with a child completed for each item, once, within its budget |
| Hook ingestion (`channel/hook-status.ts`, `session-hooks/hook-status.ts`) | status; the event log | SessionStart, UserPromptSubmit, Notification, StopFailure, SessionEnd | stale and late hooks do no harm |
| Channel reports (`session-hooks/report.ts`, `channel/report-pipeline.ts`) | status, handle | completed, question, error, progress | a report moves only a live session, and a retried one is dispatched |
| Status poller (`core/executors/status-poller.ts`) | one interval per session | tick: sentinel, probe, verdict, forensic capture | every running session is watched; a vanished agent is judged rightly |
| Operator's RPCs (`core/services/session*.ts`, `session/{terminate,suspend,review}.ts`, `conductor/handlers/session.ts`) | the row | stop, kill, archive, restore, resume, rewind, pause, interrupt, complete, advance, approve, reject, delete, undelete | what the operator asked for stays so |
| Session repository (`core/repositories/session.ts`) | the sessions table | update, softDelete, undelete | a running row has a handle |
| Conductor boot (`core/app.ts`) | - | re-attach pollers to running sessions, reconcile loops | nothing that ran is left unwatched |
| arkd channel bus (`arkd/server/channel-bus.ts`) | ring buffer, subscribers | publish, open, close | no envelope lost or delivered to two readers |
| claude-agent runtime (`core/runtimes/claude-agent/launch.ts`, `arkd/server/routes/process.ts`) | the queue of prompts, the query under way | feed, interrupt, complete_stage, Stop hook, resume, exit | a steer is heard; exit code 0 means the stage is done |
| Temporal orchestration (`core/temporal/*`) | the history of a workflow, its signals | walk the stages, activities with retries, gates, fan-out, cleanup | the workflow closes, agrees with the row, leaves nothing of its session behind |
| Compute lifecycle (`services/compute-lifecycle.ts`, `dispatch/{compute-resolve,target-resolver}.ts`, `compute/k8s.ts`) | compute rows, pods, the handle in a session's config | clone, provision, collect | a session's agent runs where the row says; nobody's compute is pulled away |
| Model router (`router/*`) | a circuit breaker per provider | route, retry, fall back, cascade, stream | a request fails only when no model is left; breakers count rightly |
| Fork and join, idempotency ledger, warm pool, hosted control plane, triggers, UI and CLI | - | - | not modelled, see section 8 |

### How the components interact

1. `session/start` writes a `ready` row and a listener kicks `dispatch()`.
2. `dispatch()` runs an action stage itself, or the loop of a for_each stage, or
   has the executor create the tmux session `ark-<id>`; `finalizeLaunch` then
   writes `running`, the handle, and starts the poller. For a remote compute it
   first clones the template, provisions a pod and keeps the pod's handle in the
   session's config; stops and completions collect rows nobody refers to.
3. The agent's hooks are curls to arkd, its reports come from an MCP channel
   server; both land on arkd's `hooks` channel. The conductor reads the channel
   and starts a handler per frame **without awaiting it**. A claude-agent posts
   its hooks itself and hears steers on arkd's `user-input` channel.
4. `SessionEnd` and a `completed` report make the row `ready` and call
   `mediateStageHandoff`: verification scripts, gate, `advance()`, and the next
   dispatch. `StopFailure`, an `error` report and a `SessionEnd` without commits
   fail the row and may retry it.
5. The poller looks for the exit-code file and the pane (or arkd's process
   status); the verdict on a pane that is gone comes from the event log.
6. The operator's RPCs, the dispatch watchdog and a restart of the conductor
   come at any point in between.
7. Under Temporal, steps 2 and 4 are activities. The workflow reads the end of a
   stage off the same row that hooks, poller and operator write.
8. Agents may send their model requests through the router, which knows nothing
   of sessions but a name.

### What is hard here

Not the code of a handler, but that each reads the row, waits for a subprocess
or an HTTP call, and writes the row back, while other chains do the same. All
the hazards of section `hazards` of `PROJECT.json` come from these sources:
writes after a wait (stop during a launch, forensics, verification, PLAN.md, the
provisioning of a pod); frames that are late, lost, repeated or overtaken; a tmux
name shared by successive agents; evidence that outlives what it is evidence of
(the `SessionEnd` event, the exit-code file, a status of `ready`, a Stop hook of an
interrupted turn); recovery that covers one status only; work that is summed up
from what is left of an interrupted loop; and references that are counted in
one page of a listing.

## 2. Modules

| Module | What it is |
|---|---|
| `SessionLifecycle` | one session of a linear flow, from creation to its end |
| `StagePipeline` | the abstract promise of a flow that nobody interferes with, implemented by `SessionLifecycle` and by `SessionWorkflow` |
| `MCSessionLifecycle` | model values, gates and symmetry for TLC |
| `FlowGraph` | one session walking a graph of stages, plain and conditional edges |
| `ForEachLoop` | one session whose stage is a loop over items, each in a child session |
| `MCFlows` | the two walks in one run: the graphs, the lists and who interferes |
| `SessionWorkflow` | one session under Temporal: workflow, activities, worker, hooks, operator |
| `MCSessionWorkflow` | its flow and its sets of faults |
| `ChannelBus` | one channel of arkd, with publishers and readers that come and die |
| `AgentRuntime` | the process of a claude-agent, with the SDK as its environment |
| `Router` | the model router: breakers, retries, fallback, cascade, streams |
| `ComputeLifecycle` | compute rows, pods and the sessions that pin them |
| `MCServices` | extends the four parts above, beside one another, one active in a behaviour |
| `MCRouter`, `MCComputeLifecycle` | the registry, the sessions and their dispatches for runs of those two alone |
| `SessionLifecycleProofs`, `FlowGraphProofs`, `ForEachLoopProofs`, `SessionWorkflowProofs`, `ChannelBusProofs`, `AgentRuntimeProofs`, `RouterProofs`, `ComputeLifecycleProofs` | theorems about the module of the name, for all constants its assumptions allow; `FlowGraphProofs` and `RouterProofs` also about the compositions `MCFlows` and `MCServices` |

Modules that are put side by side carry their own prefix in the names that every
module has (`LoopSpec`, `RouterTypeOK`, `ComputeNext`), so that `MCFlows` and
`MCServices` extend them and a run checks the very definitions the theorems are
about.

### State of `SessionLifecycle`

| Variable | In the code |
|---|---|
| `row` | the session's row: `status`, `stage`, `handle` (`session_id` set?), `error` (`error` set?), `claude` (`claude_session_id`; a conversation is named by the agent that opened it), `saved` (the status soft delete keeps) |
| `retries` | `retry_with_context` events in the log |
| `endSeen` | a `SessionEnd` hook_status event in the log |
| `sentinel` | the exit-code file in the session's tracks directory |
| `poller` | an interval in `StatusPollerRegistry` |
| `job` | what every call chain in flight waits for, with what it read before |
| `agent`, `spawned` | agents launched so far: state, stage, conversation |
| `pane` | the agent in the tmux session `ark-<id>`, 0 if there is none |
| `mail` | frames on the hooks channel that the conductor has not yet handled |

### Grain of atomicity

The conductor is one JavaScript process over the synchronous `bun:sqlite`
driver, so code between two *real* waits (a subprocess such as tmux, git or a
verify script, an HTTP call, a file) is not interleaved with other handlers. One
action is one such stretch. (Hosted mode uses Postgres; of it only the durable
workflow is modelled, whose steps are activities.) A chain that waits is a `job` record:

    prepare -> create -> finalize (-> abort)      a launch, around tmux kill and new
    verify -> advance -> (action | prepare ...)   a hand-off
    dispatchAction                                an action stage that was dispatched
    gone -> forensics                             the poller's verdict
    killing -> killed, keys                       an RPC around its kill or its C-c

The waits follow the code: `advance` is the capture of PLAN.md between reading
the stage and writing the next one, `forensics` the pane capture before the
verdict is written, `killed` the point at which stop, kill, archive and resume
write the row over whatever it has become.

### Actions and code

| Actions | Code |
|---|---|
| `LaunchFails`, `LaunchKillsOld`, `CreatePane`, `CreateDuplicate` | `claudeCodeExecutor.launch`, `createSessionAsync` (kill the name, then create it) |
| `Finalize`, `FinalizeTooLate`, `AbortLaunch` | `finalizeLaunch`, its guard and its kill |
| `Watchdog` | the five-minute race in `kickDispatch`; the dispatch runs on as an orphan |
| `VerifyPasses`, `VerifyFails`, `AdvanceStage`, `CompleteFlow`, `ActionSucceeds`, `ActionFails`, `DispatchedAction*` | `HandoffMediator.mediate`, `advanceImpl`, `advanceLinear`, `markFlowCompleted`, `maybeHandleActionStage` |
| `Hook*` | `processHookPayload` and `HookStatusApplier.apply` |
| `Report*` | `handleReport` and `ReportApplier.apply` |
| `PollExitCode`, `PollUnreachable`, `PollPaneGone`, `JudgeGone`, `WriteGone` | `startStatusPoller`, `_tickForTest`, `_handleStatus` |
| `Stop` ... `Undelete`, `KillAgent`, `AfterKill` | the RPCs; those that kill do so in two steps |
| `Restart` | a crash and `_rehydrateRunningSessions` |
| `AgentSends`, `AgentExits`, `AgentCrashes`, `PaneLost`, `FrameLost` | the environment: agents, their hooks, tmux, arkd |

Whether an agent committed, a verify script passes or an action succeeds is a
nondeterministic choice. `Update` is the repository's `update()` with its guard:
a write that would leave a running row without a handle throws, so the row stays.

### `FlowGraph`

| Variable | In the code |
|---|---|
| `flow` | the edges, as `parseGraphFlow` leaves them: plain, conditional, and those of the conditional ones that hold on an empty config |
| `stage`, `status`, `readied` | the row; `stage_ready` events per stage |
| `done`, `skipped` | the `flow_state` row |
| `start`, `attended` | where the walk began; whether an operator or a crash interferes |
| `advance` | what each advance in flight read before the capture of PLAN.md |

`AdvanceStart` is `advanceImpl` up to the capture; `AdvanceNext`, `AdvanceWaits` and
`AdvanceCompletesFlow` are the three ways `advanceGraph` ends after it (its remaining
awaits are on the local database, so it is one stretch). `Crash` leaves a prefix
of its writes. `Rewind` and `Resume` are `SessionService.resume` with and without
another stage: the first deletes the flow state. `Reach` is what the breadth-first
searches of `computeSkippedStages` visit, stated as the least closed set, so that
it can be proved about without recursion.

### `ForEachLoop`

`loop` is the dispatch in flight (`dispatchForEachSpawn`): where it waits, the index,
the indices it counts as done and the children it spawned. `cp` is the checkpoint
in the config, `child` the children in the order they were created, `kicked` the
watchdog of `kickDispatch`, `boot` the dispatch that boot owes the session, `poller`
the status poller that finds no process behind the synthetic handle. `Enter` rebuilds
the state from the children (`buildCompletedStateFromChildren`); `Spawn`,
`Launched`, `ChildCompleted`, `ChildFailed`, `BudgetExceeded`, `Finish` are one
iteration; `VerifyPasses` and `CompleteFlow` the hand-off behind the last; `Restart`
and `Reconcile` are a death of the conductor and
`_reconcileForEachSessions`.

### `SessionWorkflow`

| Variable | In the code |
|---|---|
| `wf` | the workflow: the activity it awaits, its attempt, the stage, the result, the two signal flags |
| `row` | the sessions row, written by activities, hooks, poller and RPCs |
| `call` | each attempt of a dispatch in the worker, which no timeout stops |
| `agent`, `mail`, `poller` | agents spawned, their frames on the way, the worker's poller |
| `pod` | the compute the config names, and one whose name was lost |
| `branch` | the child workflow of each subtask of a fan-out, and whether it has a compute |
| `approvals`, `stopping` | approve signals sent; a stop between its kill and its write |
| `world` | the faults this behaviour may show |

An activity that answers within milliseconds is one action together with what the
workflow does until its next await; it is attempted twice (`AttemptFails`). The
dispatch is launch, or action, and `finalize`, as in local mode, and runs beside
the workflow's heartbeat timeout (`HeartbeatLost`). `WorkerDies` drops the calls and
the poller; the boot of the worker attaches one to a row that is `running` with a
handle, and to no other.

A fan-out starts a child workflow per subtask (`branch`, `stage-workflow.ts`), which
provisions a compute for a session of its own, dispatches it and awaits its end;
hooks and rows of those sessions are abstracted to that end. `Join` is the
`Promise.all`: once all have answered the stage has completed or failed;
`JoinThrows`: as soon as one throws, which a dispatch that answers `ok: false` does too
(`dispatch-stage.ts:77`), nothing catches it, so the workflow throws and leaves the row at
`fanning_out`. Branches go on while their parent is open, also in its `finally`, and
are terminated when it closes. Nothing in the code creates the rows of the subtasks'
sessions; one that is missing makes the provisioning throw (fault `throw`).

Only the frames of a claude-agent are modelled here: SessionStart, SessionEnd and
StopFailure. A Notification of claude-code that is handled late (finding 2) would set
a row that is over to `waiting` under Temporal as well, and with it break `StopHolds`
and `EndsAgree`: both are claims about claude-agent sessions.

### `AgentRuntime`

`run` is the outer loop of `runAgentSdkLaunch` with its flags and exit code, `queue`
the `PromptQueue`, `kept` the steers kept back for the next query, `sdk` the query
under way. `Interrupted`, `Aborted`, `Results`, `Told` are `drainStream` and what the
loop does behind it; `FireInterrupt` is the intervention watcher; `CompleteStage`,
`StopHookAllows`, `StopHookBlocks` the MCP tool and the Stop hook. `SdkAsks`,
`AgentReads`, `SdkStops`, `SdkInterrupted`, `SdkAborted`, `SdkFails` and `Compacts` are the
environment: what the code assumes of the SDK is that a query asks for messages
in order, that an interrupt is followed by at most one synthetic result, and that a
query that is over asks no more.

### `Router`

`breaker` is `CircuitBreaker` per provider, `req` the stack of the handler of each
request. `Registry` gives each model its provider, tier, quality and cost, so a
provider may own several models of several tiers. `ArriveBound` and `ArriveRouted`
are the passthrough of a named model and the routed one; `Candidates` are the models
a request may go over (the named one; the selected one and those of its tier that
others own; for a cascade all of `listModels()`, so that one provider may be asked
several times), `UpNext` whose turn it is, `TurnOf` that turn. `Transient`, `Refused`,
`Headers` are how a fetch ends (with the two retry loops; the outer one judges the
text of the error, so any refusal may look retryable), `Chunk`, `BodyBreaks`, `Answered`
the body, `Leave` a client that goes away, `HandlerReturned` makes room for another
request. Every await is the end of a step. Failures beyond the threshold are one
value, exactly, because only a success lowers the count and it sets it to zero.

### `ComputeLifecycle`

`rows` are the concrete compute rows, `ses` the sessions with `compute_name`, the
handle and the saved status in their config, `origin` the row each pod was
provisioned from, `agents` the processes alive in pods, `disp` and `stopping` what
dispatches and stops under way have read. `ResolveStage` is `resolveForStage` with
its clone, `ReadSession`, `ReachPod`, `PersistHandle` are `resolveTargetAndHandle`
with its stale copy of the session (a session may have several dispatches at once:
`Slots`), `Collect` in `StopEnds` and `Complete` is
`garbageCollectComputeIfTemplate` over one page of `listAcrossTenants`. The flow
itself is the business of `SessionLifecycle`: here stages end and begin in the
order they like. `raced` is history: the sessions of which a dispatch read the config
while another, that had found no pod in it, was yet to write its own. It guards no
action; two properties except these sessions.

### `ChannelBus`

Every handler of the bus runs without a wait, so a handler is one action:
`Publish` is `enqueue()` with its eviction of zombies, `Open`, `OpenHalfClosed` and
`OpenThrows` are `open()` by what `send()` does while the ring is drained, `Close` is
the close callback; `Dies` is the environment. `channel` is chosen in `Init`, so that
one run covers the broadcast and the single-reader channel. Sockets are numbered
in the order they attach, which is the order of the Set `subscribers`; envelopes
in the order they are published. `got[s]` is what `send()` to socket `s` accepted: what
a TCP connection loses after that is not the bus's to know, and is the fault
`loss` of `SessionLifecycle`. That frames overtake each other is not the bus's
doing either, as `InOrderOnce` shows: it comes from handlers that run concurrently.

### The abstract specification

`StagePipeline` knows a stage, the stages whose agent came to its own end, and
an outcome. Stages are left one by one; an agent's stage only after its agent
ended; an outcome once reached is final. Both orchestrators implement it.
`SessionLifecycle!Pipeline` maps the row and the agents onto it; the mapping reads
`completed` and `failed` as outcomes, so it is checked where nobody may retry a
failure, in `unattended`. `SessionWorkflow!Pipeline` maps the workflow's stage and
result onto it, for every behaviour in which the worker lives and is prompt.

## 3. Runs

Every run is exhaustive within its bounds; the longest take three to four minutes
each. `CHECK_DEADLOCK FALSE` everywhere: what is over, or waits for a human, rests.

| Run | Question | Bounds | States |
|---|---|---|---|
| `unattended` | Does a flow settle, is it never forgotten, and does it keep the pipeline's promise, with failing launches and crashing agents but no interference? Fairness, no symmetry. | 3 stages, the second an action, verification, 3 launches, 2 frames | 249 |
| `frames` | Are type, handle, retries and one agent safe against every frame of two agents under every fault: lost, late, reordered, slow probes, slow launches, watchdog, lost panes, unreachable arkd? | 2 stages, review gate at the end, 1 retry, 2 launches, 1 frame, 2 chains | 781,538 |
| `operators` | Do gates hold, and does the agent in the pane work for the stage of the row, against eleven RPCs racing each other, a launch and its agent? | 2 stages, 2 launches, 2 chains | 2,394,603 |
| `overrides` | Forced advances, completions, rewinds and restarts, with crashes and lost panes: is nobody unwatched? | 3 stages, a manual gate on the action stage | 762,811 |
| `flows` | Does a walk over any graph, and a loop over any list, do everything once, in order, and end? | every graph of 4 stages with plain edges in any direction, or conditional ones forward and through a loop, or depends_on; 2 advances; lists of up to 3 items, one restart | 1,222,689 |
| `workflow` | Does the durable workflow keep gates, stops and the pipeline's promise, agree with the row, clean up and close? | 6 stages: two agents, an action, a fan-out of two branches, two gates; none, one or two of ten faults | 1,728,982 |
| `services` | Do bus, agent process, router and computes keep what sessions rely on? | both channels, 3 sockets, 4 envelopes; 2 steers, 2 interrupts, 1 compaction, 1 failure; a stream and completions over 3 models of 2 providers and 2 tiers, no retry; 2 sessions, 2 dispatches of one of them at once, 2 pods, pages of 1 | 1,453,351 |
| `stop_during_launch` | violation: `StopIsKept` | | |
| `late_notification` | violation: `HooksKeepTerminal` | | |
| `pane_gone_later` | violation: `GoneIsJudgedRightly` | | |
| `resumed_agent` | violation: `OnlyEarlierHooksAreStale` | | |
| `bus_drain` | violation: `DrainLosesNothing` | | |

`flows` and `services` put modules that share no state side by side: a behaviour
is one of one part, the others rest at a first state, so the states are those of
the parts added up, not multiplied. Three configurations explore a part alone and
further: `Agent.cfg` (three steers, one more than interrupts; 1,147,973 states; also
where steers are kept and in which order they are fed: `SteersAreHeld`,
`SteersFedInOrder`, `FedOnce`),
`Router.cfg` (1,256,334; with a retry; also `OneTurnEach`, that no model's chunks are sent twice, that
the two loops multiply the budget and no more, and that headers come) and
`Compute.cfg` (12,063,730 states, five minutes; each session has a dispatch and one
has two; also `OwnPod`, that no pod is shared, and `OneInstance`, that a session
keeps its pod).

Five more check what the liveness properties rest on and what holds where a promise
does not, before it is proved (section 5):

| Configuration | Checks | States |
|---|---|---|
| `FlowProgress.cfg` (`MCFlows`) | `WalkShrinks`, `LoopShrinks`, `RunningLoopIsCarried`, within the bounds of `flows` | 1,222,689 |
| `WorkflowProgress.cfg` (`MCSessionWorkflow`) | `WorkflowGoesForward`, `DispatchIsAwaited`, within those of `workflow` | 1,728,982 |
| `Settling.cfg` (`MCSessionLifecycle`) | `SettlingIsUnderWay`, `SettlingGoesOn`: the world of `unattended` without lost frames; with them the first is violated | 560 |
| `Over.cfg` (`MCSessionLifecycle`) | `OverIsOver`, `OnlyNotificationsReopen`, `EndsAreReal`: late and reordered hooks, retries, stop and resume | 254,405 |
| `BusStores.cfg` (`ChannelBus`) | `OnlyHalfClosedLoses` | 232,415 |

### The properties

- `TypeOK`, `TypesOK`: types; also that no chain walks off the end of the flow,
  since a stage outside `1..LastStage` is not of its type.
- `RunningHasHandle`: the invariant of #435.
- `RetriesBounded`: retries are counted in the log, failures arrive in bursts.
- `OneAgent`: two agents never share a worktree, although launches overlap and
  share one tmux name.
- `AgentOfStage`: once no launch is in flight, the agent in a running session's
  pane works for the stage the row names.
- `RunningIsWatched`, `ReadyIsDriven`: a running session has a poller or a chain
  (any chain that waits counts in the run; the proof, section 5, tells which ones
  end the session), a ready one has a chain that dispatches or hands it off.
- `GatesHold`: without force, complete or rewind, no stage behind a manual or a
  review gate is passed and no flow that ends in one completes.
- `AlwaysSettles`: again and again the session is over, waits for a human, or
  runs with an agent that works.
- `ImplementsPipeline`: refinement of `StagePipeline`.
- `JoinsWait` (graphs): also with racing advances, rewinds and crashes. `RunsOnce`,
  `SkippedIsDead`, `TreesNeverWait`, `WalkEnds`: when nobody interferes, no stage
  runs twice even in a cycle, nothing skipped lies ahead, a flow without joins
  never waits, the walk ends.
- `LoopIsComplete`, `NoRework`, `OneAtATime`, `BudgetHolds`, `RunningLoopEnds`
  (loops): whatever timed out, died, was stopped or taken up again.
- `GatesNeedApproval`, `EndsAgree`, `StopHolds`, `NothingLeft`, `AlwaysCloses`
  (workflow): one approval per gate; row and workflow agree on the end; a stop
  sticks; no compute or agent of the session is left, nor a branch at work, when the
  workflow did not throw; the workflow closes or waits for a human.
- `InOrderOnce`, `NothingWaits`, `AckIsGuarantee` (bus): order and single delivery
  over replacement of readers; nothing is buffered beside a subscriber; a reader
  misses nothing from its ack on.
- `SteersGoToFresh`, `SteersArrive`, `ZeroMeansDone`, `NoFalseFailure` (agent): a
  steer goes to a query that began after it came, and gets there; exit code 0
  means the stage is done; an interrupt is not told as a failure.
- `BreakerCounts`, `FailsLast` (router): closed means fewer failures than the
  threshold, in any order of answers; a request fails when no model is left.
- `ListedKeepRows`, `RunsWhereItSays` (computes): no session that a page of the
  listing shows loses its row while it may go on; a running session's agents are in
  the pod its config names, whatever stops, deletes, resumes and second dispatches
  came before, except where two dispatches both read a config without a pod.

### Why the bounds are enough

`Workers = 2` chains is what every race in the list of hazards needs: one chain
that waits and one that overtakes it (the environment, the poller's tick and the
agents are not chains). `MaxSpawns = 2` gives an old and a new agent; the frames
run was also explored with three (6.5 million states) without a difference.
`MaxMail` bounds only prompts at the same time; a handled frame makes room for
the next, so a session meets any number of frames one after another, and the
parked handlers provide the overlap. Two stages give a stage to be left and a
stage to be reached; three are used where an action stage lies between. The
workers are interchangeable (`Init` and every action quantify over them), so the
invariant runs use them as a symmetry set; the run with liveness does not.
`Operations` and `Faults` name what is in play in a run, so that each run stays
small enough to be exhaustive.

Graphs: four stages hold a diamond, a join behind a skipped branch and a loop
back; the theorems of section 5 take any number. Operators and crashes meet the
graphs declared by depends_on and the shipped conditional flow. Loops: a budget
cap of 2 binds within three items and one of 9 does not; one death of the
conductor leaves one child behind, and boot may find it working or done; an
operator meets lists of at most two items (`LoopKept`). Workflow: a fault meets
each other one, except that slow launches come alone and a dying worker meets a
crash or a stop only: these two multiply the calls in flight. Agent: two steers
are as many as interrupts are allowed, so the second may find the cap reached.
Router: with a threshold of two, with a retry (`Router.cfg`) or none (`services`),
a breaker opens within a request, between two, or by a late failure; three models
give a provider two of them, in two tiers, so a cascade comes back to it and a
fallback must not; a request that ended is followed by another under the same
name, so their number is not bounded.
Computes: a page of the listing holds one of two sessions, so one is beyond it; one
session has two dispatches under way, which is what the race of the stale write
needs; the other may be deleted, while it is ready (`DeletedWhen`; in other statuses
the state space with two dispatches exceeds what is exhaustive, and the theorems of
section 5 take any). Workflow: two branches let one throw, fail or be late beside
the other.

### Fairness

`SessionLifecycle!FairSpec` assumes what the conductor's event loop does: a wait
of a launch, a hand-off or a poller tick ends (each is a subprocess, a timer or a
call with a timeout), a frame that arrived is handled, and the poller's interval
fires. No fairness is assumed of agents, of operators, or of any fault: an agent
may work for ever, and `Settled` counts that as settled. In the same way an advance
over a graph returns from its capture; the waits of a loop end, that for a child by
its timeout; Temporal gives every activity a worker, calls in the worker return,
frames and verdicts are handled; the outer loop of an agent and its posts go on, a
query asks for messages, its agent reads them and stops a turn when told to. The
router gets none in `services`: `fetchWithTimeout` ends every fetch (`Router.cfg`), but
nothing ends a body.

### Where a property is not claimed

The scope of a run says where a property was checked; these are the places where
the code does not give it, so the run leaves them out:

- `ReadyIsDriven` not with `restart` (boot looks at running rows only), not with
  Notification or question frames (a `SessionEnd` of a waiting session makes it
  ready and nobody advances it), not with a hook's retry whose launch fails.
- `RunningIsWatched` not with delete and undelete (no poller is re-attached; a
  second delete saves `deleting` as the status to return to), nor where a frame
  makes a waiting session run again: one that was interrupted and then lost its
  pane has no poller any more when a late UserPromptSubmit sets it to running.
- `AgentOfStage` not with restarts (an agent whose `finalizeLaunch` was lost), nor
  where the stage goes back, by a rewind or by a stale advance: with three chains,
  one that read stage 1 waits for its PLAN.md while stages 2 and 3 are launched,
  then writes the row back to stage 2, and the late `finalizeLaunch` of stage 2
  makes it run with the agent of stage 3 in the pane.
- `AlwaysSettles` not with lost SessionEnd hooks (`exec bash` keeps the pane).
- Graphs: where two stages are ready at once, the first is entered and the others
  are left to nobody, so their join waits for ever (`advance.ts:115`;
  `docs/flows-reference.md:163` says they run in parallel). A rewind deletes the flow
  state, so a join behind it may wait. What is skipped is computed on an empty config.
- Loops: a loop may end without its session: the watchdog marks a long kicked one
  failed, a death between the removal of the checkpoint and the hand-off leaves it
  running, boot does not look at a refused dispatch (`Forgotten`). A stop does not
  stop the loop, and a hand-off to a for_each stage behind another stage is not
  dispatched as a loop; the model starts at the loop.
- Workflow: with slow launches the dispatch is attempted again beside the first
  and the stage is launched twice; `ready` written early by a hook is overwritten by
  `running`, and the stage times out after an hour; late frames and verdicts end the
  next stage, or overwrite a closed session; a worker that dies between
  provisioning and the write of the handle leaves a compute nobody knows; the
  compute each branch of a fan-out provisions (`stage-workflow.ts:19`) is destroyed by
  nobody, since the `finally` of the parent destroys the session's only
  (`session-workflow.ts:256`), so `NothingLeft` speaks of the session's own; the
  outright termination of a workflow skips its cleanup; a branch that throws, also
  one whose dispatch is refused, leaves the row at `fanning_out`; the hour of the
  await (`session-workflow.ts:224`) is also what Temporal grants the activity
  (`:25`), so `AwaitTimesOut` answers `failed` or fails the attempt; a flow without stages
  fails (`LoadNoStages`), an inline one, which the worker's store does not know, throws
  (`LoadUnknown`); gated stages never run an agent; a stop between two stages, when the
  row reads `completed`, is refused, and one that does not reach Temporal goes on as
  if it had.
- Agent: messages a query asked for ahead and had not shown its agent are lost
  with it when it is interrupted, so an interrupt before the first turn loses the
  task; after the last permitted interrupt the process exits with 0.
- Router: a body that stalls holds its request for ever; the answer of a cascade
  that was not confident enough is paid for and dropped; a client that leaves
  counts for and against nobody.
- Computes: with more sessions than one page of the listing, an older one loses
  its row. Two dispatches of one session that both read its config before one wrote
  a pod provision two, and the session's agents are in both; nothing in the code
  excludes that (a resume beside a launch in flight), so the properties except the
  sessions it happened to, and `TwoPods.cfg` shows it.

## 4. Findings

Five comments in the code promise what the code does not keep; each violation run
ends in a short trace.

1. `core/services/dispatch/post-launch.ts:82`: the guard names sessions that were
   stopped, its condition tests only the stage and `completed`. A session stopped
   during its launch becomes `running`.
2. `core/services/session-hooks/hook-status.ts:150`: the terminal guard runs
   before the Notification branch, which then writes `waiting` over it.
3. `core/executors/status-poller.ts:345`: "the completion hook" may be that of an
   earlier stage; a killed agent is then taken for a finished one.
4. `core/services/channel/hook-status.ts:75`: hooks are stale when their
   conversation is not the row's; but a launch that resumes stores the id of the
   conversation it did *not* open, so every hook of the live agent is ignored.
5. `arkd/server/channel-bus.ts:196`: what a socket does not take during the drain is
   to be re-queued; but `send()` on a half-closed socket returns 0 and does not
   throw (lines 112-115 of the same file), and the drain ignores the answer.

### Promises that are not kept

Beside the findings of section 4, these statements of comments and documents are
in the modules as formulas, each with a configuration in which TLC refutes it in
a short trace. They are not among the properties above.

| Formula | Configuration | The statement, and what happens |
|---|---|---|
| `WindowCoversSteer` | `Signals.cfg` | `launch.ts:834`: the window stays open until the agent has answered the steer; the Stop hook of the interrupted turn closes it |
| `EndHearsAll` | `Signals.cfg` | `mcp-stage-control.ts:64`: the end is told when every message was processed; a steer that comes behind the Stop hook was not |
| `AbortIsFinal` | `Signals.cfg` | `launch.ts:502`: a signal ends the loop; one that meets an interrupted query is forgotten |
| `ErrorExits` | `ErrorResult.cfg` | `launch.ts:7`: exit 1 on an error result; while the stage is not completed any result starts another query |
| `NoReplay` | `Replay.cfg` | `router/providers.ts:150`: output is not replayed; the fallback of the dispatcher does so |
| `RetryBudget` | `RetryBudget.cfg` | `router/retry.ts:8`: retries are additional attempts; the loop around the loop squares them for streams |
| `OneProbe` | `HalfOpen.cfg` | `docs/router.html`: one test request is let through a half-open breaker; any number is |
| `BookedOnServer` | `Booking.cfg` | `docs/router.html`: costs are attributed by provider; what a fallback or a cascade answered is booked on the one that was selected |
| `PodsReleased`, `StopKills` | `PodLeak.cfg` | `compute-lifecycle.ts:65`, `terminate.ts:40`: the pod is released, the agent killed; both go through the row, which never learns the pod's name |
| `NeverPulled` | `RefLimit.cfg` | `compute-lifecycle.ts:47`: every session that may go on is counted; only those of the first page are |
| `ResumeDispatches` | `ResumeStopped.cfg` | `docs/cli-reference.md:239`: a stopped session is resumed; the stop has collected the row it names |
| `StageOnItsCompute` | `Handoff.cfg` | `types/flow.ts:51`: a stage on another compute is handed over; the handle in the config wins |
| `UndeleteRestores`, `UndoKeepsCompute` | `LostConfig.cfg`, `UndoCompute.cfg` | `terminate.ts:241`: a delete can be undone; a dispatch overwrites the saved status, and a stop that was under way collects the compute |
| `ClonesPruned` | `ClonePrune.cfg` | `compute-resolve.ts:12`: the clone goes when its session ends; not when it fails, or is killed |
| `SameCompute` | `TwoPods.cfg` | `target-resolver.ts:7`: a dispatch resumes against the same provisioned compute; of two at once, each provisions one |
| `NoComputeLeft` | `BranchCompute.cfg` | `session-workflow.ts:246`: the compute is reaped on every terminal path; those of a fan-out's branches are on none |

## 5. Proofs

Every invariant and every action property that a run checks of a module is proved
for all constants the assumption of that module allows, under the hypotheses
named below; and both refinements of `StagePipeline`. In each module one inductive
invariant is shown to hold initially and to survive each action; the theorems
follow from it. TLC checked each invariant on small instances first.

Three groups go beyond what a run of the table checks. The safety *behind* each
liveness property is proved: that what has to happen next is at hand, and that each
step leaves less to do. What remains for TLC is the last temporal step, from
fairness to "eventually". What does hold *in place of* a promise the code does not
keep is proved. And the compositions `MCFlows` and `MCServices` are proved to
implement each of their parts, so that what is proved of a part holds of the
composition a run explores.

### `SessionLifecycle`

Any number of stages, chains, agents and frames, any gates, retries, operations
and faults allowed by `ConstantsAssumption`:

| Theorem | Property | Argument |
|---|---|---|
| `TypeCorrect` | `TypeOK` | inductive as it stands, one step per action |
| `HandleOfRunning` | `RunningHasHandle` | every write goes through `Update` |
| `RetriesAreBounded` | `RetriesBounded` | only `FailOrRetry` counts, under its guard |
| `OneAgentAtATime` | `OneAgent` | strengthened by `OnlyPaneLives`: whoever lives bears the tmux name; a launch takes the name only when it is free |
| `HumanGatesHold` | `GatesHold` | strengthened by `GatesInv` |
| `RunningSessionsAreWatched` | `RunningIsWatched` | `Watched`; under `NobodyRevives` |
| `AgentsWorkForTheirStage` | `AgentOfStage` | `PlaceInv`; without restarts, while the stage only grows (`GoesForward`) |
| `ReadySessionsAreDriven` | `ReadyIsDriven` | `CalmInv`; under `Unattended`, without human gates |
| `SessionIsThePipeline` | `ImplementsPipeline` | `CalmInv`; under `Unattended` |
| `UnsettledSessionsGoOn` | `SettlingGoesOn`: no step between unsettled states is in vain | `CalmOwn`; under `Unattended` |
| `SettlingIsAtHand` | `SettlingIsUnderWay` | `CalmOwn`, `EndHeard`; under `Unattended` and `Heeded` |
| `SessionsStayOver` | `OverIsOver` | types, action by action |
| `OnlyANotificationReopens` | `OnlyNotificationsReopen`, in place of `HooksKeepTerminal` | types, hook by hook |
| `EndsAreThoseOfAgents` | `EndsAreReal` | `EndsInv`: with the types and that an agent not yet spawned has done nothing (`Unlaunched`) |
| `OneStageIsJudgedRightly` | `GoneIsJudgedRightly` | `EndsInv`; for `LastStage = 1`, where finding 3 cannot happen |

`GatesHold` alone is not inductive: a chain parked before `AdvanceStage` carries
the stage it read, and would take the row past a gate in one step. `GatesInv` adds
that the row, and every chain parked at the advance, has only ungated stages
behind it (for the chain: including its own, so its gate had opened); that no
killing chain is a rewind; and that a status saved by a soft delete is
`completed` only if the last gate is not a human's. It is conditioned on
`Operations \cap Overrides = {}`, as the property is. Lemmas about `Update`,
`KillPane` and the records of parked chains are stated once and cited.

`Watched` is stronger than the property: who looks after a running session without
a poller is a chain that writes its end (`forensics`, or a stop behind its kill),
and such a chain writes it in its next step. `NobodyRevives` excludes what section
3 lists: undelete, and the frames that set a waiting session to running (those
of a user's own manual stage among them).

`PlaceInv` speaks of launches: each names an agent of its own stage, no launch is
ahead of the row, and whoever bears the tmux name and has no launch left works for
the stage of a row with a handle, and for none behind a launch that has yet to
end. The last is why a late `finalizeLaunch` finds `MovedOn`. It needs the row's
stage to grow, which is the hypothesis `GoesForward` (an action property of the
behaviour), and no more: rewinds that do not go back are allowed.

`Unattended` is the run of that name, generalised: no operations, no retries, no
frames but that an agent works, failed or exited, in order and behind the launch;
any flow, gates and verification; failing launches, crashes, lost frames, an
arkd out of reach and slow probes. `CalmInv` says that there is at most one chain,
that of the row's stage, and what it stands on: a hand-off on an action or on an
agent that has ended, a launch on a stage without an agent so far, its end on
the agent it spawned. Agents work, crash and are heard only while the row runs
or has failed, or their launch has not returned (`Quiet`); a `SessionEnd` is the last
frame there is (`LastWords`); agents belong to ever later stages and only the latest
may work (`Crew`). Each step is then a stutter or one of the four of the pipeline.

The same world settles. `Own` adds to `Calm` whose conversation the row names, which
is what keeps an agent's last word from being ignored as stale. `UnsettledSessionsGoOn`
orders the unsettled states by the stage, the waits the chain has before it
(`WaitsLeft`) and what is left to hear (`NewsLeft`), and shows each step to go down. With
`EndHeard`, where the end of the latest agent is while the row runs, there is always
such a step to wait for: a chain, a `SessionEnd` the conductor will heed, or an exit
code before a poller. `Heeded` excludes lost frames, with which a session whose
`SessionEnd` is lost keeps running (section 3), and human gates.

### `FlowGraph` and `ForEachLoop`

`FlowGraphProofs` proves the walk over graphs for any number of stages and
advances and any flows `FlowsAssumption` allows:

| Theorem | Property | Argument |
|---|---|---|
| `FlowTypeCorrect` | its `TypeOK` | inductive as it stands |
| `WalksShrink` | `WalkShrinks`, the safety behind `WalkEnds` | `WalkInv`: an advance begins at a stage that is not done, and completes it |
| `JoinsDoWait` | `JoinsWait` | inductive with the types: `done` and `skipped` only grow, except in a rewind, which sets `start` |
| `StagesRunOnce`, `SkippedStaysDead`, `TreesDoNotWait` | `RunsOnce`, `SkippedIsDead`, `TreesNeverWait` | from one invariant, `WalkInv` |

`WalkInv` is `TypeOK`, `JoinsWait`, `SkippedIsDead` and `Alone`: when nobody
interferes, at most one advance is in flight and it is of the stage the row is
at; what was entered once is done or is that stage, which is not done while it
is ready; and a done stage has its predecessors done or skipped. `Reach` is the
least closed set that holds its seeds, so its monotony and closure follow from
the definition, where an iterated search would need an induction the provers
cannot do.

`ForEachLoopProofs` proves the loop for lists of any length, any budget and any
number of deaths of the conductor:

| Theorem | Property | Argument |
|---|---|---|
| `LoopTypesHold` | `LoopTypeOK` | a part of `LoopInv` |
| `CompletedMeansEveryItem` | `LoopIsComplete` | `Walked`: what was skipped or walked over without a failure has a completed child |
| `ChildrenOneByOne` | `OneAtATime` | `FewAlive`: a death leaves one child behind, a dispatch has one of its own |
| `CompletedStaysCompleted` | `NoRework` | `InOrder`: under `stop`, an item is begun when all before it are completed |
| `BudgetIsKept` | `BudgetHolds` | the children a dispatch counts are the completed ones of its own (`Paid`) |
| `RunningLoopsAreCarried` | `RunningLoopIsCarried`, behind `RunningLoopEnds` | with the checkpoint (`Checkpointed`): who has one is dispatched, or will be by boot |
| `LoopsShrink` | `LoopShrinks`, behind the same | each head, launch and wait leaves fewer (`LoopStepsLeft`); only a restart begins anew |

`LoopInv` also ties the checkpoint to the dispatch (`Checkpointed`: one begins with
nothing, or with a checkpoint; without a death, all children are its own) and the
loop's index to the last child (`AtLast`).

`FlowGraphProofs` ends with `MCFlows`: `EachWalkIsItself` (`EitherSpec` implies the
specifications of both walks) and `WalksHaveTheirTypes` (`TypesOK`).

### `SessionWorkflow`

For every flow of at least one stage and every set of faults:

| Theorem | Property | Argument |
|---|---|---|
| `WorkflowTypesHold` | `TypeOK` | `TypeInv`: with the results each activity may carry |
| `StoppedStaysStopped` | `StopHolds` | whoever might still write is under way, which the property excludes |
| `EveryGateIsApproved` | `GatesNeedApproval` | `GateInv`: gates passed, the one being passed and the flag cost no more than there were approvals |
| `NothingIsLeft` | `NothingLeft`: no compute and no agent of the session; no branch at work when the workflow did not throw | `LeftInv`: an agent lives on compute that is there (`LiveOnPod`), a closed workflow has destroyed it (`Destroyed`); and `BranchInv` |
| `EndsDoAgree` | `EndsAgree` | `EndInv`: a call under way is awaited by its attempt (`Awaited`), and from the conclusion on the row says the result (`EndsKept`) |
| `WorkflowIsThePipeline` | `ImplementsPipeline`: a fan-out is left only when all its branches completed | `CalmInv` and `BranchInv`, step by step |
| `WorkflowsGoForward` | `WorkflowGoesForward`, the safety behind `AlwaysCloses` | from the types: every change of place raises `Progress`, which is bounded |
| `DispatchesAreAwaited` | `DispatchIsAwaited`, behind the same | `AwaitInv`: no dispatch was begun beyond where the workflow is (`CallsBehind`), so one that is taken up is new |

Its `CalmInv` holds for behaviours whose worker lives and is prompt; it fits what
is called to the kind of the stage, gives a stage one agent and none before its
launch, and has the stages behind the workflow ended. `StageNow`, `EndedNow` and
`OutcomeNow` name the refinement mapping. `BranchInv` is about fan-outs, under every
fault: a branch is at work only while its parent waits for it, was terminated, or
has thrown over one (`Owned`), and a fan-out that is left, or about to be with
`completed`, has every branch completed (`Gathered`). The computes of branches are in no
theorem: `NoComputeLeft`, which section 4 lists, is false of them.

### The services

`ChannelBusProofs` proves the invariants of the bus for any number of sockets and
envelopes (`BusTypeCorrect`, `ReadersInOrderOnce`, `NothingWaitsForReaders`,
`AckGuarantees`) from one inductive invariant, `BusInv`. It adds three facts: what
was accepted was published before what waits (`OldBeforeWaiting`, or draining
would break the order), a socket that has not attached has nothing (`Unattached`), and
an acknowledged reader stays subscribed while it lives (`AckedSubscribe`, or
publishing could pass it by). `NothingWaits` is part of the induction: without it,
a direct delivery could overtake what waits. The run `services` checks the same
formulas of the same module. `OnlyAHalfClosedDrainLoses` is what holds in place of
`DrainLosesNothing`: finding 5 is the only way an envelope is lost.

`AgentRuntimeProofs`, for any number of steers, interrupts, failures and
compactions (`RuntimeTypesHold`, `SteersReachFreshQueries`, `ZeroIsDone`,
`InterruptsAreNoFailures`, and `TheEndIsFinal`: after SessionEnd the process goes on
only for a steer that interrupted that query). `RuntimeInv` dates every steer:
those kept back came during the query under way, those pending before it
(`Steered`); the flag of an interrupt lives as long as its query (`Flagged`); a query
succeeds only behind complete_stage with nothing pending (`Stops`). Behind
`SteersArrive` stand `SteersAreHeldOnce` (until it is fed, a steer is in one place),
`SteersKeepTheirOrder` and `SteersAreFedOnce`, from a second invariant, `SteerInv`, of
what is kept back and what is pending.

`RouterProofs`, for any number of requests, any registry of models and providers, and
any retries
(`RouterTypesHold`, `BreakersCount`, `RequestsFailLast`; beyond the runs'
properties `TurnsAreTakenOnce`, `NoProviderReplays` and `BudgetIsSquared`, the bound
that the two retry loops together do keep). `TurnsAreTakenOnce` does not say that a
provider is asked once, which is false of cascades and of fallbacks with two models
of one provider: no *model* has two turns, and the provider of the selected model
gets none as its own fallback, which is what the filter of `dispatch.ts:53` is for.
`RouterInv` has an invariant of each
breaker, which every method of the class preserves, so the order of answers does
not matter; and one of each request (`FrameInv`): who is to be asked, was asked
or was passed over makes up the candidates (`Accounts`), and no model is asked twice,
nor one that is no candidate (`TakesTurns`). The module ends with `MCServices`: `EachPartIsItself` (`PartsSpec` implies
the specifications of the four parts) and `PartsHaveTheirTypes` (`TypesOK`).

`ComputeLifecycleProofs`, for any number of sessions, of pods and of dispatches of
one session at once, and for pages of any size, without a hypothesis:

| Theorem | Property | Argument |
|---|---|---|
| `ComputeTypesHold` | `ComputeTypeOK` | |
| `PodsAreOwn` | `OwnPod`: no two sessions share a pod | `PodInv` |
| `AgentsRunWhereItSays` | `RunsWhereItSays` | `SingleInv` |
| `InstancesAreKept` | `OneInstance` | `SingleInv` |
| `RowsAreNotPulled` | `ListedKeepRows` | from the types: who is listed is counted |

`PodInv` says that a pod has one session that names it, in its config, in a
dispatch or by an agent (`OneHolder`). `SingleInv` adds `InStep`: until two dispatches of
a session race, what its dispatches have read is still so, one of them at most is to
write a first handle, and its agents are in its pod. So a second dispatch does no
harm by itself: one that reads the config behind the write finds the pod there. What
the code does not ensure is in the properties, not in an assumption: they except the
sessions two of whose dispatches raced, and those beyond the page. Without the
exceptions they are `SameCompute` and `NeverPulled`, violated in section 4.

### Only model-checked

- The last step of liveness under fairness (`AlwaysSettles`, `WalkEnds`,
  `RunningLoopEnds`, `AlwaysCloses`, `SteersArrive`): that a step which stays enabled is
  taken needs ENABLED, and that a measure which always falls reaches its least value
  needs an induction over data; both are beyond the prover. The measures, and that
  something is always at hand, are proved where the tables say so.
- The five findings, and the promises of section 4: they are counterexamples.
- What recursive definitions compute for every input (induction over data). No
  module with a theorem declares one: `Reach` is the least closed set, and
  sequences of models or frames are reasoned about by their elements.

## 6. Mutants

Each property of a passing run has a mutant in `PROJECT.json`: an operator beside
the original that changes it as a plausible bug would (a dropped guard, a missing
poller, an off-by-one). Under the mutant the run's own configuration finds the
property violated.

## 7. Plan

The model is complete to the extent of section 8; what the runs check of safety is
proved. What is left:

1. `SessionLifecycle`: the theorems under `Unattended` for `MaxRetries > 0`. `Calm` would
   have to say whose frames are still in the mail when an agent is launched again:
   a retry gives a stage a second agent, and the `SessionEnd` of the first may be
   on the channel behind it.
2. `AgentOfStage` with a hypothesis on the constants in place of `GoesForward`. No
   weak one is known: two chains, an operator's `advance` and three stages are
   enough for a stale advance to take the row back (section 3).
3. Promises of section 4 of which no weaker form is stated yet: `ClonesPruned`,
   `StageOnItsCompute`, `BookedOnServer`.

## 8. Not modelled, and why

- Within the modelled components: `on_outcome` routing and termination conditions,
  `topologicalSort` and `validateDAG` (used by the editor only), inline mode of
  for_each and the resolution of its list, the hosted branch of dispatch, hard
  delete under a launch, `claim`, usage recording, worktree and secret cleanup
  (they touch no state a property reads), the reconnecting stream of the arkd
  consumer (abstracted to loss and reordering of frames), and probe results other
  than "not found" of executors that do not run in tmux. Under Temporal: retries by
  `on_failure`, the timeout of the whole workflow, a refused start; a for_each stage
  is not supported there.
- Idempotency ledger: one table and one function. Two callers at once both run the
  body; the only caller that passes a key is an activity no workflow calls.
- Fork, join and local fan-out: a child carries its parent's stage into the flow
  `bare`, and nothing calls `checkAutoJoin` when it ends; an operator joins. The
  fan-out of the durable workflow is modelled.
- Warm pool: nothing but its tests constructs it.
- Hosted control plane: nothing calls `incrementSessions`, so the scheduler's
  capacity is never used up and there is no limit to state a property about.
- Router: classifier, policies and formats of the adapters (pure functions on
  text), the TensorZero dispatcher, statistics.
- Computes: EC2, firecracker and local kinds, secrets, tunnels, snapshots, the
  commands that manage computes. They are calls of external services in a
  fixed order and keep no state of their own.
- Triggers, web UI and CLI: matching, or presentation over the RPCs.

## 9. Running it

    tlc -workers 4 -config Unattended.cfg MCSessionLifecycle.tla   # Frames, Operators, Overrides
    tlc -workers 4 -config Flows.cfg MCFlows.tla
    tlc -workers 4 -config Workflow.cfg MCSessionWorkflow.tla      # BranchCompute
    tlc -workers 4 -config Services.cfg MCServices.tla
    tlc -config StopDuringLaunch.cfg MCSessionLifecycle.tla        # LateNotification, PaneGoneLater, ResumedAgent
    tlc -config BusDrain.cfg ChannelBus.tla                        # BusStores
    tlc -workers 4 -config FlowProgress.cfg MCFlows.tla
    tlc -workers 4 -config WorkflowProgress.cfg MCSessionWorkflow.tla
    tlc -workers 4 -config Over.cfg MCSessionLifecycle.tla         # Settling
    tlc -config Agent.cfg AgentRuntime.tla                         # ErrorResult; Signals with -continue
    tlc -config Router.cfg MCRouter.tla                            # Replay, RetryBudget, HalfOpen, Booking
    tlc -workers 4 -config Compute.cfg MCComputeLifecycle.tla      # the others of section 4; PodLeak with -continue
    tlapm SessionLifecycleProofs.tla                               # and the other modules named *Proofs
