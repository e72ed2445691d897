------------------------ MODULE SessionLifecycleProofs ------------------------
(***************************************************************************)
(* Safety of SessionLifecycle for every flow, every set of operations and  *)
(* faults, and any number of call chains, agents and frames.  Part by      *)
(* part: the types; the handle of a running row; the retries; the one      *)
(* agent; the human gates; who watches a running session; whose stage its  *)
(* agent works for; and, of a session nobody interferes with, that it is   *)
(* driven on and that its steps are those of StagePipeline.                *)
(***************************************************************************)
EXTENDS SessionLifecycle, SequenceTheorems, TLAPS

(* Types *)

LEMMA IdleType == Idle \in Job
BY ConstantsAssumption DEF Idle, Job, Waits, Callers, Stages

LEMMA ParkedType ==
    ASSUME NEW at \in Waits, NEW who \in Callers, NEW stage \in Stages
    PROVE  Parked(at, who, stage) \in Job
BY IdleType DEF Parked, Job

LEMMA DispatchType ==
    ASSUME NEW r \in Row, NEW who \in Callers
    PROVE  Dispatch(r, who) \in Job
<1>1. r.stage \in Stages /\ r.claude \in 0..MaxSpawns
  BY DEF Row
<1>2. Parked("dispatchAction", who, r.stage) \in Job
  BY <1>1, ParkedType DEF Waits
<1>3. Parked("prepare", who, r.stage) \in Job
  BY <1>1, ParkedType DEF Waits
<1> QED
  BY <1>1, <1>2, <1>3 DEF Dispatch, Job

LEMMA AdvanceType ==
    ASSUME NEW r \in Row, NEW who \in Callers
    PROVE  Advance(r, who) \in Job
<1>1. r.stage \in Stages
  BY DEF Row
<1>2. Parked("advance", who, r.stage) \in Job
  BY <1>1, ParkedType DEF Waits
<1> QED
  BY <1>2, IdleType DEF Advance

LEMMA MediateType ==
    ASSUME NEW r \in Row
    PROVE  Mediate(r) \in Job
<1>1. r.stage \in Stages /\ "mediate" \in Callers
  BY DEF Row, Callers
<1>2. Parked("verify", "mediate", r.stage) \in Job
  BY <1>1, ParkedType DEF Waits
<1> QED
  BY <1>1, <1>2, AdvanceType DEF Mediate

LEMMA FailedType ==
    ASSUME NEW r \in Row
    PROVE  Failed(r) \in Row /\ MarkFailed(r) \in Row
BY DEF Failed, MarkFailed, Row, Statuses

LEMMA WriteType ==
    ASSUME TypeOK, NEW w \in Workers, NEW r \in Row, NEW j \in Job, Write(w, r, j)
    PROVE  row' \in Row /\ job' \in [Workers -> Job]
BY DEF TypeOK, Write, Update, Continue

LEMMA ContinueType ==
    ASSUME TypeOK, NEW w \in Workers, NEW j \in Job, Continue(w, j)
    PROVE  job' \in [Workers -> Job]
BY DEF TypeOK, Continue

LEMMA DispatchFailsType ==
    ASSUME TypeOK, NEW w \in Workers, DispatchFails(w)
    PROVE  row' \in Row /\ job' \in [Workers -> Job]
<1>1. row \in Row
  BY DEF TypeOK
<1>2. PICK r \in Row : Write(w, r, Idle)
  BY <1>1, FailedType DEF DispatchFails
<1> QED
  BY <1>2, IdleType, WriteType

LEMMA KillPaneType ==
    ASSUME TypeOK, KillPane
    PROVE  pane' \in 0..spawned /\ agent' \in [Launched -> Agent]
<1>1. spawned \in Nat /\ pane' = 0
  BY ConstantsAssumption DEF TypeOK, KillPane
<1>2. CASE pane # 0 /\ agent[pane].state = "alive"
  <2>1. pane \in Launched
    BY <1>2, ConstantsAssumption DEF TypeOK, Launched
  <2>2. agent' = [agent EXCEPT ![pane].state = "killed"]
    BY <1>2 DEF KillPane
  <2>3. agent \in [Launched -> Agent] /\ agent[pane] \in Agent
    BY <2>1 DEF TypeOK
  <2>4. [agent[pane] EXCEPT !.state = "killed"] \in Agent
    BY <2>3 DEF Agent
  <2> QED
    BY <1>1, <2>1, <2>2, <2>3, <2>4
<1>3. CASE ~(pane # 0 /\ agent[pane].state = "alive")
  BY <1>1, <1>3 DEF KillPane, TypeOK
<1> QED
  BY <1>2, <1>3

LEMMA JobType ==
    ASSUME TypeOK, NEW w \in Workers, NEW at \in Waits, NEW who \in Callers
    PROVE  /\ [job[w] EXCEPT !.at = at] \in Job
           /\ [job[w] EXCEPT !.who = who] \in Job
BY DEF TypeOK, Job

LEMMA JobFieldsType ==
    ASSUME TypeOK, NEW w \in Workers
    PROVE  /\ job[w].at \in Waits /\ job[w].who \in Callers
           /\ job[w].stage \in Stages
           /\ job[w].claude \in 0..MaxSpawns /\ job[w].agent \in 0..MaxSpawns
BY DEF TypeOK, Job

LEMMA DispatchStepType ==
    ASSUME TypeOK, NEW w \in Workers, DispatchStep(w)
    PROVE  TypeOK'
<1>1. CASE LaunchFails(w)
  BY <1>1, DispatchFailsType DEF LaunchFails, TypeOK
<1>2. CASE LaunchKillsOld(w)
  <2>1. [job[w] EXCEPT !.at = "create"] \in Job
    BY JobType DEF Waits, Callers
  <2> QED
    BY <1>2, <2>1, ContinueType, KillPaneType DEF LaunchKillsOld, TypeOK
<1>3. CASE CreatePane(w)
  <2> DEFINE new == spawned + 1
  <2>1. new \in Launched /\ new \in 0..new /\ new \in 0..MaxSpawns
    BY <1>3, ConstantsAssumption DEF CreatePane, TypeOK, Launched
  <2>2. [job[w] EXCEPT !.at = "finalize", !.agent = new] \in Job
    BY <2>1 DEF TypeOK, Job, Waits
  <2>3. job' \in [Workers -> Job]
    BY <1>3, <2>2, ContinueType DEF CreatePane
  <2>4. [state |-> "alive", stage |-> job[w].stage,
         claude |-> IF job[w].claude = 0 THEN new ELSE job[w].claude] \in Agent
    BY <2>1, JobFieldsType DEF Agent
  <2>5. agent' \in [Launched -> Agent]
    BY <1>3, <2>1, <2>4 DEF CreatePane, TypeOK
  <2> QED
    BY <1>3, <2>1, <2>3, <2>5 DEF CreatePane, TypeOK
<1>4. CASE CreateDuplicate(w)
  BY <1>4, DispatchFailsType DEF CreateDuplicate, TypeOK
<1>5. FinalizeRow(w) \in Row
  BY JobFieldsType DEF FinalizeRow, TypeOK, Row
<1>6. CASE Finalize(w)
  <2>1. [FinalizeRow(w) EXCEPT !.status = "running", !.handle = TRUE] \in Row
    BY <1>5 DEF Row, Statuses
  <2> QED
    BY <1>6, <2>1, IdleType, WriteType DEF Finalize, TypeOK
<1>7. CASE FinalizeTooLate(w)
  <2>1. [job[w] EXCEPT !.at = "abort"] \in Job
    BY JobType DEF Waits, Callers
  <2> QED
    BY <1>5, <1>7, <2>1, WriteType DEF FinalizeTooLate, TypeOK
<1>8. CASE AbortLaunch(w)
  BY <1>8, DispatchFailsType, KillPaneType DEF AbortLaunch, TypeOK
<1> QED
  BY <1>1, <1>2, <1>3, <1>4, <1>6, <1>7, <1>8 DEF DispatchStep

LEMMA WatchdogType ==
    ASSUME TypeOK, NEW w \in Workers, Watchdog(w)
    PROVE  TypeOK'
<1>1. MarkFailed(row) \in Row
  BY FailedType DEF TypeOK
<1>2. [job[w] EXCEPT !.who = "orphan"] \in Job
  BY JobType DEF Waits, Callers
<1> QED
  BY <1>1, <1>2, WriteType DEF Watchdog, TypeOK

LEMMA HandoffStepType ==
    ASSUME TypeOK, NEW w \in Workers, HandoffStep(w)
    PROVE  TypeOK'
<1>1. row \in Row /\ "mediate" \in Callers
  BY DEF TypeOK, Callers
<1>2. CASE VerifyPasses(w)
  <2>1. Advance(row, "mediate") \in Job
    BY <1>1, AdvanceType
  <2> QED
    BY <1>2, <2>1, ContinueType DEF VerifyPasses, TypeOK
<1>3. CASE VerifyFails(w)
  <2>1. [row EXCEPT !.status = "blocked"] \in Row
    BY <1>1 DEF Row, Statuses
  <2> QED
    BY <1>3, <2>1, IdleType, WriteType DEF VerifyFails, TypeOK
<1>4. CASE AdvanceStage(w)
  <2> DEFINE r == NextStage(w)
             j == IF job[w].who # "mediate" THEN Idle
                  ELSE IF r.stage \in ActionStages
                       THEN Parked("action", "mediate", r.stage)
                       ELSE Dispatch(r, "mediate")
  <2>1. job[w].stage + 1 \in Stages
    BY <1>4, ConstantsAssumption, JobFieldsType DEF AdvanceStage, Stages
  <2>2. r \in Row
    <3>1. 0 \in 0..MaxSpawns /\ "ready" \in Statuses
      BY ConstantsAssumption DEF Statuses
    <3>2. NextStage(w) \in Row
      BY <1>1, <2>1, <3>1 DEF NextStage, Row
    <3> QED
      BY <3>2
  <2>3. r.stage \in Stages
    BY <2>2 DEF Row
  <2>4. Parked("action", "mediate", r.stage) \in Job
    BY <1>1, <2>3, ParkedType DEF Waits
  <2>5. j \in Job
    BY <1>1, <2>2, <2>4, IdleType, DispatchType
  <2>6. Write(w, r, j)
    BY <1>4 DEF AdvanceStage
  <2>7. row' \in Row /\ job' \in [Workers -> Job]
    BY <2>2, <2>5, <2>6, WriteType
  <2> QED
    BY <1>4, <2>7 DEF AdvanceStage, TypeOK
<1>5. CASE CompleteFlow(w)
  <2>1. [row EXCEPT !.status = "completed"] \in Row
    BY <1>1 DEF Row, Statuses
  <2> QED
    BY <1>5, <2>1, IdleType, WriteType DEF CompleteFlow, TypeOK
<1>6. CASE ActionSucceeds(w)
  <2>1. PICK s \in {row.status, "waiting"} :
           Write(w, [row EXCEPT !.status = s],
                 IF s = "ready" THEN Mediate([row EXCEPT !.status = s]) ELSE Idle)
    BY <1>1, <1>6 DEF ActionSucceeds, Row
  <2>2. [row EXCEPT !.status = s] \in Row
    BY <1>1 DEF Row, Statuses
  <2>3. row' \in Row /\ job' \in [Workers -> Job]
    BY <2>1, <2>2, IdleType, MediateType, WriteType
  <2> QED
    BY <1>6, <2>3 DEF ActionSucceeds, TypeOK
<1>7. CASE ActionFails(w)
  <2>1. /\ MarkFailed(row) \in Row
        /\ [row EXCEPT !.status = "blocked"] \in Row
    BY <1>1, FailedType DEF Row, Statuses
  <2> QED
    BY <1>7, <2>1, IdleType, WriteType DEF ActionFails, TypeOK
<1>8. CASE DispatchedActionSucceeds(w)
  <2> DEFINE r == [row EXCEPT !.status = "ready", !.handle = FALSE]
  <2>1. r \in Row
    BY <1>1 DEF Row, Statuses
  <2>2. Mediate(r) \in Job
    BY <2>1, MediateType
  <2>3. Write(w, r, Mediate(r))
    BY <1>8 DEF DispatchedActionSucceeds
  <2>4. row' \in Row /\ job' \in [Workers -> Job]
    BY <2>1, <2>2, <2>3, WriteType
  <2> QED
    BY <1>8, <2>4 DEF DispatchedActionSucceeds, TypeOK
<1>9. CASE DispatchedActionFails(w)
  BY <1>1, <1>9, FailedType, IdleType, WriteType DEF DispatchedActionFails, TypeOK
<1> QED
  BY <1>2, <1>3, <1>4, <1>5, <1>6, <1>7, <1>8, <1>9 DEF HandoffStep

LEMMA RemoveAtType ==
    ASSUME NEW S, NEW s \in Seq(S), NEW n \in DOMAIN s
    PROVE  RemoveAt(s, n) \in Seq(S)
BY DEF RemoveAt

LEMMA TakesType ==
    ASSUME TypeOK, NEW w \in Workers, NEW f, NEW kinds, Takes(w, f, kinds)
    PROVE  mail' \in Seq(Frame)
<1>1. PICK n \in DOMAIN mail : mail' = RemoveAt(mail, n)
  BY DEF Takes
<1> QED
  BY <1>1, RemoveAtType DEF TypeOK

\* the rows the handlers of frames write
LEMMA HandlerRowsType ==
    ASSUME NEW r \in Row, NEW status \in Statuses
    PROVE  /\ UnlessTerminal(r, status) \in Row
           /\ [r EXCEPT !.status = status] \in Row
           /\ [r EXCEPT !.status = status, !.error = FALSE] \in Row
           /\ [r EXCEPT !.handle = FALSE] \in Row
BY DEF UnlessTerminal, Row

LEMMA FailOrRetryType ==
    ASSUME TypeOK, NEW w \in Workers, NEW r \in Row, NEW who \in Callers,
           FailOrRetry(w, r, who)
    PROVE  row' \in Row /\ job' \in [Workers -> Job] /\ retries' \in Nat
<1> DEFINE again == [r EXCEPT !.status = "ready", !.error = FALSE]
<1>1. again \in Row
  BY DEF Row, Statuses
<1>2. Dispatch(again, who) \in Job
  BY <1>1, DispatchType
<1>3. \/ Write(w, again, Dispatch(again, who)) /\ retries' = retries + 1
      \/ Write(w, r, Idle) /\ retries' = retries
  BY DEF FailOrRetry
<1> QED
  BY <1>1, <1>2, <1>3, IdleType, WriteType DEF TypeOK

LEMMA HookFrameType ==
    ASSUME TypeOK, NEW w \in Workers, HookFrame(w)
    PROVE  TypeOK'
<1>1. /\ row \in Row
      /\ {"running", "ready", "waiting", "failed"} \subseteq Statuses
      /\ "hookRetry" \in Callers
  BY DEF TypeOK, Statuses, Callers
<1>2. mail' \in Seq(Frame)
  BY TakesType DEF HookFrame, HookStale, HookWorking, HookNotification,
                   HookStopFailure, HookSessionEnd
<1>3. Failed(row) \in Row
  BY <1>1, FailedType
<1>4. CASE HookStale(w)
  BY <1>2, <1>4 DEF HookStale, TypeOK
<1>5. CASE HookWorking(w)
  BY <1>1, <1>2, <1>5, IdleType, HandlerRowsType, WriteType DEF HookWorking, TypeOK
<1>6. CASE HookNotification(w)
  BY <1>1, <1>2, <1>6, IdleType, HandlerRowsType, WriteType
     DEF HookNotification, TypeOK
<1>7. CASE HookStopFailure(w)
  <2>1. row' \in Row /\ job' \in [Workers -> Job] /\ retries' \in Nat
    <3>1. UnlessTerminal(row, "running") \in Row
      BY <1>1, HandlerRowsType
    <3>2. \/ Write(w, UnlessTerminal(row, "running"), Idle) /\ retries' = retries
          \/ UNCHANGED <<row, job, retries>>
          \/ FailOrRetry(w, Failed(row), "hookRetry")
      BY <1>7 DEF HookStopFailure
    <3> QED
      BY <1>1, <1>3, <3>1, <3>2, IdleType, WriteType, FailOrRetryType DEF TypeOK
  <2> QED
    BY <1>2, <1>7, <2>1 DEF HookStopFailure, TypeOK
<1>8. CASE HookSessionEnd(w)
  <2> DEFINE r == [row EXCEPT !.status = "ready"]
  <2>1. /\ UnlessTerminal(row, "running") \in Row
        /\ UnlessTerminal(row, "ready") \in Row
        /\ r \in Row
    BY <1>1, HandlerRowsType
  <2>2. Mediate(r) \in Job
    BY <2>1, MediateType
  <2>3. \/ Write(w, UnlessTerminal(row, "running"), Idle) /\ retries' = retries
        \/ Write(w, r, Mediate(r)) /\ retries' = retries
        \/ FailOrRetry(w, Failed(row), "hookRetry")
        \/ Write(w, UnlessTerminal(row, "ready"), Idle) /\ retries' = retries
    BY <1>8 DEF HookSessionEnd
  <2>4. row' \in Row /\ job' \in [Workers -> Job] /\ retries' \in Nat
    BY <1>1, <1>3, <2>1, <2>2, <2>3, IdleType, WriteType, FailOrRetryType DEF TypeOK
  <2>5. endSeen' \in BOOLEAN
    BY <1>8 DEF HookSessionEnd
  <2> QED
    BY <1>2, <1>8, <2>4, <2>5 DEF HookSessionEnd, TypeOK
<1> QED
  BY <1>4, <1>5, <1>6, <1>7, <1>8 DEF HookFrame

LEMMA ReportFrameType ==
    ASSUME TypeOK, NEW w \in Workers, ReportFrame(w)
    PROVE  TypeOK'
<1>1. /\ row \in Row
      /\ {"running", "ready", "waiting", "blocked"} \subseteq Statuses
      /\ "reportRetry" \in Callers
  BY DEF TypeOK, Statuses, Callers
<1>2. mail' \in Seq(Frame)
  BY TakesType DEF ReportFrame, ReportStale, ReportCompleted, ReportRejected,
                   ReportQuestion, ReportError, ReportProgress
<1>3. CASE ReportStale(w) \/ ReportRejected(w)
  BY <1>2, <1>3 DEF ReportStale, ReportRejected, TypeOK
<1>4. CASE ReportCompleted(w)
  <2> DEFINE off == [row EXCEPT !.handle = FALSE]
             r == [off EXCEPT !.status = "ready", !.error = FALSE]
  <2>1. off \in Row
    BY <1>1, HandlerRowsType
  <2>2. r \in Row /\ [off EXCEPT !.status = "blocked"] \in Row
    BY <1>1, <2>1, HandlerRowsType
  <2>3. Mediate(r) \in Job
    BY <2>2, MediateType
  <2>4. \/ Write(w, [off EXCEPT !.status = "blocked"], Idle)
        \/ Write(w, r, Mediate(r))
    BY <1>4 DEF ReportCompleted
  <2>5. row' \in Row /\ job' \in [Workers -> Job]
    BY <2>2, <2>3, <2>4, IdleType, WriteType
  <2> QED
    BY <1>2, <1>4, <2>5 DEF ReportCompleted, TypeOK
<1>5. CASE ReportQuestion(w)
  BY <1>1, <1>2, <1>5, IdleType, HandlerRowsType, WriteType DEF ReportQuestion, TypeOK
<1>6. CASE ReportError(w)
  <2>1. Failed(row) \in Row
    BY <1>1, FailedType
  <2>2. row' \in Row /\ job' \in [Workers -> Job] /\ retries' \in Nat
    BY <1>1, <1>6, <2>1, FailOrRetryType DEF ReportError
  <2> QED
    BY <1>2, <1>6, <2>2 DEF ReportError, TypeOK
<1>7. CASE ReportProgress(w)
  <2>1. row' \in Row /\ job' \in [Workers -> Job]
    BY <1>1, <1>7, IdleType, HandlerRowsType, WriteType DEF ReportProgress
  <2> QED
    BY <1>2, <1>7, <2>1 DEF ReportProgress, TypeOK
<1> QED
  BY <1>3, <1>4, <1>5, <1>6, <1>7 DEF ReportFrame

LEMMA PollStepType ==
    ASSUME TypeOK, NEW w \in Workers, PollStep(w)
    PROVE  TypeOK'
<1>1. row \in Row /\ {"ready", "failed"} \subseteq Statuses /\ 1 \in Stages
  BY ConstantsAssumption DEF TypeOK, Statuses, Stages
<1>2. CASE PollPaneGone(w)
  <2>1. Parked("gone", "none", 1) \in Job
    BY <1>1, ParkedType DEF Waits, Callers
  <2> QED
    BY <1>2, <2>1, ContinueType DEF PollPaneGone, TypeOK
<1>3. CASE JudgeGone(w)
  <2>1. \A who \in {"completed", "failed"} : Parked("forensics", who, 1) \in Job
    BY <1>1, ParkedType DEF Waits, Callers
  <2>2. job' \in [Workers -> Job]
    BY <1>3, <2>1, IdleType, ContinueType DEF JudgeGone
  <2> QED
    BY <1>3, <2>2 DEF JudgeGone, TypeOK
<1>4. CASE WriteGone(w)
  <2> DEFINE off == [row EXCEPT !.handle = FALSE]
             r == [off EXCEPT !.status = "ready", !.error = FALSE]
  <2>1. off \in Row /\ Failed(off) \in Row
    BY <1>1, HandlerRowsType, FailedType
  <2>2. r \in Row
    BY <1>1, <2>1, HandlerRowsType
  <2>3. Mediate(r) \in Job
    BY <2>2, MediateType
  <2>4. Write(w, r, Mediate(r)) \/ Write(w, Failed(off), Idle)
    BY <1>4 DEF WriteGone
  <2>5. row' \in Row /\ job' \in [Workers -> Job]
    BY <2>1, <2>2, <2>3, <2>4, IdleType, WriteType
  <2> QED
    BY <1>4, <2>5 DEF WriteGone, TypeOK
<1> QED
  BY <1>2, <1>3, <1>4 DEF PollStep

LEMMA PollFailsType ==
    ASSUME TypeOK, PollFails
    PROVE  TypeOK'
<1>1. [Failed(row) EXCEPT !.handle = FALSE] \in Row
  BY FailedType, HandlerRowsType DEF TypeOK, Statuses
<1>2. row' \in Row
  BY <1>1 DEF PollFails, Update, TypeOK
<1> QED
  BY <1>2 DEF PollFails, TypeOK

\* the rows the operator's RPCs write
LEMMA OperatorRowsType ==
    ASSUME NEW r \in Row
    PROVE  Stopped(r) \in Row /\ Killed(r) \in Row /\ Archived(r) \in Row
BY DEF Stopped, Killed, Archived, Row, Statuses

LEMMA ResumeNowType ==
    ASSUME TypeOK, NEW w \in Workers, NEW who, NEW stage \in Stages,
           ResumeNow(w, who, stage)
    PROVE  row' \in Row /\ job' \in [Workers -> Job]
<1> DEFINE r == Resumed(who, stage)
<1>1. row \in Row /\ "ready" \in Statuses /\ 0 \in 0..MaxSpawns
  BY ConstantsAssumption DEF TypeOK, Statuses
<1>2. r \in Row
  <2>1. [row EXCEPT !.status = "ready", !.error = FALSE, !.handle = FALSE] \in Row
    BY <1>1 DEF Row
  <2>2. Resumed(who, stage) \in Row
    BY <1>1, <2>1 DEF Resumed, Row
  <2> QED
    BY <2>2
<1>3. ResumeRoute(r, stage) \in Job
  <2>1. Dispatch(r, "kick") \in Job
    BY <1>2, DispatchType DEF Callers
  <2>2. r.stage \in Stages
    BY <1>2 DEF Row
  <2>3. Parked("action", "resume", r.stage) \in Job
    BY <2>2, ParkedType DEF Waits, Callers, AllOperations
  <2> HIDE DEF r
  <2> QED
    BY <2>1, <2>3, IdleType DEF ResumeRoute
<1>4. Write(w, r, ResumeRoute(r, stage))
  BY DEF ResumeNow
<1> HIDE DEF r
<1> QED
  BY <1>2, <1>3, <1>4, WriteType

LEMMA KillFirstType ==
    ASSUME TypeOK, NEW w \in Workers, NEW who \in Callers, NEW stage \in Stages,
           KillFirst(w, who, stage)
    PROVE  row' \in Row /\ job' \in [Workers -> Job]
<1>1. Parked("killing", who, stage) \in Job
  BY ParkedType DEF Waits
<1>2. row \in Row /\ Write(w, row, Parked("killing", who, stage))
  BY DEF KillFirst, TypeOK
<1> QED
  BY <1>1, <1>2, WriteType

LEMMA OperatorStepType ==
    ASSUME TypeOK, NEW w \in Workers, OperatorStep(w)
    PROVE  TypeOK'
<1>1. /\ row \in Row /\ row.stage \in Stages /\ row.saved \in Statuses
      /\ {"ready", "waiting", "blocked", "failed", "stopped"} \subseteq Statuses
      /\ AllOperations \subseteq Callers
      /\ 1 \in Stages /\ 0 \in 0..MaxSpawns
  BY ConstantsAssumption DEF TypeOK, Row, Statuses, Callers, Stages
<1>2. {"stop", "kill", "archive", "resume", "rewind", "complete", "advance",
       "force", "reject", "interrupt"} \subseteq Callers
  BY DEF Callers, AllOperations
<1>3. Stopped(row) \in Row /\ Killed(row) \in Row /\ Archived(row) \in Row
  BY <1>1, OperatorRowsType
\* for the actions that write only the row and the job
<1>4. ASSUME row' \in Row, job' \in [Workers -> Job], Untouched
      PROVE  TypeOK'
  BY <1>4 DEF TypeOK, Untouched
<1>5. CASE Stop(w)
  <2>1. row' \in Row /\ job' \in [Workers -> Job]
    BY <1>1, <1>2, <1>3, <1>5, KillFirstType, IdleType, WriteType DEF Stop
  <2> QED
    BY <1>4, <1>5, <2>1 DEF Stop
<1>6. CASE Kill(w)
  <2>1. row' \in Row /\ job' \in [Workers -> Job]
    BY <1>1, <1>2, <1>3, <1>6, KillFirstType, IdleType, WriteType DEF Kill
  <2> QED
    BY <1>4, <1>6, <2>1 DEF Kill
<1>7. CASE Archive(w)
  <2>1. row' \in Row /\ job' \in [Workers -> Job]
    BY <1>1, <1>2, <1>3, <1>7, KillFirstType, IdleType, WriteType DEF Archive
  <2> QED
    BY <1>4, <1>7, <2>1 DEF Archive
<1>8. CASE Restore(w) \/ Pause(w) \/ AfterInterrupt(w)
  <2>1. \A s \in {"stopped", "blocked", "waiting"} :
           [row EXCEPT !.status = s] \in Row
    BY <1>1, HandlerRowsType
  <2>2. row' \in Row /\ job' \in [Workers -> Job]
    BY <1>8, <2>1, IdleType, WriteType DEF Restore, Pause, AfterInterrupt
  <2> QED
    BY <1>4, <1>8, <2>2 DEF Restore, Pause, AfterInterrupt
<1>9. CASE Resume(w)
  <2>1. PICK stage \in Stages, who \in {"resume", "rewind"} :
           KillFirst(w, who, stage) \/ ResumeNow(w, who, stage)
    BY <1>9 DEF Resume
  <2>2. row' \in Row /\ job' \in [Workers -> Job]
    BY <1>2, <2>1, KillFirstType, ResumeNowType
  <2> QED
    BY <1>4, <1>9, <2>2 DEF Resume
<1>10. CASE KillAgent(w)
  <2>1. [job[w] EXCEPT !.at = "killed"] \in Job
    BY <1>2, JobType DEF Waits
  <2> QED
    BY <1>10, <2>1, ContinueType, KillPaneType DEF KillAgent, TypeOK
<1>11. CASE AfterKill(w)
  <2>1. \/ Write(w, Stopped(row), Idle)
        \/ Write(w, Killed(row), Idle)
        \/ Write(w, Archived(row), Idle)
        \/ ResumeNow(w, job[w].who, job[w].stage)
    BY <1>11 DEF AfterKill
  <2>2. row' \in Row /\ job' \in [Workers -> Job]
    BY <1>3, <2>1, JobFieldsType, ResumeNowType, IdleType, WriteType
  <2> QED
    BY <1>11, <2>2 DEF AfterKill, TypeOK
<1>12. CASE Interrupt(w)
  <2>1. Parked("keys", "interrupt", 1) \in Job
    BY <1>1, <1>2, ParkedType DEF Waits
  <2>2. row' \in Row /\ job' \in [Workers -> Job]
    BY <1>1, <1>12, <2>1, ContinueType DEF Interrupt
  <2> QED
    BY <1>4, <1>12, <2>2 DEF Interrupt
<1>13. CASE Complete(w)
  <2> DEFINE r == [row EXCEPT !.status = "ready", !.handle = FALSE]
  <2>1. r \in Row
    BY <1>1 DEF Row
  <2>2. Advance(r, "complete") \in Job
    BY <1>2, <2>1, AdvanceType
  <2>3. Write(w, r, Advance(r, "complete"))
    BY <1>13 DEF Complete
  <2>4. row' \in Row /\ job' \in [Workers -> Job]
    BY <2>1, <2>2, <2>3, WriteType
  <2> QED
    BY <1>4, <1>13, <2>4 DEF Complete
<1>14. CASE AdvanceStart(w)
  <2>1. \A who \in {"advance", "force"} : Advance(row, who) \in Job
    BY <1>1, <1>2, AdvanceType
  <2>2. row' \in Row /\ job' \in [Workers -> Job]
    BY <1>1, <1>14, <2>1, ContinueType DEF AdvanceStart
  <2> QED
    BY <1>4, <1>14, <2>2 DEF AdvanceStart
<1>15. CASE Reject(w)
  <2> DEFINE r == [row EXCEPT !.status = "ready", !.error = FALSE,
                              !.handle = FALSE, !.claude = 0]
  <2>1. r \in Row
    BY <1>1 DEF Row
  <2>2. Dispatch(r, "reject") \in Job
    BY <1>2, <2>1, DispatchType
  <2>3. Failed(row) \in Row
    BY <1>1, FailedType
  <2>4. Write(w, r, Dispatch(r, "reject")) \/ Write(w, Failed(row), Idle)
    BY <1>15 DEF Reject
  <2>5. row' \in Row /\ job' \in [Workers -> Job]
    BY <2>1, <2>2, <2>3, <2>4, IdleType, WriteType
  <2> QED
    BY <1>4, <1>15, <2>5 DEF Reject
<1>16. CASE Delete(w)
  <2>1. [row EXCEPT !.status = "deleting", !.saved = row.status] \in Row
    BY <1>1 DEF Row, Statuses
  <2>2. row' \in Row /\ job' \in [Workers -> Job]
    BY <1>16, <2>1, IdleType, WriteType DEF Delete
  <2> QED
    BY <1>4, <1>16, <2>2 DEF Delete
<1>17. CASE Undelete(w)
  <2>1. [row EXCEPT !.status = row.saved] \in Row
    BY <1>1, HandlerRowsType
  <2>2. row' \in Row /\ job' \in [Workers -> Job]
    BY <1>17, <2>1, IdleType, WriteType DEF Undelete
  <2> QED
    BY <1>4, <1>17, <2>2 DEF Undelete
<1> QED
  BY <1>5, <1>6, <1>7, <1>8, <1>9, <1>10, <1>11, <1>12, <1>13, <1>14, <1>15,
     <1>16, <1>17 DEF OperatorStep

LEMMA AgentStepType ==
    ASSUME TypeOK, NEW i \in Launched,
           AgentSends(i) \/ AgentExits(i) \/ AgentCrashes(i)
    PROVE  TypeOK'
<1>1. /\ agent[i] \in Agent /\ i \in 0..MaxSpawns
      /\ MayPrompt \subseteq Hooks \cup Reports /\ "SessionEnd" \in Hooks
  BY ConstantsAssumption DEF TypeOK, Launched, Prompts, Hooks
<1>2. ASSUME NEW kind \in Hooks \cup Reports, Speaks(i, kind)
      PROVE  mail' \in Seq(Frame)
  <2>1. [from |-> i, kind |-> kind] \in Frame
    BY DEF Frame
  <2> QED
    BY <1>2, <2>1 DEF Speaks, TypeOK
<1>3. CASE AgentSends(i)
  <2>1. mail' \in Seq(Frame)
    BY <1>1, <1>2, <1>3 DEF AgentSends
  <2> QED
    BY <1>3, <2>1 DEF AgentSends, TypeOK
<1>4. CASE AgentExits(i)
  <2>1. [agent[i] EXCEPT !.state = "ended"] \in Agent
    BY <1>1 DEF Agent
  <2>2. agent' \in [Launched -> Agent]
    BY <1>4, <2>1 DEF AgentExits, TypeOK
  <2>3. mail' \in Seq(Frame)
    BY <1>1, <1>2, <1>4 DEF AgentExits
  <2> QED
    BY <1>4, <2>2, <2>3 DEF AgentExits, TypeOK
<1>5. CASE AgentCrashes(i)
  <2>1. /\ [agent[i] EXCEPT !.claude = i] \in Agent
        /\ [agent[i] EXCEPT !.state = "crashed"] \in Agent
    BY <1>1 DEF Agent
  <2>2. agent' \in [Launched -> Agent] /\ sentinel' \in BOOLEAN
    BY <1>5, <2>1 DEF AgentCrashes, TypeOK
  <2> QED
    BY <1>5, <2>2 DEF AgentCrashes, TypeOK
<1> QED
  BY <1>3, <1>4, <1>5

LEMMA FaultStepType ==
    ASSUME TypeOK, PaneLost \/ FrameLost \/ Restart
    PROVE  TypeOK'
<1>1. CASE PaneLost
  BY <1>1, KillPaneType DEF PaneLost, TypeOK
<1>2. CASE FrameLost
  <2>1. mail' \in Seq(Frame)
    BY <1>2, RemoveAtType DEF FrameLost, TypeOK
  <2> QED
    BY <1>2, <2>1 DEF FrameLost, TypeOK
<1>3. CASE Restart
  <2>1. row.handle \in BOOLEAN
    BY DEF TypeOK, Row
  <2>2. poller' \in BOOLEAN /\ job' \in [Workers -> Job]
    BY <1>3, <2>1, IdleType DEF Restart
  <2> QED
    BY <1>3, <2>2 DEF Restart, TypeOK
<1> QED
  BY <1>1, <1>2, <1>3

LEMMA InitType == Init => TypeOK
<1> SUFFICES ASSUME Init PROVE TypeOK
  OBVIOUS
<1>1. row \in Row
  BY ConstantsAssumption DEF Init, Row, Statuses, Stages
<1>2. job \in [Workers -> Job]
  <2>1. Dispatch(row, "kick") \in Job
    BY <1>1, DispatchType DEF Callers
  <2> QED
    BY <2>1, IdleType DEF Init
<1>3. agent \in [Launched -> Agent]
  BY ConstantsAssumption DEF Init, Agent, Stages
<1>4. spawned \in 0..MaxSpawns /\ pane \in 0..spawned /\ retries \in Nat
  BY ConstantsAssumption DEF Init
<1>5. mail \in Seq(Frame)
  BY EmptySeq DEF Init
<1> QED
  BY <1>1, <1>2, <1>3, <1>4, <1>5 DEF Init, TypeOK

LEMMA NextType == TypeOK /\ [Next]_vars => TypeOK'
<1> SUFFICES ASSUME TypeOK, [Next]_vars PROVE TypeOK'
  OBVIOUS
<1>1. CASE UNCHANGED vars
  BY <1>1 DEF vars, TypeOK
<1>2. CASE \E w \in Workers : Step(w)
  BY <1>2, DispatchStepType, WatchdogType, HandoffStepType, HookFrameType,
     ReportFrameType, PollStepType, OperatorStepType DEF Step
<1>3. CASE \E i \in Launched : AgentSends(i) \/ AgentExits(i) \/ AgentCrashes(i)
  BY <1>3, AgentStepType
<1>4. CASE PaneLost \/ FrameLost \/ Restart \/ PollExitCode \/ PollUnreachable
  BY <1>4, FaultStepType, PollFailsType DEF PollExitCode, PollUnreachable
<1> QED
  BY <1>1, <1>2, <1>3, <1>4 DEF Next

\* Every variable keeps its type, for any flow, any number of concurrent
\* call chains, agents and frames.
THEOREM TypeCorrect == Spec => []TypeOK
BY InitType, NextType, PTL DEF Spec

---------------------------------------------------------------------------
(* Running sessions have a handle *)

\* every step that touches the row goes through SessionRepository.update
LEMMA RowIsUpdated ==
    ASSUME Next
    PROVE  UNCHANGED row \/ \E r : Update(r)
<1>1. ASSUME NEW w \in Workers, Step(w)
      PROVE  UNCHANGED row \/ \E r : Update(r)
  <2>1. CASE DispatchStep(w) \/ Watchdog(w)
    BY <2>1 DEF DispatchStep, Watchdog, LaunchFails, LaunchKillsOld, CreatePane,
       CreateDuplicate, Finalize, FinalizeTooLate, AbortLaunch, DispatchFails, Write
  <2>2. CASE HandoffStep(w)
    BY <2>2 DEF HandoffStep, VerifyPasses, VerifyFails, AdvanceStage, CompleteFlow,
       ActionSucceeds, ActionFails, DispatchedActionSucceeds,
       DispatchedActionFails, Write
  <2>3. CASE HookFrame(w)
    BY <2>3 DEF HookFrame, HookStale, HookWorking, HookNotification,
       HookStopFailure, HookSessionEnd, FailOrRetry, Write
  <2>4. CASE ReportFrame(w)
    BY <2>4 DEF ReportFrame, ReportStale, ReportCompleted, ReportRejected,
       ReportQuestion, ReportError, ReportProgress, FailOrRetry, Write
  <2>5. CASE PollStep(w)
    BY <2>5 DEF PollStep, PollPaneGone, JudgeGone, WriteGone, Write
  <2>6. CASE OperatorStep(w)
    <3>1. CASE Stop(w) \/ Kill(w) \/ Archive(w) \/ Resume(w)
      BY <3>1 DEF Stop, Kill, Archive, Resume, KillFirst, ResumeNow, Write
    <3>2. CASE KillAgent(w) \/ AfterKill(w)
      BY <3>2 DEF KillAgent, AfterKill, ResumeNow, Write
    <3>3. CASE Restore(w) \/ Pause(w) \/ Interrupt(w) \/ AfterInterrupt(w)
      BY <3>3 DEF Restore, Pause, Interrupt, AfterInterrupt, Write
    <3>4. CASE Complete(w) \/ AdvanceStart(w) \/ Reject(w)
      BY <3>4 DEF Complete, AdvanceStart, Reject, Write
    <3>5. CASE Delete(w) \/ Undelete(w)
      BY <3>5 DEF Delete, Undelete, Write
    <3> QED
      BY <2>6, <3>1, <3>2, <3>3, <3>4, <3>5 DEF OperatorStep
  <2> QED
    BY <1>1, <2>1, <2>2, <2>3, <2>4, <2>5, <2>6 DEF Step
<1>2. ASSUME NEW i \in Launched, AgentSends(i) \/ AgentExits(i) \/ AgentCrashes(i)
      PROVE  UNCHANGED row
  BY <1>2 DEF AgentSends, AgentExits, AgentCrashes
<1>3. CASE PaneLost \/ FrameLost \/ Restart \/ PollExitCode \/ PollUnreachable
  BY <1>3 DEF PaneLost, FrameLost, PollExitCode, PollUnreachable, PollFails,
        Restart
<1> QED
  BY <1>1, <1>2, <1>3 DEF Next

\* A session whose status is running has a handle for its poller to probe,
\* whatever chains, frames and RPCs raced to write the row (#435).
THEOREM HandleOfRunning == Spec => []RunningHasHandle
<1>1. Init => RunningHasHandle
  BY DEF Init, RunningHasHandle
<1>2. RunningHasHandle /\ [Next]_vars => RunningHasHandle'
  <2> SUFFICES ASSUME RunningHasHandle, [Next]_vars PROVE RunningHasHandle'
    OBVIOUS
  <2>1. CASE UNCHANGED row
    BY <2>1 DEF RunningHasHandle
  <2>2. ASSUME NEW r, Update(r)
        PROVE  RunningHasHandle'
    BY <2>2 DEF RunningHasHandle, Update
  <2> QED
    BY <2>1, <2>2, RowIsUpdated DEF vars
<1> QED
  BY <1>1, <1>2, PTL DEF Spec

---------------------------------------------------------------------------
(* Retries are bounded *)

LEMMA RetriesAreSpent ==
    ASSUME Next
    PROVE  \/ UNCHANGED retries
           \/ retries < MaxRetries /\ retries' = retries + 1
<1>1. ASSUME NEW w \in Workers, Step(w)
      PROVE  \/ UNCHANGED retries
             \/ retries < MaxRetries /\ retries' = retries + 1
  <2>1. CASE DispatchStep(w) \/ Watchdog(w)
    BY <2>1 DEF DispatchStep, Watchdog, LaunchFails, LaunchKillsOld, CreatePane,
       CreateDuplicate, Finalize, FinalizeTooLate, AbortLaunch
  <2>2. CASE HandoffStep(w)
    BY <2>2 DEF HandoffStep, VerifyPasses, VerifyFails, AdvanceStage, CompleteFlow,
       ActionSucceeds, ActionFails, DispatchedActionSucceeds, DispatchedActionFails
  <2>3. CASE HookFrame(w)
    BY <2>3 DEF HookFrame, HookStale, HookWorking, HookNotification,
       HookStopFailure, HookSessionEnd, FailOrRetry
  <2>4. CASE ReportFrame(w)
    BY <2>4 DEF ReportFrame, ReportStale, ReportCompleted, ReportRejected,
       ReportQuestion, ReportError, ReportProgress, FailOrRetry
  <2>5. CASE PollStep(w)
    BY <2>5 DEF PollStep, PollPaneGone, JudgeGone, WriteGone
  <2>6. CASE OperatorStep(w)
    BY <2>6 DEF OperatorStep, Stop, Kill, Archive, Restore, Resume, KillAgent,
       AfterKill, Pause, Interrupt, AfterInterrupt, Complete, AdvanceStart,
       Reject, Delete, Undelete, Untouched
  <2> QED
    BY <1>1, <2>1, <2>2, <2>3, <2>4, <2>5, <2>6 DEF Step
<1>2. ASSUME NEW i \in Launched, AgentSends(i) \/ AgentExits(i) \/ AgentCrashes(i)
      PROVE  UNCHANGED retries
  BY <1>2 DEF AgentSends, AgentExits, AgentCrashes
<1>3. CASE PaneLost \/ FrameLost \/ Restart \/ PollExitCode \/ PollUnreachable
  BY <1>3 DEF PaneLost, FrameLost, PollExitCode, PollUnreachable, PollFails,
        Restart
<1> QED
  BY <1>1, <1>2, <1>3 DEF Next

\* A session is retried at most n times under on_failure: retry(n), however
\* many hooks and reports tell of failures and in whatever order.
THEOREM RetriesAreBounded == Spec => []RetriesBounded
<1>1. Init => RetriesBounded
  BY ConstantsAssumption DEF Init, RetriesBounded
<1>2. TypeOK /\ RetriesBounded /\ [Next]_vars => RetriesBounded'
  BY RetriesAreSpent, ConstantsAssumption DEF RetriesBounded, TypeOK, vars
<1> QED
  BY <1>1, <1>2, TypeCorrect, PTL DEF Spec

---------------------------------------------------------------------------
(* One agent at a time *)

\* the inductive strengthening: whoever lives holds the session's tmux name
OnlyPaneLives == \A i \in Launched : Alive(i) => i = pane

LEMMA KillPaneKillsAll ==
    ASSUME TypeOK, OnlyPaneLives, KillPane
    PROVE  OnlyPaneLives'
BY DEF TypeOK, OnlyPaneLives, KillPane, Alive, Agent

\* the steps that launch an agent, end one, or touch the tmux session
LEMMA WhoTouchesAgents ==
    ASSUME Next
    PROVE  \/ UNCHANGED <<agent, pane>>
           \/ KillPane
           \/ \E w \in Workers : CreatePane(w)
           \/ \E i \in Launched : AgentExits(i) \/ AgentCrashes(i)
<1>1. ASSUME NEW w \in Workers, Step(w)
      PROVE  UNCHANGED <<agent, pane>> \/ KillPane \/ CreatePane(w)
  <2>1. CASE DispatchStep(w) \/ Watchdog(w)
    BY <2>1 DEF DispatchStep, Watchdog, LaunchFails, LaunchKillsOld,
       CreateDuplicate, Finalize, FinalizeTooLate, AbortLaunch
  <2>2. CASE HandoffStep(w)
    BY <2>2 DEF HandoffStep, VerifyPasses, VerifyFails, AdvanceStage, CompleteFlow,
       ActionSucceeds, ActionFails, DispatchedActionSucceeds, DispatchedActionFails
  <2>3. CASE HookFrame(w)
    BY <2>3 DEF HookFrame, HookStale, HookWorking, HookNotification,
       HookStopFailure, HookSessionEnd
  <2>4. CASE ReportFrame(w)
    BY <2>4 DEF ReportFrame, ReportStale, ReportCompleted, ReportRejected,
       ReportQuestion, ReportError, ReportProgress
  <2>5. CASE PollStep(w)
    BY <2>5 DEF PollStep, PollPaneGone, JudgeGone, WriteGone
  <2>6. CASE OperatorStep(w)
    BY <2>6 DEF OperatorStep, Stop, Kill, Archive, Restore, Resume, KillAgent,
       AfterKill, Pause, Interrupt, AfterInterrupt, Complete, AdvanceStart,
       Reject, Delete, Undelete, Untouched
  <2> QED
    BY <1>1, <2>1, <2>2, <2>3, <2>4, <2>5, <2>6 DEF Step
<1>2. ASSUME NEW i \in Launched, AgentSends(i)
      PROVE  UNCHANGED <<agent, pane>>
  BY <1>2 DEF AgentSends
<1>3. CASE PaneLost \/ FrameLost \/ Restart \/ PollExitCode \/ PollUnreachable
  BY <1>3 DEF PaneLost, FrameLost, PollExitCode, PollUnreachable, PollFails,
        Restart
<1> QED
  BY <1>1, <1>2, <1>3 DEF Next

LEMMA OnlyPaneLivesIsKept ==
    TypeOK /\ OnlyPaneLives /\ [Next]_vars => OnlyPaneLives'
<1> SUFFICES ASSUME TypeOK, OnlyPaneLives, [Next]_vars PROVE OnlyPaneLives'
  OBVIOUS
<1>1. CASE UNCHANGED <<agent, pane>>
  BY <1>1 DEF OnlyPaneLives, Alive
<1>2. CASE KillPane
  BY <1>2, KillPaneKillsAll
<1>3. ASSUME NEW w \in Workers, CreatePane(w)
      PROVE  OnlyPaneLives'
  <2>1. \A i \in Launched : ~Alive(i)
    BY <1>3 DEF CreatePane, OnlyPaneLives, Launched
  <2>2. \A i \in Launched : i # spawned + 1 => agent'[i] = agent[i]
    BY <1>3 DEF CreatePane, TypeOK
  <2>3. pane' = spawned + 1
    BY <1>3 DEF CreatePane
  <2> QED
    BY <2>1, <2>2, <2>3 DEF OnlyPaneLives, Alive
<1>4. ASSUME NEW i \in Launched, AgentExits(i) \/ AgentCrashes(i)
      PROVE  OnlyPaneLives'
  <2>1. \A k \in Launched : agent'[k].state = "alive" => agent[k].state = "alive"
    BY <1>4 DEF AgentExits, AgentCrashes, TypeOK, Agent
  <2>2. UNCHANGED pane
    BY <1>4 DEF AgentExits, AgentCrashes
  <2> QED
    BY <2>1, <2>2 DEF OnlyPaneLives, Alive
<1> QED
  BY <1>1, <1>2, <1>3, <1>4, WhoTouchesAgents DEF vars

\* At most one agent works on a session at any time, though launches,
\* retries and resumes of several chains overlap.
THEOREM OneAgentAtATime == Spec => []OneAgent
<1>1. Init => OnlyPaneLives
  BY DEF Init, OnlyPaneLives, Alive
<1>2. OnlyPaneLives => OneAgent
  BY DEF OnlyPaneLives, OneAgent
<1> QED
  BY <1>1, <1>2, OnlyPaneLivesIsKept, TypeCorrect, PTL DEF Spec

---------------------------------------------------------------------------
(* Human gates hold *)

\* every stage up to n is left without a human
Ungated(n) == \A s \in Stages : s <= n => GateOf[s] \notin HumanGates

\* the row is past ungated stages only, and would restore no other row
RowWithin(r) ==
    /\ \A s \in Stages : s < r.stage => GateOf[s] \notin HumanGates
    /\ "completed" \in {r.status, r.saved} => GateOf[LastStage] \notin HumanGates

\* a chain that will advance has seen its gate open; no chain rewinds
JobWithin(j) ==
    /\ j.at = "advance" => Ungated(j.stage)
    /\ j.at \in {"killing", "killed"} => j.who # "rewind"

\* the inductive strengthening of GatesHold
GatesInv ==
    Operations \cap Overrides = {} =>
        RowWithin(row) /\ \A w \in Workers : JobWithin(job[w])

\* what is the same row, or one that is not completed, as far as gates go
Cautious(r) ==
    /\ r.stage = row.stage
    /\ r.saved = row.saved
    /\ r.status = "completed" => row.status = "completed"

LEMMA CautiousIsWithin ==
    ASSUME NEW r, Cautious(r), RowWithin(row)
    PROVE  RowWithin(r)
BY DEF Cautious, RowWithin

LEMMA IdleIsWithin == JobWithin(Idle)
BY DEF Idle, JobWithin

LEMMA ParkedIsWithin ==
    ASSUME NEW at, NEW who, NEW stage,
           at \notin {"advance", "killing", "killed"}
    PROVE  JobWithin(Parked(at, who, stage))
BY DEF Parked, Idle, JobWithin

LEMMA DispatchIsWithin ==
    ASSUME NEW r, NEW who
    PROVE  JobWithin(Dispatch(r, who))
BY ParkedIsWithin DEF Dispatch, JobWithin, Parked, Idle

\* advance() goes on only at an open gate, and the gates before are ungated
LEMMA AdvanceIsWithin ==
    ASSUME NEW r \in Row, NEW who \in {"mediate", "advance"}, RowWithin(r)
    PROVE  JobWithin(Advance(r, who))
<1>1. CASE Advance(r, who) = Idle
  BY <1>1, IdleIsWithin
<1>2. CASE Advance(r, who) # Idle
  <2>1. GateOpens(r) /\ Advance(r, who) = Parked("advance", who, r.stage)
    BY <1>2 DEF Advance
  <2>2. GateOf[r.stage] \notin HumanGates
    BY <2>1 DEF GateOpens, HumanGates
  <2>3. r.stage \in Stages
    BY DEF Row
  <2>4. Ungated(r.stage)
    BY <2>2, <2>3, ConstantsAssumption DEF Ungated, RowWithin, Stages
  <2>5. /\ Parked("advance", who, r.stage).at = "advance"
        /\ Parked("advance", who, r.stage).stage = r.stage
    BY DEF Parked, Idle
  <2> QED
    BY <2>1, <2>4, <2>5 DEF JobWithin
<1> QED
  BY <1>1, <1>2

LEMMA MediateIsWithin ==
    ASSUME NEW r \in Row, RowWithin(r)
    PROVE  JobWithin(Mediate(r))
<1>1. JobWithin(Parked("verify", "mediate", r.stage))
  BY ParkedIsWithin
<1> QED
  BY <1>1, AdvanceIsWithin DEF Mediate

\* what the lemmas on steps below assume and conclude
Within == RowWithin(row) /\ \A w \in Workers : JobWithin(job[w])

LEMMA WriteIsWithin ==
    ASSUME TypeOK, Within, NEW w \in Workers, NEW r, NEW j,
           RowWithin(r), JobWithin(j), Write(w, r, j)
    PROVE  Within'
<1>1. row' = row \/ row' = r
  BY DEF Write, Update
<1>2. RowWithin(row)'
  BY <1>1 DEF RowWithin, Within
<1>3. \A v \in Workers : job'[v] = job[v] \/ job'[v] = j
  BY DEF Write, Continue, TypeOK
<1>4. \A v \in Workers : JobWithin(job[v])'
  BY <1>3 DEF JobWithin, Ungated, Within
<1> QED
  BY <1>2, <1>4 DEF Within

LEMMA ContinueIsWithin ==
    ASSUME TypeOK, Within, NEW w \in Workers, NEW j, JobWithin(j),
           UNCHANGED row, Continue(w, j)
    PROVE  Within'
<1>1. \A v \in Workers : job'[v] = job[v] \/ job'[v] = j
  BY DEF Continue, TypeOK
<1>2. \A v \in Workers : JobWithin(job[v])'
  BY <1>1 DEF JobWithin, Ungated, Within
<1> QED
  BY <1>2 DEF Within, RowWithin

\* the rows that are cautious
LEMMA CautiousRows ==
    ASSUME TypeOK, NEW status \in Statuses \ {"completed"}
    PROVE  /\ Cautious(row)
           /\ Cautious(Failed(row)) /\ Cautious(MarkFailed(row))
           /\ Cautious(UnlessTerminal(row, status))
           /\ Cautious([row EXCEPT !.status = status])
BY DEF TypeOK, Row, Cautious, Failed, MarkFailed, UnlessTerminal

LEMMA DispatchFailsIsWithin ==
    ASSUME TypeOK, Within, NEW w \in Workers, DispatchFails(w)
    PROVE  Within'
<1>1. Cautious(row) /\ Cautious(MarkFailed(row))
  BY DEF TypeOK, Row, Cautious, Failed, MarkFailed
<1>2. RowWithin(row) /\ RowWithin(MarkFailed(row))
  BY <1>1, CautiousIsWithin DEF Within
<1>3. \/ Write(w, row, Idle)
      \/ Write(w, MarkFailed(row), Idle)
  BY DEF DispatchFails
<1> QED
  BY <1>2, <1>3, IdleIsWithin, WriteIsWithin

\* a chain that moves to another wait, but not to advance
LEMMA MovedIsWithin ==
    ASSUME TypeOK, Within, NEW w \in Workers,
           NEW at, at \notin {"advance", "killing", "killed"}
    PROVE  JobWithin([job[w] EXCEPT !.at = at])
BY DEF TypeOK, Job, JobWithin

LEMMA DispatchStepIsWithin ==
    ASSUME TypeOK, Within, NEW w \in Workers, DispatchStep(w) \/ Watchdog(w)
    PROVE  Within'
<1>1. CASE LaunchFails(w) \/ CreateDuplicate(w) \/ AbortLaunch(w)
  BY <1>1, DispatchFailsIsWithin DEF LaunchFails, CreateDuplicate, AbortLaunch
<1>2. CASE LaunchKillsOld(w)
  <2>1. JobWithin([job[w] EXCEPT !.at = "create"])
    BY MovedIsWithin
  <2> QED
    BY <1>2, <2>1, ContinueIsWithin DEF LaunchKillsOld
<1>3. CASE CreatePane(w)
  <2>1. JobWithin([job[w] EXCEPT !.at = "finalize", !.agent = spawned + 1])
    BY DEF TypeOK, Job, JobWithin
  <2> QED
    BY <1>3, <2>1, ContinueIsWithin DEF CreatePane
<1>4. /\ Cautious(FinalizeRow(w))
      /\ Cautious([FinalizeRow(w) EXCEPT !.status = "running", !.handle = TRUE])
      /\ Cautious(MarkFailed(row))
  BY DEF TypeOK, Row, Cautious, FinalizeRow, Failed, MarkFailed
<1>5. /\ RowWithin(FinalizeRow(w))
      /\ RowWithin([FinalizeRow(w) EXCEPT !.status = "running", !.handle = TRUE])
      /\ RowWithin(MarkFailed(row))
  BY <1>4, CautiousIsWithin DEF Within
<1>6. CASE Finalize(w)
  BY <1>5, <1>6, IdleIsWithin, WriteIsWithin DEF Finalize
<1>7. CASE FinalizeTooLate(w)
  <2>1. JobWithin([job[w] EXCEPT !.at = "abort"])
    BY MovedIsWithin
  <2> QED
    BY <1>5, <1>7, <2>1, WriteIsWithin DEF FinalizeTooLate
<1>8. CASE Watchdog(w)
  <2>1. JobWithin([job[w] EXCEPT !.who = "orphan"])
    BY DEF TypeOK, Job, JobWithin, Within
  <2> QED
    BY <1>5, <1>8, <2>1, WriteIsWithin DEF Watchdog
<1> QED
  BY <1>1, <1>2, <1>3, <1>6, <1>7, <1>8 DEF DispatchStep

LEMMA HandoffStepIsWithin ==
    ASSUME TypeOK, Within, NEW w \in Workers, HandoffStep(w)
    PROVE  Within'
<1>1. row \in Row /\ RowWithin(row) /\ JobWithin(job[w])
  BY DEF TypeOK, Within
<1>2. CASE VerifyPasses(w)
  <2>1. JobWithin(Advance(row, "mediate"))
    BY <1>1, AdvanceIsWithin
  <2> QED
    BY <1>2, <2>1, ContinueIsWithin DEF VerifyPasses
<1>3. CASE VerifyFails(w)
  <2>1. Cautious([row EXCEPT !.status = "blocked"])
    BY <1>1 DEF Row, Cautious
  <2> QED
    BY <1>1, <1>3, <2>1, CautiousIsWithin, IdleIsWithin, WriteIsWithin DEF VerifyFails
<1>4. CASE AdvanceStage(w)
  <2> DEFINE r == NextStage(w)
             j == IF job[w].who # "mediate" THEN Idle
                  ELSE IF r.stage \in ActionStages
                       THEN Parked("action", "mediate", r.stage)
                       ELSE Dispatch(r, "mediate")
  <2>1. /\ r.stage = job[w].stage + 1
        /\ r.status = "ready" /\ r.saved = row.saved
    BY <1>1 DEF NextStage, Row
  <2>2. Ungated(job[w].stage)
    BY <1>1, <1>4 DEF AdvanceStage, JobWithin
  <2>3. \A s \in Stages : s < r.stage => GateOf[s] \notin HumanGates
    BY <2>1, <2>2, ConstantsAssumption, JobFieldsType DEF Ungated, Stages
  <2>4. RowWithin(r)
    BY <1>1, <2>1, <2>3 DEF RowWithin
  <2>5. JobWithin(j)
    BY IdleIsWithin, ParkedIsWithin, DispatchIsWithin
  <2>6. Write(w, r, j)
    BY <1>4 DEF AdvanceStage
  <2> HIDE DEF r, j
  <2> QED
    BY <2>4, <2>5, <2>6, WriteIsWithin
<1>5. CASE CompleteFlow(w)
  <2>1. GateOf[LastStage] \notin HumanGates
    BY <1>1, <1>5, ConstantsAssumption DEF CompleteFlow, JobWithin, Ungated, Stages
  <2>2. RowWithin([row EXCEPT !.status = "completed"])
    BY <1>1, <2>1 DEF RowWithin, Row
  <2> QED
    BY <1>5, <2>2, IdleIsWithin, WriteIsWithin DEF CompleteFlow
<1>6. CASE ActionSucceeds(w)
  <2>1. PICK s \in {row.status, "waiting"} :
           Write(w, [row EXCEPT !.status = s],
                 IF s = "ready" THEN Mediate([row EXCEPT !.status = s]) ELSE Idle)
    BY <1>1, <1>6 DEF ActionSucceeds, Row
  <2> DEFINE r == [row EXCEPT !.status = s]
  <2>2. r \in Row /\ Cautious(r)
    BY <1>1 DEF Row, Statuses, Cautious
  <2>3. RowWithin(r)
    BY <1>1, <2>2, CautiousIsWithin
  <2> HIDE DEF r
  <2>4. JobWithin(IF s = "ready" THEN Mediate(r) ELSE Idle)
    BY <2>2, <2>3, MediateIsWithin, IdleIsWithin
  <2> QED
    BY <2>1, <2>3, <2>4, WriteIsWithin DEF r
<1>7. CASE ActionFails(w)
  <2>1. Cautious(MarkFailed(row)) /\ Cautious([row EXCEPT !.status = "blocked"])
    BY <1>1 DEF Row, Cautious, Failed, MarkFailed
  <2> QED
    BY <1>1, <1>7, <2>1, CautiousIsWithin, IdleIsWithin, WriteIsWithin DEF ActionFails
<1>8. CASE DispatchedActionSucceeds(w)
  <2> DEFINE r == [row EXCEPT !.status = "ready", !.handle = FALSE]
  <2>1. r \in Row /\ Cautious(r)
    BY <1>1 DEF Row, Statuses, Cautious
  <2>2. RowWithin(r) /\ Write(w, r, Mediate(r))
    BY <1>1, <1>8, <2>1, CautiousIsWithin DEF DispatchedActionSucceeds
  <2> HIDE DEF r
  <2> QED
    BY <2>1, <2>2, MediateIsWithin, WriteIsWithin
<1>9. CASE DispatchedActionFails(w)
  <2>1. Cautious(Failed(row))
    BY <1>1 DEF Row, Cautious, Failed
  <2> QED
    BY <1>1, <1>9, <2>1, CautiousIsWithin, IdleIsWithin, WriteIsWithin
       DEF DispatchedActionFails
<1> QED
  BY <1>2, <1>3, <1>4, <1>5, <1>6, <1>7, <1>8, <1>9 DEF HandoffStep

LEMMA FailOrRetryIsWithin ==
    ASSUME TypeOK, Within, NEW w \in Workers, NEW who,
           FailOrRetry(w, Failed(row), who)
    PROVE  Within'
<1> DEFINE again == [Failed(row) EXCEPT !.status = "ready", !.error = FALSE]
<1>1. Cautious(Failed(row)) /\ Cautious(again)
  BY DEF TypeOK, Row, Cautious, Failed
<1>2. RowWithin(Failed(row)) /\ RowWithin(again)
  BY <1>1, CautiousIsWithin DEF Within
<1>3. \/ Write(w, again, Dispatch(again, who))
      \/ Write(w, Failed(row), Idle)
  BY DEF FailOrRetry
<1> HIDE DEF again
<1> QED
  BY <1>2, <1>3, DispatchIsWithin, IdleIsWithin, WriteIsWithin

LEMMA HookFrameIsWithin ==
    ASSUME TypeOK, Within, NEW w \in Workers, HookFrame(w)
    PROVE  Within'
<1>1. row \in Row /\ RowWithin(row)
  BY DEF TypeOK, Within
<1> DEFINE r == [row EXCEPT !.status = "ready"]
<1>2. /\ Cautious(UnlessTerminal(row, "running"))
      /\ Cautious(UnlessTerminal(row, "ready"))
      /\ Cautious([row EXCEPT !.status = "waiting"])
      /\ Cautious(r)
  BY CautiousRows DEF Statuses
<1>3. /\ RowWithin(UnlessTerminal(row, "running"))
      /\ RowWithin(UnlessTerminal(row, "ready"))
      /\ RowWithin([row EXCEPT !.status = "waiting"])
      /\ RowWithin(r)
  BY <1>1, <1>2, CautiousIsWithin
<1>4. r \in Row
  BY <1>1 DEF Row, Statuses
<1>5. CASE HookStale(w)
  BY <1>5 DEF HookStale, Within, RowWithin, JobWithin, Ungated
<1>6. CASE HookWorking(w)
  BY <1>3, <1>6, IdleIsWithin, WriteIsWithin DEF HookWorking
<1>7. CASE HookNotification(w)
  BY <1>3, <1>7, IdleIsWithin, WriteIsWithin DEF HookNotification
<1>8. CASE HookStopFailure(w)
  <2>1. \/ Write(w, UnlessTerminal(row, "running"), Idle)
        \/ UNCHANGED <<row, job>>
        \/ FailOrRetry(w, Failed(row), "hookRetry")
    BY <1>8 DEF HookStopFailure
  <2>2. UNCHANGED <<row, job>> => Within'
    BY DEF Within, RowWithin, JobWithin, Ungated
  <2> QED
    BY <1>3, <2>1, <2>2, IdleIsWithin, WriteIsWithin, FailOrRetryIsWithin
<1>9. CASE HookSessionEnd(w)
  <2>1. \/ Write(w, UnlessTerminal(row, "running"), Idle)
        \/ Write(w, r, Mediate(r))
        \/ FailOrRetry(w, Failed(row), "hookRetry")
        \/ Write(w, UnlessTerminal(row, "ready"), Idle)
    BY <1>9 DEF HookSessionEnd
  <2> HIDE DEF r
  <2> QED
    BY <1>3, <1>4, <2>1, IdleIsWithin, MediateIsWithin, WriteIsWithin,
       FailOrRetryIsWithin
<1> QED
  BY <1>5, <1>6, <1>7, <1>8, <1>9 DEF HookFrame

LEMMA ReportFrameIsWithin ==
    ASSUME TypeOK, Within, NEW w \in Workers, ReportFrame(w)
    PROVE  Within'
<1>1. row \in Row /\ RowWithin(row)
  BY DEF TypeOK, Within
<1>2. CASE ReportStale(w) \/ ReportRejected(w)
  BY <1>2 DEF ReportStale, ReportRejected, Within, RowWithin, JobWithin, Ungated
<1>3. CASE ReportCompleted(w)
  <2> DEFINE off == [row EXCEPT !.handle = FALSE]
             b == [off EXCEPT !.status = "blocked"]
             r == [off EXCEPT !.status = "ready", !.error = FALSE]
  <2>1. r \in Row /\ Cautious(r) /\ Cautious(b)
    BY <1>1 DEF Row, Statuses, Cautious
  <2>2. RowWithin(r) /\ RowWithin(b)
    BY <1>1, <2>1, CautiousIsWithin
  <2>3. Write(w, b, Idle) \/ Write(w, r, Mediate(r))
    BY <1>3 DEF ReportCompleted
  <2> HIDE DEF b, r
  <2> QED
    BY <2>1, <2>2, <2>3, IdleIsWithin, MediateIsWithin, WriteIsWithin
<1>4. CASE ReportQuestion(w) \/ ReportProgress(w)
  <2>1. /\ Cautious([row EXCEPT !.status = "waiting"])
        /\ Cautious([row EXCEPT !.status = "running"])
    BY CautiousRows DEF Statuses
  <2>2. /\ RowWithin([row EXCEPT !.status = "waiting"])
        /\ RowWithin([row EXCEPT !.status = "running"])
    BY <1>1, <2>1, CautiousIsWithin
  <2> QED
    BY <1>1, <1>4, <2>2, IdleIsWithin, WriteIsWithin DEF ReportQuestion, ReportProgress
<1>5. CASE ReportError(w)
  BY <1>5, FailOrRetryIsWithin DEF ReportError
<1> QED
  BY <1>2, <1>3, <1>4, <1>5 DEF ReportFrame

LEMMA PollStepIsWithin ==
    ASSUME TypeOK, Within, NEW w \in Workers, PollStep(w)
    PROVE  Within'
<1>1. row \in Row /\ RowWithin(row)
  BY DEF TypeOK, Within
<1>2. CASE PollPaneGone(w)
  BY <1>2, ParkedIsWithin, ContinueIsWithin DEF PollPaneGone
<1>3. CASE JudgeGone(w)
  <2>1. \A who : JobWithin(Parked("forensics", who, 1))
    BY ParkedIsWithin
  <2> QED
    BY <1>3, <2>1, IdleIsWithin, ContinueIsWithin DEF JudgeGone
<1>4. CASE WriteGone(w)
  <2> DEFINE off == [row EXCEPT !.handle = FALSE]
             f == Failed(off)
             r == [off EXCEPT !.status = "ready", !.error = FALSE]
  <2>1. r \in Row /\ Cautious(r) /\ Cautious(f)
    BY <1>1 DEF Row, Statuses, Cautious, Failed
  <2>2. RowWithin(r) /\ RowWithin(f)
    BY <1>1, <2>1, CautiousIsWithin
  <2>3. Write(w, f, Idle) \/ Write(w, r, Mediate(r))
    BY <1>4 DEF WriteGone
  <2> HIDE DEF f, r
  <2> QED
    BY <2>1, <2>2, <2>3, IdleIsWithin, MediateIsWithin, WriteIsWithin
<1> QED
  BY <1>2, <1>3, <1>4 DEF PollStep

\* a row that keeps the stage is resumed, rejected or ended
LEMMA OperatorRowsAreCautious ==
    ASSUME TypeOK
    PROVE  /\ Cautious(Stopped(row)) /\ Cautious(Killed(row))
           /\ Cautious(Archived(row))
           /\ \A who, stage : who # "rewind" => Cautious(Resumed(who, stage))
BY DEF TypeOK, Row, Cautious, Stopped, Killed, Archived, Resumed

LEMMA ResumeNowIsWithin ==
    ASSUME TypeOK, Within, NEW w \in Workers, NEW who, who # "rewind", NEW stage,
           ResumeNow(w, who, stage)
    PROVE  Within'
<1> DEFINE r == Resumed(who, stage)
<1>1. Cautious(r)
  BY OperatorRowsAreCautious
<1>2. RowWithin(r) /\ Write(w, r, ResumeRoute(r, stage))
  BY <1>1, CautiousIsWithin DEF ResumeNow, Within
<1> HIDE DEF r
<1>3. JobWithin(ResumeRoute(r, stage))
  <2>1. JobWithin(Dispatch(r, "kick"))
    BY DispatchIsWithin
  <2>2. JobWithin(Parked("action", "resume", r.stage))
    BY ParkedIsWithin
  <2> QED
    BY <2>1, <2>2, IdleIsWithin DEF ResumeRoute
<1> QED
  BY <1>2, <1>3, WriteIsWithin

LEMMA KillFirstIsWithin ==
    ASSUME TypeOK, Within, NEW w \in Workers, NEW who, who # "rewind", NEW stage,
           KillFirst(w, who, stage)
    PROVE  Within'
<1>1. JobWithin(Parked("killing", who, stage))
  BY DEF Parked, Idle, JobWithin
<1>2. RowWithin(row) /\ Write(w, row, Parked("killing", who, stage))
  BY DEF KillFirst, Within
<1> QED
  BY <1>1, <1>2, WriteIsWithin

LEMMA OperatorStepIsWithin ==
    ASSUME Operations \cap Overrides = {}, TypeOK, Within,
           NEW w \in Workers, OperatorStep(w)
    PROVE  Within'
<1>1. /\ row \in Row /\ RowWithin(row) /\ JobWithin(job[w])
      /\ "rewind" \notin Operations /\ "force" \notin Operations
      /\ "complete" \notin Operations
  BY DEF TypeOK, Within, Overrides
<1>3. RowWithin(Stopped(row)) /\ RowWithin(Killed(row)) /\ RowWithin(Archived(row))
  BY <1>1, OperatorRowsAreCautious, CautiousIsWithin
<1>4. CASE Stop(w) \/ Kill(w) \/ Archive(w)
  BY <1>3, <1>4, KillFirstIsWithin, IdleIsWithin, WriteIsWithin DEF Stop, Kill, Archive
<1>5. CASE Restore(w) \/ Pause(w) \/ AfterInterrupt(w)
  <2>1. \A s \in {"stopped", "blocked", "waiting"} :
           Cautious([row EXCEPT !.status = s])
    BY CautiousRows DEF Statuses
  <2>2. \A s \in {"stopped", "blocked", "waiting"} :
           RowWithin([row EXCEPT !.status = s])
    BY <1>1, <2>1, CautiousIsWithin
  <2> QED
    BY <1>5, <2>2, IdleIsWithin, WriteIsWithin DEF Restore, Pause, AfterInterrupt
<1>6. CASE Resume(w)
  <2>1. PICK stage \in Stages :
           KillFirst(w, "resume", stage) \/ ResumeNow(w, "resume", stage)
    BY <1>1, <1>6 DEF Resume
  <2> QED
    BY <2>1, KillFirstIsWithin, ResumeNowIsWithin
<1>7. CASE KillAgent(w)
  <2>1. JobWithin([job[w] EXCEPT !.at = "killed"])
    BY <1>1, <1>7 DEF KillAgent, JobWithin, TypeOK, Job
  <2> QED
    BY <1>7, <2>1, ContinueIsWithin DEF KillAgent
<1>8. CASE AfterKill(w)
  <2>1. job[w].who # "rewind"
    BY <1>1, <1>8 DEF AfterKill, JobWithin
  <2>2. \/ Write(w, Stopped(row), Idle)
        \/ Write(w, Killed(row), Idle)
        \/ Write(w, Archived(row), Idle)
        \/ ResumeNow(w, job[w].who, job[w].stage)
    BY <1>8 DEF AfterKill
  <2> QED
    BY <1>3, <2>1, <2>2, IdleIsWithin, ResumeNowIsWithin, WriteIsWithin
<1>9. CASE Interrupt(w)
  BY <1>9, ParkedIsWithin, ContinueIsWithin DEF Interrupt
<1>10. CASE Complete(w) \/ AdvanceStart(w)
  <2>1. AdvanceStart(w)
    BY <1>1, <1>10 DEF Complete, Calls
  <2>2. Continue(w, Advance(row, "advance"))
    BY <1>1, <2>1 DEF AdvanceStart, Calls
  <2> QED
    BY <1>1, <2>1, <2>2, AdvanceIsWithin, ContinueIsWithin DEF AdvanceStart
<1>11. CASE Reject(w)
  <2> DEFINE r == [row EXCEPT !.status = "ready", !.error = FALSE,
                              !.handle = FALSE, !.claude = 0]
  <2>1. Cautious(r) /\ Cautious(Failed(row))
    BY <1>1 DEF Row, Cautious, Failed
  <2>2. RowWithin(r) /\ RowWithin(Failed(row))
    BY <1>1, <2>1, CautiousIsWithin
  <2>3. Write(w, r, Dispatch(r, "reject")) \/ Write(w, Failed(row), Idle)
    BY <1>11 DEF Reject
  <2> HIDE DEF r
  <2> QED
    BY <2>2, <2>3, DispatchIsWithin, IdleIsWithin, WriteIsWithin
\* a deleted session comes back as what it was
<1>12. CASE Delete(w)
  <2>1. RowWithin([row EXCEPT !.status = "deleting", !.saved = row.status])
    BY <1>1 DEF Row, RowWithin
  <2> QED
    BY <1>12, <2>1, IdleIsWithin, WriteIsWithin DEF Delete
<1>13. CASE Undelete(w)
  <2>1. RowWithin([row EXCEPT !.status = row.saved])
    BY <1>1 DEF Row, RowWithin
  <2> QED
    BY <1>13, <2>1, IdleIsWithin, WriteIsWithin DEF Undelete
<1> QED
  BY <1>4, <1>5, <1>6, <1>7, <1>8, <1>9, <1>10, <1>11, <1>12, <1>13 DEF OperatorStep

LEMMA NextIsWithin ==
    ASSUME Operations \cap Overrides = {}, TypeOK, Within, [Next]_vars
    PROVE  Within'
<1>1. UNCHANGED <<row, job>> => Within'
  BY DEF Within, RowWithin, JobWithin, Ungated
<1>2. CASE UNCHANGED vars
  BY <1>1, <1>2 DEF vars
<1>3. CASE \E w \in Workers : Step(w)
  BY <1>3, DispatchStepIsWithin, HandoffStepIsWithin, HookFrameIsWithin,
     ReportFrameIsWithin, PollStepIsWithin, OperatorStepIsWithin DEF Step
<1>4. CASE \E i \in Launched : AgentSends(i) \/ AgentExits(i) \/ AgentCrashes(i)
  BY <1>1, <1>4 DEF AgentSends, AgentExits, AgentCrashes
<1>5. CASE PaneLost \/ FrameLost
  BY <1>1, <1>5 DEF PaneLost, FrameLost
<1>6. CASE PollFails
  <2>1. Cautious([Failed(row) EXCEPT !.handle = FALSE])
    BY DEF TypeOK, Row, Cautious, Failed
  <2>2. RowWithin(row) /\ RowWithin([Failed(row) EXCEPT !.handle = FALSE])
    BY <2>1, CautiousIsWithin DEF Within
  <2>3. row' = row \/ row' = [Failed(row) EXCEPT !.handle = FALSE]
    BY <1>6 DEF PollFails, Update
  <2>4. RowWithin(row)'
    BY <2>2, <2>3 DEF RowWithin
  <2>5. job' = job
    BY <1>6 DEF PollFails
  <2> QED
    BY <2>4, <2>5 DEF Within, JobWithin, Ungated
<1>7. CASE Restart
  <2>1. row' = row /\ \A w \in Workers : job'[w] = Idle
    BY <1>7 DEF Restart
  <2>2. \A w \in Workers : JobWithin(job[w])'
    BY <2>1, IdleIsWithin DEF JobWithin, Ungated
  <2> QED
    BY <2>1, <2>2 DEF Within, RowWithin
<1> QED
  BY <1>2, <1>3, <1>4, <1>5, <1>6, <1>7 DEF Next, PollExitCode, PollUnreachable

\* No stage behind a manual or a review gate is passed, and no flow ends in
\* one, unless an operator forces, completes or rewinds: whatever frames are
\* lost, repeated or late, whatever chains overlap, crash or are restarted.
THEOREM HumanGatesHold == Spec => []GatesHold
<1>1. Init => GatesInv
  <2> SUFFICES ASSUME Init PROVE RowWithin(row) /\ \A w \in Workers : JobWithin(job[w])
    BY DEF GatesInv
  <2>1. RowWithin(row)
    BY ConstantsAssumption DEF Init, RowWithin, Stages
  <2>2. PICK v \in Workers :
           job = [w \in Workers |-> IF w = v THEN Dispatch(row, "kick") ELSE Idle]
    BY DEF Init
  <2> QED
    BY <2>1, <2>2, DispatchIsWithin, IdleIsWithin
<1>2. TypeOK /\ GatesInv /\ [Next]_vars => GatesInv'
  BY NextIsWithin DEF GatesInv, Within
<1>3. GatesInv => GatesHold
  BY DEF GatesInv, GatesHold, RowWithin
<1> QED
  BY <1>1, <1>2, <1>3, TypeCorrect, PTL DEF Spec

---------------------------------------------------------------------------
(* What a chain leaves behind: its row and what it waits for next          *)

\* only the end of a launch sets a handle, and only for the stage at hand
KeepsHandle(r) == r.handle => row.handle /\ r.stage = row.stage

\* what a chain begins anew; a launch begins for the stage of the row r
Begins(j, r) ==
    /\ j.at \notin {"create", "finalize", "abort"}
    /\ j.at = "prepare" => /\ j.stage = r.stage /\ j.stage \notin ActionStages
                           /\ r.status # "running"

\* a step of the chain w that is not one inside a launch
Ordinary(w) ==
    /\ KeepsHandle(row')
    /\ \E j \in Job : Begins(j, row') /\ job' = [job EXCEPT ![w] = j]

LEMMA IdleBegins == \A r : Begins(Idle, r)
BY DEF Idle, Begins

LEMMA ParkedBegins ==
    ASSUME NEW at, NEW who, NEW stage, NEW r,
           at \notin {"prepare", "create", "finalize", "abort"}
    PROVE  Begins(Parked(at, who, stage), r)
BY DEF Parked, Idle, Begins

LEMMA DispatchBegins ==
    ASSUME NEW r, NEW who, r.status # "running"
    PROVE  Begins(Dispatch(r, who), r)
BY DEF Dispatch, Parked, Idle, Begins

LEMMA AdvanceBegins == \A r, who, s : Begins(Advance(r, who), s)
BY IdleBegins, ParkedBegins DEF Advance

LEMMA MediateBegins == \A r, s : Begins(Mediate(r), s)
<1>1. \A r, s : Begins(Parked("verify", "mediate", r.stage), s)
  BY ParkedBegins
<1> QED
  BY <1>1, AdvanceBegins DEF Mediate

LEMMA WriteIsOrdinary ==
    ASSUME NEW w \in Workers, NEW r, NEW j \in Job,
           KeepsHandle(r), Begins(j, r), Write(w, r, j)
    PROVE  Ordinary(w)
<1>1. KeepsHandle(row')
  BY DEF KeepsHandle, Write, Update
<1>2. Begins(j, row')
  BY DEF Begins, Write, Update
<1> QED
  BY <1>1, <1>2 DEF Ordinary, Write, Continue

LEMMA ContinueIsOrdinary ==
    ASSUME NEW w \in Workers, NEW j \in Job, Begins(j, row), UNCHANGED row, Continue(w, j)
    PROVE  Ordinary(w)
BY DEF Ordinary, KeepsHandle, Begins, Continue

\* a handler that leaves the row and its own, free, chain as they are
LEMMA RestIsOrdinary ==
    ASSUME TypeOK, NEW w \in Workers, Free(w), UNCHANGED <<row, job>>
    PROVE  Ordinary(w)
<1>1. job[w] \in Job /\ Begins(job[w], row) /\ job' = [job EXCEPT ![w] = job[w]]
  BY DEF TypeOK, Free, Begins
<1> QED
  BY <1>1 DEF Ordinary, KeepsHandle, Begins

\* the rows that are written keep the handle or drop it
LEMMA RowsKeepHandle ==
    ASSUME TypeOK
    PROVE  /\ KeepsHandle(row) /\ KeepsHandle(Failed(row)) /\ KeepsHandle(MarkFailed(row))
           /\ \A s \in Statuses : /\ KeepsHandle(UnlessTerminal(row, s))
                                  /\ KeepsHandle([row EXCEPT !.status = s])
           /\ KeepsHandle(Stopped(row)) /\ KeepsHandle(Killed(row)) /\ KeepsHandle(Archived(row))
           /\ \A who, stage : KeepsHandle(Resumed(who, stage))
BY DEF TypeOK, Row, KeepsHandle, Failed, MarkFailed, UnlessTerminal, Stopped, Killed,
       Archived, Resumed

LEMMA DispatchFailsIsOrdinary ==
    ASSUME TypeOK, NEW w \in Workers, DispatchFails(w)
    PROVE  Ordinary(w)
<1>1. Write(w, row, Idle) \/ Write(w, MarkFailed(row), Idle)
  BY DEF DispatchFails
<1> QED
  BY <1>1, IdleType, IdleBegins, RowsKeepHandle, WriteIsOrdinary

LEMMA HandoffIsOrdinary ==
    ASSUME TypeOK, NEW w \in Workers, HandoffStep(w)
    PROVE  Ordinary(w)
<1>1. row \in Row /\ "mediate" \in Callers /\ {"blocked", "completed", "waiting"} \subseteq Statuses
  BY DEF TypeOK, Callers, Statuses
<1>2. CASE VerifyPasses(w)
  BY <1>1, <1>2, AdvanceType, AdvanceBegins, ContinueIsOrdinary DEF VerifyPasses
<1>3. CASE VerifyFails(w) \/ CompleteFlow(w)
  <2>1. /\ KeepsHandle([row EXCEPT !.status = "blocked"])
        /\ KeepsHandle([row EXCEPT !.status = "completed"])
    BY <1>1, RowsKeepHandle
  <2> QED
    BY <1>3, <2>1, IdleType, IdleBegins, WriteIsOrdinary DEF VerifyFails, CompleteFlow
<1>4. CASE AdvanceStage(w)
  <2> DEFINE r == NextStage(w)
             j == IF job[w].who # "mediate" THEN Idle
                  ELSE IF r.stage \in ActionStages
                       THEN Parked("action", "mediate", r.stage)
                       ELSE Dispatch(r, "mediate")
  <2>1. job[w].stage + 1 \in Stages
    BY <1>4, ConstantsAssumption, JobFieldsType DEF AdvanceStage, Stages
  <2>2. r \in Row
    <3>1. 0 \in 0..MaxSpawns /\ "ready" \in Statuses
      BY ConstantsAssumption DEF Statuses
    <3>2. NextStage(w) \in Row
      BY <1>1, <2>1, <3>1 DEF NextStage, Row
    <3> QED
      BY <3>2
  <2>3. r.stage \in Stages /\ r.status = "ready" /\ r.handle = FALSE
    BY <1>1, <2>2 DEF NextStage, Row
  <2>4. Write(w, r, j)
    BY <1>4 DEF AdvanceStage
  <2> HIDE DEF r
  <2>5. Parked("action", "mediate", r.stage) \in Job
    BY <1>1, <2>3, ParkedType DEF Waits
  <2>6. j \in Job
    BY <1>1, <2>2, <2>5, IdleType, DispatchType
  <2>7. Begins(j, r)
    BY <2>3, IdleBegins, ParkedBegins, DispatchBegins
  <2>8. KeepsHandle(r)
    BY <2>3 DEF KeepsHandle
  <2> HIDE DEF j
  <2> QED
    BY <2>4, <2>6, <2>7, <2>8, WriteIsOrdinary
<1>5. CASE ActionSucceeds(w)
  <2>1. PICK s \in {row.status, "waiting"} :
           Write(w, [row EXCEPT !.status = s],
                 IF s = "ready" THEN Mediate([row EXCEPT !.status = s]) ELSE Idle)
    BY <1>1, <1>5 DEF ActionSucceeds, Row
  <2> DEFINE r == [row EXCEPT !.status = s]
             j == IF s = "ready" THEN Mediate(r) ELSE Idle
  <2>2. s \in Statuses /\ Write(w, r, j)
    BY <1>1, <2>1 DEF Row
  <2>3. r \in Row /\ KeepsHandle(r)
    BY <1>1, <2>2, RowsKeepHandle DEF Row
  <2> HIDE DEF r
  <2>4. j \in Job /\ Begins(j, r)
    BY <2>3, IdleType, MediateType, IdleBegins, MediateBegins
  <2> HIDE DEF j
  <2> QED
    BY <2>2, <2>3, <2>4, WriteIsOrdinary
<1>6. CASE ActionFails(w) \/ DispatchedActionFails(w)
  <2>1. /\ KeepsHandle([row EXCEPT !.status = "blocked"])
        /\ KeepsHandle(Failed(row)) /\ KeepsHandle(MarkFailed(row))
    BY <1>1, RowsKeepHandle
  <2> QED
    BY <1>6, <2>1, IdleType, IdleBegins, WriteIsOrdinary DEF ActionFails, DispatchedActionFails
<1>7. CASE DispatchedActionSucceeds(w)
  <2> DEFINE r == [row EXCEPT !.status = "ready", !.handle = FALSE]
  <2>1. r \in Row /\ KeepsHandle(r)
    BY <1>1 DEF Row, Statuses, KeepsHandle
  <2>2. Write(w, r, Mediate(r))
    BY <1>7 DEF DispatchedActionSucceeds
  <2> HIDE DEF r
  <2> QED
    BY <2>1, <2>2, MediateType, MediateBegins, WriteIsOrdinary
<1> QED
  BY <1>2, <1>3, <1>4, <1>5, <1>6, <1>7 DEF HandoffStep

LEMMA FailOrRetryIsOrdinary ==
    ASSUME TypeOK, NEW w \in Workers, NEW who \in Callers, FailOrRetry(w, Failed(row), who)
    PROVE  Ordinary(w)
<1> DEFINE again == [Failed(row) EXCEPT !.status = "ready", !.error = FALSE]
<1>1. again \in Row /\ again.status = "ready" /\ KeepsHandle(again) /\ KeepsHandle(Failed(row))
  BY DEF TypeOK, Row, Statuses, Failed, KeepsHandle
<1>2. \/ Write(w, again, Dispatch(again, who))
      \/ Write(w, Failed(row), Idle)
  BY DEF FailOrRetry
<1> HIDE DEF again
<1>3. Dispatch(again, who) \in Job /\ Begins(Dispatch(again, who), again)
  BY <1>1, DispatchType, DispatchBegins
<1> QED
  BY <1>1, <1>2, <1>3, IdleType, IdleBegins, WriteIsOrdinary

LEMMA FramesAreOrdinary ==
    ASSUME TypeOK, NEW w \in Workers, HookFrame(w) \/ ReportFrame(w)
    PROVE  Ordinary(w)
<1>1. /\ row \in Row /\ {"running", "waiting", "ready", "blocked"} \subseteq Statuses
      /\ {"hookRetry", "reportRetry"} \subseteq Callers
  BY DEF TypeOK, Statuses, Callers
<1>2. /\ \A s \in {"running", "ready"} : KeepsHandle(UnlessTerminal(row, s))
      /\ \A s \in {"running", "waiting", "ready"} : KeepsHandle([row EXCEPT !.status = s])
  BY <1>1, RowsKeepHandle
<1>3. CASE HookStale(w) \/ ReportStale(w) \/ ReportRejected(w)
  BY <1>3, RestIsOrdinary DEF HookStale, ReportStale, ReportRejected, Takes
<1>4. CASE HookWorking(w) \/ HookNotification(w)
  BY <1>2, <1>4, IdleType, IdleBegins, WriteIsOrdinary DEF HookWorking, HookNotification
<1>5. CASE HookStopFailure(w)
  <2>1. \/ Write(w, UnlessTerminal(row, "running"), Idle)
        \/ UNCHANGED <<row, job>> /\ Free(w)
        \/ FailOrRetry(w, Failed(row), "hookRetry")
    BY <1>5 DEF HookStopFailure, Takes
  <2> QED
    BY <1>1, <1>2, <2>1, IdleType, IdleBegins, WriteIsOrdinary, RestIsOrdinary,
       FailOrRetryIsOrdinary
<1>6. CASE HookSessionEnd(w)
  <2> DEFINE r == [row EXCEPT !.status = "ready"]
  <2>1. \/ Write(w, UnlessTerminal(row, "running"), Idle)
        \/ Write(w, r, Mediate(r))
        \/ FailOrRetry(w, Failed(row), "hookRetry")
        \/ Write(w, UnlessTerminal(row, "ready"), Idle)
    BY <1>6 DEF HookSessionEnd
  <2>2. r \in Row /\ KeepsHandle(r)
    BY <1>1, <1>2 DEF Row
  <2> HIDE DEF r
  <2>3. Mediate(r) \in Job
    BY <2>2, MediateType
  <2> QED
    BY <1>1, <1>2, <2>1, <2>2, <2>3, IdleType, IdleBegins, MediateBegins, WriteIsOrdinary,
       FailOrRetryIsOrdinary
<1>7. CASE ReportCompleted(w)
  <2> DEFINE off == [row EXCEPT !.handle = FALSE]
             b == [off EXCEPT !.status = "blocked"]
             r == [off EXCEPT !.status = "ready", !.error = FALSE]
  <2>1. r \in Row /\ KeepsHandle(r) /\ KeepsHandle(b)
    BY <1>1 DEF Row, KeepsHandle
  <2>2. Write(w, b, Idle) \/ Write(w, r, Mediate(r))
    BY <1>7 DEF ReportCompleted
  <2> HIDE DEF b, r
  <2> QED
    BY <2>1, <2>2, IdleType, MediateType, IdleBegins, MediateBegins, WriteIsOrdinary
<1>8. CASE ReportQuestion(w) \/ ReportProgress(w)
  <2>1. KeepsHandle(row)
    BY RowsKeepHandle
  <2> QED
    BY <1>2, <1>8, <2>1, IdleType, IdleBegins, WriteIsOrdinary DEF ReportQuestion, ReportProgress
<1>9. CASE ReportError(w)
  BY <1>1, <1>9, FailOrRetryIsOrdinary DEF ReportError
<1> QED
  BY <1>3, <1>4, <1>5, <1>6, <1>7, <1>8, <1>9 DEF HookFrame, ReportFrame

LEMMA PollsAreOrdinary ==
    ASSUME TypeOK, NEW w \in Workers, PollStep(w)
    PROVE  Ordinary(w)
<1>1. row \in Row /\ 1 \in Stages /\ {"none", "completed", "failed"} \subseteq Callers
  BY ConstantsAssumption DEF TypeOK, Callers, Stages
<1>2. CASE PollPaneGone(w) \/ JudgeGone(w)
  <2>1. /\ Parked("gone", "none", 1) \in Job
        /\ \A who \in {"completed", "failed"} : Parked("forensics", who, 1) \in Job
    BY <1>1, ParkedType DEF Waits
  <2>2. PICK j \in Job : Begins(j, row) /\ Continue(w, j)
    BY <1>2, <2>1, IdleType, IdleBegins, ParkedBegins DEF PollPaneGone, JudgeGone
  <2> QED
    BY <1>2, <2>2, ContinueIsOrdinary DEF PollPaneGone, JudgeGone
<1>3. CASE WriteGone(w)
  <2> DEFINE off == [row EXCEPT !.handle = FALSE]
             f == Failed(off)
             r == [off EXCEPT !.status = "ready", !.error = FALSE]
  <2>1. r \in Row /\ KeepsHandle(r) /\ KeepsHandle(f)
    BY <1>1 DEF Row, Statuses, KeepsHandle, Failed
  <2>2. Write(w, f, Idle) \/ Write(w, r, Mediate(r))
    BY <1>3 DEF WriteGone
  <2> HIDE DEF f, r
  <2> QED
    BY <2>1, <2>2, IdleType, MediateType, IdleBegins, MediateBegins, WriteIsOrdinary
<1> QED
  BY <1>2, <1>3 DEF PollStep

LEMMA ResumeIsOrdinary ==
    ASSUME TypeOK, NEW w \in Workers, NEW who \in Callers, NEW stage \in Stages,
           KillFirst(w, who, stage) \/ ResumeNow(w, who, stage)
    PROVE  Ordinary(w)
<1>1. CASE KillFirst(w, who, stage)
  <2>1. Parked("killing", who, stage) \in Job
    BY ParkedType DEF Waits
  <2> QED
    BY <1>1, <2>1, ParkedBegins, RowsKeepHandle, WriteIsOrdinary DEF KillFirst
<1>2. CASE ResumeNow(w, who, stage)
  <2> DEFINE r == Resumed(who, stage)
             j == ResumeRoute(r, stage)
  <2>1. KeepsHandle(r) /\ Write(w, r, j)
    BY <1>2, RowsKeepHandle DEF ResumeNow
  <2>2. r \in Row /\ r.status = "ready"
    <3>1. row \in Row /\ "ready" \in Statuses /\ 0 \in 0..MaxSpawns
      BY ConstantsAssumption DEF TypeOK, Statuses
    <3>2. [row EXCEPT !.status = "ready", !.error = FALSE, !.handle = FALSE] \in Row
      BY <3>1 DEF Row
    <3>3. Resumed(who, stage) \in Row /\ Resumed(who, stage).status = "ready"
      BY <3>1, <3>2 DEF Resumed, Row
    <3> QED
      BY <3>3
  <2>3. "kick" \in Callers /\ "resume" \in Callers /\ r.stage \in Stages
    BY <2>2 DEF Callers, AllOperations, Row
  <2> HIDE DEF r
  <2>4. Dispatch(r, "kick") \in Job /\ Parked("action", "resume", r.stage) \in Job
    BY <2>2, <2>3, DispatchType, ParkedType DEF Waits
  <2>5. j \in Job /\ Begins(j, r)
    BY <2>2, <2>4, IdleType, IdleBegins, ParkedBegins, DispatchBegins DEF ResumeRoute
  <2> HIDE DEF j
  <2> QED
    BY <2>1, <2>5, WriteIsOrdinary
<1> QED
  BY <1>1, <1>2

LEMMA OperatorIsOrdinary ==
    ASSUME TypeOK, NEW w \in Workers, OperatorStep(w)
    PROVE  Ordinary(w)
<1>1. /\ row \in Row /\ row.stage \in Stages /\ 1 \in Stages
      /\ AllOperations \subseteq Callers /\ 0 \in 0..MaxSpawns
  BY ConstantsAssumption DEF TypeOK, Callers, Row, Stages
<1>2. /\ KeepsHandle(Stopped(row)) /\ KeepsHandle(Killed(row)) /\ KeepsHandle(Archived(row))
      /\ \A s \in {"stopped", "blocked", "waiting"} : KeepsHandle([row EXCEPT !.status = s])
  BY RowsKeepHandle DEF Statuses
<1>3. CASE Stop(w) \/ Kill(w) \/ Archive(w)
  <2>1. {"stop", "kill", "archive"} \subseteq Callers
    BY <1>1 DEF AllOperations
  <2> QED
    BY <1>1, <1>2, <1>3, <2>1, IdleType, IdleBegins, ResumeIsOrdinary, WriteIsOrdinary
       DEF Stop, Kill, Archive
<1>4. CASE Restore(w) \/ Pause(w) \/ AfterInterrupt(w)
  BY <1>2, <1>4, IdleType, IdleBegins, WriteIsOrdinary DEF Restore, Pause, AfterInterrupt
<1>5. CASE Resume(w)
  <2>1. {"resume", "rewind"} \subseteq Callers
    BY <1>1 DEF AllOperations
  <2>2. PICK stage \in Stages, who \in {"resume", "rewind"} :
           KillFirst(w, who, stage) \/ ResumeNow(w, who, stage)
    BY <1>5 DEF Resume
  <2>3. who \in Callers
    BY <2>1
  <2> QED
    BY <2>2, <2>3, ResumeIsOrdinary
<1>6. CASE KillAgent(w)
  <2>1. [job[w] EXCEPT !.at = "killed"] \in Job
    BY JobFieldsType, JobType DEF Waits
  <2>2. Begins([job[w] EXCEPT !.at = "killed"], row)
    BY DEF TypeOK, Job, Begins
  <2> QED
    BY <1>6, <2>1, <2>2, ContinueIsOrdinary DEF KillAgent
<1>7. CASE AfterKill(w)
  <2>1. \/ Write(w, Stopped(row), Idle)
        \/ Write(w, Killed(row), Idle)
        \/ Write(w, Archived(row), Idle)
        \/ ResumeNow(w, job[w].who, job[w].stage)
    BY <1>7 DEF AfterKill
  <2> QED
    BY <1>2, <2>1, IdleType, IdleBegins, JobFieldsType, ResumeIsOrdinary, WriteIsOrdinary
<1>8. CASE Interrupt(w)
  <2>1. Parked("keys", "interrupt", 1) \in Job
    BY <1>1, ParkedType DEF Waits, AllOperations
  <2> QED
    BY <1>8, <2>1, ParkedBegins, ContinueIsOrdinary DEF Interrupt
<1>9. CASE Complete(w)
  <2> DEFINE r == [row EXCEPT !.status = "ready", !.handle = FALSE]
  <2>1. r \in Row /\ KeepsHandle(r) /\ Write(w, r, Advance(r, "complete"))
    BY <1>1, <1>9 DEF Complete, Row, Statuses, KeepsHandle
  <2>2. "complete" \in Callers
    BY <1>1 DEF AllOperations
  <2> HIDE DEF r
  <2> QED
    BY <2>1, <2>2, AdvanceType, AdvanceBegins, WriteIsOrdinary
<1>10. CASE AdvanceStart(w)
  <2>1. PICK who \in {"advance", "force"} : Continue(w, Advance(row, who))
    BY <1>10 DEF AdvanceStart
  <2>2. Advance(row, who) \in Job
    BY <1>1, AdvanceType DEF AllOperations
  <2> QED
    BY <1>10, <2>1, <2>2, AdvanceBegins, ContinueIsOrdinary DEF AdvanceStart
<1>11. CASE Reject(w)
  <2> DEFINE r == [row EXCEPT !.status = "ready", !.error = FALSE,
                              !.handle = FALSE, !.claude = 0]
  <2>1. /\ r \in Row /\ r.status = "ready"
        /\ KeepsHandle(r) /\ KeepsHandle(Failed(row))
    BY <1>1 DEF Row, Statuses, KeepsHandle, Failed
  <2>2. Write(w, r, Dispatch(r, "reject")) \/ Write(w, Failed(row), Idle)
    BY <1>11 DEF Reject
  <2>3. "reject" \in Callers
    BY <1>1 DEF AllOperations
  <2> HIDE DEF r
  <2>4. Dispatch(r, "reject") \in Job /\ Begins(Dispatch(r, "reject"), r)
    BY <2>1, <2>3, DispatchType, DispatchBegins
  <2> QED
    BY <2>1, <2>2, <2>4, IdleType, IdleBegins, WriteIsOrdinary
<1>12. CASE Delete(w) \/ Undelete(w)
  <2>1. /\ KeepsHandle([row EXCEPT !.status = "deleting", !.saved = row.status])
        /\ KeepsHandle([row EXCEPT !.status = row.saved])
    BY <1>1 DEF Row, KeepsHandle
  <2> QED
    BY <1>12, <2>1, IdleType, IdleBegins, WriteIsOrdinary DEF Delete, Undelete
<1> QED
  BY <1>3, <1>4, <1>5, <1>6, <1>7, <1>8, <1>9, <1>10, <1>11, <1>12 DEF OperatorStep

\* The steps inside a launch, by name, and all others.
LEMMA StepsAreOrdinary ==
    ASSUME TypeOK, NEW w \in Workers, Step(w)
    PROVE  \/ LaunchKillsOld(w) \/ CreatePane(w) \/ Finalize(w) \/ FinalizeTooLate(w)
           \/ Watchdog(w)
           \/ Ordinary(w)
<1>1. LaunchFails(w) \/ CreateDuplicate(w) \/ AbortLaunch(w) => Ordinary(w)
  BY DispatchFailsIsOrdinary DEF LaunchFails, CreateDuplicate, AbortLaunch
<1> QED
  BY <1>1, HandoffIsOrdinary, FramesAreOrdinary, PollsAreOrdinary, OperatorIsOrdinary
     DEF Step, DispatchStep

---------------------------------------------------------------------------
(* A running session is watched *)

\* agents are launched for agents' stages, and handles are theirs
AgentsStages ==
    /\ \A w \in Workers :
          job[w].at \in {"prepare", "create", "finalize"} => job[w].stage \notin ActionStages
    /\ row.handle => row.stage \notin ActionStages

\* A job moved on, to another step or with its agent, is at the same stage.
LEMMA StageOfMoved ==
    ASSUME NEW x \in Job
    PROVE  \A at, a : /\ [x EXCEPT !.at = at].stage = x.stage
                     /\ [x EXCEPT !.at = at, !.agent = a].stage = x.stage
BY DEF Job

LEMMA AgentsStagesAreKept ==
    ASSUME TypeOK, AgentsStages, [Next]_vars
    PROVE  AgentsStages'
<1>1. UNCHANGED <<row, job>> => AgentsStages'
  BY DEF AgentsStages
<1>2. CASE UNCHANGED vars
  BY <1>1, <1>2 DEF vars
<1>3. ASSUME NEW w \in Workers, Step(w)
      PROVE  AgentsStages'
  <2>0. job \in [Workers -> Job] /\ row \in Row /\ job[w] \in Job
    BY DEF TypeOK
  <2>1. CASE Ordinary(w)
    BY <2>0, <2>1 DEF Ordinary, KeepsHandle, Begins, AgentsStages
  <2>2. CASE LaunchKillsOld(w) \/ CreatePane(w)
    <3>1. PICK j : /\ job' = [job EXCEPT ![w] = j] /\ j.stage = job[w].stage
                   /\ job[w].at \in {"prepare", "create"} /\ row' = row
      <4>1. \A at, a : /\ [job[w] EXCEPT !.at = at].stage = job[w].stage
                       /\ [job[w] EXCEPT !.at = at, !.agent = a].stage = job[w].stage
        BY <2>0, StageOfMoved
      <4>2. CASE LaunchKillsOld(w)
        <5> DEFINE killed == [job[w] EXCEPT !.at = "create"]
        <5>1. /\ job' = [job EXCEPT ![w] = killed]
              /\ job[w].at = "prepare" /\ row' = row
          BY <4>2 DEF LaunchKillsOld, Continue
        <5>2. killed.stage = job[w].stage
          BY <4>1
        <5> QED
          BY <5>1, <5>2
      <4>3. CASE CreatePane(w)
        <5> DEFINE created == [job[w] EXCEPT !.at = "finalize", !.agent = spawned + 1]
        <5>1. /\ job' = [job EXCEPT ![w] = created]
              /\ job[w].at = "create" /\ row' = row
          BY <4>3 DEF CreatePane, Continue
        <5>2. created.stage = job[w].stage
          BY <4>1
        <5> QED
          BY <5>1, <5>2
      <4> QED
        BY <2>2, <4>2, <4>3
    <3> QED
      BY <2>0, <3>1 DEF AgentsStages
  <2>3. CASE Finalize(w)
    <3> DEFINE r == [FinalizeRow(w) EXCEPT !.status = "running", !.handle = TRUE]
    <3>1. r.stage = row.stage /\ row.stage = job[w].stage
      BY <2>0, <2>3 DEF Finalize, MovedOn, FinalizeRow, Row
    <3>2. row' = r /\ job' = [job EXCEPT ![w] = Idle]
      BY <2>0, <2>3 DEF Finalize, Write, Update, Continue, FinalizeRow, Row
    <3>3. row'.stage \notin ActionStages
      BY <2>3, <3>1, <3>2 DEF Finalize, AgentsStages
    <3> HIDE DEF r
    <3> QED
      BY <2>0, <3>2, <3>3 DEF AgentsStages, Idle
  <2>4. CASE FinalizeTooLate(w) \/ Watchdog(w)
    <3>1. row'.handle = row.handle /\ row'.stage = row.stage
      BY <2>0, <2>4 DEF FinalizeTooLate, Watchdog, Write, Update, FinalizeRow, MarkFailed,
                        Failed, Row
    <3>2. \A v \in Workers : /\ job'[v].stage = job[v].stage
                             /\ job'[v].at = job[v].at \/ job'[v].at = "abort"
      BY <2>0, <2>4 DEF FinalizeTooLate, Watchdog, Write, Continue, Job
    <3> QED
      BY <3>1, <3>2 DEF AgentsStages
  <2> QED
    BY <1>3, <2>1, <2>2, <2>3, <2>4, StepsAreOrdinary
<1>4. CASE \E i \in Launched : AgentSends(i) \/ AgentExits(i) \/ AgentCrashes(i)
  BY <1>1, <1>4 DEF AgentSends, AgentExits, AgentCrashes
<1>5. CASE PaneLost \/ FrameLost
  BY <1>1, <1>5 DEF PaneLost, FrameLost
<1>6. CASE PollFails
  BY <1>6 DEF PollFails, Update, Failed, TypeOK, Row, AgentsStages
<1>7. CASE Restart
  BY <1>7 DEF Restart, Idle, AgentsStages
<1> QED
  BY <1>2, <1>3, <1>4, <1>5, <1>6, <1>7 DEF Next, PollExitCode, PollUnreachable

\* the frames are those that agents may send, and their ends
Sent == MayPrompt \cup {"SessionEnd"}
OnlySent == mail \in Seq([from : Launched, kind : Sent])

LEMMA OnlySentIsKept ==
    ASSUME TypeOK, OnlySent, [Next]_vars
    PROVE  OnlySent'
<1> DEFINE F == [from : Launched, kind : Sent]
<1>0. mail \in Seq(F)
  BY DEF OnlySent
<1>1. CASE mail' = mail
  BY <1>1 DEF OnlySent
<1>2. CASE \E n \in DOMAIN mail : mail' = RemoveAt(mail, n)
  BY <1>0, <1>2, RemoveAtType DEF OnlySent
<1>3. CASE \E i \in Launched, k \in Sent : Speaks(i, k)
  <2>1. PICK i \in Launched, k \in Sent : mail' = Append(mail, [from |-> i, kind |-> k])
    BY <1>3 DEF Speaks
  <2>2. [from |-> i, kind |-> k] \in F
    BY <2>1
  <2> QED
    BY <1>0, <2>1, <2>2 DEF OnlySent
<1>4. ASSUME NEW w \in Workers, Step(w)
      PROVE  mail' = mail \/ \E n \in DOMAIN mail : mail' = RemoveAt(mail, n)
  <2>1. CASE DispatchStep(w) \/ Watchdog(w)
    BY <2>1 DEF DispatchStep, Watchdog, LaunchFails, LaunchKillsOld, CreatePane,
       CreateDuplicate, Finalize, FinalizeTooLate, AbortLaunch
  <2>2. CASE HandoffStep(w)
    BY <2>2 DEF HandoffStep, VerifyPasses, VerifyFails, AdvanceStage, CompleteFlow,
       ActionSucceeds, ActionFails, DispatchedActionSucceeds, DispatchedActionFails
  <2>3. CASE HookFrame(w)
    BY <2>3 DEF HookFrame, HookStale, HookWorking, HookNotification, HookStopFailure,
       HookSessionEnd, Takes
  <2>4. CASE ReportFrame(w)
    BY <2>4 DEF ReportFrame, ReportStale, ReportCompleted, ReportRejected,
       ReportQuestion, ReportError, ReportProgress, Takes
  <2>5. CASE PollStep(w)
    BY <2>5 DEF PollStep, PollPaneGone, JudgeGone, WriteGone
  <2>6. CASE OperatorStep(w)
    BY <2>6 DEF OperatorStep, Stop, Kill, Archive, Restore, Resume, KillAgent,
       AfterKill, Pause, Interrupt, AfterInterrupt, Complete, AdvanceStart,
       Reject, Delete, Undelete, Untouched
  <2> QED
    BY <1>4, <2>1, <2>2, <2>3, <2>4, <2>5, <2>6 DEF Step
<1>5. ASSUME NEW i \in Launched, AgentSends(i) \/ AgentExits(i) \/ AgentCrashes(i)
      PROVE  mail' = mail \/ \E k \in Sent : Speaks(i, k)
  BY <1>5 DEF AgentSends, AgentExits, AgentCrashes, Sent
<1>6. CASE PaneLost \/ Restart \/ PollExitCode \/ PollUnreachable
  BY <1>1, <1>6 DEF PaneLost, PollExitCode, PollUnreachable, PollFails, Restart
<1>7. CASE FrameLost
  BY <1>2, <1>7 DEF FrameLost
<1> QED
  BY <1>1, <1>2, <1>3, <1>4, <1>5, <1>6, <1>7 DEF Next, vars

\* the chains that will end a running session which has no poller
Ends(j) == j.at = "forensics" \/ (j.at = "killed" /\ j.who = "stop")
Watched == row.status = "running" => poller \/ \E w \in Workers : Ends(job[w])

\* no frame and no operator makes a session run that did not; a user's own
\* stages, where a hook would, are not an agent's
NobodyRevives ==
    /\ "undelete" \notin Operations
    /\ MayPrompt \cap {"Working", "progress"} = {}
    /\ \A s \in Stages \ ActionStages : GateOf[s] # "manual"

\* After a step of w the session does not run, or is watched, or it ran before
\* and w was not the one who watched it.
LooksAfter(w) ==
    \/ row'.status # "running"
    \/ poller'
    \/ Ends(job'[w])
    \/ row.status = "running" /\ poller' = poller /\ ~Ends(job[w])

LEMMA LaunchesLookAfter ==
    ASSUME TypeOK, NEW w \in Workers, DispatchStep(w) \/ Watchdog(w)
    PROVE  LooksAfter(w)
<1>1. row \in Row
  BY DEF TypeOK
<1>2. CASE Finalize(w)
  BY <1>2 DEF Finalize, LooksAfter
<1>3. CASE ~Finalize(w)
  <2>1. /\ job[w].at \in {"prepare", "create", "finalize", "abort", "dispatchAction"}
        /\ poller' = poller
    BY <1>3 DEF DispatchStep, Watchdog, LaunchFails, LaunchKillsOld, CreatePane,
       CreateDuplicate, FinalizeTooLate, AbortLaunch
  <2>2. row'.status = "running" => row.status = "running"
    BY <1>1, <1>3 DEF DispatchStep, Watchdog, LaunchFails, LaunchKillsOld, CreatePane,
       CreateDuplicate, FinalizeTooLate, AbortLaunch, DispatchFails, Write, Update,
       FinalizeRow, MarkFailed, Failed, Row
  <2> QED
    BY <2>1, <2>2 DEF LooksAfter, Ends
<1> QED
  BY <1>2, <1>3

LEMMA HandoffsLookAfter ==
    ASSUME TypeOK, NEW w \in Workers, HandoffStep(w)
    PROVE  LooksAfter(w)
<1>1. row \in Row
  BY DEF TypeOK
<1>2. CASE AdvanceStage(w)
  <2>1. row' = NextStage(w) /\ row'.status = "ready"
    BY <1>1, <1>2 DEF AdvanceStage, NextStage, Write, Update, Row
  <2> QED
    BY <2>1 DEF LooksAfter
<1>3. CASE ~AdvanceStage(w)
  <2>1. /\ job[w].at \in {"verify", "advance", "action", "dispatchAction"}
        /\ poller' = poller
    BY <1>3 DEF HandoffStep, VerifyPasses, VerifyFails, CompleteFlow, ActionSucceeds,
       ActionFails, DispatchedActionSucceeds, DispatchedActionFails
  <2>2. row'.status = "running" => row.status = "running"
    BY <1>1, <1>3 DEF HandoffStep, VerifyPasses, VerifyFails, CompleteFlow, ActionSucceeds,
       ActionFails, DispatchedActionSucceeds, DispatchedActionFails, Write, Update,
       MarkFailed, Failed, Row
  <2> QED
    BY <2>1, <2>2 DEF LooksAfter, Ends
<1> QED
  BY <1>2, <1>3

LEMMA FramesLookAfter ==
    ASSUME TypeOK, AgentsStages, OnlySent, NobodyRevives, NEW w \in Workers,
           HookFrame(w) \/ ReportFrame(w)
    PROVE  LooksAfter(w)
<1>1. row \in Row /\ row.stage \in Stages
  BY DEF TypeOK, Row
<1>2. ~Ends(job[w]) /\ poller' = poller
  BY DEF HookFrame, HookStale, HookWorking, HookNotification, HookStopFailure, HookSessionEnd,
     ReportFrame, ReportStale, ReportCompleted, ReportRejected, ReportQuestion, ReportError,
     ReportProgress, Takes, Free, Ends
<1>3. \A f : ~Takes(w, f, {"Working"}) /\ ~Takes(w, f, {"progress"})
  <2>1. \A n \in DOMAIN mail : mail[n].kind \in Sent
    <3> DEFINE F == [from : Launched, kind : Sent]
    <3>1. \A n \in DOMAIN mail : mail[n] \in F
      <4> HIDE DEF F
      <4>1. mail \in Seq(F)
        BY DEF OnlySent, F
      <4> QED
        BY <4>1
    <3> QED
      BY <3>1
  <2>2. "Working" \notin Sent /\ "progress" \notin Sent
    BY DEF Sent, NobodyRevives
  <2> QED
    BY <2>1, <2>2 DEF Takes
<1>4. ~HookWorking(w) /\ ~ReportProgress(w)
  BY <1>3 DEF HookWorking, ReportProgress
<1>5. ASSUME NEW j, Manual(row), Write(w, UnlessTerminal(row, "running"), j)
      PROVE  row' = row
  BY <1>1, <1>5 DEF Manual, NobodyRevives, AgentsStages, Write, Update, UnlessTerminal, Row
<1>6. ASSUME NEW who, FailOrRetry(w, Failed(row), who)
      PROVE  row'.status # "running"
  BY <1>1, <1>6 DEF FailOrRetry, Write, Update, Failed, Row
<1>7. ASSUME HookFrame(w)
      PROVE  row'.status = "running" => row.status = "running"
  <2>1. CASE HookStale(w) \/ HookNotification(w)
    BY <1>1, <2>1 DEF HookStale, HookNotification, Write, Update, Row
  <2>2. CASE HookStopFailure(w)
    BY <1>5, <1>6, <2>2 DEF HookStopFailure
  <2>3. CASE HookSessionEnd(w)
    <3>1. CASE Manual(row) /\ Write(w, UnlessTerminal(row, "running"), Idle)
      BY <1>5, <3>1
    <3>2. CASE FailOrRetry(w, Failed(row), "hookRetry")
      BY <1>6, <3>2
    <3>3. ASSUME NEW j, Write(w, [row EXCEPT !.status = "ready"], j)
                        \/ Write(w, UnlessTerminal(row, "ready"), j)
          PROVE  row'.status = "running" => row.status = "running"
      BY <1>1, <3>3 DEF Write, Update, UnlessTerminal, Row
    <3> QED
      BY <2>3, <3>1, <3>2, <3>3 DEF HookSessionEnd
  <2> QED
    BY <1>4, <1>7, <2>1, <2>2, <2>3 DEF HookFrame
<1>8. ASSUME ReportFrame(w)
      PROVE  row'.status = "running" => row.status = "running"
  BY <1>1, <1>4, <1>6, <1>8 DEF ReportFrame, ReportStale, ReportCompleted, ReportRejected,
     ReportQuestion, ReportError, Write, Update, Row
<1> QED
  BY <1>2, <1>7, <1>8 DEF LooksAfter

LEMMA PollsLookAfter ==
    ASSUME TypeOK, NEW w \in Workers, PollStep(w)
    PROVE  LooksAfter(w)
<1>1. row \in Row /\ job \in [Workers -> Job]
  BY DEF TypeOK
<1>2. CASE PollPaneGone(w)
  BY <1>2 DEF PollPaneGone, Free, Ends, LooksAfter
<1>3. CASE JudgeGone(w)
  <2>1. row' = row
    BY <1>3 DEF JudgeGone
  <2>2. ASSUME row.status = "running"
        PROVE  job'[w].at = "forensics"
    BY <1>1, <1>3, <2>2 DEF JudgeGone, Continue, Parked, Idle
  <2> QED
    BY <2>1, <2>2 DEF LooksAfter, Ends
<1>4. CASE WriteGone(w)
  BY <1>1, <1>4 DEF WriteGone, Write, Update, Failed, Row, LooksAfter
<1> QED
  BY <1>2, <1>3, <1>4 DEF PollStep

LEMMA OperatorLooksAfter ==
    ASSUME TypeOK, NobodyRevives, NEW w \in Workers, OperatorStep(w)
    PROVE  LooksAfter(w)
<1>1. row \in Row /\ job \in [Workers -> Job] /\ job[w] \in Job
  BY DEF TypeOK
<1>2. ~Undelete(w)
  BY DEF Undelete, Calls, NobodyRevives
<1>3. ASSUME NEW who, NEW stage, ResumeNow(w, who, stage)
      PROVE  row'.status # "running"
  BY <1>1, <1>3 DEF ResumeNow, Resumed, Write, Update, Row
<1>4. CASE KillAgent(w)
  <2>1. row' = row /\ poller' = (poller /\ job[w].who # "stop") /\ ~Ends(job[w])
    BY <1>4 DEF KillAgent, Ends
  <2>2. job'[w] = [job[w] EXCEPT !.at = "killed"]
    BY <1>1, <1>4 DEF KillAgent, Continue
  <2>3. job[w].who = "stop" => Ends(job'[w])
    BY <1>1, <2>2 DEF Ends, Job
  <2>4. poller \in BOOLEAN
    BY DEF TypeOK
  <2>5. CASE job[w].who = "stop"
    BY <2>3, <2>5 DEF LooksAfter
  <2>6. CASE job[w].who # "stop"
    <3>1. poller' = poller
      BY <2>1, <2>4, <2>6
    <3> QED
      BY <2>1, <3>1 DEF LooksAfter
  <2> QED
    BY <2>5, <2>6
<1>5. CASE AfterKill(w)
  <2>1. CASE ResumeNow(w, job[w].who, job[w].stage)
    BY <1>3, <2>1 DEF LooksAfter
  <2>2. CASE ~ResumeNow(w, job[w].who, job[w].stage)
    BY <1>1, <1>5, <2>2 DEF AfterKill, Write, Update, Stopped, Killed, Archived, Row, LooksAfter
  <2> QED
    BY <2>1, <2>2
<1>6. CASE ~KillAgent(w) /\ ~AfterKill(w)
  <2>1. ~Ends(job[w]) /\ poller' = poller
    BY <1>6 DEF OperatorStep, Stop, Kill, Archive, Restore, Resume, Pause, Interrupt,
       AfterInterrupt, Complete, AdvanceStart, Reject, Delete, Undelete, Untouched, Calls,
       Free, Ends
  <2>2. row'.status = "running" => row.status = "running"
    <3>1. CASE Resume(w)
      BY <1>3, <3>1 DEF Resume, KillFirst, Write, Update
    <3>2. CASE Stop(w) \/ Kill(w) \/ Archive(w) \/ Restore(w) \/ Pause(w)
      BY <1>1, <3>2 DEF Stop, Kill, Archive, Restore, Pause, KillFirst, Write, Update,
         Stopped, Killed, Archived, Row
    <3>3. CASE Interrupt(w) \/ AfterInterrupt(w) \/ AdvanceStart(w)
      BY <1>1, <3>3 DEF Interrupt, AfterInterrupt, AdvanceStart, Write, Update, Row
    <3>4. CASE Complete(w) \/ Reject(w) \/ Delete(w)
      BY <1>1, <3>4 DEF Complete, Reject, Delete, Write, Update, Failed, Row
    <3> QED
      BY <1>2, <1>6, <3>1, <3>2, <3>3, <3>4 DEF OperatorStep
  <2> QED
    BY <2>1, <2>2 DEF LooksAfter
<1> QED
  BY <1>4, <1>5, <1>6

LEMMA WatchedIsKept ==
    ASSUME TypeOK, AgentsStages, OnlySent, RunningHasHandle, NobodyRevives,
           Watched, [Next]_vars
    PROVE  Watched'
<1>0. job \in [Workers -> Job] /\ row \in Row
  BY DEF TypeOK
<1>1. CASE UNCHANGED <<row, poller, job>>
  BY <1>1 DEF Watched, Ends
<1>2. ASSUME NEW w \in Workers, Step(w)
      PROVE  Watched'
  <2>1. LooksAfter(w)
    BY <1>2, LaunchesLookAfter, HandoffsLookAfter, FramesLookAfter, PollsLookAfter,
       OperatorLooksAfter DEF Step
  <2>2. \A v \in Workers \ {w} : job'[v] = job[v]
    <3>1. Ordinary(w) => job' = [job EXCEPT ![w] = job'[w]]
      BY <1>0 DEF Ordinary
    <3>2. LaunchKillsOld(w) \/ CreatePane(w) \/ Finalize(w) \/ FinalizeTooLate(w)
             \/ Watchdog(w) => \E j : job' = [job EXCEPT ![w] = j]
      BY DEF LaunchKillsOld, CreatePane, Finalize, FinalizeTooLate, Watchdog, Write, Continue
    <3> QED
      BY <1>0, <1>2, <3>1, <3>2, StepsAreOrdinary
  <2>3. CASE row.status = "running" /\ poller' = poller /\ ~Ends(job[w])
    BY <2>2, <2>3 DEF Watched, Ends
  <2> QED
    BY <2>1, <2>3 DEF LooksAfter, Watched, Ends
<1>3. CASE \E i \in Launched : AgentSends(i) \/ AgentExits(i) \/ AgentCrashes(i)
  BY <1>1, <1>3 DEF AgentSends, AgentExits, AgentCrashes
<1>4. CASE PaneLost \/ FrameLost
  BY <1>1, <1>4 DEF PaneLost, FrameLost
<1>5. CASE PollFails
  BY <1>0, <1>5 DEF PollFails, Update, Failed, Row, Watched
<1>6. CASE Restart
  BY <1>6 DEF Restart, RunningHasHandle, Watched
<1> QED
  BY <1>1, <1>2, <1>3, <1>4, <1>5, <1>6 DEF Next, PollExitCode, PollUnreachable, vars

\* A running session has a poller, or a chain in flight that ends it: whichever
\* chains, launches, restarts and RPCs race, and whatever is lost or fails, as
\* long as no late frame and no undelete makes it run again. What holds is
\* stronger than the property: the chain is one that writes the end of the
\* session (post-launch.ts, advance.ts, status-poller.ts, terminate.ts).
THEOREM RunningSessionsAreWatched ==
    ASSUME NobodyRevives
    PROVE  Spec => []RunningIsWatched
<1>1. Init => AgentsStages /\ OnlySent /\ Watched
  <2> SUFFICES ASSUME Init PROVE AgentsStages /\ OnlySent /\ Watched
    OBVIOUS
  <2>1. PICK v \in Workers :
           job = [w \in Workers |-> IF w = v THEN Dispatch(row, "kick") ELSE Idle]
    BY DEF Init
  <2>2. row.status = "ready" /\ row.handle = FALSE
    BY DEF Init
  <2>3. \A w \in Workers : Begins(job[w], row)
    BY <2>1, <2>2, DispatchBegins, IdleBegins
  <2>4. OnlySent
    BY DEF Init, OnlySent
  <2> QED
    BY <2>2, <2>3, <2>4 DEF Begins, AgentsStages, Watched
<1>2. TypeOK /\ RunningHasHandle /\ (AgentsStages /\ OnlySent /\ Watched) /\ [Next]_vars
        => (AgentsStages /\ OnlySent /\ Watched)'
  BY AgentsStagesAreKept, OnlySentIsKept, WatchedIsKept
<1>3. Watched => RunningIsWatched
  BY DEF Watched, RunningIsWatched, Ends, Free
<1> QED
  BY <1>1, <1>2, <1>3, TypeCorrect, HandleOfRunning, PTL DEF Spec

---------------------------------------------------------------------------
(* The agent of a running session is that of its stage *)

\* the launch of the chain v has not ended, and the agent p is its own
Owns(v, p) == job[v].at \in {"finalize", "abort"} /\ job[v].agent = p
Owned(p) == \E v \in Workers : Owns(v, p)

\* A launch is for the stage its agent works for, and for none ahead.
Launches ==
    \A w \in Workers :
       /\ job[w].at \in {"finalize", "abort"} => job[w].agent \in 1..spawned
       /\ job[w].at = "finalize" => agent[job[w].agent].stage = job[w].stage
       /\ job[w].at \in {"prepare", "create", "finalize"} => job[w].stage <= row.stage

\* Whoever bears the tmux name, and whose launch has ended, works for the stage
\* of a row with a handle, for none ahead of the row, and for none behind a
\* launch that it has overtaken.
InPlace ==
    pane # 0 /\ ~Owned(pane) =>
       /\ agent[pane].stage <= row.stage
       /\ row.handle => agent[pane].stage = row.stage
       /\ \A w \in Workers : job[w].at = "finalize" => agent[pane].stage >= job[w].stage

LEMMA KillPaneKeepsStages ==
    ASSUME TypeOK, KillPane
    PROVE  \A i \in Launched : agent'[i].stage = agent[i].stage
BY DEF TypeOK, KillPane, Agent

\* what the steps outside a launch, and those that end one badly, do to agents
LEMMA OthersLeavePanes ==
    ASSUME NEW w \in Workers, Step(w),
           ~LaunchKillsOld(w), ~CreatePane(w), ~Finalize(w), ~FinalizeTooLate(w), ~Watchdog(w)
    PROVE  /\ spawned' = spawned
           /\ \/ KillPane
              \/ /\ UNCHANGED <<agent, pane>>
                 /\ job[w].at \notin {"finalize", "abort"}
<1>1. CASE DispatchStep(w)
  BY <1>1 DEF DispatchStep, LaunchFails, CreateDuplicate, AbortLaunch
<1>2. CASE HandoffStep(w)
  BY <1>2 DEF HandoffStep, VerifyPasses, VerifyFails, AdvanceStage, CompleteFlow,
     ActionSucceeds, ActionFails, DispatchedActionSucceeds, DispatchedActionFails
<1>3. CASE HookFrame(w)
  BY <1>3 DEF HookFrame, HookStale, HookWorking, HookNotification, HookStopFailure,
     HookSessionEnd, Takes, Free
<1>4. CASE ReportFrame(w)
  BY <1>4 DEF ReportFrame, ReportStale, ReportCompleted, ReportRejected, ReportQuestion,
     ReportError, ReportProgress, Takes, Free
<1>5. CASE PollStep(w)
  BY <1>5 DEF PollStep, PollPaneGone, JudgeGone, WriteGone, Free
<1>6. CASE OperatorStep(w)
  BY <1>6 DEF OperatorStep, Stop, Kill, Archive, Restore, Resume, KillAgent, AfterKill,
     Pause, Interrupt, AfterInterrupt, Complete, AdvanceStart, Reject, Delete, Undelete,
     Untouched, Calls, Free
<1> QED
  BY <1>1, <1>2, <1>3, <1>4, <1>5, <1>6 DEF Step

PlaceInv == Launches /\ InPlace
Forward == row'.stage >= row.stage

\* The stage of a chain is a number.
LEMMA StagesOfJobs == \A j \in Job : j.stage \in Nat
<1>1. Stages \subseteq Nat
  BY ConstantsAssumption DEF Stages
<1>2. \A j \in Job : j.stage \in Stages
  BY DEF Job
<1> QED
  BY <1>1, <1>2

LEMMA OrdinaryKeepsPlace ==
    ASSUME TypeOK, PlaceInv, Forward, TypeOK', NEW w \in Workers, Ordinary(w),
           spawned' = spawned,
           KillPane \/ (UNCHANGED <<agent, pane>> /\ job[w].at \notin {"finalize", "abort"})
    PROVE  PlaceInv'
<1>0. /\ job \in [Workers -> Job] /\ row.stage \in Nat /\ row'.stage \in Nat
      /\ \A v \in Workers : job[v].stage \in Nat
      /\ spawned \in Nat /\ 1..spawned \subseteq Launched
  <2>1. row.stage \in Nat /\ row'.stage \in Nat
    BY ConstantsAssumption DEF TypeOK, Row, Stages
  <2>2. job \in [Workers -> Job]
    BY DEF TypeOK
  <2>3. \A v \in Workers : job[v].stage \in Nat
    BY <2>2, StagesOfJobs
  <2>4. spawned \in Nat /\ 1..spawned \subseteq Launched
    BY ConstantsAssumption DEF TypeOK, Launched
  <2> QED
    BY <2>1, <2>2, <2>3, <2>4
<1>1. \A i \in Launched : agent'[i].stage = agent[i].stage
  BY KillPaneKeepsStages
<1>2. PICK j \in Job : Begins(j, row') /\ job' = [job EXCEPT ![w] = j]
  BY DEF Ordinary
<1>3. \A v \in Workers : v # w => job'[v] = job[v]
  BY <1>0, <1>2
<1>4. job'[w] = j
  BY <1>0, <1>2
<1>5. Launches'
  <2> SUFFICES ASSUME NEW v \in Workers
               PROVE  /\ job'[v].at \in {"finalize", "abort"} => job'[v].agent \in 1..spawned
                      /\ job'[v].at = "finalize" => agent'[job'[v].agent].stage = job'[v].stage
                      /\ job'[v].at \in {"prepare", "create", "finalize"}
                            => job'[v].stage <= row'.stage
    BY DEF Launches
  <2>1. CASE v = w
    BY <1>0, <1>2, <1>4, <2>1 DEF Begins
  <2>2. CASE v # w
    <3>1. /\ job[v].at \in {"finalize", "abort"} => job[v].agent \in 1..spawned
          /\ job[v].at = "finalize" => agent[job[v].agent].stage = job[v].stage
          /\ job[v].at \in {"prepare", "create", "finalize"} => job[v].stage <= row.stage
      BY DEF PlaceInv, Launches
    <3> QED
      BY <1>0, <1>1, <1>3, <2>2, <3>1 DEF Forward
  <2> QED
    BY <2>1, <2>2
<1>6. CASE KillPane
  BY <1>5, <1>6 DEF KillPane, PlaceInv, InPlace
<1>7. CASE UNCHANGED <<agent, pane>> /\ job[w].at \notin {"finalize", "abort"}
  <2>1. Owned(pane)' <=> Owned(pane)
    BY <1>2, <1>3, <1>4, <1>7 DEF Owned, Owns, Begins
  <2>2. \A v \in Workers : job'[v].at = "finalize" => job'[v] = job[v]
    BY <1>2, <1>3, <1>4 DEF Begins
  <2> SUFFICES ASSUME pane # 0, ~Owned(pane)
               PROVE  /\ agent'[pane].stage <= row'.stage
                      /\ row'.handle => agent'[pane].stage = row'.stage
                      /\ \A v \in Workers : job'[v].at = "finalize"
                            => agent'[pane].stage >= job'[v].stage
    BY <1>5, <1>7, <2>1 DEF PlaceInv, InPlace
  <2>3. /\ agent[pane].stage <= row.stage
        /\ row.handle => agent[pane].stage = row.stage
        /\ \A v \in Workers : job[v].at = "finalize" => agent[pane].stage >= job[v].stage
    BY DEF PlaceInv, InPlace
  <2>4. agent[pane].stage \in Nat
    <3>1. pane \in Launched
      BY ConstantsAssumption DEF TypeOK, Launched
    <3>2. agent[pane] \in Agent
      BY <3>1 DEF TypeOK
    <3>3. agent[pane].stage \in Stages
      BY <3>2 DEF Agent
    <3> QED
      BY <3>3, ConstantsAssumption DEF Stages
  <2>5. agent'[pane].stage <= row'.stage
    BY <1>0, <1>7, <2>3, <2>4 DEF Forward
  <2>6. row'.handle => agent'[pane].stage = row'.stage
    BY <1>7, <2>3 DEF Ordinary, KeepsHandle
  <2>7. \A v \in Workers : job'[v].at = "finalize" => agent'[pane].stage >= job'[v].stage
    BY <1>7, <2>2, <2>3
  <2> QED
    BY <2>5, <2>6, <2>7
<1> QED
  BY <1>6, <1>7

LEMMA LaunchKeepsPlace ==
    ASSUME TypeOK, PlaceInv, NEW w \in Workers, LaunchKillsOld(w) \/ CreatePane(w)
    PROVE  PlaceInv'
<1>0. /\ job \in [Workers -> Job] /\ job[w] \in Job
      /\ spawned \in Nat /\ 1..spawned \subseteq Launched /\ agent \in [Launched -> Agent]
  BY ConstantsAssumption DEF TypeOK, Launched
<1>1. CASE LaunchKillsOld(w)
  <2>1. KillPane /\ row' = row /\ spawned' = spawned /\ job[w].at = "prepare"
        /\ job' = [job EXCEPT ![w] = [job[w] EXCEPT !.at = "create"]]
    BY <1>1 DEF LaunchKillsOld, Continue
  <2>2. \A i \in Launched : agent'[i].stage = agent[i].stage
    BY <2>1, KillPaneKeepsStages
  <2>3. \A v \in Workers : /\ job'[v].stage = job[v].stage /\ job'[v].agent = job[v].agent
                           /\ v # w => job'[v].at = job[v].at
    BY <1>0, <2>1 DEF Job
  <2>4. job'[w].at = "create"
    BY <1>0, <2>1 DEF Job
  <2>5. Launches'
    BY <1>0, <2>1, <2>2, <2>3, <2>4 DEF PlaceInv, Launches
  <2> QED
    BY <2>1, <2>5 DEF KillPane, PlaceInv, InPlace
<1>2. CASE CreatePane(w)
  <2> DEFINE new == spawned + 1
             a == [state |-> "alive", stage |-> job[w].stage,
                   claude |-> IF job[w].claude = 0 THEN new ELSE job[w].claude]
             j == [job[w] EXCEPT !.at = "finalize", !.agent = new]
  <2>1. /\ row' = row /\ spawned' = new /\ pane' = new /\ new \in Launched
        /\ agent' = [agent EXCEPT ![new] = a] /\ job' = [job EXCEPT ![w] = j]
        /\ job[w].at = "create"
    BY <1>0, <1>2, ConstantsAssumption DEF CreatePane, Continue, TypeOK, Launched
  <2>2. /\ j.at = "finalize" /\ j.agent = new /\ j.stage = job[w].stage /\ a.stage = job[w].stage
    BY <1>0 DEF Job
  <2>3. agent'[new].stage = job[w].stage
    BY <1>0, <2>1, <2>2
  <2>4. \A i \in 1..spawned : i # new /\ i \in 1..new /\ agent'[i] = agent[i]
    BY <1>0, <2>1
  <2>5. new \in 1..new
    BY <1>0
  <2>6. job'[w] = j /\ \A v \in Workers : v # w => job'[v] = job[v]
    BY <1>0, <2>1
  <2> HIDE DEF new, a, j
  <2>7. Launches'
    BY <2>1, <2>2, <2>3, <2>4, <2>5, <2>6 DEF PlaceInv, Launches
  <2>8. Owned(pane)'
    BY <2>1, <2>2, <2>6 DEF Owned, Owns
  <2> QED
    BY <2>7, <2>8 DEF PlaceInv, InPlace
<1> QED
  BY <1>1, <1>2

LEMMA FinalizeKeepsPlace ==
    ASSUME TypeOK, PlaceInv, NEW w \in Workers, Finalize(w)
    PROVE  PlaceInv'
<1> DEFINE r == [FinalizeRow(w) EXCEPT !.status = "running", !.handle = TRUE]
<1>0. job \in [Workers -> Job] /\ row \in Row
  BY DEF TypeOK
<1>1. /\ job[w].at = "finalize" /\ row.stage = job[w].stage
      /\ UNCHANGED <<agent, spawned, pane>>
  BY DEF Finalize, MovedOn
<1>2. row' = r /\ job' = [job EXCEPT ![w] = Idle]
  BY <1>0 DEF Finalize, Write, Update, Continue, FinalizeRow, Row
<1>3. row'.stage = row.stage
  BY <1>0, <1>2 DEF FinalizeRow, Row
<1>4. \A v \in Workers : IF v = w THEN job'[v].at = "idle" ELSE job'[v] = job[v]
  BY <1>0, <1>2 DEF Idle
<1> HIDE DEF r
<1>5. Launches'
  BY <1>1, <1>3, <1>4 DEF PlaceInv, Launches
<1>6. ASSUME pane # 0, ~Owned(pane)'
      PROVE  /\ agent[pane].stage <= row.stage /\ agent[pane].stage = row.stage
             /\ \A v \in Workers : job'[v].at = "finalize" => agent[pane].stage >= job[v].stage
  <2>0. agent[pane].stage \in Nat /\ row.stage \in Nat /\ \A v \in Workers : job[v].stage \in Nat
    <3>1. pane \in Launched
      BY <1>6, ConstantsAssumption DEF TypeOK, Launched
    <3> QED
      BY <3>1, ConstantsAssumption, SMTT(30) DEF TypeOK, Agent, Row, Job, Stages
  <2>1. CASE Owns(w, pane)
    <3>1. agent[pane].stage = row.stage
      BY <1>1, <2>1 DEF PlaceInv, Launches, Owns
    <3>2. \A v \in Workers : job'[v].at = "finalize" => job[v].stage <= row.stage
      BY <1>4 DEF PlaceInv, Launches
    <3> QED
      BY <2>0, <3>1, <3>2
  <2>2. CASE ~Owns(w, pane)
    <3>1. ~Owned(pane)
      BY <1>1, <1>4, <1>6, <2>2 DEF Owned, Owns
    <3>2. agent[pane].stage <= row.stage
      BY <1>6, <3>1 DEF PlaceInv, InPlace
    <3>3. \A v \in Workers : job[v].at = "finalize" => agent[pane].stage >= job[v].stage
      BY <1>6, <3>1 DEF PlaceInv, InPlace
    <3>4. agent[pane].stage = row.stage
      BY <1>1, <2>0, <3>2, <3>3
    <3> QED
      BY <1>1, <1>4, <3>2, <3>3, <3>4
  <2> QED
    BY <2>1, <2>2
<1>7. InPlace'
  BY <1>1, <1>3, <1>4, <1>6 DEF InPlace
<1> QED
  BY <1>5, <1>7 DEF PlaceInv

\* The steps that leave agents, launches and the stage of the row alone.
LEMMA StillKeepsPlace ==
    ASSUME TypeOK, PlaceInv, UNCHANGED <<spawned, pane>>,
           row'.handle => row.handle, row'.stage = row.stage,
           \A i \in Launched : agent'[i].stage = agent[i].stage,
           \A v \in Workers : /\ job'[v].stage = job[v].stage /\ job'[v].agent = job[v].agent
                              /\ \/ job'[v].at = job[v].at
                                 \/ job[v].at = "finalize" /\ job'[v].at = "abort"
    PROVE  PlaceInv'
<1>0. 1..spawned \subseteq Launched /\ (pane # 0 => pane \in Launched)
  BY ConstantsAssumption DEF TypeOK, Launched
<1>1. Launches'
  BY <1>0 DEF PlaceInv, Launches
<1>2. Owned(pane)' <=> Owned(pane)
  BY DEF Owned, Owns
<1>3. InPlace'
  BY <1>0, <1>2 DEF PlaceInv, InPlace
<1> QED
  BY <1>1, <1>3 DEF PlaceInv

LEMMA PlaceIsKept ==
    ASSUME "restart" \notin Operations, TypeOK, TypeOK', PlaceInv, [Next]_vars, [Forward]_vars
    PROVE  PlaceInv'
<1>0. job \in [Workers -> Job] /\ row \in Row /\ agent \in [Launched -> Agent]
  BY DEF TypeOK
<1>1. CASE UNCHANGED vars
  BY <1>1, StillKeepsPlace DEF vars
<1>2. ASSUME NEW w \in Workers, Step(w), Forward
      PROVE  PlaceInv'
  <2>1. CASE LaunchKillsOld(w) \/ CreatePane(w)
    BY <2>1, LaunchKeepsPlace
  <2>2. CASE Finalize(w)
    BY <2>2, FinalizeKeepsPlace
  <2>3. CASE FinalizeTooLate(w) \/ Watchdog(w)
    <3>1. row'.handle = row.handle /\ row'.stage = row.stage
      BY <1>0, <2>3 DEF FinalizeTooLate, Watchdog, Write, Update, FinalizeRow, MarkFailed,
                        Failed, Row
    <3>2. \A v \in Workers : /\ job'[v].stage = job[v].stage /\ job'[v].agent = job[v].agent
                             /\ \/ job'[v].at = job[v].at
                                \/ job[v].at = "finalize" /\ job'[v].at = "abort"
      BY <1>0, <2>3 DEF FinalizeTooLate, Watchdog, Write, Continue, Job
    <3>3. UNCHANGED <<agent, spawned, pane>>
      BY <2>3 DEF FinalizeTooLate, Watchdog
    <3> QED
      BY <3>1, <3>2, <3>3, StillKeepsPlace
  <2>4. CASE ~(LaunchKillsOld(w) \/ CreatePane(w) \/ Finalize(w) \/ FinalizeTooLate(w)
                 \/ Watchdog(w))
    <3>1. Ordinary(w)
      BY <1>2, <2>4, StepsAreOrdinary
    <3> QED
      BY <1>2, <2>4, <3>1, OthersLeavePanes, OrdinaryKeepsPlace
  <2> QED
    BY <2>1, <2>2, <2>3, <2>4
<1>3. ASSUME NEW i \in Launched, AgentSends(i) \/ AgentExits(i) \/ AgentCrashes(i)
      PROVE  PlaceInv'
  <2>1. UNCHANGED <<row, job, spawned, pane>>
    BY <1>3 DEF AgentSends, AgentExits, AgentCrashes
  <2>2. \A k \in Launched : agent'[k].stage = agent[k].stage
    BY <1>0, <1>3 DEF AgentSends, AgentExits, AgentCrashes, Agent
  <2> QED
    BY <2>1, <2>2, StillKeepsPlace
<1>4. CASE PaneLost
  <2>1. KillPane /\ UNCHANGED <<row, job, spawned>>
    BY <1>4 DEF PaneLost
  <2>2. \A i \in Launched : agent'[i].stage = agent[i].stage
    BY <2>1, KillPaneKeepsStages
  <2>3. 1..spawned \subseteq Launched
    BY ConstantsAssumption DEF TypeOK, Launched
  <2>4. Launches'
    BY <2>1, <2>2, <2>3 DEF PlaceInv, Launches
  <2> QED
    BY <2>1, <2>4 DEF KillPane, PlaceInv, InPlace
<1>5. CASE FrameLost
  BY <1>5, StillKeepsPlace DEF FrameLost
<1>6. CASE PollFails
  <2>1. UNCHANGED <<job, agent, spawned, pane>>
    BY <1>6 DEF PollFails
  <2>2. (row'.handle => row.handle) /\ row'.stage = row.stage
    BY <1>0, <1>6 DEF PollFails, Update, Failed, Row
  <2> QED
    BY <2>1, <2>2, StillKeepsPlace
<1>7. ~Restart
  BY DEF Restart
<1>8. Next /\ ~(UNCHANGED vars) => Forward
  OBVIOUS
<1> QED
  BY <1>1, <1>2, <1>3, <1>4, <1>5, <1>6, <1>7, <1>8 DEF Next, PollExitCode, PollUnreachable

\* Neither a rewind nor a chain that read the stage long ago takes the row back.
GoesForward == [][row'.stage >= row.stage]_vars

\* As long as the stage of the row only grows and the conductor does not die,
\* whoever bears the tmux name of a running session was launched for the stage
\* its row names, or its launch is in flight and will be compared with that
\* stage: however many launches, watchdogs, kills and frames overlap
\* (finalizeLaunch's guard and its kill).
THEOREM AgentsWorkForTheirStage ==
    ASSUME "restart" \notin Operations
    PROVE  Spec /\ GoesForward => []AgentOfStage
<1>1. Init => PlaceInv
  <2> SUFFICES ASSUME Init PROVE PlaceInv
    OBVIOUS
  <2>1. PICK v \in Workers :
           job = [w \in Workers |-> IF w = v THEN Dispatch(row, "kick") ELSE Idle]
    BY DEF Init
  <2>2. row.stage \in Nat /\ pane = 0 /\ row.status # "running"
    BY DEF Init
  <2>3. \A w \in Workers : Begins(job[w], row)
    BY <2>1, <2>2, DispatchBegins, IdleBegins
  <2>4. \A w \in Workers : job[w].at = "prepare" => job[w].stage <= row.stage
    BY <2>2, <2>3 DEF Begins
  <2> QED
    BY <2>2, <2>3, <2>4 DEF Begins, PlaceInv, Launches, InPlace
<1>2. TypeOK /\ TypeOK' /\ PlaceInv /\ [Next]_vars /\ [row'.stage >= row.stage]_vars
        => PlaceInv'
  BY PlaceIsKept DEF Forward
<1>3. PlaceInv /\ RunningHasHandle => AgentOfStage
  BY DEF PlaceInv, InPlace, RunningHasHandle, AgentOfStage, Launching, Owned, Owns
<1> QED
  BY <1>1, <1>2, <1>3, TypeCorrect, HandleOfRunning, PTL DEF Spec, GoesForward

---------------------------------------------------------------------------
(* A flow that nobody interferes with *)

\* No operator, no retries, no frame from an agent but that it works, failed or
\* exited; panes stay, launches and handlers are prompt and frames in order.
\* Launches may fail, agents crash, frames be lost and arkd be out of reach.
Unattended ==
    /\ Operations = {}
    /\ MaxRetries = 0
    /\ MayPrompt \subseteq {"Working", "StopFailure", "error", "progress"}
    /\ Faults \subseteq {"launch", "crash", "loss", "arkd", "slowProbe"}

Latest == agent[spawned]
EndedAtStage == spawned > 0 /\ Latest.state = "ended" /\ Latest.stage = row.stage

\* the hand-off j of the row's stage, whose agent is done
HandsOff(j) ==
    /\ j.at \in {"verify", "advance"} /\ j.who = "mediate" /\ j.stage = row.stage
    /\ row.stage \in ActionStages \/ EndedAtStage

\* the launch j of an agent for the row's stage, which has had none yet
LaunchOf(j) ==
    /\ j.at \in {"prepare", "create"} /\ j.stage = row.stage
    /\ j.who \in {"kick", "mediate"}
    /\ row.stage \notin ActionStages
    /\ \A i \in 1..spawned : agent[i].stage < row.stage
    /\ j.at = "prepare" => ~poller
    /\ j.at = "create" => pane = 0

\* the launch j of the agent that was spawned for it
LaunchEnds(j) ==
    /\ j.at = "finalize" /\ j.stage = row.stage
    /\ spawned > 0 /\ j.agent = spawned /\ pane = spawned /\ Latest.stage = row.stage

ActionOf(j) ==
    /\ j.at \in {"action", "dispatchAction"} /\ j.stage = row.stage
    /\ j.who \in {"kick", "mediate"}
    /\ row.stage \in ActionStages

\* There is one chain, for the stage of a ready row, and a ready row has it
\* unless a human gate holds the flow.
OneChain ==
    /\ \A v, w \in Workers : ~Free(v) /\ ~Free(w) => v = w
    /\ \A w \in Workers : ~Free(w) =>
          /\ row.status = "ready"
          /\ HandsOff(job[w]) \/ LaunchOf(job[w]) \/ LaunchEnds(job[w]) \/ ActionOf(job[w])
    /\ row.status = "ready" =>
          (\E w \in Workers : ~Free(w)) \/ GateOf[row.stage] \in HumanGates

\* Agents work, crash and speak while the row runs or has failed, and work or
\* crash before their launch ends.
LaunchReturns == \E w \in Workers : job[w].at = "finalize"
Silent == ~sentinel /\ \A i \in Launched : ~Alive(i)
Quiet ==
    row.status \notin {"running", "failed"} => mail = <<>> /\ (LaunchReturns \/ Silent)

RowInv ==
    /\ row.error => row.status = "failed"
    /\ row.status = "running" => spawned > 0 /\ Latest.stage = row.stage
    /\ poller => pane # 0

\* the SessionEnd of an agent is the last that is heard
LastWords ==
    \A n \in DOMAIN mail :
       /\ mail[n].kind \in {"Working", "StopFailure", "error", "progress", "SessionEnd"}
       /\ mail[n].kind = "SessionEnd" =>
             n = Len(mail) /\ spawned > 0 /\ Latest.state = "ended"

\* The agents are those of ever later stages, and only the latest may work.
Crew ==
    /\ \A i \in Launched : /\ Alive(i) => i = spawned /\ agent[i].stage = row.stage
                           /\ agent[i].state # "none" => i <= spawned
    /\ \A i \in 1..spawned : agent[i].stage \notin ActionStages /\ agent[i].stage <= row.stage
    /\ \A i, j \in 1..spawned : i < j => agent[i].stage < agent[j].stage
    /\ sentinel => spawned > 0 /\ Latest.state = "crashed"

CalmInv == OneChain /\ Quiet /\ RowInv /\ LastWords /\ Crew
Calm == TypeOK /\ RunningHasHandle /\ CalmInv

LEMMA CalmTypes ==
    ASSUME TypeOK
    PROVE  /\ row.stage \in Stages /\ row.stage \in Nat /\ LastStage \in Nat /\ Stages = 1..LastStage
           /\ job \in [Workers -> Job]
           /\ spawned \in Nat /\ MaxSpawns \in Nat /\ spawned <= MaxSpawns
           /\ 1..spawned \subseteq Launched /\ Launched = 1..MaxSpawns
           /\ agent \in [Launched -> Agent] /\ pane \in Nat
           /\ \A i \in Launched : agent[i].stage \in Stages /\ agent[i].stage \in Nat
<1>1. row.stage \in Stages /\ Stages = 1..LastStage /\ LastStage \in Nat
  BY ConstantsAssumption DEF TypeOK, Row, Stages
<1>2. spawned \in 0..MaxSpawns /\ MaxSpawns \in Nat /\ pane \in 0..spawned
  BY ConstantsAssumption DEF TypeOK
<1>3. agent \in [Launched -> Agent] /\ job \in [Workers -> Job]
  BY DEF TypeOK
<1>4. \A i \in Launched : agent[i].stage \in Stages
  BY <1>3 DEF Agent
<1> QED
  BY <1>1, <1>2, <1>3, <1>4 DEF Launched

\* the agents and their panes stay, no poller starts, one frame may be handled
Steady ==
    /\ UNCHANGED <<agent, spawned, pane, sentinel>>
    /\ poller' => poller
    /\ mail' = mail \/ (1 \in DOMAIN mail /\ mail' = RemoveAt(mail, 1))

\* what a chain, or the poller, writes at the stage of the row
Turn ==
    /\ Steady
    /\ row'.stage = row.stage
    /\ row'.error => row'.status = "failed"
    /\ row'.status = "running" => row.status = "running"
    /\ row'.status \notin {"running", "failed"} => mail' = <<>> /\ Silent
    /\ row.status \in {"completed", "failed"} => row'.status = row.status
    /\ row'.status = "completed" /\ row.status # "completed" =>
          row.stage = LastStage /\ (row.stage \in ActionStages \/ EndedAtStage)
    /\ \A v, w \in Workers : ~Free(v)' /\ ~Free(w)' => v = w
    /\ \A w \in Workers : ~Free(w)' => row'.status = "ready" /\ HandsOff(job'[w])
    /\ row'.status = "ready" =>
          (\E w \in Workers : ~Free(w)') \/ GateOf[row.stage] \in HumanGates

\* The second of two sequences that are put together.
LEMMA SecondOfTwo ==
    ASSUME NEW S, NEW s \in Seq(S), NEW t \in Seq(S)
    PROVE  \A x \in 1..Len(t) : (s \o t)[Len(s) + x] = t[x]
OBVIOUS

LEMMA ShorterMail ==
    ASSUME TypeOK, NEW n \in DOMAIN mail, mail' = RemoveAt(mail, n)
    PROVE  /\ Len(mail') = Len(mail) - 1
           /\ DOMAIN mail' = 1..Len(mail')
           /\ \A m \in DOMAIN mail' :
                 \/ m \in DOMAIN mail /\ m < Len(mail) /\ mail'[m] = mail[m] /\ m < n
                 \/ m + 1 \in DOMAIN mail /\ mail'[m] = mail[m + 1]
<1> DEFINE before == SubSeq(mail, 1, n - 1)
           after  == SubSeq(mail, n + 1, Len(mail))
<1>1. mail \in Seq(Frame) /\ n \in 1..Len(mail) /\ Len(mail) \in Nat
  BY DEF TypeOK
<1>2. /\ before \in Seq(Frame) /\ Len(before) = n - 1
      /\ \A m \in 1..(n - 1) : before[m] = mail[m]
  BY <1>1
<1>3. /\ after \in Seq(Frame) /\ Len(after) = Len(mail) - n
      /\ \A m \in 1..(Len(mail) - n) : after[m] = mail[m + n]
  BY <1>1
<1>4. mail' = before \o after
  BY DEF RemoveAt
<1> HIDE DEF before, after
<1>5. mail' \in Seq(Frame) /\ Len(mail') = Len(mail) - 1 /\ DOMAIN mail' = 1..Len(mail')
  BY <1>1, <1>2, <1>3, <1>4
<1>6. ASSUME NEW m \in 1..Len(mail'), m < n
      PROVE  m \in DOMAIN mail /\ m < Len(mail) /\ mail'[m] = mail[m]
  <2>1. m \in Nat /\ m \in 1..(n - 1) /\ m \in 1..Len(mail) /\ m < Len(mail)
    BY <1>1, <1>5, <1>6
  <2>2. mail'[m] = before[m]
    BY <1>2, <1>3, <1>4, <2>1
  <2> QED
    BY <1>1, <1>2, <2>1, <2>2
<1>7. ASSUME NEW m \in 1..Len(mail'), ~(m < n)
      PROVE  m + 1 \in DOMAIN mail /\ mail'[m] = mail[m + 1]
  <2> DEFINE k == m - (n - 1)
  <2>1. /\ k \in 1..(Len(mail) - n) /\ k + n = m + 1 /\ m = (n - 1) + k
        /\ m + 1 \in 1..Len(mail)
    BY <1>1, <1>5, <1>7
  <2> HIDE DEF k
  <2>2. mail'[m] = after[k]
    <3>1. \A x \in 1..Len(after) : (before \o after)[Len(before) + x] = after[x]
      BY <1>2, <1>3, SecondOfTwo, SMTT(30)
    <3> QED
      BY <1>2, <1>3, <1>4, <2>1, <3>1
  <2>3. after[k] = mail[k + n]
    BY <1>3, <2>1
  <2> QED
    BY <1>1, <2>1, <2>2, <2>3
<1> QED
  BY <1>5, <1>6, <1>7

LEMMA LastWordsStay ==
    ASSUME TypeOK, LastWords, UNCHANGED <<agent, spawned>>,
           mail' = mail \/ \E n \in DOMAIN mail : mail' = RemoveAt(mail, n)
    PROVE  LastWords'
<1>1. CASE mail' = mail
  BY <1>1 DEF LastWords, Latest
<1>2. CASE \E n \in DOMAIN mail : mail' = RemoveAt(mail, n)
  <2>1. PICK n \in DOMAIN mail : mail' = RemoveAt(mail, n)
    BY <1>2
  <2>2. Len(mail) \in Nat /\ DOMAIN mail = 1..Len(mail)
    BY DEF TypeOK
  <2> SUFFICES ASSUME NEW m \in DOMAIN mail'
               PROVE  /\ mail'[m].kind \in {"Working", "StopFailure", "error", "progress",
                                            "SessionEnd"}
                      /\ mail'[m].kind = "SessionEnd" =>
                            m = Len(mail') /\ spawned > 0 /\ Latest.state = "ended"
    BY DEF LastWords, Latest
  <2>3. Len(mail') = Len(mail) - 1 /\ m \in 1..Len(mail')
    BY <2>1, ShorterMail
  <2>4. CASE m \in DOMAIN mail /\ m < Len(mail) /\ mail'[m] = mail[m]
    BY <2>2, <2>3, <2>4 DEF LastWords
  <2>5. CASE m + 1 \in DOMAIN mail /\ mail'[m] = mail[m + 1]
    BY <2>2, <2>3, <2>5 DEF LastWords
  <2> QED
    BY <2>1, <2>4, <2>5, ShorterMail
<1> QED
  BY <1>1, <1>2

LEMMA TurnIsCalm ==
    ASSUME Calm, Turn
    PROVE  CalmInv'
<1>1. LastWords'
  BY LastWordsStay DEF Calm, CalmInv, Turn, Steady
<1>2. Crew'
  BY DEF Steady, Turn, Calm, CalmInv, Crew, Latest, Alive
<1>3. RowInv'
  BY DEF Steady, Turn, Calm, CalmInv, RowInv, Latest
<1>4. Quiet'
  BY DEF Steady, Turn, Quiet, Silent, Alive
<1>5. OneChain'
  BY DEF Steady, Turn, OneChain, HandsOff, EndedAtStage, Latest, Free
<1> QED
  BY <1>1, <1>2, <1>3, <1>4, <1>5 DEF CalmInv

\* what a chain that writes r and goes on with j must keep to
LEMMA WriteIsTurn ==
    ASSUME Calm, NEW w \in Workers, NEW r, NEW j, Write(w, r, j),
           Steady,
           \A v \in Workers : v # w => Free(v),
           r.stage = row.stage,
           r.error => r.status = "failed",
           r.status = "running" => row.status = "running" /\ r.handle,
           r.status \notin {"running", "failed"} => mail' = <<>> /\ Silent,
           row.status \in {"completed", "failed"} => r.status = row.status,
           r.status = "completed" /\ row.status # "completed" =>
              row.stage = LastStage /\ (row.stage \in ActionStages \/ EndedAtStage),
           j.at = "idle" \/ (r.status = "ready" /\ HandsOff(j)),
           r.status = "ready" => j.at # "idle" \/ GateOf[row.stage] \in HumanGates
    PROVE  Turn
<1>1. row' = r
  BY DEF Write, Update
<1>2. job' = [job EXCEPT ![w] = j] /\ job \in [Workers -> Job]
  BY DEF Write, Continue, Calm, TypeOK
<1>3. job'[w] = j /\ \A v \in Workers : v # w => job'[v] = job[v]
  BY <1>2
<1>4. \A v \in Workers : ~Free(v)' => v = w
  BY <1>3 DEF Free
<1>5. ASSUME NEW v \in Workers, ~Free(v)'
      PROVE  row'.status = "ready" /\ HandsOff(job'[v])
  BY <1>1, <1>3, <1>4, <1>5 DEF Free
<1>6. row'.status = "ready" =>
         (\E v \in Workers : ~Free(v)') \/ GateOf[row.stage] \in HumanGates
  BY <1>1, <1>3 DEF Free
<1> QED
  BY <1>1, <1>4, <1>5, <1>6 DEF Turn

LEMMA AdvanceHandsOff ==
    ASSUME Calm, NEW r, r.stage = row.stage, r.error = FALSE,
           row.stage \in ActionStages \/ EndedAtStage
    PROVE  \/ HandsOff(Advance(r, "mediate"))
           \/ Advance(r, "mediate").at = "idle" /\ GateOf[row.stage] \in HumanGates
<1>1. GateOf[row.stage] \in Gates
  BY CalmTypes, ConstantsAssumption DEF Calm
<1>2. GateOpens(r) \/ GateOf[row.stage] \in HumanGates
  BY <1>1 DEF GateOpens, Gates, HumanGates
<1> QED
  BY <1>2 DEF Advance, Parked, Idle, HandsOff

LEMMA MediateHandsOff ==
    ASSUME Calm, NEW r, r.stage = row.stage, r.error = FALSE,
           row.stage \in ActionStages \/ EndedAtStage
    PROVE  \/ HandsOff(Mediate(r))
           \/ Mediate(r).at = "idle" /\ GateOf[row.stage] \in HumanGates
<1>1. HandsOff(Parked("verify", "mediate", r.stage))
  BY DEF Parked, Idle, HandsOff
<1> QED
  BY <1>1, AdvanceHandsOff DEF Mediate

\* who meets a frame: no chain is in flight, and a SessionEnd is the last frame
LEMMA FrameIsMet ==
    ASSUME Unattended, Calm, NEW w \in Workers, NEW f, NEW kinds, Takes(w, f, kinds)
    PROVE  /\ row.status \in {"running", "failed"}
           /\ \A v \in Workers : Free(v)
           /\ 1 \in DOMAIN mail /\ mail' = RemoveAt(mail, 1)
           /\ f.kind \in kinds \cap {"Working", "StopFailure", "error", "progress", "SessionEnd"}
           /\ f.kind = "SessionEnd" =>
                 /\ mail' = <<>> /\ Silent
                 /\ row.status = "running" => EndedAtStage
<1>1. /\ 1 \in DOMAIN mail /\ mail' = RemoveAt(mail, 1) /\ mail[1] = f
      /\ f.kind \in kinds
  BY DEF Takes, Unattended
<1>2. mail # <<>> /\ Len(mail) \in Nat
  BY <1>1 DEF Calm, TypeOK
<1>3. row.status \in {"running", "failed"}
  BY <1>2 DEF Calm, CalmInv, Quiet
<1>4. \A v \in Workers : Free(v)
  BY <1>3 DEF Calm, CalmInv, OneChain
<1>5. ASSUME f.kind = "SessionEnd"
      PROVE  mail' = <<>> /\ Silent /\ (row.status = "running" => EndedAtStage)
  <2>1. Len(mail) = 1 /\ spawned > 0 /\ Latest.state = "ended"
    BY <1>1, <1>5 DEF Calm, CalmInv, LastWords
  <2>2. mail' = <<>>
    <3>1. Len(mail') = 0 /\ mail' \in Seq(Frame)
      BY <1>1, <2>1, ShorterMail, RemoveAtType DEF Calm, TypeOK
    <3> QED
      BY <3>1, EmptySeq
  <2>3. Silent
    BY <2>1 DEF Silent, Calm, CalmInv, Crew, Alive, Latest
  <2> QED
    BY <2>1, <2>2, <2>3 DEF Calm, CalmInv, RowInv, EndedAtStage
<1> QED
  BY <1>1, <1>3, <1>4, <1>5 DEF Calm, CalmInv, LastWords

LEMMA ChainIsAlone ==
    ASSUME Calm, NEW w \in Workers, ~Free(w)
    PROVE  /\ \A v \in Workers : v # w => Free(v)
           /\ row.status = "ready" /\ row.error = FALSE
           /\ mail = <<>>
           /\ job[w].at # "finalize" => Silent
           /\ HandsOff(job[w]) \/ LaunchOf(job[w]) \/ LaunchEnds(job[w]) \/ ActionOf(job[w])
<1>1. \A v \in Workers : v # w => Free(v)
  BY DEF Calm, CalmInv, OneChain
<1>2. /\ row.status = "ready"
      /\ HandsOff(job[w]) \/ LaunchOf(job[w]) \/ LaunchEnds(job[w]) \/ ActionOf(job[w])
  BY DEF Calm, CalmInv, OneChain
<1>3. row.error = FALSE
  BY <1>2 DEF Calm, TypeOK, Row, CalmInv, RowInv
<1>4. mail = <<>> /\ (job[w].at # "finalize" => Silent)
  BY <1>1, <1>2 DEF Calm, CalmInv, Quiet, LaunchReturns, Free
<1> QED
  BY <1>1, <1>2, <1>3, <1>4

\* a launch or an action that fails takes its session with it
LEMMA FailureIsTurn ==
    ASSUME Calm, NEW w \in Workers, \A v \in Workers : v # w => Free(v),
           row.status \notin {"completed", "waiting"},
           Steady,
           Write(w, Failed(row), Idle)
    PROVE  Turn
<1>1. /\ Failed(row).stage = row.stage
      /\ Failed(row).status = "failed" /\ Idle.at = "idle"
  BY DEF Failed, Idle, Calm, TypeOK, Row
<1> QED
  BY <1>1, WriteIsTurn

LEMMA HandoffIsTurn ==
    ASSUME Unattended, Calm, NEW w \in Workers, HandoffStep(w), ~AdvanceStage(w)
    PROVE  Turn
<1>1. job[w].at \in {"verify", "advance", "action", "dispatchAction"}
  BY DEF HandoffStep, VerifyPasses, VerifyFails, CompleteFlow, ActionSucceeds, ActionFails,
         DispatchedActionSucceeds, DispatchedActionFails
<1>2. ~Free(w)
  BY <1>1 DEF Free
<1>3. /\ \A v \in Workers : v # w => Free(v)
      /\ row.status = "ready" /\ row.error = FALSE
      /\ mail = <<>> /\ Silent
      /\ HandsOff(job[w]) \/ ActionOf(job[w])
      /\ row \in Row /\ poller \in BOOLEAN
  BY <1>1, <1>2, ChainIsAlone DEF LaunchOf, LaunchEnds, Calm, TypeOK
<1>4. CASE VerifyPasses(w)
  <2> DEFINE j == Advance(row, "mediate")
  <2>1. HandsOff(job[w])
    BY <1>3, <1>4 DEF VerifyPasses, ActionOf
  <2>2. HandsOff(j) \/ (j.at = "idle" /\ GateOf[row.stage] \in HumanGates)
    <3>1. row.stage \in ActionStages \/ EndedAtStage
      BY <2>1 DEF HandsOff
    <3> QED
      BY <1>3, <3>1, AdvanceHandsOff
  <2>3. Write(w, row, j)
    BY <1>3, <1>4 DEF VerifyPasses, Write, Update
  <2> HIDE DEF j
  <2>4. Steady /\ mail' = mail
    BY <1>3, <1>4 DEF Steady, VerifyPasses
  <2>5. HandsOff(j) => j.at # "idle"
    BY DEF HandsOff
  <2> QED
    BY <1>3, <2>2, <2>3, <2>4, <2>5, WriteIsTurn
<1>5. CASE VerifyFails(w) \/ CompleteFlow(w)
  <2>1. PICK s \in {"blocked", "completed"} : /\ Write(w, [row EXCEPT !.status = s], Idle)
                                              /\ s = "completed" => CompleteFlow(w)
    BY <1>5 DEF VerifyFails, CompleteFlow
  <2> DEFINE r == [row EXCEPT !.status = s]
  <2>2. r.stage = row.stage /\ r.status = s /\ r.error = FALSE /\ Idle.at = "idle"
    BY <1>3 DEF Row, Idle
  <2>3. Write(w, r, Idle)
    BY <2>1
  <2> HIDE DEF r
  <2>4. s = "completed" =>
           row.stage = LastStage /\ (row.stage \in ActionStages \/ EndedAtStage)
    BY <1>3, <2>1 DEF CompleteFlow, HandsOff, ActionOf
  <2>5. Steady /\ mail' = mail
    BY <1>3, <1>5 DEF Steady, VerifyFails, CompleteFlow
  <2> QED
    BY <1>3, <2>2, <2>3, <2>4, <2>5, WriteIsTurn
<1>6. CASE ActionSucceeds(w) \/ DispatchedActionSucceeds(w)
  <2>1. row.stage \in ActionStages /\ ActionOf(job[w])
    BY <1>3, <1>6 DEF ActionSucceeds, DispatchedActionSucceeds, HandsOff, ActionOf
  <2>2. PICK r \in Row :
           /\ r.stage = row.stage /\ r.error = FALSE /\ r.status \in {"ready", "waiting"}
           /\ Write(w, r, IF r.status = "ready" THEN Mediate(r) ELSE Idle)
    <3>1. CASE ActionSucceeds(w)
      <4>1. PICK s \in {row.status, "waiting"} :
               Write(w, [row EXCEPT !.status = s],
                     IF s = "ready" THEN Mediate([row EXCEPT !.status = s]) ELSE Idle)
        BY <3>1 DEF ActionSucceeds
      <4> DEFINE q == [row EXCEPT !.status = s]
      <4>2. q \in Row /\ q.stage = row.stage /\ q.error = FALSE /\ q.status = s
            /\ s \in {"ready", "waiting"}
        BY <1>3 DEF Row, Statuses
      <4>3. Write(w, q, IF s = "ready" THEN Mediate(q) ELSE Idle)
        BY <4>1
      <4> HIDE DEF q
      <4> QED
        BY <4>2, <4>3
    <3>2. CASE DispatchedActionSucceeds(w)
      <4> DEFINE q == [row EXCEPT !.status = "ready", !.handle = FALSE]
      <4>1. q \in Row /\ q.stage = row.stage /\ q.error = FALSE /\ q.status = "ready"
        BY <1>3 DEF Row, Statuses
      <4>2. Write(w, q, Mediate(q))
        BY <3>2 DEF DispatchedActionSucceeds
      <4> HIDE DEF q
      <4> QED
        BY <4>1, <4>2
    <3> QED
      BY <1>6, <3>1, <3>2
  <2> DEFINE j == IF r.status = "ready" THEN Mediate(r) ELSE Idle
  <2>3. \/ r.status = "ready" /\ HandsOff(j)
        \/ j.at = "idle" /\ (r.status = "ready" => GateOf[row.stage] \in HumanGates)
    BY <2>1, <2>2, MediateHandsOff DEF Idle
  <2>4. Write(w, r, j)
    BY <2>2
  <2>5. Steady /\ mail' = mail
    BY <1>3, <1>6 DEF Steady, ActionSucceeds, DispatchedActionSucceeds
  <2> HIDE DEF j
  <2>6. HandsOff(j) => j.at # "idle"
    BY DEF HandsOff
  <2> QED
    BY <1>3, <2>2, <2>3, <2>4, <2>5, <2>6, WriteIsTurn
<1>7. CASE ActionFails(w) \/ DispatchedActionFails(w)
  <2>1. \/ Write(w, Failed(row), Idle)
        \/ Write(w, [row EXCEPT !.status = "blocked"], Idle)
    BY <1>3, <1>7 DEF ActionFails, DispatchedActionFails, MarkFailed
  <2>2. Steady /\ mail' = mail
    BY <1>3, <1>7 DEF Steady, ActionFails, DispatchedActionFails
  <2>3. CASE Write(w, Failed(row), Idle)
    BY <1>3, <2>2, <2>3, FailureIsTurn
  <2>4. CASE Write(w, [row EXCEPT !.status = "blocked"], Idle)
    <3> DEFINE r == [row EXCEPT !.status = "blocked"]
    <3>1. r.stage = row.stage /\ r.status = "blocked" /\ r.error = FALSE /\ Idle.at = "idle"
      BY <1>3 DEF Row, Idle
    <3>2. Write(w, r, Idle)
      BY <2>4
    <3> HIDE DEF r
    <3> QED
      BY <1>3, <2>2, <3>1, <3>2, WriteIsTurn
  <2> QED
    BY <2>1, <2>3, <2>4
<1> QED
  BY <1>4, <1>5, <1>6, <1>7 DEF HandoffStep

LEMMA FramesAreTurns ==
    ASSUME Unattended, Calm, NEW w \in Workers, HookFrame(w) \/ ReportFrame(w)
    PROVE  Turn
<1>0. /\ row \in Row /\ poller \in BOOLEAN /\ retries \in Nat /\ MaxRetries = 0
      /\ row.status = "running" => row.handle
  BY DEF Calm, TypeOK, Unattended, RunningHasHandle
<1>1. PICK f \in Frame : \E kinds : Takes(w, f, kinds)
  BY DEF HookFrame, HookStale, HookWorking, HookNotification, HookStopFailure,
         HookSessionEnd, ReportFrame, ReportStale, ReportCompleted, ReportRejected,
         ReportQuestion, ReportError, ReportProgress
<1>2. /\ row.status \in {"running", "failed"}
      /\ \A v \in Workers : Free(v)
      /\ 1 \in DOMAIN mail /\ mail' = RemoveAt(mail, 1)
  BY <1>1, FrameIsMet
<1>3. UNCHANGED <<agent, spawned, pane, sentinel, poller>>
  BY DEF HookFrame, HookStale, HookWorking, HookNotification, HookStopFailure,
         HookSessionEnd, ReportFrame, ReportStale, ReportCompleted, ReportRejected,
         ReportQuestion, ReportError, ReportProgress
<1>4. Steady
  BY <1>0, <1>2, <1>3 DEF Steady
<1>5. row.error => row.status = "failed"
  BY DEF Calm, CalmInv, RowInv
\* the row stays as it is, or fails, or is handed off by the end of its agent
<1>6. CASE UNCHANGED <<row, job>>
  BY <1>2, <1>4, <1>5, <1>6 DEF Turn, Free
<1>7. CASE Write(w, row, Idle)
  <2>1. Idle.at = "idle"
    BY DEF Idle
  <2> QED
    BY <1>0, <1>2, <1>4, <1>5, <1>7, <2>1, WriteIsTurn
<1>8. CASE Write(w, Failed(row), Idle)
  BY <1>2, <1>4, <1>8, FailureIsTurn
<1>9. /\ UnlessTerminal(row, "running") = row
      /\ row.status # "running" => UnlessTerminal(row, "ready") = row
  <2>1. row.status = "running" => [row EXCEPT !.status = "running"] = row
    BY <1>0 DEF Row
  <2> QED
    BY <1>2, <2>1 DEF UnlessTerminal, Terminal
<1>10. ASSUME NEW who, FailOrRetry(w, Failed(row), who)
       PROVE  Write(w, Failed(row), Idle)
  BY <1>0, <1>10 DEF FailOrRetry
<1>11. CASE HookStale(w) \/ ReportStale(w) \/ ReportRejected(w)
  BY <1>6, <1>11 DEF HookStale, ReportStale, ReportRejected
<1>12. CASE HookWorking(w)
  BY <1>7, <1>9, <1>12 DEF HookWorking
<1>13. CASE HookStopFailure(w)
  <2>1. row.status \notin Terminal \ {"failed"}
    BY <1>2 DEF Terminal
  <2>2. Write(w, row, Idle) \/ FailOrRetry(w, Failed(row), "hookRetry")
    BY <1>9, <1>13, <2>1 DEF HookStopFailure
  <2> QED
    BY <1>7, <1>8, <1>10, <2>2
<1>14. CASE HookSessionEnd(w)
  <2>1. PICK e \in Frame : Takes(w, e, {"SessionEnd"})
    BY <1>14 DEF HookSessionEnd
  <2>2. mail' = <<>> /\ Silent /\ (row.status = "running" => EndedAtStage)
    BY <2>1, FrameIsMet
  <2> DEFINE r == [row EXCEPT !.status = "ready"]
  <2>3. \/ Write(w, row, Idle)
        \/ row.status = "running" /\ Write(w, r, Mediate(r))
        \/ FailOrRetry(w, Failed(row), "hookRetry")
    BY <1>9, <1>14 DEF HookSessionEnd
  <2>4. ASSUME row.status = "running", Write(w, r, Mediate(r))
        PROVE  Turn
    <3> DEFINE j == Mediate(r)
    <3>1. r.stage = row.stage /\ r.status = "ready" /\ r.error = FALSE
      BY <1>0, <1>5, <2>4 DEF Row
    <3>2. Write(w, r, j)
      BY <2>4
    <3> HIDE DEF r
    <3>3. HandsOff(j) \/ (j.at = "idle" /\ GateOf[row.stage] \in HumanGates)
      BY <2>2, <2>4, <3>1, MediateHandsOff
    <3> HIDE DEF j
    <3>4. HandsOff(j) => j.at # "idle"
      BY DEF HandsOff
    <3> QED
      BY <1>2, <1>4, <2>2, <2>4, <3>1, <3>2, <3>3, <3>4, WriteIsTurn
  <2> QED
    BY <1>7, <1>8, <1>10, <2>3, <2>4
<1>15. CASE HookNotification(w)
  <2>1. PICK e \in Frame : Takes(w, e, {"Notification"})
    BY <1>15 DEF HookNotification
  <2> QED
    BY <2>1, FrameIsMet
<1>16. CASE ReportCompleted(w)
  <2>1. PICK e \in Frame : Takes(w, e, {"completed"})
    BY <1>16 DEF ReportCompleted
  <2> QED
    BY <2>1, FrameIsMet
<1>17. CASE ReportQuestion(w)
  <2>1. PICK e \in Frame : Takes(w, e, {"question"})
    BY <1>17 DEF ReportQuestion
  <2> QED
    BY <2>1, FrameIsMet
<1>18. CASE ReportError(w)
  BY <1>8, <1>10, <1>18 DEF ReportError
<1>19. CASE ReportProgress(w)
  BY <1>2, <1>7, <1>19 DEF ReportProgress
<1> QED
  BY <1>11, <1>12, <1>13, <1>14, <1>15, <1>16, <1>17, <1>18, <1>19 DEF HookFrame, ReportFrame

\* the poller gives up a session that runs, or only itself
LEMMA PollFailsIsTurn ==
    ASSUME Calm, PollFails
    PROVE  Turn \/ (poller' = FALSE /\ UNCHANGED <<row, job, agent, spawned, pane, mail, sentinel>>)
<1>0. row \in Row /\ poller' = FALSE
      /\ UNCHANGED <<job, agent, spawned, pane, mail, sentinel>>
  BY DEF Calm, TypeOK, PollFails
<1>1. CASE row.status # "running"
  BY <1>0, <1>1 DEF PollFails, Update
<1>2. CASE row.status = "running"
  <2>1. row' = [Failed(row) EXCEPT !.handle = FALSE]
    BY <1>0, <1>2 DEF PollFails, Update, Failed, Row
  <2>2. row'.stage = row.stage /\ row'.status = "failed"
    BY <1>0, <2>1 DEF Failed, Row
  <2>3. \A w \in Workers : Free(w) /\ Free(w)'
    BY <1>0, <1>2 DEF Calm, CalmInv, OneChain, Free
  <2>4. Steady
    BY <1>0 DEF Steady
  <2> QED
    BY <1>2, <2>2, <2>3, <2>4 DEF Turn
<1> QED
  BY <1>1, <1>2

LEMMA PollingLess ==
    ASSUME Calm, poller' = FALSE, UNCHANGED <<row, job, agent, spawned, pane, mail, sentinel>>
    PROVE  CalmInv'
<1>1. OneChain'
  BY DEF Calm, CalmInv, OneChain, HandsOff, LaunchOf, LaunchEnds, ActionOf, EndedAtStage,
         Latest, Free
<1>2. Quiet' /\ RowInv' /\ LastWords' /\ Crew'
  BY DEF Calm, CalmInv, Quiet, LaunchReturns, Silent, Alive, RowInv, LastWords, Crew, Latest
<1> QED
  BY <1>1, <1>2 DEF CalmInv

LEMMA LaunchStepIsCalm ==
    ASSUME Unattended, Calm, NEW w \in Workers, LaunchKillsOld(w) \/ CreatePane(w)
    PROVE  /\ CalmInv' /\ row' = row
           /\ \A i \in Launched : agent'[i].state = "ended" <=> agent[i].state = "ended"
           /\ \A i \in Launched : agent[i].state = "ended" => agent'[i].stage = agent[i].stage
<1>0. /\ row.stage \in Nat /\ spawned \in Nat /\ Launched = 1..MaxSpawns /\ MaxSpawns \in Nat
      /\ spawned <= MaxSpawns /\ agent \in [Launched -> Agent] /\ job \in [Workers -> Job]
      /\ 1..spawned \subseteq Launched
      /\ \A i \in Launched : agent[i].stage \in Nat
  BY CalmTypes DEF Calm
<1>1. job[w].at \in {"prepare", "create"} /\ ~Free(w)
  BY DEF LaunchKillsOld, CreatePane, Free
<1>2. /\ \A v \in Workers : v # w => Free(v)
      /\ row.status = "ready" /\ row.error = FALSE
      /\ mail = <<>> /\ Silent /\ LaunchOf(job[w])
  BY <1>1, ChainIsAlone DEF HandsOff, LaunchEnds, ActionOf
<1>3. CASE LaunchKillsOld(w)
  <2>1. /\ pane' = 0 /\ job' = [job EXCEPT ![w] = [job[w] EXCEPT !.at = "create"]]
        /\ UNCHANGED <<row, spawned, mail, sentinel, poller>>
        /\ job[w].at = "prepare"
    BY <1>3 DEF LaunchKillsOld, KillPane, Continue
  <2>2. agent' = agent
    <3>1. pane # 0 => pane \in Launched
      BY <1>0, CalmTypes DEF Calm, TypeOK
    <3>2. ~(pane # 0 /\ agent[pane].state = "alive")
      BY <1>2, <3>1 DEF Silent, Alive
    <3> QED
      BY <1>3, <3>2 DEF LaunchKillsOld, KillPane
  <2>3. /\ \A v \in Workers : v # w => Free(v)'
        /\ ~Free(w)'
        /\ job'[w].at = "create" /\ job'[w].stage = job[w].stage /\ job'[w].who = job[w].who
    BY <1>0, <1>2, <2>1 DEF Free, Job
  <2>4. LaunchOf(job[w])'
    BY <1>2, <2>1, <2>2, <2>3 DEF LaunchOf
  <2>5. OneChain'
    BY <1>2, <2>1, <2>3, <2>4 DEF OneChain
  <2>6. Quiet' /\ LastWords' /\ Crew'
    BY <1>2, <2>1, <2>2 DEF Quiet, Silent, Alive, LastWords, Latest, Crew, Calm, CalmInv
  <2>7. RowInv'
    BY <1>2, <2>1, <2>2 DEF RowInv, LaunchOf, Latest, Calm, CalmInv
  <2> QED
    BY <2>1, <2>2, <2>5, <2>6, <2>7 DEF CalmInv
<1>4. CASE CreatePane(w)
  <2> DEFINE new == spawned + 1
  <2>1. /\ pane' = new /\ spawned' = new /\ new \in Launched
        /\ UNCHANGED <<row, mail, sentinel, poller>>
        /\ job' = [job EXCEPT ![w] = [job[w] EXCEPT !.at = "finalize", !.agent = new]]
    BY <1>0, <1>4 DEF CreatePane, Continue
  <2>2. /\ \A i \in Launched : i # new => agent'[i] = agent[i]
        /\ agent'[new].state = "alive" /\ agent'[new].stage = row.stage
    BY <1>0, <1>2, <1>4, <2>1 DEF CreatePane, LaunchOf
  <2>3. agent[new].state # "ended"
    BY <1>0, <2>1 DEF Calm, CalmInv, Crew
  <2>4. \A i \in 1..new : i = new \/ i \in 1..spawned
    BY <1>0
  <2>5. /\ \A v \in Workers : v # w => Free(v)'
        /\ ~Free(w)'
        /\ job'[w].at = "finalize" /\ job'[w].stage = job[w].stage /\ job'[w].agent = new
    BY <1>0, <1>2, <2>1 DEF Free, Job
  <2> HIDE DEF new
  <2>6. new > 0 /\ spawned < new
    BY <1>0 DEF new
  <2>7. LaunchEnds(job[w])'
    BY <1>2, <2>1, <2>2, <2>5, <2>6 DEF LaunchEnds, LaunchOf, Latest
  <2>8. OneChain'
    BY <1>2, <2>1, <2>5, <2>7 DEF OneChain
  <2>9. ~sentinel /\ row.stage \notin ActionStages
        /\ \A i \in 1..spawned : agent[i].stage < row.stage
    BY <1>2 DEF Silent, LaunchOf
  <2>10. Crew'
    <3>1. \A i \in Launched : Alive(i)' => i = new
      BY <1>2, <2>2 DEF Silent, Alive
    <3>2. \A i \in Launched : agent'[i].state # "none" => i = new \/ i <= spawned
      BY <2>2 DEF Calm, CalmInv, Crew
    <3>3. \A i \in 1..new : agent'[i].stage \notin ActionStages /\ agent'[i].stage <= row.stage
      BY <1>0, <2>2, <2>4, <2>6, <2>9 DEF Calm, CalmInv, Crew
    <3>4. \A i, j \in 1..new : i < j => agent'[i].stage < agent'[j].stage
      <4> SUFFICES ASSUME NEW i \in 1..new, NEW j \in 1..new, i < j
                   PROVE  agent'[i].stage < agent'[j].stage
        OBVIOUS
      <4>1. i \in 1..spawned /\ i # new
        BY <1>0, <2>4, <2>6 DEF new
      <4>2. CASE j = new
        BY <1>0, <2>2, <2>9, <4>1, <4>2
      <4>3. CASE j # new
        BY <1>0, <2>2, <2>4, <4>1, <4>3 DEF Calm, CalmInv, Crew
      <4> QED
        BY <4>2, <4>3
    <3>5. \A i \in Launched : agent'[i].state # "none" => i <= new
      BY <1>0, <2>1, <3>2 DEF new
    <3>6. \A i \in Launched : Alive(i)' => i = spawned' /\ agent'[i].stage = row'.stage
      BY <2>1, <2>2, <3>1
    <3> QED
      BY <2>1, <2>9, <3>3, <3>4, <3>5, <3>6 DEF Crew
  <2>11. Quiet'
    BY <1>2, <2>1, <2>5 DEF Quiet, LaunchReturns
  <2>12. LastWords'
    BY <1>2, <2>1 DEF LastWords
  <2>13. RowInv'
    BY <1>2, <2>1, <2>6 DEF RowInv
  <2> QED
    BY <2>1, <2>2, <2>3, <2>8, <2>10, <2>11, <2>12, <2>13 DEF CalmInv
<1> QED
  BY <1>3, <1>4

LEMMA FinalizeIsCalm ==
    ASSUME Unattended, Calm, NEW w \in Workers, Finalize(w)
    PROVE  /\ CalmInv' /\ row'.stage = row.stage /\ row.status = "ready" /\ row'.status = "running"
           /\ agent' = agent
<1>0. row \in Row /\ job \in [Workers -> Job] /\ spawned \in Nat
  BY CalmTypes DEF Calm, TypeOK
<1>1. ~Free(w) /\ job[w].at = "finalize"
  BY DEF Finalize, Free
<1>2. /\ \A v \in Workers : v # w => Free(v)
      /\ row.status = "ready" /\ row.error = FALSE
      /\ mail = <<>> /\ LaunchEnds(job[w])
  BY <1>1, ChainIsAlone DEF HandsOff, LaunchOf, ActionOf
<1>3. row' = [FinalizeRow(w) EXCEPT !.status = "running", !.handle = TRUE]
  BY <1>0 DEF Finalize, Write, Update, FinalizeRow, Row
<1>4. row'.stage = row.stage /\ row'.status = "running" /\ row'.error = FALSE
  BY <1>0, <1>2, <1>3 DEF FinalizeRow, Row
<1>5. UNCHANGED <<agent, spawned, pane, mail, sentinel>> /\ job' = [job EXCEPT ![w] = Idle]
  BY DEF Finalize, Write, Continue
<1>6. \A v \in Workers : Free(v)'
  BY <1>0, <1>2, <1>5 DEF Free, Idle
<1>7. OneChain'
  BY <1>4, <1>6 DEF OneChain
<1>8. RowInv'
  BY <1>0, <1>2, <1>4, <1>5 DEF RowInv, LaunchEnds, Latest
<1>9. Quiet' /\ LastWords' /\ Crew'
  BY <1>2, <1>4, <1>5 DEF Quiet, LastWords, Crew, Calm, CalmInv, Latest, Alive
<1> QED
  BY <1>2, <1>4, <1>5, <1>7, <1>8, <1>9 DEF CalmInv

LEMMA AdvanceIsCalm ==
    ASSUME Unattended, Calm, NEW w \in Workers, AdvanceStage(w)
    PROVE  /\ CalmInv' /\ row'.stage = row.stage + 1 /\ row.stage < LastStage
           /\ row.status = "ready" /\ row'.status = "ready" /\ agent' = agent
           /\ row.stage \in ActionStages \/ EndedAtStage
<1>0. /\ row \in Row /\ job \in [Workers -> Job] /\ spawned \in Nat /\ row.stage \in Nat
      /\ 1..spawned \subseteq Launched
      /\ \A i \in Launched : agent[i].stage \in Nat
  BY CalmTypes DEF Calm, TypeOK
<1>1. ~Free(w) /\ job[w].at = "advance"
  BY DEF AdvanceStage, Free
<1>2. /\ \A v \in Workers : v # w => Free(v)
      /\ row.status = "ready" /\ row.error = FALSE
      /\ mail = <<>> /\ Silent /\ HandsOff(job[w])
  BY <1>1, ChainIsAlone DEF ActionOf, LaunchOf, LaunchEnds
<1>3. job[w].who = "mediate" /\ job[w].stage = row.stage /\ row.stage < LastStage
      /\ (row.stage \in ActionStages \/ EndedAtStage)
  BY <1>2 DEF HandsOff, AdvanceStage
<1> DEFINE r == NextStage(w)
           j == IF r.stage \in ActionStages
                THEN Parked("action", "mediate", r.stage) ELSE Dispatch(r, "mediate")
<1>4. r.stage = row.stage + 1 /\ r.status = "ready" /\ r.error = FALSE
  BY <1>0, <1>3 DEF NextStage, Row
<1>5. Write(w, r, j)
  BY <1>3 DEF AdvanceStage
<1> HIDE DEF r
<1>6. /\ j.stage = r.stage /\ j.who = "mediate"
      /\ \/ j.at = "action" /\ r.stage \in ActionStages
         \/ j.at = "prepare" /\ r.stage \notin ActionStages
  BY DEF Parked, Idle, Dispatch
<1>7. row' = r /\ job' = [job EXCEPT ![w] = j]
  BY <1>4, <1>5 DEF Write, Update, Continue
<1> HIDE DEF j
<1>8. UNCHANGED <<agent, spawned, pane, mail, sentinel>> /\ poller' = FALSE
  BY DEF AdvanceStage
<1>9. /\ \A v \in Workers : v # w => Free(v)'
      /\ job'[w] = j /\ ~Free(w)'
  BY <1>0, <1>2, <1>6, <1>7 DEF Free
<1>10. \A i \in 1..spawned : agent[i].stage < row'.stage
  BY <1>0, <1>4, <1>7 DEF Calm, CalmInv, Crew
<1>11. LaunchOf(job[w])' \/ ActionOf(job[w])'
  BY <1>6, <1>7, <1>8, <1>9, <1>10 DEF LaunchOf, ActionOf
<1>12. OneChain'
  BY <1>4, <1>7, <1>9, <1>11 DEF OneChain
<1>13. RowInv'
  BY <1>4, <1>7, <1>8 DEF RowInv
<1>14. Quiet' /\ LastWords'
  BY <1>2, <1>8 DEF Quiet, Silent, Alive, LastWords
<1>15. Crew'
  <2>1. \A i \in Launched : ~Alive(i)'
    BY <1>2, <1>8 DEF Silent, Alive
  <2>2. \A i \in 1..spawned : agent[i].stage <= row'.stage
    BY <1>0, <1>4, <1>7, <1>10
  <2> QED
    BY <1>8, <2>1, <2>2 DEF Crew, Calm, CalmInv, Latest
<1> QED
  BY <1>2, <1>3, <1>4, <1>7, <1>8, <1>12, <1>13, <1>14, <1>15 DEF CalmInv

\* an agent that works is the latest, of the row's stage, and has not spoken its
\* last word; the row runs or has failed, unless its launch has not ended
LEMMA WorkingAgent ==
    ASSUME Calm, NEW i \in Launched, Alive(i)
    PROVE  /\ i = spawned /\ spawned > 0 /\ agent[i].stage = row.stage
           /\ row.stage \notin ActionStages
           /\ \A n \in DOMAIN mail : mail[n].kind # "SessionEnd"
           /\ row.status \in {"running", "failed"} \/ LaunchReturns
           /\ \A w \in Workers : job[w].at = "finalize" => job[w].agent = i
<1>0. spawned \in Nat /\ Launched = 1..MaxSpawns /\ MaxSpawns \in Nat
  BY CalmTypes DEF Calm
<1>1. i = spawned /\ agent[i].stage = row.stage
  BY DEF Calm, CalmInv, Crew
<1>2. spawned > 0 /\ spawned \in 1..spawned
  BY <1>0, <1>1
<1>3. row.stage \notin ActionStages
  BY <1>1, <1>2 DEF Calm, CalmInv, Crew
<1>4. \A n \in DOMAIN mail : mail[n].kind # "SessionEnd"
  BY <1>1 DEF Calm, CalmInv, LastWords, Latest, Alive
<1>5. row.status \in {"running", "failed"} \/ LaunchReturns
  BY DEF Calm, CalmInv, Quiet, Silent
<1>6. ASSUME NEW w \in Workers, job[w].at = "finalize"
      PROVE  job[w].agent = i
  <2>1. ~Free(w)
    BY <1>6 DEF Free
  <2>2. LaunchEnds(job[w])
    BY <1>6, <2>1, ChainIsAlone DEF HandsOff, LaunchOf, ActionOf
  <2> QED
    BY <1>1, <2>2 DEF LaunchEnds
<1> QED
  BY <1>1, <1>2, <1>3, <1>4, <1>5, <1>6

LEMMA SpeakingIsHeard ==
    ASSUME Unattended, Calm, NEW i \in Launched, NEW kind, Speaks(i, kind)
    PROVE  /\ Alive(i) /\ row.status \in {"running", "failed"}
           /\ mail' = Append(mail, [from |-> i, kind |-> kind])
           /\ Len(mail') = Len(mail) + 1 /\ mail'[Len(mail')].kind = kind
           /\ \A n \in DOMAIN mail' :
                 n # Len(mail') => n \in DOMAIN mail /\ mail'[n] = mail[n]
<1>1. Alive(i) /\ mail' = Append(mail, [from |-> i, kind |-> kind])
  BY DEF Speaks
<1>2. ~LaunchReturns
  <2>1. \A w \in Workers : job[w].at = "finalize" => job[w].agent # i
    BY DEF Speaks, Unattended
  <2> QED
    BY <1>1, <2>1, WorkingAgent DEF LaunchReturns
<1>3. row.status \in {"running", "failed"}
  BY <1>1, <1>2, WorkingAgent
<1>4. mail \in Seq(Frame)
  BY DEF Calm, TypeOK
<1> DEFINE f == [from |-> i, kind |-> kind]
<1>5. f.kind = kind
  OBVIOUS
<1> HIDE DEF f
<1>6. /\ Len(Append(mail, f)) = Len(mail) + 1 /\ Append(mail, f)[Len(mail) + 1] = f
      /\ \A n \in 1..Len(mail) : Append(mail, f)[n] = mail[n]
      /\ DOMAIN Append(mail, f) = 1..(Len(mail) + 1) /\ DOMAIN mail = 1..Len(mail)
      /\ Len(mail) \in Nat
  BY <1>4
<1>7. mail' = Append(mail, f)
  BY <1>1 DEF f
<1>8. \A n \in 1..(Len(mail) + 1) : n # Len(mail) + 1 => n \in 1..Len(mail)
  BY <1>6
<1> QED
  BY <1>1, <1>3, <1>5, <1>6, <1>7, <1>8

\* an agent exits with its last word, or crashes
LEMMA AgentStepIsCalm ==
    ASSUME Unattended, Calm, NEW i \in Launched,
           AgentSends(i) \/ AgentExits(i) \/ AgentCrashes(i)
    PROVE  /\ CalmInv' /\ row' = row
           /\ \A k \in Launched : agent'[k].stage = agent[k].stage
           /\ \A k \in Launched : agent'[k].state = "ended"
                 <=> agent[k].state = "ended" \/ (AgentExits(i) /\ k = i)
<1>0. /\ spawned \in Nat /\ agent \in [Launched -> Agent] /\ 1..spawned \subseteq Launched
      /\ UNCHANGED <<row, poller, job, spawned, pane>>
  BY CalmTypes DEF Calm, AgentSends, AgentExits, AgentCrashes
<1>1. Alive(i)
  BY DEF AgentSends, AgentExits, AgentCrashes, Speaks
<1>2. /\ i = spawned /\ spawned > 0 /\ agent[i].stage = row.stage
      /\ \A n \in DOMAIN mail : mail[n].kind # "SessionEnd"
      /\ row.status \in {"running", "failed"} \/ LaunchReturns
  BY <1>1, WorkingAgent
<1>3. PICK s \in {"alive", "ended", "crashed"} :
         /\ \A k \in Launched : k # i => agent'[k] = agent[k]
         /\ agent'[i].stage = agent[i].stage /\ agent'[i].state = s
         /\ s = "crashed" => mail' = mail
         /\ sentinel' # sentinel => s = "crashed"
         /\ s = "ended" <=> AgentExits(i)
  <2>1. CASE AgentSends(i)
    <3>1. UNCHANGED <<agent, sentinel>> /\ agent[i].state = "alive"
      BY <1>1, <2>1 DEF AgentSends, Alive
    <3>2. ~AgentExits(i)
      <4>1. ASSUME AgentExits(i) PROVE FALSE
        <5>1. agent'[i].state = "ended"
          BY <1>0, <4>1 DEF AgentExits
        <5> QED
          BY <3>1, <5>1
      <4> QED
        BY <4>1
    <3> QED
      BY <3>1, <3>2
  <2>2. CASE AgentExits(i)
    <3>1. agent' = [agent EXCEPT ![i].state = "ended"] /\ sentinel' = sentinel
      BY <2>2 DEF AgentExits
    <3>2. /\ \A k \in Launched : k # i => agent'[k] = agent[k]
          /\ agent'[i].stage = agent[i].stage /\ agent'[i].state = "ended"
      BY <1>0, <3>1 DEF Agent
    <3> QED
      BY <2>2, <3>1, <3>2
  <2>3. CASE AgentCrashes(i)
    <3>1. PICK s \in {"alive", "crashed"} :
             /\ \A k \in Launched : k # i => agent'[k] = agent[k]
             /\ agent'[i].stage = agent[i].stage /\ agent'[i].state = s
             /\ sentinel' # sentinel => s = "crashed"
      <4>1. CASE agent' = [agent EXCEPT ![i].claude = i] /\ UNCHANGED sentinel
        <5>1. /\ \A k \in Launched : k # i => agent'[k] = agent[k]
              /\ agent'[i].stage = agent[i].stage /\ agent'[i].state = agent[i].state
          BY <1>0, <4>1 DEF Agent
        <5> QED
          BY <1>1, <4>1, <5>1 DEF Alive
      <4>2. CASE agent' = [agent EXCEPT ![i].state = "crashed"]
        <5>1. /\ \A k \in Launched : k # i => agent'[k] = agent[k]
              /\ agent'[i].stage = agent[i].stage /\ agent'[i].state = "crashed"
          BY <1>0, <4>2 DEF Agent
        <5> QED
          BY <5>1
      <4> QED
        BY <2>3, <4>1, <4>2 DEF AgentCrashes
    <3>2. mail' = mail /\ mail \in Seq(Frame)
      BY <2>3 DEF AgentCrashes, Calm, TypeOK
    <3>3. ~AgentExits(i)
      <4>1. ASSUME AgentExits(i) PROVE FALSE
        <5>1. Len(mail') = Len(mail) + 1
          BY <4>1, SpeakingIsHeard DEF AgentExits
        <5>2. Len(mail) \in Nat
          BY <3>2
        <5> QED
          BY <3>2, <5>1, <5>2
      <4> QED
        BY <4>1
    <3> QED
      BY <3>1, <3>2, <3>3
  <2> QED
    BY <2>1, <2>2, <2>3
<1>4. Crew'
  <2>1. \A k \in Launched : Alive(k)' => k = i
    BY <1>2, <1>3 DEF Calm, CalmInv, Crew, Alive
  <2>2. \A k \in Launched : agent'[k].state # "none" => k <= spawned
    <3>1. \A k \in Launched : agent[k].state # "none" => k <= spawned
      BY DEF Calm, CalmInv, Crew
    <3>2. i <= spawned
      BY <1>0, <1>2
    <3> QED
      BY <1>3, <3>1, <3>2
  <2>3. \A k \in Launched : agent'[k].stage = agent[k].stage
    BY <1>3
  <2>4. sentinel' => Latest'.state = "crashed"
    <3>1. ~sentinel
      BY <1>1, <1>2 DEF Calm, CalmInv, Crew, Latest, Alive
    <3>2. sentinel \in BOOLEAN
      BY DEF Calm, TypeOK
    <3>3. sentinel' => s = "crashed"
      BY <1>3, <3>1, <3>2 DEF AgentSends, AgentExits, AgentCrashes
    <3> QED
      BY <1>0, <1>2, <1>3, <3>3 DEF Latest
  <2> QED
    BY <1>0, <1>2, <2>1, <2>2, <2>3, <2>4 DEF Crew, Calm, CalmInv
<1>5. LastWords'
  <2>1. CASE AgentCrashes(i)
    BY <1>2, <2>1 DEF AgentCrashes, LastWords, Calm, CalmInv
  <2>2. ASSUME NEW kind \in {"Working", "StopFailure", "error", "progress", "SessionEnd"},
               Speaks(i, kind), kind = "SessionEnd" => s = "ended"
        PROVE  LastWords'
    <3>1. /\ mail'[Len(mail')].kind = kind
          /\ \A n \in DOMAIN mail' :
                n # Len(mail') => n \in DOMAIN mail /\ mail'[n] = mail[n]
      BY <2>2, SpeakingIsHeard
    <3>2. kind = "SessionEnd" => Latest'.state = "ended" /\ spawned' > 0
      BY <1>0, <1>2, <1>3, <2>2 DEF Latest
    <3> SUFFICES ASSUME NEW n \in DOMAIN mail'
                 PROVE  /\ mail'[n].kind \in {"Working", "StopFailure", "error", "progress",
                                              "SessionEnd"}
                        /\ mail'[n].kind = "SessionEnd" =>
                              n = Len(mail') /\ spawned' > 0 /\ Latest'.state = "ended"
      BY DEF LastWords
    <3> QED
      BY <1>2, <2>2, <3>1, <3>2 DEF LastWords, Calm, CalmInv
  <2>3. CASE AgentSends(i)
    BY <2>2, <2>3 DEF AgentSends, Unattended
  <2>4. CASE AgentExits(i)
    BY <1>3, <2>2, <2>4 DEF AgentExits
  <2> QED
    BY <2>1, <2>3, <2>4
<1>6. Quiet'
  <2>1. CASE row.status \in {"running", "failed"}
    BY <1>0, <2>1 DEF Quiet
  <2>2. CASE LaunchReturns /\ row.status \notin {"running", "failed"}
    <3>1. mail' = mail
      BY <2>2, SpeakingIsHeard DEF AgentSends, AgentExits, AgentCrashes
    <3> QED
      BY <1>0, <2>2, <3>1 DEF Quiet, LaunchReturns, Calm, CalmInv
  <2> QED
    BY <1>2, <2>1, <2>2
<1>7. RowInv'
  <2>1. spawned > 0 => spawned \in Launched
    BY <1>0
  <2> QED
    BY <1>0, <1>2, <1>3, <2>1 DEF RowInv, Latest, Calm, CalmInv
<1>8. OneChain'
  <2>1. ASSUME NEW w \in Workers, ~Free(w)
        PROVE  (HandsOff(job[w]) \/ LaunchOf(job[w]) \/ LaunchEnds(job[w])
                  \/ ActionOf(job[w]))'
    <3>1. HandsOff(job[w]) \/ LaunchOf(job[w]) \/ LaunchEnds(job[w]) \/ ActionOf(job[w])
      BY <2>1, ChainIsAlone
    <3>2. CASE HandsOff(job[w])
      <4>1. row.stage \in ActionStages
        BY <1>1, <1>2, <3>2 DEF HandsOff, EndedAtStage, Latest, Alive
      <4> QED
        BY <1>0, <3>2, <4>1 DEF HandsOff
    <3>3. CASE LaunchOf(job[w])
      <4>1. \A k \in 1..spawned : agent'[k].stage = agent[k].stage
        BY <1>0, <1>3
      <4> QED
        BY <1>0, <3>3, <4>1 DEF LaunchOf
    <3>4. CASE LaunchEnds(job[w])
      BY <1>0, <1>2, <1>3, <3>4 DEF LaunchEnds, Latest
    <3>5. CASE ActionOf(job[w])
      BY <1>0, <3>5 DEF ActionOf
    <3> QED
      BY <3>1, <3>2, <3>3, <3>4, <3>5
  <2> QED
    BY <1>0, <2>1 DEF OneChain, Free, Calm, CalmInv
<1>9. /\ \A k \in Launched : agent'[k].stage = agent[k].stage
      /\ \A k \in Launched : k # i => agent'[k].state = agent[k].state
      /\ agent[i].state # "ended"
      /\ agent'[i].state = "ended" <=> AgentExits(i)
  BY <1>1, <1>3 DEF Alive
<1> QED
  BY <1>0, <1>4, <1>5, <1>6, <1>7, <1>8, <1>9 DEF CalmInv

\* which steps there are while nobody interferes
LEMMA CalmSteps ==
    ASSUME Unattended, Calm, [Next]_vars
    PROVE  \/ Turn
           \/ \E w \in Workers : \/ LaunchKillsOld(w) \/ CreatePane(w)
                                 \/ Finalize(w) \/ AdvanceStage(w)
           \/ \E i \in Launched : AgentSends(i) \/ AgentExits(i) \/ AgentCrashes(i)
           \/ FrameLost
           \/ poller' = FALSE /\ UNCHANGED <<row, job, agent, spawned, pane, mail, sentinel>>
           \/ UNCHANGED vars
<1>1. ASSUME NEW w \in Workers, DispatchStep(w)
      PROVE  Turn \/ LaunchKillsOld(w) \/ CreatePane(w) \/ Finalize(w)
  <2>1. ~Free(w) /\ job[w].at \in {"prepare", "create", "finalize", "abort"}
    BY <1>1 DEF DispatchStep, LaunchFails, LaunchKillsOld, CreatePane, CreateDuplicate,
       Finalize, FinalizeTooLate, AbortLaunch, Free
  <2>2. /\ \A v \in Workers : v # w => Free(v)
        /\ row.status = "ready" /\ mail = <<>>
        /\ LaunchOf(job[w]) \/ LaunchEnds(job[w])
    BY <2>1, ChainIsAlone DEF HandsOff, ActionOf
  <2>3. ASSUME LaunchFails(w)
        PROVE  Turn
    <3>1. LaunchOf(job[w])
      BY <2>2, <2>3 DEF LaunchFails, LaunchEnds
    <3>2. Write(w, Failed(row), Idle)
      BY <2>2, <2>3, <3>1 DEF LaunchFails, LaunchOf, DispatchFails, MarkFailed
    <3>3. Steady
      <4>1. poller \in BOOLEAN
        BY DEF Calm, TypeOK
      <4> QED
        BY <2>3, <4>1 DEF LaunchFails, Steady
    <3> QED
      BY <2>2, <3>2, <3>3, FailureIsTurn
  <2>4. ~CreateDuplicate(w)
    BY <2>2 DEF CreateDuplicate, LaunchOf, LaunchEnds
  <2>5. ~FinalizeTooLate(w) /\ ~AbortLaunch(w)
    BY <2>2 DEF FinalizeTooLate, AbortLaunch, MovedOn, LaunchOf, LaunchEnds
  <2> QED
    BY <1>1, <2>3, <2>4, <2>5 DEF DispatchStep
<1>2. ASSUME NEW w \in Workers, HandoffStep(w)
      PROVE  Turn \/ AdvanceStage(w)
  BY <1>2, HandoffIsTurn
<1>3. ASSUME NEW w \in Workers, PollStep(w)
      PROVE  FALSE
  <2>1. ~PollPaneGone(w)
    BY DEF PollPaneGone, Calm, CalmInv, RowInv
  <2>2. job[w].at \notin {"gone", "forensics"}
    BY ChainIsAlone DEF Free, HandsOff, LaunchOf, LaunchEnds, ActionOf
  <2> QED
    BY <1>3, <2>1, <2>2 DEF PollStep, JudgeGone, WriteGone
<1>4. ASSUME NEW w \in Workers, OperatorStep(w)
      PROVE  FALSE
  <2>1. job[w].at \notin {"killing", "killed", "keys"}
    BY ChainIsAlone DEF Free, HandsOff, LaunchOf, LaunchEnds, ActionOf
  <2> QED
    BY <1>4, <2>1 DEF OperatorStep, Unattended, Calls, Stop, Kill, Archive, Restore, Resume,
       KillAgent, AfterKill, Pause, Interrupt, AfterInterrupt, Complete, AdvanceStart,
       Reject, Delete, Undelete
<1>5. ASSUME NEW w \in Workers, Step(w)
      PROVE  Turn \/ LaunchKillsOld(w) \/ CreatePane(w) \/ Finalize(w) \/ AdvanceStage(w)
  <2>1. ~Watchdog(w)
    BY DEF Watchdog, Unattended
  <2> QED
    BY <1>1, <1>2, <1>3, <1>4, <1>5, <2>1, FramesAreTurns DEF Step
<1>6. ~PaneLost /\ ~Restart
  BY DEF PaneLost, Restart, Unattended
<1>7. PollExitCode \/ PollUnreachable => PollFails
  BY DEF PollExitCode, PollUnreachable
<1> QED
  BY <1>5, <1>6, <1>7, PollFailsIsTurn DEF Next

LEMMA CalmIsKept ==
    ASSUME Unattended, Calm, [Next]_vars
    PROVE  CalmInv'
<1>1. CASE FrameLost
  <2>1. UNCHANGED <<row, sentinel, poller, job, agent, spawned, pane>>
    BY <1>1 DEF FrameLost
  <2>2. PICK n \in DOMAIN mail : mail' = RemoveAt(mail, n)
    BY <1>1 DEF FrameLost
  <2>3. LastWords'
    BY <2>1, <2>2, LastWordsStay DEF Calm, CalmInv
  <2>4. mail # <<>>
    BY <2>2
  <2>5. Quiet'
    BY <2>1, <2>4 DEF Calm, CalmInv, Quiet
  <2>6. OneChain'
    BY <2>1 DEF Calm, CalmInv, OneChain, HandsOff, LaunchOf, LaunchEnds, ActionOf,
                EndedAtStage, Latest, Free
  <2>7. RowInv' /\ Crew'
    BY <2>1 DEF Calm, CalmInv, RowInv, Crew, Latest, Alive
  <2> QED
    BY <2>3, <2>5, <2>6, <2>7 DEF CalmInv
<1>2. CASE UNCHANGED vars
  BY <1>2 DEF vars, Calm, CalmInv, OneChain, HandsOff, LaunchOf, LaunchEnds, ActionOf,
     EndedAtStage, Latest, Free, Quiet, LaunchReturns, Silent, Alive, RowInv, LastWords, Crew
<1> QED
  BY <1>1, <1>2, CalmSteps, TurnIsCalm, LaunchStepIsCalm, FinalizeIsCalm, AdvanceIsCalm,
     AgentStepIsCalm, PollingLess

LEMMA BeginsCalm == Init => CalmInv
<1> SUFFICES ASSUME Init PROVE CalmInv
  OBVIOUS
<1>0. LastStage \in Nat \ {0} /\ MaxSpawns \in Nat
  BY ConstantsAssumption
<1>1. PICK v \in Workers :
         job = [w \in Workers |-> IF w = v THEN Dispatch(row, "kick") ELSE Idle]
  BY DEF Init
<1>2. /\ row.status = "ready" /\ row.stage = 1 /\ row.error = FALSE /\ spawned = 0
      /\ pane = 0 /\ mail = <<>> /\ poller = FALSE /\ sentinel = FALSE
      /\ \A i \in Launched : agent[i].state = "none"
  BY DEF Init
<1>3. /\ \A w \in Workers : w # v => Free(w)
      /\ job[v] = Dispatch(row, "kick")
  BY <1>1 DEF Free, Idle
<1>4. LaunchOf(job[v]) \/ ActionOf(job[v])
  <2>1. 1..spawned = {}
    BY <1>2
  <2> QED
    BY <1>2, <1>3, <2>1 DEF LaunchOf, ActionOf, Dispatch, Parked, Idle
<1>5. ~Free(v)
  BY <1>4 DEF LaunchOf, ActionOf, Free
<1>6. OneChain
  BY <1>2, <1>3, <1>4, <1>5 DEF OneChain
<1>7. RowInv /\ Quiet /\ LastWords
  BY <1>2 DEF RowInv, Quiet, Silent, Alive, LastWords
<1>8. Crew
  BY <1>2 DEF Crew, Alive
<1> QED
  BY <1>6, <1>7, <1>8 DEF CalmInv

LEMMA CalmAlways ==
    ASSUME Unattended
    PROVE  Spec => []Calm
<1>1. Init => CalmInv
  BY BeginsCalm
<1>2. TypeOK /\ RunningHasHandle /\ CalmInv /\ [Next]_vars => CalmInv'
  BY CalmIsKept DEF Calm
<1>3. TypeOK /\ RunningHasHandle /\ CalmInv => Calm
  BY DEF Calm
<1> QED
  BY <1>1, <1>2, <1>3, TypeCorrect, HandleOfRunning, PTL DEF Spec

\* A ready session that nobody interferes with is not forgotten: a dispatch or
\* a hand-off of it is in flight, whatever launch fails, agent crashes, frame is
\* lost or probe misses, unless a gate holds the flow for a human (post-launch.ts,
\* mediateStageHandoff, advance.ts).
THEOREM ReadySessionsAreDriven ==
    ASSUME Unattended, \A s \in Stages : GateOf[s] \notin HumanGates
    PROVE  Spec => []ReadyIsDriven
<1>1. Calm => ReadyIsDriven
  <2> SUFFICES ASSUME Calm, row.status = "ready" PROVE ReadyIsDriven
    BY DEF ReadyIsDriven
  <2>1. PICK w \in Workers : ~Free(w)
    BY CalmTypes DEF Calm, CalmInv, OneChain
  <2>2. Driving(w)
    BY <2>1, ChainIsAlone DEF Driving, Free, HandsOff, LaunchOf, LaunchEnds, ActionOf
  <2> QED
    BY <2>2 DEF ReadyIsDriven
<1> QED
  BY <1>1, CalmAlways, PTL

\* the flow's promise, with the session's state for its variables
EndedNow == {agent[i].stage : i \in {j \in Launched : agent[j].state = "ended"}}
OutcomeNow == IF row.status \in {"completed", "failed"} THEN row.status ELSE "open"

LEMMA PipelineActions ==
    /\ Pipeline!AgentEnds <=>
         /\ row.stage \in (Stages \ ActionStages) \ EndedNow
         /\ EndedNow' = EndedNow \cup {row.stage}
         /\ row'.stage = row.stage /\ OutcomeNow' = OutcomeNow
    /\ Pipeline!LeaveStage <=>
         /\ OutcomeNow = "open" /\ row.stage < LastStage
         /\ row.stage \in Stages \ ActionStages => row.stage \in EndedNow
         /\ row'.stage = row.stage + 1
         /\ EndedNow' = EndedNow /\ OutcomeNow' = OutcomeNow
    /\ Pipeline!CompleteLast <=>
         /\ OutcomeNow = "open" /\ row.stage = LastStage
         /\ row.stage \in Stages \ ActionStages => row.stage \in EndedNow
         /\ OutcomeNow' = "completed" /\ row'.stage = row.stage /\ EndedNow' = EndedNow
    /\ Pipeline!Fail <=>
         /\ OutcomeNow = "open" /\ OutcomeNow' = "failed"
         /\ row'.stage = row.stage /\ EndedNow' = EndedNow
BY DEF Pipeline!AgentEnds, Pipeline!LeaveStage, Pipeline!CompleteLast, Pipeline!Fail,
   Pipeline!Done, EndedNow, OutcomeNow

LEMMA EndedIsKept ==
    ASSUME \A i \in Launched : agent'[i].state = "ended" <=> agent[i].state = "ended",
           \A i \in Launched : agent[i].state = "ended" => agent'[i].stage = agent[i].stage
    PROVE  EndedNow' = EndedNow
BY DEF EndedNow

LEMMA StageHasEnded ==
    ASSUME Calm, EndedAtStage
    PROVE  row.stage \in EndedNow
<1>1. spawned \in Launched
  BY CalmTypes DEF Calm, EndedAtStage
<1> QED
  BY <1>1 DEF EndedNow, EndedAtStage, Latest

LEMMA PipelineStep ==
    ASSUME Unattended, Calm, [Next]_vars
    PROVE  Pipeline!PipelineNext \/ UNCHANGED <<row.stage, EndedNow, OutcomeNow>>
<1>1. CASE Turn
  <2>1. EndedNow' = EndedNow /\ row'.stage = row.stage
    BY <1>1 DEF Turn, Steady, EndedNow
  <2>2. CASE row.status \in {"completed", "failed"} \/ row'.status \notin {"completed", "failed"}
    <3>1. OutcomeNow' = OutcomeNow
      BY <1>1, <2>2 DEF Turn, OutcomeNow
    <3> QED
      BY <2>1, <3>1
  <2>3. CASE row.status \notin {"completed", "failed"} /\ row'.status = "failed"
    <3>1. OutcomeNow = "open" /\ OutcomeNow' = "failed"
      BY <2>3 DEF OutcomeNow
    <3> QED
      BY <2>1, <3>1, PipelineActions DEF Pipeline!PipelineNext
  <2>4. CASE row.status \notin {"completed", "failed"} /\ row'.status = "completed"
    <3>1. OutcomeNow = "open" /\ OutcomeNow' = "completed"
      BY <2>4 DEF OutcomeNow
    <3>2. row.stage = LastStage /\ (row.stage \in ActionStages \/ EndedAtStage)
      BY <1>1, <2>4 DEF Turn
    <3>3. row.stage \in Stages \ ActionStages => row.stage \in EndedNow
      BY <3>2, StageHasEnded
    <3> QED
      BY <2>1, <3>1, <3>2, <3>3, PipelineActions DEF Pipeline!PipelineNext
  <2> QED
    BY <2>2, <2>3, <2>4
<1>2. ASSUME NEW w \in Workers, LaunchKillsOld(w) \/ CreatePane(w)
      PROVE  UNCHANGED <<row.stage, EndedNow, OutcomeNow>>
  <2>1. row' = row /\ EndedNow' = EndedNow
    BY <1>2, LaunchStepIsCalm, EndedIsKept
  <2> QED
    BY <2>1 DEF OutcomeNow
<1>3. ASSUME NEW w \in Workers, Finalize(w)
      PROVE  UNCHANGED <<row.stage, EndedNow, OutcomeNow>>
  <2>1. row'.stage = row.stage /\ row.status = "ready" /\ row'.status = "running" /\ agent' = agent
    BY <1>3, FinalizeIsCalm
  <2> QED
    BY <2>1 DEF OutcomeNow, EndedNow
<1>4. ASSUME NEW w \in Workers, AdvanceStage(w)
      PROVE  Pipeline!LeaveStage
  <2>1. /\ row'.stage = row.stage + 1 /\ row.stage < LastStage
        /\ row.status = "ready" /\ row'.status = "ready" /\ agent' = agent
        /\ row.stage \in ActionStages \/ EndedAtStage
    BY <1>4, AdvanceIsCalm
  <2>2. OutcomeNow = "open" /\ OutcomeNow' = OutcomeNow /\ EndedNow' = EndedNow
    BY <2>1 DEF OutcomeNow, EndedNow
  <2>3. row.stage \in Stages \ ActionStages => row.stage \in EndedNow
    BY <2>1, StageHasEnded
  <2> QED
    BY <2>1, <2>2, <2>3, PipelineActions
<1>5. ASSUME NEW i \in Launched, AgentSends(i) \/ AgentExits(i) \/ AgentCrashes(i)
      PROVE  Pipeline!AgentEnds \/ UNCHANGED <<row.stage, EndedNow, OutcomeNow>>
  <2>1. /\ row' = row
        /\ \A k \in Launched : agent'[k].stage = agent[k].stage
        /\ \A k \in Launched : agent'[k].state = "ended"
              <=> agent[k].state = "ended" \/ (AgentExits(i) /\ k = i)
    BY <1>5, AgentStepIsCalm
  <2>2. OutcomeNow' = OutcomeNow
    BY <2>1 DEF OutcomeNow
  <2>3. CASE ~AgentExits(i)
    BY <2>1, <2>2, <2>3, EndedIsKept
  <2>4. CASE AgentExits(i)
    <3>1. /\ Alive(i) /\ i = spawned /\ agent[i].stage = row.stage
          /\ row.stage \notin ActionStages
      BY <2>4, WorkingAgent DEF AgentExits, Speaks
    <3>2. row.stage \notin EndedNow
      <4> SUFFICES ASSUME NEW k \in Launched, agent[k].state = "ended",
                          agent[k].stage = row.stage
                   PROVE  FALSE
        BY DEF EndedNow
      <4>1. k <= spawned /\ k # spawned
        BY <3>1 DEF Alive, Calm, CalmInv, Crew
      <4>2. k \in 1..spawned /\ spawned \in 1..spawned /\ k < spawned
        BY <4>1, CalmTypes DEF Calm
      <4>3. agent[k].stage < agent[spawned].stage
        BY <4>2 DEF Calm, CalmInv, Crew
      <4>4. row.stage \in Nat
        BY CalmTypes DEF Calm
      <4> QED
        BY <3>1, <4>3, <4>4
    <3>3. EndedNow' = EndedNow \cup {row.stage}
      BY <2>1, <2>4, <3>1 DEF EndedNow
    <3>4. row.stage \in Stages
      BY CalmTypes DEF Calm
    <3> QED
      BY <2>1, <2>2, <3>1, <3>2, <3>3, <3>4, PipelineActions
  <2> QED
    BY <2>3, <2>4
<1>6. CASE FrameLost \/ UNCHANGED vars
           \/ (poller' = FALSE /\ UNCHANGED <<row, job, agent, spawned, pane, mail, sentinel>>)
  BY <1>6 DEF FrameLost, vars, EndedNow, OutcomeNow
<1> QED
  BY <1>1, <1>2, <1>3, <1>4, <1>5, <1>6, CalmSteps DEF Pipeline!PipelineNext

LEMMA PipelineBegins == Init => Pipeline!PipelineInit
<1> SUFFICES ASSUME Init PROVE row.stage = 1 /\ EndedNow = {} /\ OutcomeNow = "open"
  BY DEF Pipeline!PipelineInit, EndedNow, OutcomeNow
<1>1. row.stage = 1 /\ row.status = "ready" /\ \A i \in Launched : agent[i].state = "none"
  BY DEF Init
<1> QED
  BY <1>1 DEF EndedNow, OutcomeNow

\* A session that nobody interferes with keeps the flow's promise, whatever
\* launch fails, agent crashes, frame is lost or probe misses: its stages are
\* left one by one and in order, an agent's stage only after that stage's agent
\* came to its own end, and an outcome is final (hook-status.ts, advance.ts,
\* post-launch.ts, status-poller.ts together).
THEOREM SessionIsThePipeline ==
    ASSUME Unattended
    PROVE  Spec => ImplementsPipeline
<1>1. Init => Pipeline!PipelineInit
  BY PipelineBegins
<1>2. Calm /\ [Next]_vars => [Pipeline!PipelineNext]_<<row.stage, EndedNow, OutcomeNow>>
  BY PipelineStep
<1> QED
  BY <1>1, <1>2, CalmAlways, PTL
     DEF Spec, ImplementsPipeline, Pipeline!PipelineSpec, EndedNow, OutcomeNow
---------------------------------------------------------------------------
(* A session that is over *)

\* what a hook may make of a row that is over
LEMMA HooksOfTheOver ==
    ASSUME TypeOK, NEW w \in Workers, HookFrame(w), row.status \in Terminal
    PROVE  \/ HookNotification(w)
           \/ retries' # retries
           \/ /\ row'.status = row.status /\ row'.stage = row.stage
              /\ UNCHANGED job \/ Continue(w, Idle)
<1>0. row \in Row /\ retries \in Nat /\ MaxRetries \in Nat
  BY ConstantsAssumption DEF TypeOK
<1>1. /\ UnlessTerminal(row, "running") = row
      /\ UnlessTerminal(row, "ready") = row
  BY DEF UnlessTerminal, Terminal
<1>2. row.status # "running"
  BY DEF Terminal
<1>3. CASE Write(w, row, Idle)
  BY <1>2, <1>3 DEF Write, Update
<1>4. CASE row.status = "failed" /\ FailOrRetry(w, Failed(row), "hookRetry")
  <2>1. CASE retries' = retries + 1
    BY <1>0, <2>1
  <2>2. CASE Write(w, Failed(row), Idle)
    BY <1>0, <1>4, <2>2 DEF Write, Update, Failed, Row
  <2> QED
    BY <1>4, <2>1, <2>2 DEF FailOrRetry
<1>5. CASE HookStale(w)
  BY <1>5 DEF HookStale
<1>6. CASE HookWorking(w)
  BY <1>1, <1>3, <1>6 DEF HookWorking
<1>7. CASE HookStopFailure(w)
  <2>1. \/ Write(w, row, Idle)
        \/ UNCHANGED <<row, job>>
        \/ row.status = "failed" /\ FailOrRetry(w, Failed(row), "hookRetry")
    BY <1>1, <1>7 DEF HookStopFailure
  <2> QED
    BY <1>3, <1>4, <2>1
<1>8. CASE HookSessionEnd(w)
  BY <1>1, <1>2, <1>3, <1>8 DEF HookSessionEnd
<1> QED
  BY <1>5, <1>6, <1>7, <1>8 DEF HookFrame

\* Of all hooks, late, repeated or overtaking ones included, only a notification
\* moves a session out of the terminal statuses, unless it is a retry
\* (hook-status.ts: the guard against late hooks, and what escapes it).
THEOREM OnlyANotificationReopens == Spec => OnlyNotificationsReopen
<1>1. TypeOK /\ [Next]_vars =>
        [\A w \in Workers : HookFrame(w) /\ row.status \in Terminal
            => row'.status \in Terminal \/ retries' # retries \/ HookNotification(w)]_vars
  BY HooksOfTheOver
<1> QED
  BY <1>1, TypeCorrect, PTL DEF Spec, OnlyNotificationsReopen

\* the status and the stage of a session that is over, and who works in it
OverStays == /\ Over' /\ spawned' = spawned
             /\ row'.status = row.status /\ row'.stage = row.stage

LEMMA OverChains ==
    ASSUME TypeOK, Over, NEW w \in Workers, spawned' = spawned,
           row'.status = row.status /\ row'.stage = row.stage,
           UNCHANGED job \/ Continue(w, Idle)
    PROVE  OverStays
<1>1. \A v \in Workers : job'[v].at \in {"idle", job[v].at}
  BY DEF TypeOK, Continue, Idle
<1> QED
  BY <1>1 DEF OverStays, Over

LEMMA OverStepsStay ==
    ASSUME TypeOK, Over, NEW w \in Workers, Step(w)
    PROVE  OverStays \/ retries' # retries \/ OperatorStep(w) \/ HookNotification(w)
<1>1. job[w].at \in {"idle", "gone"} /\ row.status # "running" /\ job \in [Workers -> Job]
  BY DEF Over, Terminal, TypeOK
<1>2. ~DispatchStep(w) /\ ~Watchdog(w) /\ ~HandoffStep(w)
  BY <1>1 DEF DispatchStep, LaunchFails, LaunchKillsOld, CreatePane, CreateDuplicate, Finalize,
     FinalizeTooLate, AbortLaunch, Watchdog, HandoffStep, VerifyPasses, VerifyFails,
     AdvanceStage, CompleteFlow, ActionSucceeds, ActionFails, DispatchedActionSucceeds,
     DispatchedActionFails
<1>3. CASE HookFrame(w)
  <2>1. spawned' = spawned
    BY <1>3 DEF HookFrame, HookStale, HookWorking, HookNotification, HookStopFailure,
       HookSessionEnd
  <2> QED
    BY <1>3, <2>1, HooksOfTheOver, OverChains DEF Over
<1>4. CASE ReportFrame(w)
  <2>1. UNCHANGED <<row, job, spawned>>
    BY <1>4 DEF ReportFrame, ReportStale, ReportCompleted, ReportRejected, ReportQuestion,
       ReportError, ReportProgress, Over
  <2> QED
    BY <2>1 DEF OverStays, Over
<1>5. CASE PollStep(w)
  <2>1. /\ UNCHANGED <<row, spawned>>
        /\ Continue(w, Idle) \/ Continue(w, Parked("gone", "none", 1))
    BY <1>1, <1>5 DEF PollStep, PollPaneGone, JudgeGone, WriteGone
  <2>2. PICK j : Continue(w, j) /\ j.at \in {"idle", "gone"}
    <3>1. Idle.at = "idle" /\ Parked("gone", "none", 1).at = "gone"
      BY DEF Parked, Idle
    <3> QED
      BY <2>1, <3>1
  <2>3. \A v \in Workers : job'[v] \in {j, job[v]}
    BY <1>1, <2>2 DEF Continue
  <2> QED
    BY <2>1, <2>2, <2>3 DEF OverStays, Over
<1> QED
  BY <1>2, <1>3, <1>4, <1>5 DEF Step

\* A session that is over stays over, in its status and at its stage and with no
\* new agent, once its chains have ended: no late frame, no vanished pane, no
\* tick of the poller and no restart of the conductor stirs it. Its operator
\* does, and so do a retry and a notification.
THEOREM SessionsStayOver == Spec => OverIsOver
<1>1. ASSUME TypeOK, Next, Over
      PROVE  OverStays \/ retries' # retries
             \/ \E w \in Workers : OperatorStep(w) \/ HookNotification(w)
  <2>1. CASE \E w \in Workers : Step(w)
    BY <1>1, <2>1, OverStepsStay
  <2>2. CASE UNCHANGED <<row, job, spawned>>
    BY <1>1, <2>2 DEF OverStays, Over
  <2>3. CASE PollFails
    <3>1. UNCHANGED <<row, job, spawned>>
      BY <1>1, <2>3 DEF PollFails, Update, Over, Terminal
    <3> QED
      BY <2>2, <3>1
  <2>4. CASE Restart
    BY <1>1, <2>4 DEF Restart, OverStays, Over, Idle
  <2>5. (\E i \in Launched : AgentSends(i) \/ AgentExits(i) \/ AgentCrashes(i)) \/ PaneLost
           \/ FrameLost => UNCHANGED <<row, job, spawned>>
    BY DEF AgentSends, AgentExits, AgentCrashes, PaneLost, FrameLost
  <2> QED
    BY <1>1, <2>1, <2>2, <2>3, <2>4, <2>5 DEF Next, PollExitCode, PollUnreachable
<1>2. TypeOK /\ [Next]_vars =>
        [Over => \/ /\ Over' /\ spawned' = spawned
                    /\ row'.status = row.status /\ row'.stage = row.stage
                 \/ retries' # retries
                 \/ \E w \in Workers : OperatorStep(w) \/ HookNotification(w)]_vars
  BY <1>1 DEF OverStays
<1> QED
  BY <1>2, TypeCorrect, PTL DEF Spec, OverIsOver

---------------------------------------------------------------------------
(* Ends are those of agents *)

\* the agents that may still be launched, and the ends that were heard of
Unlaunched == \A i \in Launched : agent[i].state # "none" => i <= spawned
EndsInv == TypeOK /\ Unlaunched /\ EndsAreReal

\* an agent that ended has, and nobody ends but by a SessionEnd
LEMMA EndsStay ==
    ASSUME EndsInv, [Next]_vars
    PROVE  /\ Unlaunched'
           /\ \A i \in Launched : agent[i].state = "ended" => agent'[i].state = "ended"
           /\ SomeEnded => SomeEnded'
<1>0. /\ agent \in [Launched -> Agent] /\ spawned \in Nat /\ MaxSpawns \in Nat
      /\ Launched = 1..MaxSpawns /\ pane \in 0..spawned /\ spawned <= MaxSpawns
  BY ConstantsAssumption DEF EndsInv, TypeOK, Launched
<1> SUFFICES Unlaunched'
             /\ \A i \in Launched : agent[i].state = "ended" => agent'[i].state = "ended"
  BY DEF SomeEnded
<1>1. CASE UNCHANGED agent /\ spawned' = spawned
  BY <1>1 DEF EndsInv, Unlaunched
<1>2. CASE KillPane /\ spawned' = spawned
  <2>1. CASE pane # 0 /\ agent[pane].state = "alive"
    <3>1. pane \in Launched /\ agent' = [agent EXCEPT ![pane].state = "killed"]
      BY <1>0, <1>2, <2>1 DEF KillPane
    <3> QED
      BY <1>0, <1>2, <2>1, <3>1 DEF EndsInv, Unlaunched, Agent
  <2> QED
    BY <1>1, <1>2, <2>1 DEF KillPane
<1>3. ASSUME NEW w \in Workers, CreatePane(w)
      PROVE  Unlaunched'
             /\ \A i \in Launched : agent[i].state = "ended" => agent'[i].state = "ended"
  <2>1. spawned' = spawned + 1 /\ \A i \in Launched : i # spawned + 1 => agent'[i] = agent[i]
    BY <1>0, <1>3 DEF CreatePane
  <2>2. \A i \in Launched : agent[i].state = "ended" => i # spawned + 1
    BY <1>0 DEF EndsInv, Unlaunched
  <2> QED
    BY <1>0, <2>1, <2>2 DEF EndsInv, Unlaunched
<1>4. ASSUME NEW i \in Launched, AgentExits(i) \/ AgentCrashes(i)
      PROVE  Unlaunched'
             /\ \A k \in Launched : agent[k].state = "ended" => agent'[k].state = "ended"
  <2>1. agent[i].state = "alive" /\ spawned' = spawned
    BY <1>4 DEF AgentExits, AgentCrashes, Speaks, Alive
  <2>2. \A k \in Launched : k # i => agent'[k] = agent[k]
    BY <1>0, <1>4 DEF AgentExits, AgentCrashes
  <2> QED
    BY <1>0, <2>1, <2>2 DEF EndsInv, Unlaunched
<1>5. spawned' = spawned \/ \E w \in Workers : CreatePane(w)
  <2>1. ASSUME NEW w \in Workers, Step(w), ~CreatePane(w)
        PROVE  spawned' = spawned
    <3>1. CASE DispatchStep(w) \/ Watchdog(w) \/ HandoffStep(w)
      BY <2>1, <3>1 DEF DispatchStep, Watchdog, LaunchFails, LaunchKillsOld,
         CreateDuplicate, Finalize, FinalizeTooLate, AbortLaunch, HandoffStep, VerifyPasses,
         VerifyFails, AdvanceStage, CompleteFlow, ActionSucceeds, ActionFails,
         DispatchedActionSucceeds, DispatchedActionFails
    <3>2. CASE HookFrame(w) \/ ReportFrame(w) \/ PollStep(w)
      BY <3>2 DEF HookFrame, HookStale, HookWorking, HookNotification, HookStopFailure,
         HookSessionEnd, ReportFrame, ReportStale, ReportCompleted, ReportRejected,
         ReportQuestion, ReportError, ReportProgress, PollStep, PollPaneGone, JudgeGone,
         WriteGone
    <3>3. CASE OperatorStep(w)
      BY <3>3 DEF OperatorStep, Stop, Kill, Archive, Restore, Resume, KillAgent, AfterKill,
         Pause, Interrupt, AfterInterrupt, Complete, AdvanceStart, Reject, Delete, Undelete,
         Untouched
    <3> QED
      BY <2>1, <3>1, <3>2, <3>3 DEF Step
  <2>2. ASSUME Next, ~\E w \in Workers : Step(w)
        PROVE  spawned' = spawned
    BY <2>2 DEF Next, AgentSends, AgentExits, AgentCrashes, PaneLost, FrameLost, PollFails,
       PollExitCode, PollUnreachable, Restart
  <2> QED
    BY <2>1, <2>2 DEF vars
<1>6. CASE UNCHANGED vars
  BY <1>1, <1>6 DEF vars
<1> QED
  BY <1>1, <1>2, <1>3, <1>4, <1>5, <1>6, WhoTouchesAgents

\* a SessionEnd comes onto the channel with the end of its agent
LEMMA EndsArrive ==
    ASSUME EndsInv, [Next]_vars
    PROVE  \A n \in DOMAIN mail' :
              mail'[n].kind = "SessionEnd" => agent'[mail'[n].from].state = "ended"
<1>0. mail \in Seq(Frame) /\ agent \in [Launched -> Agent]
  BY DEF EndsInv, TypeOK
<1>1. ASSUME NEW n \in DOMAIN mail, mail[n].kind = "SessionEnd"
      PROVE  agent'[mail[n].from].state = "ended"
  <2>1. mail[n] \in Frame
    BY <1>0
  <2>2. mail[n].from \in Launched /\ agent[mail[n].from].state = "ended"
    BY <1>1, <2>1 DEF EndsInv, EndsAreReal, Frame
  <2> QED
    BY <2>2, EndsStay
<1>2. CASE mail' = mail
  BY <1>1, <1>2
<1>3. CASE \E n \in DOMAIN mail : mail' = RemoveAt(mail, n)
  <2>1. \A n \in DOMAIN mail' : \E m \in DOMAIN mail : mail'[n] = mail[m]
    BY <1>3, ShorterMail DEF EndsInv
  <2> QED
    BY <1>1, <2>1
<1>4. ASSUME NEW i \in Launched, AgentSends(i) \/ AgentExits(i) \/ AgentCrashes(i)
      PROVE  mail' = mail \/ \E k : /\ mail' = Append(mail, [from |-> i, kind |-> k])
                                    /\ k = "SessionEnd" => agent'[i].state = "ended"
  <2>1. CASE AgentSends(i)
    <3>1. "SessionEnd" \notin MayPrompt
      BY ConstantsAssumption DEF Prompts, Reports
    <3>2. PICK kind \in MayPrompt : mail' = Append(mail, [from |-> i, kind |-> kind])
      BY <2>1 DEF AgentSends, Speaks
    <3>3. kind = "SessionEnd" => agent'[i].state = "ended"
      BY <3>1
    <3> QED
      BY <3>2, <3>3
  <2>2. CASE AgentExits(i)
    BY <1>0, <2>2 DEF AgentExits, Speaks, Agent
  <2> QED
    BY <1>4, <2>1, <2>2 DEF AgentCrashes
<1>5. ASSUME NEW i \in Launched, NEW k, mail' = Append(mail, [from |-> i, kind |-> k]),
             k = "SessionEnd" => agent'[i].state = "ended"
      PROVE  \A n \in DOMAIN mail' :
                mail'[n].kind = "SessionEnd" => agent'[mail'[n].from].state = "ended"
  <2> DEFINE f == [from |-> i, kind |-> k]
  <2>1. f.kind = "SessionEnd" => agent'[f.from].state = "ended"
    BY <1>5
  <2> HIDE DEF f
  <2>2. \A n \in DOMAIN Append(mail, f) :
           Append(mail, f)[n] = f \/ (n \in DOMAIN mail /\ Append(mail, f)[n] = mail[n])
    BY <1>0
  <2>3. mail' = Append(mail, f)
    BY <1>5 DEF f
  <2> QED
    BY <1>1, <2>1, <2>2, <2>3
<1>6. ASSUME NEW w \in Workers, Step(w)
      PROVE  mail' = mail \/ \E n \in DOMAIN mail : mail' = RemoveAt(mail, n)
  <2>1. CASE DispatchStep(w) \/ Watchdog(w)
    BY <2>1 DEF DispatchStep, Watchdog, LaunchFails, LaunchKillsOld, CreatePane,
       CreateDuplicate, Finalize, FinalizeTooLate, AbortLaunch
  <2>2. CASE HandoffStep(w)
    BY <2>2 DEF HandoffStep, VerifyPasses, VerifyFails, AdvanceStage, CompleteFlow,
       ActionSucceeds, ActionFails, DispatchedActionSucceeds, DispatchedActionFails
  <2>3. CASE HookFrame(w) \/ ReportFrame(w)
    BY <2>3 DEF HookFrame, HookStale, HookWorking, HookNotification, HookStopFailure,
       HookSessionEnd, ReportFrame, ReportStale, ReportCompleted, ReportRejected,
       ReportQuestion, ReportError, ReportProgress, Takes
  <2>4. CASE PollStep(w)
    BY <2>4 DEF PollStep, PollPaneGone, JudgeGone, WriteGone
  <2>5. CASE OperatorStep(w)
    BY <2>5 DEF OperatorStep, Stop, Kill, Archive, Restore, Resume, KillAgent,
       AfterKill, Pause, Interrupt, AfterInterrupt, Complete, AdvanceStart,
       Reject, Delete, Undelete, Untouched
  <2> QED
    BY <1>6, <2>1, <2>2, <2>3, <2>4, <2>5 DEF Step
<1>7. CASE PaneLost \/ Restart \/ PollExitCode \/ PollUnreachable \/ UNCHANGED vars
  BY <1>2, <1>7 DEF PaneLost, PollExitCode, PollUnreachable, PollFails, Restart, vars
<1> QED
  BY <1>2, <1>3, <1>4, <1>5, <1>6, <1>7 DEF Next, FrameLost


\* w waits for something else next than to write a verdict
NoVerdict(w) == job' = job \/ \E j : j.at # "forensics" /\ job' = [job EXCEPT ![w] = j]

LEMMA WritesNoVerdict ==
    ASSUME NEW w, NEW r, NEW j, j.at # "forensics", Write(w, r, j)
    PROVE  NoVerdict(w)
BY DEF Write, Continue, NoVerdict

LEMMA RoutesAreNoVerdicts ==
    /\ Idle.at = "idle"
    /\ \A at, who, stage : Parked(at, who, stage).at = at
    /\ \A r, who : Dispatch(r, who).at \in {"dispatchAction", "prepare"}
    /\ \A r, who : Advance(r, who).at \in {"advance", "idle"}
    /\ \A r : Mediate(r).at \in {"verify", "advance", "idle"}
    /\ \A r, stage : ResumeRoute(r, stage).at \in {"dispatchAction", "prepare", "action", "idle"}
<1>1. Idle.at = "idle" /\ \A at, who, stage : Parked(at, who, stage).at = at
  BY DEF Idle, Parked
<1>2. \A r, who : Dispatch(r, who).at \in {"dispatchAction", "prepare"}
  BY DEF Dispatch, Parked, Idle
<1>3. \A r, who : Advance(r, who).at \in {"advance", "idle"}
  BY <1>1 DEF Advance
<1>4. \A r : Mediate(r).at \in {"verify", "advance", "idle"}
  BY <1>1, <1>3 DEF Mediate
<1>5. \A r, stage : ResumeRoute(r, stage).at \in {"dispatchAction", "prepare", "action", "idle"}
  BY <1>1, <1>2 DEF ResumeRoute
<1> QED
  BY <1>1, <1>2, <1>3, <1>4, <1>5

LEMMA OnlyJudgesJudge ==
    ASSUME EndsInv, NEW w \in Workers, Step(w)
    PROVE  NoVerdict(w) \/ JudgeGone(w)
<1>0. job[w] \in Job
  BY DEF EndsInv, TypeOK
<1>1. ASSUME NEW r, Write(w, r, Idle)
      PROVE  NoVerdict(w)
  BY <1>1, WritesNoVerdict, RoutesAreNoVerdicts
<1>2. ASSUME NEW r, NEW s, Write(w, r, Mediate(s))
      PROVE  NoVerdict(w)
  <2>1. Mediate(s).at # "forensics"
    BY RoutesAreNoVerdicts
  <2> QED
    BY <1>2, <2>1, WritesNoVerdict
<1>3. ASSUME NEW r, NEW s, NEW who, Write(w, r, Dispatch(s, who))
      PROVE  NoVerdict(w)
  <2>1. Dispatch(s, who).at # "forensics"
    BY RoutesAreNoVerdicts
  <2> QED
    BY <1>3, <2>1, WritesNoVerdict
<1>4. ASSUME NEW r, NEW who, FailOrRetry(w, r, who)
      PROVE  NoVerdict(w)
  BY <1>1, <1>3, <1>4 DEF FailOrRetry
<1>5. CASE DispatchStep(w) \/ Watchdog(w)
  <2>1. CASE LaunchFails(w) \/ CreateDuplicate(w) \/ Finalize(w) \/ AbortLaunch(w)
    BY <1>1, <2>1 DEF LaunchFails, CreateDuplicate, Finalize, AbortLaunch, DispatchFails
  <2>2. CASE LaunchKillsOld(w) \/ CreatePane(w) \/ FinalizeTooLate(w)
    <3>1. PICK j : j.at # "forensics" /\ job' = [job EXCEPT ![w] = j]
      BY <1>0, <2>2 DEF LaunchKillsOld, CreatePane, FinalizeTooLate, Write, Continue, Job
    <3> QED
      BY <3>1 DEF NoVerdict
  <2>3. CASE Watchdog(w)
    <3>1. [job[w] EXCEPT !.who = "orphan"].at # "forensics"
      BY <1>0, <2>3 DEF Watchdog, Job
    <3> QED
      BY <2>3, <3>1, WritesNoVerdict DEF Watchdog
  <2> QED
    BY <1>5, <2>1, <2>2, <2>3 DEF DispatchStep
<1>6. CASE HandoffStep(w)
  <2>1. CASE VerifyPasses(w)
    <3>1. Advance(row, "mediate").at # "forensics"
      BY RoutesAreNoVerdicts
    <3> QED
      BY <2>1, <3>1 DEF VerifyPasses, Continue, NoVerdict
  <2>2. CASE AdvanceStage(w)
    <3> DEFINE r == NextStage(w)
               j == IF job[w].who # "mediate" THEN Idle
                    ELSE IF r.stage \in ActionStages THEN Parked("action", "mediate", r.stage)
                         ELSE Dispatch(r, "mediate")
    <3>1. j.at # "forensics"
      BY RoutesAreNoVerdicts
    <3>2. Write(w, r, j)
      BY <2>2 DEF AdvanceStage
    <3> HIDE DEF r, j
    <3> QED
      BY <3>1, <3>2, WritesNoVerdict
  <2>3. CASE ActionSucceeds(w) \/ DispatchedActionSucceeds(w)
    <3>1. \E r, s : Write(w, r, Idle) \/ Write(w, r, Mediate(s))
      BY <2>3 DEF ActionSucceeds, DispatchedActionSucceeds
    <3> QED
      BY <1>1, <1>2, <3>1
  <2>4. CASE VerifyFails(w) \/ CompleteFlow(w) \/ ActionFails(w) \/ DispatchedActionFails(w)
    BY <1>1, <2>4 DEF VerifyFails, CompleteFlow, ActionFails, DispatchedActionFails
  <2> QED
    BY <1>6, <2>1, <2>2, <2>3, <2>4 DEF HandoffStep
<1>7. CASE HookFrame(w)
  <2>1. UNCHANGED job \/ (\E r, s, who : \/ Write(w, r, Idle) \/ Write(w, r, Mediate(s))
                                         \/ FailOrRetry(w, r, who))
    BY <1>7 DEF HookFrame, HookStale, HookWorking, HookNotification, HookStopFailure,
       HookSessionEnd
  <2> QED
    BY <1>1, <1>2, <1>4, <2>1 DEF NoVerdict
<1>8. CASE ReportFrame(w)
  <2>1. UNCHANGED job \/ (\E r, s, who : \/ Write(w, r, Idle) \/ Write(w, r, Mediate(s))
                                         \/ FailOrRetry(w, r, who))
    BY <1>8 DEF ReportFrame, ReportStale, ReportCompleted, ReportRejected, ReportQuestion,
       ReportError, ReportProgress
  <2> QED
    BY <1>1, <1>2, <1>4, <2>1 DEF NoVerdict
<1>9. CASE PollPaneGone(w) \/ WriteGone(w)
  <2>1. CASE PollPaneGone(w)
    <3>1. Parked("gone", "none", 1).at # "forensics"
      BY RoutesAreNoVerdicts
    <3> QED
      BY <2>1, <3>1 DEF PollPaneGone, Continue, NoVerdict
  <2>2. CASE WriteGone(w)
    <3>1. \E r, s : Write(w, r, Idle) \/ Write(w, r, Mediate(s))
      BY <2>2 DEF WriteGone
    <3> QED
      BY <1>1, <1>2, <3>1
  <2> QED
    BY <1>9, <2>1, <2>2
<1>10. CASE OperatorStep(w)
  <2>1. ASSUME NEW who, NEW stage, ResumeNow(w, who, stage)
        PROVE  NoVerdict(w)
    <3>1. ResumeRoute(Resumed(who, stage), stage).at # "forensics"
      BY RoutesAreNoVerdicts
    <3> QED
      BY <2>1, <3>1, WritesNoVerdict DEF ResumeNow
  <2>2. ASSUME NEW who, NEW stage, KillFirst(w, who, stage)
        PROVE  NoVerdict(w)
    <3>1. Parked("killing", who, stage).at # "forensics"
      BY RoutesAreNoVerdicts
    <3> QED
      BY <2>2, <3>1, WritesNoVerdict DEF KillFirst
  <2>3. CASE Stop(w) \/ Kill(w) \/ Archive(w) \/ Resume(w)
    BY <1>1, <2>1, <2>2, <2>3 DEF Stop, Kill, Archive, Resume
  <2>4. CASE KillAgent(w)
    <3>1. [job[w] EXCEPT !.at = "killed"].at # "forensics"
      BY <1>0 DEF Job
    <3> QED
      BY <2>4, <3>1 DEF KillAgent, Continue, NoVerdict
  <2>5. CASE AfterKill(w)
    BY <1>1, <2>1, <2>5 DEF AfterKill
  <2>6. CASE Restore(w) \/ Pause(w) \/ AfterInterrupt(w) \/ Delete(w) \/ Undelete(w)
    BY <1>1, <2>6 DEF Restore, Pause, AfterInterrupt, Delete, Undelete
  <2>7. CASE Interrupt(w) \/ AdvanceStart(w) \/ Complete(w)
    <3>1. \E j : j.at # "forensics" /\ Continue(w, j)
      <4>1. Parked("keys", "interrupt", 1).at # "forensics"
        BY RoutesAreNoVerdicts
      <4>2. \A r, who : Advance(r, who).at # "forensics"
        BY RoutesAreNoVerdicts
      <4> QED
        BY <2>7, <4>1, <4>2 DEF Interrupt, AdvanceStart, Complete, Write
    <3> QED
      BY <3>1 DEF Continue, NoVerdict
  <2>8. CASE Reject(w)
    <3>1. \E r, s, who : Write(w, r, Idle) \/ Write(w, r, Dispatch(s, who))
      BY <2>8 DEF Reject
    <3> QED
      BY <1>1, <1>3, <3>1
  <2> QED
    BY <1>10, <2>3, <2>4, <2>5, <2>6, <2>7, <2>8 DEF OperatorStep
<1> QED
  BY <1>5, <1>6, <1>7, <1>8, <1>9, <1>10 DEF Step, PollStep

\* a verdict is read off the log, and the log tells of frames that came
LEMMA Verdicts ==
    ASSUME EndsInv, [Next]_vars
    PROVE  /\ endSeen' => endSeen \/ SomeEnded
           /\ \A w \in Workers :
                 job'[w].at = "forensics" /\ job'[w].who = "completed" =>
                    \/ job[w].at = "forensics" /\ job[w].who = "completed"
                    \/ endSeen
<1>0. job \in [Workers -> Job] /\ mail \in Seq(Frame)
  BY DEF EndsInv, TypeOK
<1>1. ASSUME NEW w \in Workers, HookSessionEnd(w)
      PROVE  SomeEnded
  <2>1. PICK n \in DOMAIN mail : mail[n].kind = "SessionEnd"
    BY <1>1 DEF HookSessionEnd, Takes
  <2>2. mail[n].from \in Launched
    <3>1. mail[n] \in Frame
      BY <1>0
    <3> QED
      BY <3>1 DEF Frame
  <2> QED
    BY <2>1, <2>2 DEF EndsInv, EndsAreReal, SomeEnded
<1>2. ASSUME NEW w \in Workers, Step(w)
      PROVE  endSeen' = endSeen \/ HookSessionEnd(w)
  <2>1. CASE DispatchStep(w) \/ Watchdog(w) \/ HandoffStep(w)
    BY <2>1 DEF DispatchStep, Watchdog, LaunchFails, LaunchKillsOld, CreatePane,
       CreateDuplicate, Finalize, FinalizeTooLate, AbortLaunch, HandoffStep, VerifyPasses,
       VerifyFails, AdvanceStage, CompleteFlow, ActionSucceeds, ActionFails,
       DispatchedActionSucceeds, DispatchedActionFails
  <2>2. CASE HookFrame(w) \/ ReportFrame(w) \/ PollStep(w)
    BY <2>2 DEF HookFrame, HookStale, HookWorking, HookNotification, HookStopFailure,
       ReportFrame, ReportStale, ReportCompleted, ReportRejected, ReportQuestion,
       ReportError, ReportProgress, PollStep, PollPaneGone, JudgeGone, WriteGone
  <2>3. CASE OperatorStep(w)
    BY <2>3 DEF OperatorStep, Stop, Kill, Archive, Restore, Resume, KillAgent, AfterKill,
       Pause, Interrupt, AfterInterrupt, Complete, AdvanceStart, Reject, Delete, Undelete,
       Untouched
  <2> QED
    BY <1>2, <2>1, <2>2, <2>3 DEF Step
<1>3. ASSUME NEW w \in Workers, Step(w), NEW v \in Workers,
             job'[v].at = "forensics", job'[v].who = "completed"
      PROVE  (job[v].at = "forensics" /\ job[v].who = "completed") \/ endSeen
  <2>1. CASE NoVerdict(w)
    BY <1>0, <1>3, <2>1 DEF NoVerdict
  <2>2. CASE JudgeGone(w)
    <3>1. v # w => job'[v] = job[v]
      BY <1>0, <2>2 DEF JudgeGone, Continue
    <3>2. ~endSeen => job'[w] = Idle \/ job'[w] = Parked("forensics", "failed", 1)
      BY <1>0, <2>2 DEF JudgeGone, Continue
    <3>3. Idle.at = "idle" /\ Parked("forensics", "failed", 1).who = "failed"
      BY DEF Idle, Parked
    <3> QED
      BY <1>3, <3>1, <3>2, <3>3
  <2> QED
    BY <1>3, <2>1, <2>2, OnlyJudgesJudge
<1>4. ASSUME Next, ~\E w \in Workers : Step(w)
      PROVE  endSeen' = endSeen /\ (job' = job \/ job' = [w \in Workers |-> Idle])
  BY <1>4 DEF Next, AgentSends, AgentExits, AgentCrashes, PaneLost, FrameLost, PollFails,
     PollExitCode, PollUnreachable, Restart
<1>5. Idle.at = "idle"
  BY DEF Idle
<1> QED
  BY <1>1, <1>2, <1>3, <1>4, <1>5 DEF vars

\* No end is made up: a SessionEnd on the channel, one in the log and a verdict
\* "completed" of the poller all go back to an agent that came to its own end.
THEOREM EndsAreThoseOfAgents == Spec => []EndsAreReal
<1>1. Init => Unlaunched /\ EndsAreReal
  <2> SUFFICES ASSUME Init PROVE Unlaunched /\ EndsAreReal
    OBVIOUS
  <2>1. /\ mail = <<>> /\ endSeen = FALSE /\ \A i \in Launched : agent[i].state = "none"
        /\ \E w \in Workers :
              job = [v \in Workers |-> IF v = w THEN Dispatch(row, "kick") ELSE Idle]
    BY DEF Init
  <2>2. \A v \in Workers : job[v].at # "forensics"
    BY <2>1, RoutesAreNoVerdicts
  <2> QED
    BY <2>1, <2>2 DEF Unlaunched, EndsAreReal
<1>2. EndsInv /\ [Next]_vars => Unlaunched' /\ EndsAreReal'
  <2> SUFFICES ASSUME EndsInv, [Next]_vars PROVE Unlaunched' /\ EndsAreReal'
    OBVIOUS
  <2>1. Unlaunched' /\ (SomeEnded => SomeEnded')
    BY EndsStay
  <2>2. endSeen' => SomeEnded'
    BY <2>1, Verdicts DEF EndsInv, EndsAreReal
  <2>3. \A w \in Workers :
           job'[w].at = "forensics" /\ job'[w].who = "completed" => SomeEnded'
    BY <2>1, Verdicts DEF EndsInv, EndsAreReal
  <2> QED
    BY <2>1, <2>2, <2>3, EndsArrive DEF EndsAreReal
<1> QED
  BY <1>1, <1>2, TypeCorrect, PTL DEF Spec, EndsInv

\* In a flow of one stage the poller judges rightly: only the ends of earlier
\* stages' agents can mislead it (status-poller.ts).
THEOREM OneStageIsJudgedRightly ==
    ASSUME LastStage = 1
    PROVE  Spec => GoneIsJudgedRightly
<1>1. TypeOK /\ EndsAreReal /\ [Next]_vars =>
        [\A w \in Workers : JudgeGone(w) /\ job'[w].who = "completed"
            => \E i \in Launched : agent[i].state = "ended"
                                  /\ agent[i].stage = row.stage]_vars
  <2> SUFFICES ASSUME TypeOK, EndsAreReal, NEW w \in Workers, JudgeGone(w),
                      job'[w].who = "completed"
               PROVE  \E i \in Launched : agent[i].state = "ended" /\ agent[i].stage = row.stage
    OBVIOUS
  <2>1. job \in [Workers -> Job] /\ row.stage = 1 /\ \A i \in Launched : agent[i].stage = 1
    BY DEF TypeOK, Row, Agent, Stages
  <2>2. endSeen
    <3>1. ~endSeen => job'[w] = Idle \/ job'[w] = Parked("forensics", "failed", 1)
      BY <2>1 DEF JudgeGone, Continue
    <3>2. Idle.who = "none" /\ Parked("forensics", "failed", 1).who = "failed"
      BY DEF Idle, Parked
    <3> QED
      BY <3>1, <3>2
  <2> QED
    BY <2>1, <2>2 DEF EndsAreReal, SomeEnded
<1> QED
  BY <1>1, TypeCorrect, EndsAreThoseOfAgents, PTL DEF Spec, GoneIsJudgedRightly

---------------------------------------------------------------------------
(* A session that nobody interferes with settles: what will settle it is   *)
(* at hand, and every step brings it closer                                *)

\* Every agent has a conversation of its own, that of the latest is the running
\* row's, the poller is on, and what is on the channel is the latest agent's.
Own ==
    /\ row.status \in {"ready", "running", "waiting", "blocked", "completed", "failed"}
    /\ \A i \in 1..spawned : agent[i].claude = i
    /\ \A w \in Workers : job[w].at \in {"prepare", "create"} => job[w].claude = 0
    /\ row.status = "running" => poller /\ row.claude = spawned
    /\ \A n \in DOMAIN mail : mail[n].from = spawned

\* the end of the agent a session was launched or runs with is not lost
EndHeard ==
    row.status = "running" \/ LaunchReturns =>
        \/ Latest.state = "alive"
        \/ sentinel
        \/ row.status = "running" /\ mail # <<>> /\ Last(mail).kind = "SessionEnd"

\* frames arrive, and no gate asks for a human
Heeded ==
    /\ "loss" \notin Faults
    /\ \A s \in Stages : GateOf[s] \notin HumanGates

CalmOwn == Calm /\ Own

LEMMA WaitingValues ==
    /\ Waiting["prepare"] = 7 /\ Waiting["create"] = 6 /\ Waiting["finalize"] = 5
    /\ Waiting["action"] = 3 /\ Waiting["dispatchAction"] = 3
    /\ Waiting["verify"] = 2 /\ Waiting["advance"] = 1 /\ Waiting["idle"] = 0
    /\ \A at \in Waits : Waiting[at] \in 0..7
BY DEF Waiting, Waits

\* when all chains but one are idle, that one is the farthest
LEMMA MaxOfOne ==
    ASSUME NEW J \in [Workers -> Job], NEW w \in Workers,
           \A v \in Workers : v # w => J[v].at = "idle"
    PROVE  Max({Waiting[J[v].at] : v \in Workers}) = Waiting[J[w].at]
<1> DEFINE S == {Waiting[J[v].at] : v \in Workers}
           m == Waiting[J[w].at]
<1>1. m \in S /\ m \in 0..7
  BY WaitingValues DEF Job
<1>2. \A x \in S : x = m \/ x = 0
  BY WaitingValues
<1> HIDE DEF S, m
<1>3. \A x \in S : (\A y \in S : x >= y) <=> x = m
  BY <1>1, <1>2
<1>4. (CHOOSE x \in S : \A y \in S : x >= y) = m
  BY <1>1, <1>3
<1> QED
  BY <1>4 DEF Max, S, m

\* what the one chain of a ready session does
LEMMA ChainGoesOn ==
    ASSUME Calm, TypeOK', NEW w \in Workers, ~Free(w), NEW j,
           job' = [job EXCEPT ![w] = j], j.at \in Waits,
           Waiting[j.at] < Waiting[job[w].at],
           row'.stage = row.stage, row'.status # "running"
    PROVE  GoesOn
<1>1. /\ job \in [Workers -> Job] /\ job' \in [Workers -> Job]
      /\ row.status = "ready" /\ \A v \in Workers : v # w => job[v].at = "idle"
  BY ChainIsAlone DEF Calm, TypeOK, Free
<1>2. job'[w] = j /\ \A v \in Workers : v # w => job'[v].at = "idle"
  BY <1>1
<1>3. WaitsLeft = Waiting[job[w].at]
  BY <1>1, MaxOfOne DEF WaitsLeft
<1>4. WaitsLeft' = Waiting[j.at]
  BY <1>1, <1>2, MaxOfOne DEF WaitsLeft
<1> QED
  BY <1>3, <1>4 DEF GoesOn

LEMMA ChainsGoOn ==
    ASSUME Unattended, Calm, TypeOK', NEW w \in Workers, HandoffStep(w), ~AdvanceStage(w)
    PROVE  /\ row'.status \in {"ready", "waiting", "blocked", "completed", "failed"}
           /\ row'.status = "ready" => GoesOn
<1>0. /\ job[w].at \in {"verify", "advance", "action", "dispatchAction"} /\ ~Free(w)
      /\ row.status = "ready" /\ row \in Row
  <2>1. job[w].at \in {"verify", "advance", "action", "dispatchAction"} /\ ~Free(w)
    BY DEF HandoffStep, VerifyPasses, VerifyFails, CompleteFlow, ActionSucceeds, ActionFails,
           DispatchedActionSucceeds, DispatchedActionFails, Free
  <2> QED
    BY <2>1, ChainIsAlone DEF Calm, TypeOK
<1>1. CASE VerifyPasses(w)
  <2>1. Advance(row, "mediate").at \in {"advance", "idle"} /\ row' = row
    BY <1>1, RoutesAreNoVerdicts DEF VerifyPasses
  <2>2. job' = [job EXCEPT ![w] = Advance(row, "mediate")] /\ job[w].at = "verify"
    BY <1>1 DEF VerifyPasses, Continue
  <2>3. Waiting[Advance(row, "mediate").at] < Waiting[job[w].at]
    BY <2>1, <2>2, WaitingValues
  <2>4. Advance(row, "mediate").at \in Waits
    BY <2>1 DEF Waits
  <2> QED
    BY <1>0, <2>1, <2>2, <2>3, <2>4, ChainGoesOn
<1>2. CASE VerifyFails(w) \/ CompleteFlow(w)
  BY <1>0, <1>2 DEF VerifyFails, CompleteFlow, Write, Update, Row
<1>3. CASE ActionSucceeds(w) \/ DispatchedActionSucceeds(w)
  <2>1. PICK r : /\ r.stage = row.stage /\ r.status \in {"ready", "waiting"}
                 /\ Write(w, r, IF r.status = "ready" THEN Mediate(r) ELSE Idle)
    <3>1. CASE ActionSucceeds(w)
      <4>1. PICK s \in {row.status, "waiting"} :
               Write(w, [row EXCEPT !.status = s],
                     IF s = "ready" THEN Mediate([row EXCEPT !.status = s]) ELSE Idle)
        BY <3>1 DEF ActionSucceeds
      <4> DEFINE q == [row EXCEPT !.status = s]
      <4>2. q.stage = row.stage /\ q.status = s /\ s \in {"ready", "waiting"}
        BY <1>0 DEF Row
      <4>3. Write(w, q, IF s = "ready" THEN Mediate(q) ELSE Idle)
        BY <4>1
      <4> HIDE DEF q
      <4> QED
        BY <4>2, <4>3
    <3>2. CASE DispatchedActionSucceeds(w)
      <4> DEFINE q == [row EXCEPT !.status = "ready", !.handle = FALSE]
      <4>1. q.stage = row.stage /\ q.status = "ready"
        BY <1>0 DEF Row
      <4>2. Write(w, q, Mediate(q))
        BY <3>2 DEF DispatchedActionSucceeds
      <4> HIDE DEF q
      <4> QED
        BY <4>1, <4>2
    <3> QED
      BY <1>3, <3>1, <3>2
  <2>2. row' = r
    BY <2>1 DEF Write, Update
  <2>3. CASE r.status = "ready"
    <3>1. job' = [job EXCEPT ![w] = Mediate(r)]
      BY <2>1, <2>3 DEF Write, Continue
    <3>2. Mediate(r).at \in {"verify", "advance", "idle"}
      BY RoutesAreNoVerdicts
    <3>3. job[w].at \in {"action", "dispatchAction"}
      BY <1>3 DEF ActionSucceeds, DispatchedActionSucceeds
    <3>4. Waiting[Mediate(r).at] < Waiting[job[w].at] /\ Mediate(r).at \in Waits
      BY <3>2, <3>3, WaitingValues DEF Waits
    <3> QED
      BY <1>0, <2>1, <2>2, <2>3, <3>1, <3>4, ChainGoesOn
  <2> QED
    BY <2>1, <2>2, <2>3
<1>4. CASE ActionFails(w) \/ DispatchedActionFails(w)
  <2>1. \/ Write(w, Failed(row), Idle)
        \/ Write(w, [row EXCEPT !.status = "blocked"], Idle)
    BY <1>0, <1>4 DEF ActionFails, DispatchedActionFails, MarkFailed
  <2>2. row'.status \in {"failed", "blocked"}
    BY <1>0, <2>1 DEF Write, Update, Failed, Row
  <2> QED
    BY <2>2
<1> QED
  BY <1>1, <1>2, <1>3, <1>4 DEF HandoffStep

\* what a frame does: nothing, or it fails the session, or ends its stage
FrameDoes(w) ==
    \/ row' = row /\ (job' = job \/ Continue(w, Idle))
    \/ row'.status = "failed"
    \/ /\ row.status = "running" /\ row'.status = "ready" /\ row'.stage = row.stage
       /\ \E r : job' = [job EXCEPT ![w] = Mediate(r)]

LEMMA FramesWrite ==
    ASSUME Unattended, Calm, NEW w \in Workers, HookFrame(w) \/ ReportFrame(w)
    PROVE  /\ row.status \in {"running", "failed"} /\ \A v \in Workers : Free(v)
           /\ 1 \in DOMAIN mail /\ mail' = RemoveAt(mail, 1)
           /\ UNCHANGED <<agent, spawned, pane, sentinel, poller>>
           /\ FrameDoes(w)
<1>0. /\ row \in Row /\ retries \in Nat /\ MaxRetries = 0
      /\ row.status = "running" => row.handle
  BY DEF Calm, TypeOK, Unattended, RunningHasHandle
<1>1. PICK f \in Frame : \E kinds : Takes(w, f, kinds)
  BY DEF HookFrame, HookStale, HookWorking, HookNotification, HookStopFailure,
         HookSessionEnd, ReportFrame, ReportStale, ReportCompleted, ReportRejected,
         ReportQuestion, ReportError, ReportProgress
<1>2. /\ row.status \in {"running", "failed"}
      /\ \A v \in Workers : Free(v)
      /\ 1 \in DOMAIN mail /\ mail' = RemoveAt(mail, 1)
  BY <1>1, FrameIsMet
<1>3. UNCHANGED <<agent, spawned, pane, sentinel, poller>>
  BY DEF HookFrame, HookStale, HookWorking, HookNotification, HookStopFailure,
         HookSessionEnd, ReportFrame, ReportStale, ReportCompleted, ReportRejected,
         ReportQuestion, ReportError, ReportProgress
<1> SUFFICES FrameDoes(w)
  BY <1>2, <1>3
<1>4. Write(w, row, Idle) => FrameDoes(w)
  BY DEF Write, Update, FrameDoes
<1>5. ASSUME NEW who, FailOrRetry(w, Failed(row), who)
      PROVE  FrameDoes(w)
  <2>1. Write(w, Failed(row), Idle)
    BY <1>0, <1>5 DEF FailOrRetry
  <2>2. Failed(row).status = "failed"
    BY <1>0 DEF Failed, Row
  <2> QED
    BY <2>1, <2>2 DEF Write, Update, FrameDoes
<1>6. /\ UnlessTerminal(row, "running") = row
      /\ row.status # "running" => UnlessTerminal(row, "ready") = row
  <2>1. row.status = "running" => [row EXCEPT !.status = "running"] = row
    BY <1>0 DEF Row
  <2> QED
    BY <1>2, <2>1 DEF UnlessTerminal, Terminal
<1>7. CASE HookStale(w) \/ ReportStale(w) \/ ReportRejected(w)
  BY <1>7 DEF HookStale, ReportStale, ReportRejected, FrameDoes
<1>8. CASE HookWorking(w)
  BY <1>4, <1>6, <1>8 DEF HookWorking
<1>9. CASE HookStopFailure(w)
  <2>1. row.status \notin Terminal \ {"failed"}
    BY <1>2 DEF Terminal
  <2>2. Write(w, row, Idle) \/ FailOrRetry(w, Failed(row), "hookRetry")
    BY <1>6, <1>9, <2>1 DEF HookStopFailure
  <2> QED
    BY <1>4, <1>5, <2>2
<1>10. CASE HookSessionEnd(w)
  <2> DEFINE r == [row EXCEPT !.status = "ready"]
  <2>1. \/ Write(w, row, Idle)
        \/ row.status = "running" /\ Write(w, r, Mediate(r))
        \/ FailOrRetry(w, Failed(row), "hookRetry")
    BY <1>6, <1>10 DEF HookSessionEnd
  <2>2. ASSUME row.status = "running", Write(w, r, Mediate(r))
        PROVE  FrameDoes(w)
    <3>1. r.status = "ready" /\ r.stage = row.stage
      BY <1>0 DEF Row
    <3> HIDE DEF r
    <3> QED
      BY <2>2, <3>1 DEF Write, Update, Continue, FrameDoes
  <2> QED
    BY <1>4, <1>5, <2>1, <2>2
<1>11. CASE ReportError(w)
  BY <1>5, <1>11 DEF ReportError
<1>12. CASE ReportProgress(w)
  BY <1>2, <1>4, <1>12 DEF ReportProgress
<1>13. ~HookNotification(w) /\ ~ReportCompleted(w) /\ ~ReportQuestion(w)
  <2>1. ~\E e \in Frame : \E k \in {"Notification", "completed", "question"} : Takes(w, e, {k})
    BY FrameIsMet
  <2> QED
    BY <2>1 DEF HookNotification, ReportCompleted, ReportQuestion
<1> QED
  BY <1>7, <1>8, <1>9, <1>10, <1>11, <1>12, <1>13 DEF HookFrame, ReportFrame

\* what keeps the conversations and the channel as they are
LEMMA TurnIsOwn ==
    ASSUME CalmOwn, Turn,
           row'.status \in {"ready", "running", "waiting", "blocked", "completed", "failed"},
           row'.status = "running" => poller' = poller /\ row'.claude = row.claude
    PROVE  Own'
<1>1. \A n \in DOMAIN mail' : mail'[n].from = spawned'
  <2>1. CASE mail' = mail
    BY <2>1 DEF CalmOwn, Own, Turn, Steady
  <2>2. CASE 1 \in DOMAIN mail /\ mail' = RemoveAt(mail, 1)
    <3>1. \A n \in DOMAIN mail' : \E m \in DOMAIN mail : mail'[n] = mail[m]
      BY <2>2, ShorterMail DEF CalmOwn, Calm
    <3> QED
      BY <3>1 DEF CalmOwn, Own, Turn, Steady
  <2> QED
    BY <2>1, <2>2 DEF Turn, Steady
<1>2. \A w \in Workers : job'[w].at \notin {"prepare", "create"}
  BY DEF Turn, Free, HandsOff
<1>3. UNCHANGED <<agent, spawned>> /\ (row'.status = "running" => row.status = "running")
  BY DEF Turn, Steady
<1> QED
  BY <1>1, <1>2, <1>3 DEF CalmOwn, Own

LEMMA LaunchIsOwn ==
    ASSUME CalmOwn, NEW w \in Workers, LaunchKillsOld(w) \/ CreatePane(w) \/ Finalize(w)
    PROVE  Own'
<1>0. /\ ~Free(w) /\ row \in Row /\ job \in [Workers -> Job] /\ agent \in [Launched -> Agent]
      /\ spawned \in Nat /\ 1..spawned \subseteq Launched /\ Launched = 1..MaxSpawns
      /\ MaxSpawns \in Nat /\ pane \in 0..spawned
  BY CalmTypes DEF CalmOwn, Calm, TypeOK, LaunchKillsOld, CreatePane, Finalize, Free
<1>1. /\ row.status = "ready" /\ mail = <<>> /\ \A v \in Workers : v # w => job[v].at = "idle"
      /\ LaunchOf(job[w]) \/ LaunchEnds(job[w])
  BY <1>0, ChainIsAlone DEF CalmOwn, LaunchKillsOld, CreatePane, Finalize, HandsOff, ActionOf,
     Free
<1>2. CASE LaunchKillsOld(w)
  <2>1. UNCHANGED <<row, spawned, mail, poller>>
    BY <1>2 DEF LaunchKillsOld
  <2>2. \A i \in Launched : agent'[i].claude = agent[i].claude
    BY <1>0, <1>2 DEF LaunchKillsOld, KillPane, Agent
  <2>3. job'[w].claude = job[w].claude /\ \A v \in Workers : v # w => job'[v] = job[v]
    BY <1>0, <1>2 DEF LaunchKillsOld, Continue, Job
  <2>4. job[w].claude = 0
    BY <1>2 DEF LaunchKillsOld, CalmOwn, Own
  <2> QED
    BY <1>0, <1>1, <2>1, <2>2, <2>3, <2>4 DEF CalmOwn, Own
<1>3. CASE CreatePane(w)
  <2>1. UNCHANGED <<row, mail, poller>> /\ spawned' = spawned + 1 /\ spawned + 1 \in Launched
    BY <1>0, <1>3 DEF CreatePane
  <2>2. job[w].claude = 0
    BY <1>3 DEF CreatePane, CalmOwn, Own
  <2>3. /\ agent'[spawned + 1].claude = spawned + 1
        /\ \A i \in Launched : i # spawned + 1 => agent'[i] = agent[i]
    BY <1>0, <1>3, <2>1, <2>2 DEF CreatePane
  <2>4. job'[w].at = "finalize" /\ \A v \in Workers : v # w => job'[v] = job[v]
    BY <1>0, <1>3 DEF CreatePane, Continue, Job
  <2>5. \A i \in 1..(spawned + 1) : i \in 1..spawned \/ i = spawned + 1
    BY <1>0
  <2> QED
    BY <1>0, <1>1, <2>1, <2>3, <2>4, <2>5 DEF CalmOwn, Own
<1>4. CASE Finalize(w)
  <2>1. UNCHANGED <<agent, spawned, mail>> /\ poller' = TRUE
    BY <1>4 DEF Finalize
  <2> DEFINE r == [FinalizeRow(w) EXCEPT !.status = "running", !.handle = TRUE]
  <2>2. r.status = "running" /\ r.handle /\ r.claude = job[w].agent
    BY <1>0 DEF FinalizeRow, Row
  <2>3. Write(w, r, Idle)
    BY <1>4 DEF Finalize
  <2> HIDE DEF r
  <2>4. row' = r /\ job' = [job EXCEPT ![w] = Idle]
    BY <2>2, <2>3 DEF Write, Update, Continue
  <2>5. job[w].agent = spawned
    BY <1>1, <1>4 DEF Finalize, LaunchOf, LaunchEnds
  <2>6. \A v \in Workers : job'[v].at = "idle"
    BY <1>0, <1>1, <2>4 DEF Idle
  <2> QED
    BY <1>1, <2>1, <2>2, <2>4, <2>5, <2>6 DEF CalmOwn, Own
<1> QED
  BY <1>2, <1>3, <1>4

LEMMA AdvanceIsOwn ==
    ASSUME CalmOwn, NEW w \in Workers, AdvanceStage(w)
    PROVE  Own' /\ row'.stage > row.stage
<1> DEFINE r == NextStage(w)
           j == IF job[w].who # "mediate" THEN Idle
                ELSE IF r.stage \in ActionStages THEN Parked("action", "mediate", r.stage)
                     ELSE Dispatch(r, "mediate")
<1>0. row \in Row /\ job \in [Workers -> Job] /\ ~Free(w)
  BY DEF CalmOwn, Calm, TypeOK, AdvanceStage, Free
<1>1. /\ row.status = "ready" /\ mail = <<>> /\ \A v \in Workers : v # w => job[v].at = "idle"
      /\ job[w].stage = row.stage
  BY <1>0, ChainIsAlone DEF CalmOwn, AdvanceStage, HandsOff, LaunchOf, LaunchEnds, ActionOf,
     Free
<1>2. r.status = "ready" /\ r.claude = 0 /\ r.stage = row.stage + 1
  BY <1>0, <1>1 DEF NextStage, Row
<1>3. j.claude = 0
  BY <1>2 DEF Parked, Idle, Dispatch
<1>4. row' = r /\ job' = [job EXCEPT ![w] = j] /\ UNCHANGED <<agent, spawned, mail>>
  BY <1>2 DEF AdvanceStage, Write, Update, Continue
<1> HIDE DEF r, j
<1>5. \A v \in Workers : job'[v].at \in {"prepare", "create"} => job'[v].claude = 0
  BY <1>0, <1>1, <1>3, <1>4
<1>6. row.stage \in Nat
  BY CalmTypes DEF CalmOwn, Calm
<1> QED
  BY <1>1, <1>2, <1>4, <1>5, <1>6 DEF CalmOwn, Own

LEMMA AgentIsOwn ==
    ASSUME Unattended, CalmOwn, NEW i \in Launched,
           AgentSends(i) \/ AgentExits(i) \/ AgentCrashes(i)
    PROVE  /\ Own'
           /\ AgentCrashes(i) => sentinel' = TRUE /\ sentinel = FALSE
<1>0. /\ spawned \in Nat /\ agent \in [Launched -> Agent] /\ sentinel \in BOOLEAN
      /\ UNCHANGED <<row, poller, job, spawned>>
  BY CalmTypes DEF CalmOwn, Calm, TypeOK, AgentSends, AgentExits, AgentCrashes
<1>1. Alive(i) /\ i = spawned /\ spawned > 0 /\ spawned \in 1..spawned
  <2>1. Alive(i)
    BY DEF AgentSends, AgentExits, AgentCrashes, Speaks
  <2>2. i = spawned /\ spawned > 0
    BY <2>1, WorkingAgent DEF CalmOwn
  <2> QED
    BY <1>0, <2>1, <2>2
<1>2. agent[i].claude = i
  BY <1>1 DEF CalmOwn, Own
<1>3. \A k \in Launched : agent'[k].claude = agent[k].claude
  BY <1>0, <1>2 DEF AgentSends, AgentExits, AgentCrashes, Agent
<1>4. \A n \in DOMAIN mail' : mail'[n].from = spawned
  <2>1. CASE mail' = mail
    BY <2>1 DEF CalmOwn, Own
  <2>2. ASSUME NEW kind, Speaks(i, kind)
        PROVE  \A n \in DOMAIN mail' : mail'[n].from = spawned
    <3> DEFINE f == [from |-> i, kind |-> kind]
    <3>1. f.from = spawned /\ mail \in Seq(Frame)
      BY <1>1 DEF CalmOwn, Calm, TypeOK
    <3>2. mail' = Append(mail, f)
      BY <2>2 DEF Speaks
    <3> HIDE DEF f
    <3>3. \A n \in DOMAIN Append(mail, f) :
             Append(mail, f)[n] = f \/ (n \in DOMAIN mail /\ Append(mail, f)[n] = mail[n])
      BY <3>1
    <3> QED
      BY <3>1, <3>2, <3>3 DEF CalmOwn, Own
  <2> QED
    BY <2>1, <2>2 DEF AgentSends, AgentExits, AgentCrashes
<1>5. AgentCrashes(i) => sentinel' = TRUE /\ sentinel = FALSE
  <2>1. ~sentinel
    BY <1>1 DEF CalmOwn, Calm, CalmInv, Crew, Alive, Latest
  <2> QED
    BY <1>0, <1>2, <2>1 DEF AgentCrashes
<1>6. 1..spawned \subseteq Launched
  BY CalmTypes DEF CalmOwn, Calm
<1> QED
  BY <1>0, <1>3, <1>4, <1>5, <1>6 DEF CalmOwn, Own

LEMMA FrameIsOwn ==
    ASSUME Unattended, CalmOwn, NEW w \in Workers, HookFrame(w) \/ ReportFrame(w)
    PROVE  Own'
<1>1. Turn /\ FrameDoes(w) /\ poller' = poller
  BY FramesAreTurns, FramesWrite DEF CalmOwn
<1>2. row'.status \in {"ready", "running", "waiting", "blocked", "completed", "failed"}
  BY <1>1 DEF FrameDoes, CalmOwn, Own
<1>3. row'.status = "running" => row' = row
  BY <1>1 DEF FrameDoes
<1> QED
  BY <1>1, <1>2, <1>3, TurnIsOwn

LEMMA PollingIsOwn ==
    ASSUME CalmOwn, PollFails
    PROVE  /\ Own'
           /\ row.status = "running" => row'.status = "failed"
           /\ row.status # "running" => row' = row
<1>0. row \in Row /\ UNCHANGED <<job, agent, spawned, mail>>
  BY DEF CalmOwn, Calm, TypeOK, PollFails
<1>1. CASE row.status = "running"
  <2>1. row'.status = "failed"
    BY <1>0, <1>1 DEF PollFails, Update, Failed, Row
  <2> QED
    BY <1>0, <1>1, <2>1 DEF CalmOwn, Own
<1>2. CASE row.status # "running"
  <2>1. row' = row
    BY <1>2 DEF PollFails, Update
  <2> QED
    BY <1>0, <1>2, <2>1 DEF CalmOwn, Own
<1> QED
  BY <1>1, <1>2

\* the steps of a flow that nobody interferes with
LEMMA CalmActions ==
    ASSUME Unattended, CalmOwn, [Next]_vars
    PROVE  \/ \E w \in Workers :
                 \/ LaunchKillsOld(w) \/ CreatePane(w) \/ Finalize(w) \/ AdvanceStage(w)
                 \/ LaunchFails(w) \/ (HandoffStep(w) /\ ~AdvanceStage(w))
                 \/ HookFrame(w) \/ ReportFrame(w)
           \/ \E i \in Launched : AgentSends(i) \/ AgentExits(i) \/ AgentCrashes(i)
           \/ FrameLost \/ PollFails \/ UNCHANGED vars
<1>1. ASSUME NEW w \in Workers, DispatchStep(w)
      PROVE  LaunchFails(w) \/ LaunchKillsOld(w) \/ CreatePane(w) \/ Finalize(w)
  <2>1. ~Free(w) /\ job[w].at \in {"prepare", "create", "finalize", "abort"}
    BY <1>1 DEF DispatchStep, LaunchFails, LaunchKillsOld, CreatePane, CreateDuplicate,
       Finalize, FinalizeTooLate, AbortLaunch, Free
  <2>2. row.status = "ready" /\ (LaunchOf(job[w]) \/ LaunchEnds(job[w]))
    BY <2>1, ChainIsAlone DEF CalmOwn, HandsOff, ActionOf
  <2>3. ~CreateDuplicate(w) /\ ~FinalizeTooLate(w) /\ ~AbortLaunch(w)
    BY <2>2 DEF CreateDuplicate, FinalizeTooLate, AbortLaunch, MovedOn, LaunchOf, LaunchEnds
  <2> QED
    BY <1>1, <2>3 DEF DispatchStep
<1>2. ASSUME NEW w \in Workers, PollStep(w)
      PROVE  FALSE
  <2>1. ~PollPaneGone(w)
    BY DEF PollPaneGone, CalmOwn, Calm, CalmInv, RowInv
  <2>2. job[w].at \notin {"gone", "forensics"}
    BY ChainIsAlone DEF CalmOwn, Free, HandsOff, LaunchOf, LaunchEnds, ActionOf
  <2> QED
    BY <1>2, <2>1, <2>2 DEF PollStep, JudgeGone, WriteGone
<1>3. ASSUME NEW w \in Workers, OperatorStep(w)
      PROVE  FALSE
  <2>1. job[w].at \notin {"killing", "killed", "keys"}
    BY ChainIsAlone DEF CalmOwn, Free, HandsOff, LaunchOf, LaunchEnds, ActionOf
  <2> QED
    BY <1>3, <2>1 DEF OperatorStep, Unattended, Calls, Stop, Kill, Archive, Restore, Resume,
       KillAgent, AfterKill, Pause, Interrupt, AfterInterrupt, Complete, AdvanceStart,
       Reject, Delete, Undelete
<1>4. \A w \in Workers : ~Watchdog(w)
  BY DEF Watchdog, Unattended
<1>5. ~PaneLost /\ ~Restart
  BY DEF PaneLost, Restart, Unattended
<1> QED
  BY <1>1, <1>2, <1>3, <1>4, <1>5 DEF Next, Step, PollExitCode, PollUnreachable

LEMMA LaunchFailsFails ==
    ASSUME CalmOwn, NEW w \in Workers, LaunchFails(w)
    PROVE  /\ row'.status = "failed"
           /\ UNCHANGED <<poller, sentinel, agent, spawned, mail>>
           /\ \A v \in Workers : job'[v].at = "idle"
<1>0. ~Free(w) /\ row \in Row /\ job \in [Workers -> Job]
  BY DEF LaunchFails, Free, CalmOwn, Calm, TypeOK
<1>1. row.status = "ready" /\ \A v \in Workers : v # w => job[v].at = "idle"
  BY <1>0, ChainIsAlone DEF CalmOwn, Free
<1>2. job[w].who \in {"kick", "mediate", "reportRetry"}
  BY <1>0, ChainIsAlone DEF CalmOwn, LaunchFails, HandsOff, LaunchOf, LaunchEnds, ActionOf
<1>3. Write(w, Failed(row), Idle)
  BY <1>1, <1>2 DEF LaunchFails, DispatchFails, MarkFailed
<1>4. row'.status = "failed"
  BY <1>0, <1>3 DEF Write, Update, Failed, Row
<1>5. \A v \in Workers : job'[v].at = "idle"
  BY <1>0, <1>1, <1>3 DEF Write, Continue, Idle
<1> QED
  BY <1>4, <1>5 DEF LaunchFails

LEMMA OwnIsKept ==
    ASSUME Unattended, CalmOwn, [Next]_vars
    PROVE  Own'
<1>0. TypeOK'
  BY NextType DEF CalmOwn, Calm
<1>1. ASSUME NEW w \in Workers, HandoffStep(w), ~AdvanceStage(w)
      PROVE  Own'
  <2>1. Turn /\ row'.status \in {"ready", "waiting", "blocked", "completed", "failed"}
    BY <1>0, <1>1, HandoffIsTurn, ChainsGoOn DEF CalmOwn
  <2> QED
    BY <2>1, TurnIsOwn
<1>2. ASSUME NEW w \in Workers, LaunchFails(w)
      PROVE  Own'
  BY <1>2, LaunchFailsFails DEF CalmOwn, Own
<1>3. CASE FrameLost
  <2>1. \A n \in DOMAIN mail' : \E m \in DOMAIN mail : mail'[n] = mail[m]
    BY <1>3, ShorterMail DEF CalmOwn, Calm, FrameLost
  <2>2. UNCHANGED <<row, poller, job, agent, spawned>>
    BY <1>3 DEF FrameLost
  <2> QED
    BY <2>1, <2>2 DEF CalmOwn, Own
<1>4. CASE UNCHANGED vars
  BY <1>4 DEF vars, CalmOwn, Own
<1> QED
  BY <1>1, <1>2, <1>3, <1>4, CalmActions, LaunchIsOwn, AdvanceIsOwn, AgentIsOwn, FrameIsOwn,
     PollingIsOwn

LEMMA BeginsOwn == Init => Own
<1> SUFFICES ASSUME Init PROVE Own
  OBVIOUS
<1>1. /\ row.status = "ready" /\ row.claude = 0 /\ spawned = 0 /\ mail = <<>>
  BY DEF Init
<1>2. PICK v \in Workers :
         job = [w \in Workers |-> IF w = v THEN Dispatch(row, "kick") ELSE Idle]
  BY DEF Init
<1>3. Dispatch(row, "kick").claude = 0
  BY <1>1 DEF Dispatch, Parked, Idle
<1>4. \A w \in Workers : job[w].at \in {"prepare", "create"} => job[w].claude = 0
  BY <1>2, <1>3, RoutesAreNoVerdicts
<1> QED
  BY <1>1, <1>4 DEF Own

LEMMA OwnAlways ==
    ASSUME Unattended
    PROVE  Spec => []CalmOwn
<1>1. Init => Own
  BY BeginsOwn
<1>2. Calm /\ Own /\ [Next]_vars => Own'
  BY OwnIsKept DEF CalmOwn
<1>3. Calm /\ Own => CalmOwn
  BY DEF CalmOwn
<1> QED
  BY <1>1, <1>2, <1>3, CalmAlways, PTL DEF Spec

LEMMA LessMailIsLess ==
    ASSUME NEW m, NEW n, Len(m) \in Nat, Len(n) = Len(m) - 1
    PROVE  \A p, s \in {0, 1} : Len(n) + p + s < Len(m) + p + s
OBVIOUS

\* a step from one unsettled state to another
LEMMA UnsettledGoesOn ==
    ASSUME Unattended, CalmOwn, Next, ~Settled, ~Settled'
    PROVE  GoesOn \/ UNCHANGED vars
<1>0. /\ TypeOK /\ TypeOK' /\ row.stage \in Nat /\ job \in [Workers -> Job]
      /\ mail \in Seq(Frame) /\ Len(mail) \in Nat
  BY NextType, CalmTypes DEF CalmOwn, Calm, TypeOK
<1>1. /\ row.status \in {"ready", "running"}
      /\ row.status = "running" => \A i \in Launched : ~Alive(i)
  BY DEF Settled, Terminal, CalmOwn, Own
<1>2. row'.status \notin {"waiting", "blocked", "completed", "failed"}
  BY DEF Settled, Terminal
<1>3. ASSUME NEW w \in Workers, LaunchKillsOld(w) \/ CreatePane(w)
      PROVE  GoesOn
  <2>1. PICK j : j.at \in Waits /\ job' = [job EXCEPT ![w] = j]
                 /\ Waiting[j.at] < Waiting[job[w].at]
    <3>1. CASE LaunchKillsOld(w)
      <4> DEFINE j == [job[w] EXCEPT !.at = "create"]
      <4>1. j.at = "create" /\ job[w].at = "prepare" /\ job' = [job EXCEPT ![w] = j]
        BY <1>0, <3>1 DEF LaunchKillsOld, Continue, Job
      <4> HIDE DEF j
      <4>2. j.at \in Waits /\ Waiting[j.at] < Waiting[job[w].at]
        BY <4>1, WaitingValues DEF Waits
      <4> QED
        BY <4>1, <4>2
    <3>2. CASE CreatePane(w)
      <4> DEFINE j == [job[w] EXCEPT !.at = "finalize", !.agent = spawned + 1]
      <4>1. j.at = "finalize" /\ job[w].at = "create" /\ job' = [job EXCEPT ![w] = j]
        BY <1>0, <3>2 DEF CreatePane, Continue, Job
      <4> HIDE DEF j
      <4>2. j.at \in Waits /\ Waiting[j.at] < Waiting[job[w].at]
        BY <4>1, WaitingValues DEF Waits
      <4> QED
        BY <4>1, <4>2
    <3> QED
      BY <1>3, <3>1, <3>2
  <2>2. row' = row /\ ~Free(w)
    BY <1>3 DEF LaunchKillsOld, CreatePane, Free
  <2>3. row.status # "running"
    BY <2>2, ChainIsAlone DEF CalmOwn
  <2> QED
    BY <1>0, <2>1, <2>2, <2>3, ChainGoesOn DEF CalmOwn
<1>4. ASSUME NEW w \in Workers, Finalize(w)
      PROVE  GoesOn
  <2>1. ~Free(w) /\ job[w].at = "finalize" /\ row \in Row
    BY <1>0, <1>4 DEF Finalize, Free, TypeOK
  <2>2. row.status = "ready" /\ \A v \in Workers : v # w => job[v].at = "idle"
    BY <2>1, ChainIsAlone DEF CalmOwn, Free
  <2>3. WaitsLeft = 5
    BY <1>0, <2>1, <2>2, MaxOfOne, WaitingValues DEF WaitsLeft
  <2>4. row'.status = "running" /\ row'.stage = row.stage
    BY <1>4, <2>1 DEF Finalize, Write, Update, FinalizeRow, Row
  <2>5. WaitsLeft' = 4
    BY <2>4 DEF WaitsLeft
  <2> QED
    BY <2>3, <2>4, <2>5 DEF GoesOn
<1>5. ASSUME NEW w \in Workers, AdvanceStage(w)
      PROVE  GoesOn
  BY <1>5, AdvanceIsOwn DEF GoesOn
<1>6. ASSUME NEW w \in Workers, LaunchFails(w)
      PROVE  FALSE
  BY <1>2, <1>6, LaunchFailsFails
<1>7. ASSUME NEW w \in Workers, HandoffStep(w), ~AdvanceStage(w)
      PROVE  GoesOn
  BY <1>0, <1>2, <1>7, ChainsGoOn DEF CalmOwn
\* from here on the chains stay, or there are none
<1>8. ASSUME row' = row, job' = job, NewsLeft' < NewsLeft
      PROVE  GoesOn
  BY <1>8 DEF GoesOn, WaitsLeft
<1>9. ASSUME NEW w \in Workers, HookFrame(w) \/ ReportFrame(w)
      PROVE  GoesOn
  <2>1. /\ row.status \in {"running", "failed"} /\ \A v \in Workers : job[v].at = "idle"
        /\ 1 \in DOMAIN mail /\ mail' = RemoveAt(mail, 1)
        /\ UNCHANGED <<sentinel, poller>> /\ FrameDoes(w)
    BY <1>9, FramesWrite DEF CalmOwn, Free
  <2>2. Len(mail') = Len(mail) - 1
    BY <1>0, <2>1, ShorterMail
  <2>3. row.status = "running" /\ WaitsLeft = 4
    BY <1>1, <2>1 DEF WaitsLeft
  <2>4. NewsLeft' < NewsLeft
    <3>1. /\ (IF poller THEN 1 ELSE 0)' = IF poller THEN 1 ELSE 0
          /\ (IF sentinel THEN 0 ELSE 1)' = IF sentinel THEN 0 ELSE 1
      BY <2>1
    <3> QED
      BY <1>0, <2>2, <3>1, LessMailIsLess DEF NewsLeft
  <2>5. CASE row' = row
    <3>1. WaitsLeft' = 4
      BY <2>3, <2>5 DEF WaitsLeft
    <3> QED
      BY <2>3, <2>4, <2>5, <3>1 DEF GoesOn
  <2>6. CASE /\ row'.status = "ready" /\ row'.stage = row.stage
             /\ \E r : job' = [job EXCEPT ![w] = Mediate(r)]
    <3>1. PICK r : job' = [job EXCEPT ![w] = Mediate(r)]
      BY <2>6
    <3>2. job'[w] = Mediate(r) /\ \A v \in Workers : v # w => job'[v].at = "idle"
      BY <1>0, <2>1, <3>1
    <3>3. job' \in [Workers -> Job]
      BY <1>0 DEF TypeOK
    <3>4. WaitsLeft' = Waiting[Mediate(r).at]
      BY <2>6, <3>2, <3>3, MaxOfOne DEF WaitsLeft
    <3>5. Waiting[Mediate(r).at] \in 0..2
      BY RoutesAreNoVerdicts, WaitingValues
    <3> QED
      BY <2>3, <2>6, <3>4, <3>5 DEF GoesOn
  <2> QED
    BY <1>2, <2>1, <2>5, <2>6 DEF FrameDoes
<1>10. ASSUME NEW i \in Launched, AgentSends(i) \/ AgentExits(i) \/ AgentCrashes(i)
       PROVE  GoesOn
  <2>1. Alive(i)
    BY <1>10 DEF AgentSends, AgentExits, AgentCrashes, Speaks
  <2>2. row.status = "ready"
    BY <1>1, <2>1
  <2>3. AgentCrashes(i)
    <3>1. ~\E kind : Speaks(i, kind)
      BY <2>2, SpeakingIsHeard DEF CalmOwn
    <3> QED
      BY <1>10, <3>1 DEF AgentSends, AgentExits
  <2>4. sentinel' = TRUE /\ sentinel = FALSE
    BY <2>3, AgentIsOwn
  <2>5. UNCHANGED <<row, job, poller, mail>>
    BY <2>3 DEF AgentCrashes
  <2>6. NewsLeft' < NewsLeft
    BY <1>0, <2>4, <2>5 DEF NewsLeft
  <2> QED
    BY <1>8, <2>5, <2>6
<1>11. CASE FrameLost
  <2>1. UNCHANGED <<row, job, poller, sentinel>> /\ Len(mail') = Len(mail) - 1
    BY <1>0, <1>11, ShorterMail DEF FrameLost
  <2>2. NewsLeft' < NewsLeft
    <3>1. /\ (IF poller THEN 1 ELSE 0)' = IF poller THEN 1 ELSE 0
          /\ (IF sentinel THEN 0 ELSE 1)' = IF sentinel THEN 0 ELSE 1
      BY <2>1
    <3> QED
      BY <1>0, <2>1, <3>1, LessMailIsLess DEF NewsLeft
  <2> QED
    BY <1>8, <2>1, <2>2
<1>12. CASE PollFails
  <2>1. row' = row
    BY <1>2, <1>12, PollingIsOwn
  <2>2. poller = TRUE /\ poller' = FALSE /\ UNCHANGED <<job, mail, sentinel>>
    BY <1>0, <1>12 DEF PollFails, TypeOK
  <2>3. NewsLeft' < NewsLeft
    BY <1>0, <2>2 DEF NewsLeft
  <2> QED
    BY <1>8, <2>1, <2>2, <2>3
<1> QED
  BY <1>3, <1>4, <1>5, <1>6, <1>7, <1>9, <1>10, <1>11, <1>12, CalmActions

\* A session that nobody interferes with wastes no step on its way to rest: from
\* an unsettled state to another it enters a later stage, or its chain comes
\* closer to its end, or there is less left to hear of it (dispatch,
\* mediateStageHandoff, advance.ts, hook-status.ts and the poller together).
THEOREM UnsettledSessionsGoOn ==
    ASSUME Unattended
    PROVE  Spec => SettlingGoesOn
<1>1. CalmOwn /\ [Next]_vars => [~Settled /\ ~Settled' => GoesOn]_vars
  BY UnsettledGoesOn
<1> QED
  BY <1>1, OwnAlways, PTL DEF Spec, SettlingGoesOn

\* of a session that runs without an agent no end is taken and left unanswered
LEMMA EndsAreMet ==
    ASSUME Unattended, Heeded, CalmOwn, NEW w \in Workers, HookFrame(w) \/ ReportFrame(w),
           row'.status = "running"
    PROVE  row' = row /\ mail[1].kind # "SessionEnd"
<1>0. row \in Row /\ mail \in Seq(Frame) /\ row.stage \in Stages /\ spawned \in Nat
  BY CalmTypes DEF CalmOwn, Calm, TypeOK
<1>1. row' = row /\ row.status = "running"
  BY FramesWrite DEF FrameDoes, CalmOwn
<1>2. SUFFICES ASSUME mail[1].kind = "SessionEnd" PROVE FALSE
  BY <1>1
<1>3. ASSUME NEW f \in Frame, NEW kinds, Takes(w, f, kinds)
      PROVE  f = mail[1] /\ "SessionEnd" \in kinds /\ ~Stale(f)
  <2>1. 1 \in DOMAIN mail /\ f = mail[1] /\ f.kind \in kinds
    <3>1. f = mail[1] /\ f.kind \in kinds
      BY <1>3 DEF Takes, Unattended, Heeded
    <3> QED
      BY <1>3, <3>1, FrameIsMet DEF CalmOwn
  <2>2. f.from = spawned /\ row.claude = spawned /\ spawned > 0
    BY <1>1, <2>1 DEF CalmOwn, Own, Calm, CalmInv, RowInv
  <2>3. agent[spawned].claude = spawned
    BY <1>0, <2>2 DEF CalmOwn, Own
  <2> QED
    BY <1>2, <2>1, <2>2, <2>3 DEF Stale
<1>4. HookSessionEnd(w)
  <2>1. ~HookStale(w)
    BY <1>3 DEF HookStale
  <2>2. ~HookWorking(w) /\ ~HookNotification(w) /\ ~HookStopFailure(w)
    BY <1>3 DEF HookWorking, HookNotification, HookStopFailure
  <2>3. ~ReportFrame(w)
    BY <1>3 DEF ReportFrame, ReportStale, ReportCompleted, ReportRejected, ReportQuestion,
       ReportError, ReportProgress, Reports
  <2> QED
    BY <2>1, <2>2, <2>3 DEF HookFrame
<1>5. ~Manual(row)
  BY <1>0 DEF Heeded, Manual, HumanGates
<1>6. CASE Write(w, [row EXCEPT !.status = "ready"], Mediate([row EXCEPT !.status = "ready"]))
  <2>1. row' = [row EXCEPT !.status = "ready"]
    BY <1>0, <1>6 DEF Write, Update, Row
  <2> QED
    BY <1>0, <1>1, <2>1 DEF Row
<1>7. CASE FailOrRetry(w, Failed(row), "hookRetry")
  <2>1. retries \in Nat /\ MaxRetries = 0
    BY DEF CalmOwn, Calm, TypeOK, Unattended
  <2>2. Write(w, Failed(row), Idle)
    BY <1>7, <2>1 DEF FailOrRetry
  <2>3. row'.status = "failed"
    BY <1>0, <2>2 DEF Write, Update, Failed, Row
  <2> QED
    BY <1>1, <2>3
<1> QED
  BY <1>1, <1>4, <1>5, <1>6, <1>7 DEF HookSessionEnd

LEMMA EndHeardIsKept ==
    ASSUME Unattended, Heeded, CalmOwn, EndHeard, [Next]_vars
    PROVE  EndHeard'
<1>0. /\ TypeOK /\ TypeOK' /\ mail \in Seq(Frame) /\ Len(mail) \in Nat
      /\ job \in [Workers -> Job] /\ spawned \in Nat /\ agent \in [Launched -> Agent]
      /\ Launched = 1..MaxSpawns /\ MaxSpawns \in Nat
  BY NextType, CalmTypes DEF CalmOwn, Calm, TypeOK
\* the session that neither runs nor is launched has nobody to hear
<1>1. ASSUME row'.status # "running", ~LaunchReturns'
      PROVE  EndHeard'
  BY <1>1 DEF EndHeard
<1>2. Turn => ~LaunchReturns'
  BY DEF Turn, Free, HandsOff, LaunchReturns
<1>3. ASSUME NEW w \in Workers, LaunchKillsOld(w) \/ AdvanceStage(w)
      PROVE  EndHeard'
  <2>1. ~Free(w)
    BY <1>3 DEF LaunchKillsOld, AdvanceStage, Free
  <2>2. row \in Row /\ row.status = "ready" /\ \A v \in Workers : v # w => job[v].at = "idle"
    BY <1>0, <2>1, ChainIsAlone DEF CalmOwn, Free, TypeOK
  <2>3. CASE LaunchKillsOld(w)
    <3>1. row' = row /\ job'[w].at = "create" /\ \A v \in Workers : v # w => job'[v] = job[v]
      BY <1>0, <2>3 DEF LaunchKillsOld, Continue, Job
    <3> QED
      BY <1>1, <2>2, <3>1 DEF LaunchReturns
  <2>4. CASE AdvanceStage(w)
    <3> DEFINE r == NextStage(w)
               j == IF job[w].who # "mediate" THEN Idle
                    ELSE IF r.stage \in ActionStages THEN Parked("action", "mediate", r.stage)
                         ELSE Dispatch(r, "mediate")
    <3>1. r.status = "ready" /\ Write(w, r, j)
      BY <2>2, <2>4 DEF AdvanceStage, NextStage, Row
    <3>2. j.at # "finalize"
      BY RoutesAreNoVerdicts
    <3> HIDE DEF r, j
    <3>3. row'.status = "ready" /\ job' = [job EXCEPT ![w] = j]
      BY <3>1 DEF Write, Update, Continue
    <3>4. \A v \in Workers : job'[v].at # "finalize"
      BY <1>0, <2>2, <3>2, <3>3
    <3> QED
      BY <1>1, <3>3, <3>4 DEF LaunchReturns
  <2> QED
    BY <1>3, <2>3, <2>4
<1>4. ASSUME NEW w \in Workers, CreatePane(w)
      PROVE  EndHeard'
  <2>1. Latest'.state = "alive"
    BY <1>0, <1>4 DEF CreatePane, Latest, TypeOK
  <2> QED
    BY <2>1 DEF EndHeard
<1>5. ASSUME NEW w \in Workers, Finalize(w)
      PROVE  EndHeard'
  <2>1. ~Free(w) /\ LaunchReturns /\ UNCHANGED <<agent, spawned, sentinel, mail>>
    BY <1>5 DEF Finalize, Free, LaunchReturns
  <2>2. row.status = "ready"
    BY <2>1, ChainIsAlone DEF CalmOwn
  <2> QED
    BY <2>1, <2>2 DEF EndHeard, Latest
<1>6. ASSUME NEW w \in Workers, LaunchFails(w)
      PROVE  EndHeard'
  BY <1>1, <1>6, LaunchFailsFails DEF LaunchReturns
<1>7. ASSUME NEW w \in Workers, HandoffStep(w), ~AdvanceStage(w)
      PROVE  EndHeard'
  <2>1. Turn /\ row'.status # "running"
    BY <1>0, <1>7, HandoffIsTurn, ChainsGoOn DEF CalmOwn
  <2> QED
    BY <1>1, <1>2, <2>1
<1>8. ASSUME NEW w \in Workers, HookFrame(w) \/ ReportFrame(w)
      PROVE  EndHeard'
  <2>1. ~LaunchReturns'
    BY <1>2, <1>8, FramesAreTurns DEF CalmOwn
  <2>2. CASE row'.status = "running"
    <3>1. row' = row /\ mail[1].kind # "SessionEnd"
      BY <1>8, <2>2, EndsAreMet
    <3>2. /\ UNCHANGED <<agent, spawned, sentinel>>
          /\ 1 \in DOMAIN mail /\ mail' = RemoveAt(mail, 1)
      BY <1>8, FramesWrite DEF CalmOwn
    <3>3. CASE Latest.state = "alive" \/ sentinel
      BY <3>2, <3>3 DEF EndHeard, Latest
    <3>4. CASE mail # <<>> /\ Last(mail).kind = "SessionEnd"
      <4>1. mail[Len(mail)].kind = "SessionEnd" /\ Len(mail) > 1
        BY <1>0, <3>1, <3>2, <3>4 DEF Last
      <4>2. /\ Len(mail') = Len(mail) - 1 /\ DOMAIN mail' = 1..Len(mail')
            /\ \A m \in DOMAIN mail' : m < 1 \/ mail'[m] = mail[m + 1]
        BY <1>0, <3>2, ShorterMail
      <4>3. Len(mail') \in DOMAIN mail' /\ mail'[Len(mail')] = mail[Len(mail)]
        BY <1>0, <4>1, <4>2
      <4>4. mail' # <<>> /\ Last(mail').kind = "SessionEnd"
        BY <4>1, <4>3 DEF Last
      <4> QED
        BY <2>2, <4>4 DEF EndHeard
    <3> QED
      BY <2>2, <3>1, <3>3, <3>4 DEF EndHeard
  <2> QED
    BY <1>1, <2>1, <2>2
<1>9. ASSUME NEW i \in Launched, AgentSends(i) \/ AgentExits(i) \/ AgentCrashes(i)
      PROVE  EndHeard'
  <2>1. Alive(i) /\ i = spawned /\ UNCHANGED <<row, job, spawned>>
    <3>1. Alive(i)
      BY <1>9 DEF AgentSends, AgentExits, AgentCrashes, Speaks
    <3> QED
      BY <1>9, <3>1, WorkingAgent DEF CalmOwn, AgentSends, AgentExits, AgentCrashes
  <2>2. CASE AgentSends(i)
    <3>1. Latest'.state = "alive"
      BY <2>1, <2>2 DEF AgentSends, Alive, Latest
    <3> QED
      BY <3>1 DEF EndHeard
  <2>3. CASE AgentExits(i)
    <3>1. Speaks(i, "SessionEnd")
      BY <2>3 DEF AgentExits
    <3>2. /\ row.status \in {"running", "failed"}
          /\ mail' = Append(mail, [from |-> i, kind |-> "SessionEnd"])
          /\ Len(mail') = Len(mail) + 1 /\ mail'[Len(mail')].kind = "SessionEnd"
      BY <3>1, SpeakingIsHeard DEF CalmOwn
    <3>3. mail' # <<>> /\ Last(mail').kind = "SessionEnd"
      BY <1>0, <3>2, SMTT(30) DEF Last
    <3>4. ~LaunchReturns
      BY <3>2, ChainIsAlone DEF LaunchReturns, CalmOwn, Free
    <3> QED
      BY <2>1, <3>3, <3>4 DEF EndHeard, LaunchReturns
  <2>4. CASE AgentCrashes(i)
    BY <2>4, AgentIsOwn DEF EndHeard
  <2> QED
    BY <1>9, <2>2, <2>3, <2>4
<1>10. ~FrameLost
  BY DEF FrameLost, Heeded
<1>11. CASE PollFails
  <2>1. UNCHANGED <<job, agent, spawned, mail, sentinel>>
    BY <1>11 DEF PollFails
  <2>2. row'.status = "failed" \/ row' = row
    BY <1>11, PollingIsOwn
  <2>3. row.status = "running" => ~LaunchReturns
    BY ChainIsAlone DEF LaunchReturns, CalmOwn, Free
  <2>4. CASE row' = row
    BY <2>1, <2>4 DEF EndHeard, LaunchReturns, Latest
  <2>5. CASE row' # row
    <3>1. row.status = "running" /\ row'.status = "failed"
      BY <1>11, <2>2, <2>5, PollingIsOwn
    <3> QED
      BY <1>1, <2>1, <2>3, <3>1 DEF LaunchReturns
  <2> QED
    BY <2>4, <2>5
<1>12. CASE UNCHANGED vars
  BY <1>12 DEF vars, EndHeard, LaunchReturns, Latest
<1> QED
  BY <1>3, <1>4, <1>5, <1>6, <1>7, <1>8, <1>9, <1>10, <1>11, <1>12, CalmActions

LEMMA UnsettledIsUnderWay ==
    ASSUME Heeded, CalmOwn, EndHeard, ~Settled
    PROVE  \/ row.status = "ready" /\ \E w \in Workers : Driving(w)
           \/ row.status = "running" /\ EndAtHand
<1>0. row.stage \in Stages /\ spawned \in Nat /\ Launched = 1..MaxSpawns /\ mail \in Seq(Frame)
      /\ spawned <= MaxSpawns /\ MaxSpawns \in Nat
  BY CalmTypes DEF CalmOwn, Calm, TypeOK
<1>1. row.status \in {"ready", "running"}
  BY DEF Settled, Terminal, CalmOwn, Own
<1>2. CASE row.status = "ready"
  <2>1. PICK w \in Workers : ~Free(w)
    BY <1>0, <1>2 DEF CalmOwn, Calm, CalmInv, OneChain, Heeded
  <2>2. Driving(w)
    BY <2>1, ChainIsAlone DEF CalmOwn, Driving, Free, HandsOff, LaunchOf, LaunchEnds, ActionOf
  <2> QED
    BY <1>2, <2>2
<1>3. CASE row.status = "running"
  <2>1. poller /\ spawned > 0 /\ spawned \in 1..spawned /\ row.claude = spawned
        /\ agent[spawned].claude = spawned
    BY <1>0, <1>3 DEF CalmOwn, Own, Calm, CalmInv, RowInv
  <2>2. Latest.state # "alive"
    BY <1>0, <1>3, <2>1 DEF Settled, Alive, Latest
  <2>3. CASE sentinel
    BY <1>3, <2>1, <2>3 DEF EndAtHand
  <2>4. CASE mail # <<>> /\ Last(mail).kind = "SessionEnd"
    <3>1. Len(mail) \in DOMAIN mail
      BY <1>0, <2>4
    <3>2. Last(mail).from = spawned
      BY <3>1 DEF Last, CalmOwn, Own
    <3> QED
      BY <1>3, <2>1, <2>4, <3>2 DEF EndAtHand, Stale
  <2> QED
    BY <1>3, <2>2, <2>3, <2>4 DEF EndHeard
<1> QED
  BY <1>1, <1>2, <1>3

\* What will settle a session that nobody interferes with is at hand, when its
\* frames arrive and no gate asks for a human: a ready session has its dispatch
\* or its hand-off in flight, and one that runs without an agent the agent's last
\* word on the channel, of the row's own conversation, or its exit code before a
\* poller that is on (launcher.ts, hook-status.ts, status-poller.ts).
THEOREM SettlingIsAtHand ==
    ASSUME Unattended, Heeded
    PROVE  Spec => []SettlingIsUnderWay
<1>1. Init => EndHeard
  <2> SUFFICES ASSUME Init PROVE row.status # "running" /\ ~LaunchReturns
    BY DEF EndHeard
  <2>1. row.status = "ready"
    BY DEF Init
  <2>2. \A w \in Workers : job[w].at # "finalize"
    BY RoutesAreNoVerdicts DEF Init
  <2> QED
    BY <2>1, <2>2 DEF LaunchReturns
<1>2. CalmOwn /\ EndHeard /\ [Next]_vars => EndHeard'
  BY EndHeardIsKept
<1>3. CalmOwn /\ EndHeard => SettlingIsUnderWay
  BY UnsettledIsUnderWay DEF SettlingIsUnderWay
<1> QED
  BY <1>1, <1>2, <1>3, OwnAlways, PTL DEF Spec
===============================================================================
