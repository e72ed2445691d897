------------------------ MODULE SessionWorkflowProofs ------------------------
(***************************************************************************)
(* Safety of SessionWorkflow for every flow and every set of faults.  Part *)
(* by part: the types; a stop that lasts; the gates; the branches of a     *)
(* fan-out and what is left behind; how the session ends; and that the     *)
(* workflow implements StagePipeline.                                      *)
(***************************************************************************)
EXTENDS SessionWorkflow, FiniteSetTheorems, SequenceTheorems, TLAPS

---------------------------------------------------------------------------
(* The types, by name                                                      *)

Loose == {"begin", "load", "conclude", "reap", "closed", "gone"}
Ats == Activities \cup {"gate", "join", "dispatch", "reap", "closed", "gone"}
WfResults == {"none", "thrown", "rejected"} \cup Over
RowStatuses == {"ready", "dispatching", "running", "fanning_out", "rejected"} \cup Over
Verdicts == {"none", "ready", "failed"}

Workflows == [at : Ats, stage : 1..(LastStage + 1), try : Attempts, result : WfResults,
              approved : BOOLEAN, rejected : BOOLEAN]
Rows == [status : RowStatuses, stage : Stages \cup {1}, handle : BOOLEAN]
Calls == [Stages \X Attempts -> {"none", "launch", "action", "finalize", "done"}]
AgentRecords == [stage : Stages, state : {"works", "stuck", "ended", "failed", "killed"}]
FramesOf(n) == [from : 1..n, kind : {"SessionStart", "SessionEnd", "StopFailure"}]
Pollers == [on : BOOLEAN, seen : Verdicts, verdict : Verdicts]
Computes == [kept : {"none", "live", "gone"}, lost : BOOLEAN]
Spots == {"begun", "dispatch", "works", "completed", "failed", "thrown"}
BranchTypes == branch \in [Branches -> [at : Spots, pod : BOOLEAN]]

Placed(w) == w.at \notin Loose => w.stage \in Stages

LEMMA Flow ==
  /\ LastStage \in Nat \ {0} /\ Stages = 1..LastStage
  /\ \A s \in Stages : Kind[s] \in StageKinds /\ KindOf(s) = Kind[s]
BY WorkflowAssumption DEF Stages, LastStage, KindOf

LEMMA TypeParts ==
  TypeOK <=>
    /\ world \in Worlds /\ wf \in Workflows /\ Placed(wf) /\ row \in Rows /\ call \in Calls
    /\ agent \in Seq(AgentRecords) /\ mail \subseteq FramesOf(Len(agent))
    /\ poller \in Pollers /\ pod \in Computes /\ approvals \in Nat /\ stopping \in BOOLEAN
    /\ BranchTypes
<1>1. agent \in Seq(AgentRecords) => DOMAIN agent = 1..Len(agent)
  OBVIOUS
<1> QED
  BY <1>1 DEF TypeOK, Workflows, Placed, Loose, Ats, WfResults, RowStatuses, Verdicts, Rows, Calls,
     AgentRecords, FramesOf, Pollers, Computes, Spots, BranchTypes

---------------------------------------------------------------------------
(* What the workflow's next activities are                                 *)

\* A workflow record, by the fields a step gives it.
Goes(w, at, stage, try, result, approved) ==
  /\ w \in Workflows
  /\ w.at = at /\ w.stage = stage /\ w.try = try /\ w.result = result /\ w.approved = approved

LEMMA AtWritten ==
  ASSUME NEW f \in Workflows, NEW at \in Ats
  PROVE  Goes([f EXCEPT !.at = at, !.try = 1], at, f.stage, 1, f.result, f.approved)
<1> DEFINE k == 1
<1>1. k \in Attempts
  BY DEF Attempts
<1> HIDE DEF k
<1>2. Goes([f EXCEPT !.at = at, !.try = k], at, f.stage, k, f.result, f.approved)
  BY <1>1 DEF Goes, Workflows
<1> QED
  BY <1>2 DEF k

LEMMA ResultWritten ==
  ASSUME NEW f \in Workflows, NEW result \in WfResults
  PROVE  Goes([f EXCEPT !.result = result], f.at, f.stage, f.try, result, f.approved)
BY DEF Goes, Workflows

LEMMA StageWritten ==
  ASSUME NEW f \in Workflows, NEW stage \in 1..(LastStage + 1)
  PROVE  Goes([f EXCEPT !.stage = stage], f.at, stage, f.try, f.result, f.approved)
BY DEF Goes, Workflows

LEMMA TryWritten ==
  ASSUME NEW f \in Workflows, NEW try \in Attempts
  PROVE  Goes([f EXCEPT !.try = try], f.at, f.stage, try, f.result, f.approved)
BY DEF Goes, Workflows

LEMMA ApprovedWritten ==
  ASSUME NEW f \in Workflows, NEW b \in BOOLEAN
  PROVE  Goes([f EXCEPT !.approved = b], f.at, f.stage, f.try, f.result, b)
BY DEF Goes, Workflows

LEMMA RejectedWritten ==
  ASSUME NEW f \in Workflows, NEW b \in BOOLEAN
  PROVE  Goes([f EXCEPT !.rejected = b], f.at, f.stage, f.try, f.result, f.approved)
BY DEF Goes, Workflows

LEMMA WfFields ==
  ASSUME NEW f \in Workflows
  PROVE  /\ f.at \in Ats /\ f.stage \in 1..(LastStage + 1) /\ f.try \in 1..2
         /\ f.result \in WfResults /\ f.approved \in BOOLEAN
BY DEF Workflows, Attempts

LEMMA AtGoes ==
  ASSUME wf \in Workflows, NEW at \in Ats
  PROVE  Goes(At(at), at, wf.stage, 1, wf.result, wf.approved)
BY AtWritten, Zenon DEF At

LEMMA ResultGoes ==
  ASSUME wf \in Workflows, NEW at \in Ats, NEW result \in WfResults
  PROVE  Goes([At(at) EXCEPT !.result = result], at, wf.stage, 1, result, wf.approved)
<1> DEFINE f == At(at)
<1>1. Goes(f, at, wf.stage, 1, wf.result, wf.approved)
  BY AtGoes
<1> HIDE DEF f
<1>2. f \in Workflows
  BY <1>1 DEF Goes
<1>3. Goes([f EXCEPT !.result = result], f.at, f.stage, f.try, result, f.approved)
  BY <1>2, ResultWritten, Zenon
<1>4. Goes([f EXCEPT !.result = result], at, wf.stage, 1, result, wf.approved)
  BY <1>1, <1>3 DEF Goes
<1> QED
  BY <1>4, Zenon DEF f

LEMMA ConcludeGoes ==
  ASSUME wf \in Workflows, NEW result \in WfResults
  PROVE  Goes(Conclude(result), "conclude", wf.stage, 1, result, wf.approved)
<1>1. "conclude" \in Ats
  BY DEF Ats, Activities
<1> QED
  BY <1>1, ResultGoes, Zenon DEF Conclude

LEMMA OutcomeGoes ==
  ASSUME wf \in Workflows, NEW result \in WfResults
  PROVE  Goes(Outcome(result), "record", wf.stage, 1, result, wf.approved)
<1>1. "record" \in Ats
  BY DEF Ats, Activities
<1> QED
  BY <1>1, ResultGoes, Zenon DEF Outcome

LEMMA ThrownGoes ==
  ASSUME wf \in Workflows
  PROVE  Goes(Thrown, "reap", wf.stage, 1, "thrown", wf.approved)
<1>1. "reap" \in Ats /\ "thrown" \in WfResults
  BY DEF Ats, WfResults
<1> QED
  BY <1>1, ResultGoes, Zenon DEF Thrown

\* What the loop does with stage s.
LEMMA EnterGoes ==
  ASSUME wf \in Workflows, NEW s \in 1..(LastStage + 1)
  PROVE  \/ s = LastStage + 1 /\ Goes(Enter(s), "conclude", s, 1, "completed", wf.approved)
         \/ /\ s \in Stages
            /\ \E at \in {"park", "fan_out", "provision"} :
                 /\ Goes(Enter(s), at, s, 1, wf.result, wf.approved)
                 /\ at = "park" => Kind[s] \in Gates
                 /\ at = "fan_out" => Kind[s] = "fan_out"
                 /\ at = "provision" => Kind[s] \in {"agent", "action"}
<1>1. CASE s = LastStage + 1
  <2> DEFINE f == Conclude("completed")
  <2>1. Goes(f, "conclude", wf.stage, 1, "completed", wf.approved)
    BY ConcludeGoes DEF WfResults, Over
  <2>2. Enter(s) = [f EXCEPT !.stage = s]
    BY <1>1, Flow DEF Enter
  <2> HIDE DEF f
  <2>3. Goes([f EXCEPT !.stage = s], f.at, s, f.try, f.result, f.approved)
    BY <2>1, StageWritten, Zenon DEF Goes
  <2> QED
    BY <1>1, <2>1, <2>2, <2>3 DEF Goes
<1>2. CASE s # LastStage + 1
  <2> DEFINE at == CASE Kind[s] \in Gates -> "park"
                     [] Kind[s] = "fan_out" -> "fan_out"
                     [] OTHER -> "provision"
             f == At(at)
  <2>1. s \in Stages /\ ~(s > LastStage) /\ Kind[s] \in StageKinds
    BY <1>2, Flow
  <2>2. /\ at \in {"park", "fan_out", "provision"}
        /\ at = "park" => Kind[s] \in Gates
        /\ at = "fan_out" => Kind[s] = "fan_out"
        /\ at = "provision" => Kind[s] \in {"agent", "action"}
    BY <2>1 DEF StageKinds, Gates
  <2>3. Enter(s) = [f EXCEPT !.stage = s]
    BY <2>1, Zenon DEF Enter
  <2> HIDE DEF at
  <2>4. Goes(f, at, wf.stage, 1, wf.result, wf.approved)
    BY <2>2, AtGoes DEF Ats, Activities
  <2> HIDE DEF f
  <2>5. Goes([f EXCEPT !.stage = s], f.at, s, f.try, f.result, f.approved)
    BY <2>4, StageWritten, Zenon DEF Goes
  <2>6. Goes(Enter(s), at, s, 1, wf.result, wf.approved)
    BY <2>3, <2>4, <2>5 DEF Goes
  <2> QED
    BY <2>1, <2>2, <2>6
<1> QED
  BY <1>1, <1>2

LEMMA FailsGoes ==
  ASSUME wf \in Workflows
  PROVE  \/ wf.try = 1 /\ Goes(AttemptFails, wf.at, wf.stage, 2, wf.result, wf.approved)
         \/ wf.at = "dispatch" /\ Goes(AttemptFails, "conclude", wf.stage, 1, "failed", wf.approved)
         \/ wf.at # "dispatch" /\ Goes(AttemptFails, "reap", wf.stage, 1, "thrown", wf.approved)
<1>1. CASE wf.try < 2
  <2>1. wf.try = 1 /\ wf.try + 1 = 2 /\ 2 \in Attempts
    BY <1>1, WfFields DEF Attempts
  <2>2. Goes([wf EXCEPT !.try = 2], wf.at, wf.stage, 2, wf.result, wf.approved)
    BY <2>1, TryWritten, Zenon
  <2>3. AttemptFails = [wf EXCEPT !.try = 2]
    BY <1>1, <2>1 DEF AttemptFails
  <2> QED
    BY <2>1, <2>2, <2>3
<1>2. CASE ~(wf.try < 2)
  <2>1. AttemptFails = IF wf.at = "dispatch" THEN Conclude("failed") ELSE Thrown
    BY <1>2 DEF AttemptFails
  <2>2. "failed" \in WfResults
    BY DEF WfResults, Over
  <2> QED
    BY <2>1, <2>2, ConcludeGoes, ThrownGoes
<1> QED
  BY <1>1, <1>2

---------------------------------------------------------------------------
(* What is written into the row                                            *)

RowGoes(r, status, stage, handle) ==
  r \in Rows /\ r.status = status /\ r.stage = stage /\ r.handle = handle

LEMMA RowFields ==
  ASSUME NEW r \in Rows
  PROVE  r.status \in RowStatuses /\ r.stage \in Stages \cup {1} /\ r.handle \in BOOLEAN
BY DEF Rows

LEMMA StatusWritten ==
  ASSUME NEW r \in Rows, NEW st \in RowStatuses
  PROVE  RowGoes([r EXCEPT !.status = st], st, r.stage, r.handle)
BY DEF RowGoes, Rows

LEMMA StagedWritten ==
  ASSUME NEW r \in Rows, NEW st \in RowStatuses, NEW n \in Stages \cup {1}
  PROVE  /\ RowGoes([r EXCEPT !.status = st, !.stage = n], st, n, r.handle)
         /\ RowGoes([r EXCEPT !.stage = n, !.status = st], st, n, r.handle)
<1>1. RowGoes([r EXCEPT !.status = st, !.stage = n], st, n, r.handle)
  BY DEF RowGoes, Rows
<1>2. RowGoes([r EXCEPT !.stage = n, !.status = st], st, n, r.handle)
  BY DEF RowGoes, Rows
<1> QED
  BY <1>1, <1>2

LEMMA HandleWritten ==
  ASSUME NEW r \in Rows, NEW st \in RowStatuses, NEW h \in BOOLEAN
  PROVE  /\ RowGoes([r EXCEPT !.status = st, !.handle = h], st, r.stage, h)
         /\ RowGoes([r EXCEPT !.handle = h], r.status, r.stage, h)
<1>1. RowGoes([r EXCEPT !.status = st, !.handle = h], st, r.stage, h)
  BY DEF RowGoes, Rows
<1>2. RowGoes([r EXCEPT !.handle = h], r.status, r.stage, h)
  BY DEF RowGoes, Rows
<1> QED
  BY <1>1, <1>2

LEMMA UpdateGoes ==
  ASSUME row \in Rows, NEW st \in RowStatuses, Update(st)
  PROVE  RowGoes(row', st, row.stage, row.handle)
BY StatusWritten, Zenon DEF Update

LEMMA NoHandleGoes ==
  ASSUME row \in Rows, NEW st \in RowStatuses, NoHandle(st)
  PROVE  RowGoes(row', st, row.stage, FALSE)
<1> DEFINE h == FALSE
<1>1. h \in BOOLEAN /\ row' = [row EXCEPT !.status = st, !.handle = h]
  BY DEF NoHandle
<1> HIDE DEF h
<1>2. RowGoes(row', st, row.stage, h)
  BY <1>1, HandleWritten, Zenon
<1> QED
  BY <1>2 DEF h

LEMMA StillRunsGoes ==
  ASSUME row \in Rows, StillRuns
  PROVE  \/ row.handle /\ RowGoes(row', "running", row.stage, row.handle)
         \/ ~row.handle /\ row' = row
<1>1. row' = [row EXCEPT !.status = IF row.handle THEN "running" ELSE row.status]
  BY DEF StillRuns
<1>2. row.handle \in BOOLEAN /\ "running" \in RowStatuses /\ row.status \in RowStatuses
  BY RowFields DEF RowStatuses
<1>3. CASE row.handle
  <2>1. row' = [row EXCEPT !.status = "running"]
    BY <1>1, <1>3
  <2> QED
    BY <1>2, <1>3, <2>1, StatusWritten, Zenon
<1>4. CASE ~row.handle
  <2>1. row' = [row EXCEPT !.status = row.status]
    BY <1>1, <1>4
  <2> QED
    BY <1>4, <2>1 DEF Rows
<1> QED
  BY <1>2, <1>3, <1>4

LEMMA SyncedGoes ==
  ASSUME row \in Rows, wf.stage \in Stages
  PROVE  /\ RowGoes(Synced, Synced.status, wf.stage, row.handle)
         /\ \/ Synced.status = "ready"
            \/ Synced.status = row.status /\ row.stage = wf.stage
<1>1. "ready" \in RowStatuses
  BY DEF RowStatuses
<1>2. CASE row.stage # wf.stage
  <2>1. Synced = [row EXCEPT !.stage = wf.stage, !.status = "ready"]
    BY <1>2 DEF Synced
  <2>2. RowGoes(Synced, "ready", wf.stage, row.handle)
    BY <1>1, <2>1, StagedWritten, Zenon
  <2> QED
    BY <2>2 DEF RowGoes
<1>3. CASE row.stage = wf.stage /\ row.status \in {"failed", "dispatching"}
  <2>1. Synced = [row EXCEPT !.status = "ready"]
    BY <1>3 DEF Synced
  <2>2. RowGoes(Synced, "ready", row.stage, row.handle)
    BY <1>1, <2>1, StatusWritten, Zenon
  <2> QED
    BY <1>3, <2>2 DEF RowGoes
<1>4. CASE row.stage = wf.stage /\ row.status \notin {"failed", "dispatching"}
  BY <1>4 DEF Synced, RowGoes
<1> QED
  BY <1>2, <1>3, <1>4

\* What there is to write at the end of a stage and of the session.
Results ==
  /\ wf.at = "record" => wf.result \in Over \cup {"rejected"}
  /\ wf.at = "conclude" => wf.result \in Over

Staging == {"park", "fan_out", "project", "launched", "record"}

\* What the activities project: the stage they are at, and a status of theirs.
LEMMA ProjectedGoes ==
  ASSUME row \in Rows, wf \in Workflows, Placed(wf), Results
  PROVE  /\ RowGoes(Projected, Projected.status, Projected.stage, row.handle)
         /\ wf.at \in Staging => Projected.stage = wf.stage
         /\ wf.at \notin Staging => Projected.stage = row.stage
         /\ wf.at \in {"park", "begin"} => Projected.status = "ready"
         /\ wf.at = "fan_out" => Projected.status = "fanning_out"
         /\ wf.at = "project" => Projected.status = "dispatching"
         /\ wf.at = "launched" => Projected.status = IF row.handle THEN "running" ELSE row.status
         /\ wf.at \in {"record", "conclude"} => Projected.status = wf.result
         /\ wf.at \notin Staging \cup {"begin", "conclude"} => Projected = row
<1>1. /\ row.status \in RowStatuses /\ row.handle \in BOOLEAN
      /\ wf.at \in Staging => wf.stage \in Stages
  BY RowFields DEF Placed, Loose, Staging
<1>2. ASSUME NEW st \in RowStatuses, wf.at \in Staging,
             Projected = [row EXCEPT !.status = st, !.stage = wf.stage]
      PROVE  RowGoes(Projected, st, wf.stage, row.handle)
  BY <1>1, <1>2, StagedWritten, Zenon
<1>3. ASSUME NEW st \in RowStatuses, Projected = [row EXCEPT !.status = st]
      PROVE  RowGoes(Projected, st, row.stage, row.handle)
  BY <1>3, StatusWritten, Zenon
<1>4. CASE wf.at = "begin"
  <2>1. Projected = [row EXCEPT !.status = "ready"] /\ "ready" \in RowStatuses
    BY <1>4 DEF Projected, RowStatuses
  <2> QED
    BY <1>3, <1>4, <2>1 DEF RowGoes, Staging
<1>5. CASE wf.at = "park"
  <2>1. Projected = [row EXCEPT !.status = "ready", !.stage = wf.stage] /\ "ready" \in RowStatuses
    BY <1>5 DEF Projected, RowStatuses
  <2> QED
    BY <1>2, <1>5, <2>1 DEF RowGoes, Staging
<1>6. CASE wf.at = "fan_out"
  <2>1. /\ Projected = [row EXCEPT !.status = "fanning_out", !.stage = wf.stage]
        /\ "fanning_out" \in RowStatuses
    BY <1>6 DEF Projected, RowStatuses
  <2> QED
    BY <1>2, <1>6, <2>1 DEF RowGoes, Staging
<1>7. CASE wf.at = "project"
  <2>1. /\ Projected = [row EXCEPT !.status = "dispatching", !.stage = wf.stage]
        /\ "dispatching" \in RowStatuses
    BY <1>7 DEF Projected, RowStatuses
  <2> QED
    BY <1>2, <1>7, <2>1 DEF RowGoes, Staging
<1>8. CASE wf.at = "launched"
  <2> DEFINE st == IF row.handle THEN "running" ELSE row.status
  <2>1. Projected = [row EXCEPT !.status = st, !.stage = wf.stage]
    BY <1>8 DEF Projected
  <2>2. st \in RowStatuses
    BY <1>1 DEF RowStatuses
  <2>3. RowGoes(Projected, st, wf.stage, row.handle)
    <3> HIDE DEF st
    <3> QED
      BY <1>2, <1>8, <2>1, <2>2 DEF Staging
  <2> QED
    BY <1>8, <2>3 DEF RowGoes, Staging
<1>9. CASE wf.at = "record"
  <2>1. Projected = [row EXCEPT !.status = wf.result, !.stage = wf.stage]
    BY <1>9 DEF Projected
  <2>2. wf.result \in RowStatuses
    BY <1>9 DEF RowStatuses, Results
  <2> QED
    BY <1>2, <1>9, <2>1, <2>2 DEF RowGoes, Staging
<1>10. CASE wf.at = "conclude"
  <2>1. Projected = [row EXCEPT !.status = wf.result]
    BY <1>10 DEF Projected
  <2>2. wf.result \in RowStatuses
    BY <1>10 DEF RowStatuses, Results
  <2> QED
    BY <1>3, <1>10, <2>1, <2>2 DEF RowGoes, Staging
<1>11. CASE wf.at \notin Staging \cup {"begin", "conclude"}
  <2>1. Projected = row
    BY <1>11 DEF Projected, Staging
  <2> QED
    BY <1>11, <2>1 DEF RowGoes, Staging
<1> QED
  BY <1>4, <1>5, <1>6, <1>7, <1>8, <1>9, <1>10, <1>11 DEF Staging

---------------------------------------------------------------------------
(* The types hold                                                          *)

\* A workflow record that is of its type, at a place it can be at.
Good(w) ==
  /\ w \in Workflows /\ Placed(w)
  /\ w.at = "record" => w.result \in Over \cup {"rejected"}
  /\ w.at = "conclude" => w.result \in Over

TypeInv ==
  /\ world \in Worlds /\ Good(wf) /\ row \in Rows /\ call \in Calls
  /\ agent \in Seq(AgentRecords) /\ mail \subseteq FramesOf(Len(agent))
  /\ poller \in Pollers /\ pod \in Computes /\ approvals \in Nat /\ stopping \in BOOLEAN

LEMMA TypeInvIs == TypeInv /\ BranchTypes <=> TypeOK /\ Results
BY TypeParts DEF TypeInv, Good, Results

LEMMA TypesOfWorkflow ==
  ASSUME TypeInv
  PROVE  /\ wf \in Workflows /\ Placed(wf) /\ Results
         /\ wf.at \in Ats /\ wf.stage \in 1..(LastStage + 1) /\ wf.try \in 1..2
         /\ wf.result \in WfResults
BY WfFields DEF TypeInv, Good, Results

\* The places a workflow goes to keep it good.
LEMMA GoodAt ==
  ASSUME TypeInv, NEW at \in Ats \ {"record", "conclude"}, wf.stage \in Stages \/ at \in Loose
  PROVE  Good(At(at))
BY TypesOfWorkflow, AtGoes DEF Goes, Good, Placed

LEMMA GoodConclude ==
  ASSUME TypeInv, NEW result \in Over
  PROVE  Good(Conclude(result))
<1>1. Goes(Conclude(result), "conclude", wf.stage, 1, result, wf.approved)
  BY TypesOfWorkflow, ConcludeGoes DEF WfResults
<1> QED
  BY <1>1 DEF Goes, Good, Placed, Loose

LEMMA GoodOutcome ==
  ASSUME TypeInv, wf.stage \in Stages, NEW result \in Over \cup {"rejected"}
  PROVE  Good(Outcome(result))
<1>1. Goes(Outcome(result), "record", wf.stage, 1, result, wf.approved)
  BY TypesOfWorkflow, OutcomeGoes DEF WfResults
<1> QED
  BY <1>1 DEF Goes, Good, Placed

LEMMA GoodThrown ==
  ASSUME TypeInv
  PROVE  Good(Thrown)
<1>1. Goes(Thrown, "reap", wf.stage, 1, "thrown", wf.approved)
  BY TypesOfWorkflow, ThrownGoes
<1> QED
  BY <1>1 DEF Goes, Good, Placed, Loose

LEMMA GoodEnter ==
  ASSUME TypeInv, NEW s \in 1..(LastStage + 1)
  PROVE  Good(Enter(s))
<1>1. CASE Goes(Enter(s), "conclude", s, 1, "completed", wf.approved)
  BY <1>1 DEF Goes, Good, Placed, Loose, Over
<1>2. ASSUME s \in Stages, NEW at \in {"park", "fan_out", "provision"},
             Goes(Enter(s), at, s, 1, wf.result, wf.approved)
      PROVE  Good(Enter(s))
  BY <1>2 DEF Goes, Good, Placed
<1> QED
  BY <1>1, <1>2, TypesOfWorkflow, EnterGoes

LEMMA GoodFails ==
  ASSUME TypeInv
  PROVE  Good(AttemptFails)
<1>1. CASE Goes(AttemptFails, wf.at, wf.stage, 2, wf.result, wf.approved)
  BY <1>1, TypesOfWorkflow DEF Goes, Good, Placed, Results
<1>2. CASE Goes(AttemptFails, "conclude", wf.stage, 1, "failed", wf.approved)
  BY <1>2 DEF Goes, Good, Placed, Loose, Over
<1>3. CASE Goes(AttemptFails, "reap", wf.stage, 1, "thrown", wf.approved)
  BY <1>3 DEF Goes, Good, Placed, Loose
<1> QED
  BY <1>1, <1>2, <1>3, TypesOfWorkflow, FailsGoes

LEMMA GoodTerminate ==
  ASSUME TypeInv, Terminate
  PROVE  Good(wf') /\ (wf' = wf \/ (wf'.at = "gone" /\ wf'.stage = wf.stage))
<1>1. "gone" \in Ats /\ "stopped" \in WfResults
  BY DEF Ats, WfResults, Over
<1>2. CASE wf' = At("gone")
  <2>1. Goes(wf', "gone", wf.stage, 1, wf.result, wf.approved)
    BY <1>1, <1>2, TypesOfWorkflow, AtGoes
  <2> QED
    BY <2>1 DEF Goes, Good, Placed, Loose
<1>3. CASE wf' = [At("gone") EXCEPT !.result = "stopped"]
  <2>1. Goes(wf', "gone", wf.stage, 1, "stopped", wf.approved)
    BY <1>1, <1>3, TypesOfWorkflow, ResultGoes
  <2> QED
    BY <2>1 DEF Goes, Good, Placed, Loose
<1>4. CASE wf' = wf
  BY <1>4 DEF TypeInv
<1> QED
  BY <1>2, <1>3, <1>4 DEF Terminate

\* What a step leaves alone keeps its type.
LEMMA OnWorkflow ==
  ASSUME TypeInv, Good(wf'), row' \in Rows, UNCHANGED <<aside, call, pod>>
  PROVE  TypeInv'
BY DEF TypeInv, aside

LEMMA ProjectKeepsTypes ==
  ASSUME TypeInv, NEW at, NEW next, Good(next), Project(at, next)
  PROVE  TypeInv'
<1>1. Projected \in Rows
  BY TypesOfWorkflow, ProjectedGoes DEF RowGoes, TypeInv
<1> QED
  BY <1>1, OnWorkflow DEF Project

LEMMA LearnKeepsTypes ==
  ASSUME TypeInv, NEW at, NEW next, Good(next), Learn(at, next)
  PROVE  TypeInv'
BY OnWorkflow DEF Learn, TypeInv

LEMMA FirstStage == 1 \in 1..(LastStage + 1) /\ 1 \in Stages
BY Flow

\* Outside the dispatch, a workflow that does something with a stage is at one.
LEMMA ActivityKeepsTypes ==
  ASSUME TypeInv,
         \/ Begin \/ LoadFlow \/ LoadNoStages \/ Park \/ PassGate \/ RejectGate
         \/ FanOut \/ Join \/ ProjectDispatching \/ MarkRunning
         \/ AwaitAnswers \/ AwaitTimesOut \/ Record \/ Finish
         \/ LoadUnknown \/ JoinThrows
  PROVE  TypeInv'
<1>1. wf.at \notin Loose => wf.stage \in Stages
  BY DEF TypeInv, Good, Placed
<1>2. \A at \in {"gate", "join", "dispatch", "await"} :
        /\ at \in Ats \ {"record", "conclude"}
        /\ wf.at \notin Loose => Good(At(at))
  BY <1>1, GoodAt DEF Ats, Activities
<1>3. \A at \in {"load", "reap"} : Good(At(at))
  BY GoodAt DEF Ats, Activities, Loose
<1>4. CASE Begin
  BY <1>3, <1>4, ProjectKeepsTypes DEF Begin
<1>5. CASE LoadFlow
  BY <1>5, FirstStage, GoodEnter, LearnKeepsTypes DEF LoadFlow
<1>6. CASE LoadNoStages
  BY <1>6, GoodConclude, LearnKeepsTypes DEF LoadNoStages, Over
<1>7. CASE LoadUnknown
  BY <1>7, GoodFails, LearnKeepsTypes DEF LoadUnknown
<1>8. CASE Park
  BY <1>2, <1>8, ProjectKeepsTypes DEF Park, Project, Loose
<1>9. CASE PassGate
  <2> DEFINE f == Outcome("completed")
  <2>1. Learn("gate", [f EXCEPT !.approved = FALSE]) /\ wf.at = "gate"
    BY <1>9 DEF PassGate, Learn
  <2>2. Good(f)
    BY <1>1, <2>1, GoodOutcome DEF Loose, Over
  <2> HIDE DEF f
  <2>3. Goes([f EXCEPT !.approved = FALSE], f.at, f.stage, f.try, f.result, FALSE)
    BY <2>2, ApprovedWritten, Zenon DEF Good
  <2>4. Good([f EXCEPT !.approved = FALSE])
    BY <2>2, <2>3 DEF Goes, Good, Placed
  <2> QED
    BY <2>1, <2>4, LearnKeepsTypes
<1>10. CASE RejectGate
  BY <1>1, <1>10, GoodOutcome, LearnKeepsTypes DEF RejectGate, Learn, Loose
<1>11. CASE FanOut
  BY <1>2, <1>11, ProjectKeepsTypes DEF FanOut, Project, Loose
<1>12. CASE Join
  BY <1>1, <1>12, GoodOutcome, LearnKeepsTypes DEF Join, Learn, Loose, Over
<1>13. CASE JoinThrows
  BY <1>13, GoodThrown, LearnKeepsTypes DEF JoinThrows
<1>14. CASE ProjectDispatching
  BY <1>2, <1>14, ProjectKeepsTypes DEF ProjectDispatching, Project, Loose
<1>15. CASE MarkRunning
  BY <1>2, <1>15, ProjectKeepsTypes DEF MarkRunning, Project, Loose
<1>16. CASE AwaitAnswers
  <2> DEFINE result == IF row.status = "ready" THEN "completed" ELSE row.status
  <2>1. result \in Over
    BY <1>16 DEF AwaitAnswers, Settled, Over
  <2>2. Learn("await", Outcome(result))
    BY <1>16 DEF AwaitAnswers
  <2> HIDE DEF result
  <2> QED
    BY <1>1, <2>1, <2>2, GoodOutcome, LearnKeepsTypes DEF Learn, Loose
<1>17. CASE AwaitTimesOut
  BY <1>1, <1>17, GoodOutcome, GoodFails, LearnKeepsTypes DEF AwaitTimesOut, Learn, Loose, Over
<1>18. CASE Record
  <2> DEFINE next == CASE wf.result = "completed" -> Enter(wf.stage + 1)
                       [] wf.result = "rejected" -> Conclude("failed")
                       [] OTHER -> Conclude(wf.result)
  <2>1. wf.at = "record" /\ Project("record", next)
    BY <1>18 DEF Record, Project
  <2>2. wf.stage + 1 \in 1..(LastStage + 1) /\ wf.result \in Over \cup {"rejected"}
    BY <1>1, <2>1, Flow, TypesOfWorkflow DEF Loose, Results
  <2>3. Good(Enter(wf.stage + 1)) /\ Good(Conclude("failed"))
    BY <2>2, GoodEnter, GoodConclude DEF Over
  <2>4. wf.result \in Over => Good(Conclude(wf.result))
    BY GoodConclude
  <2>5. Good(next)
    BY <2>2, <2>3, <2>4
  <2> HIDE DEF next
  <2> QED
    BY <2>1, <2>5, ProjectKeepsTypes
<1>19. CASE Finish
  BY <1>3, <1>19, ProjectKeepsTypes DEF Finish
<1> QED
  BY <1>4, <1>5, <1>6, <1>7, <1>8, <1>9, <1>10, <1>11, <1>12, <1>13, <1>14, <1>15, <1>16, <1>17,
     <1>18, <1>19

\* The state of some agents changes, that of the others stays.
StateChanges(i, state) == agent' = [agent EXCEPT ![i].state = state]

LEMMA AgentChanges ==
  ASSUME agent \in Seq(AgentRecords), NEW i \in DOMAIN agent,
         NEW state \in {"works", "stuck", "ended", "failed", "killed"}, StateChanges(i, state)
  PROVE  /\ agent' \in Seq(AgentRecords) /\ Len(agent') = Len(agent)
         /\ \A j \in 1..Len(agent) : agent'[j].stage = agent[j].stage
         /\ agent'[i].state = state
         /\ \A j \in 1..Len(agent) : j # i => agent'[j] = agent[j]
<1> DEFINE g == [agent[i] EXCEPT !.state = state]
<1>1. agent' = [agent EXCEPT ![i] = g]
  BY DEF StateChanges
<1>2. agent[i] \in AgentRecords
  OBVIOUS
<1>3. g \in AgentRecords /\ g.stage = agent[i].stage /\ g.state = state
  BY <1>2 DEF AgentRecords
<1> HIDE DEF g
<1> QED
  BY <1>1, <1>3

\* Some agents are killed, those that live.
Killed(which) ==
  agent' = [i \in DOMAIN agent |->
              IF i \in which THEN [agent[i] EXCEPT !.state = "killed"] ELSE agent[i]]

LEMMA AgentsKilled ==
  ASSUME agent \in Seq(AgentRecords), NEW which, Killed(which)
  PROVE  /\ agent' \in Seq(AgentRecords) /\ Len(agent') = Len(agent)
         /\ \A j \in 1..Len(agent) :
              /\ agent'[j].stage = agent[j].stage
              /\ agent'[j].state = IF j \in which THEN "killed" ELSE agent[j].state
<1>1. ASSUME NEW f \in AgentRecords
      PROVE  LET g == [f EXCEPT !.state = "killed"] IN
             g \in AgentRecords /\ g.stage = f.stage /\ g.state = "killed"
  BY <1>1 DEF AgentRecords
<1> DEFINE dead(f) == [f EXCEPT !.state = "killed"]
<1>2. \A f \in AgentRecords :
        dead(f) \in AgentRecords /\ dead(f).stage = f.stage /\ dead(f).state = "killed"
  BY <1>1
<1>3. agent' = [i \in DOMAIN agent |-> IF i \in which THEN dead(agent[i]) ELSE agent[i]]
  BY DEF Killed
<1> HIDE DEF dead
<1>4. \A j \in 1..Len(agent) : agent[j] \in AgentRecords
  OBVIOUS
<1>5. agent' \in [1..Len(agent) -> AgentRecords]
  BY <1>2, <1>3, <1>4
<1>6. agent' \in Seq(AgentRecords) /\ Len(agent') = Len(agent)
  BY <1>5
<1> QED
  BY <1>2, <1>3, <1>4, <1>6

LEMMA FramesFit ==
  ASSUME TypeInv, NEW i \in 1..Len(agent),
         NEW kind \in {"SessionStart", "SessionEnd", "StopFailure"}
  PROVE  mail \cup {[from |-> i, kind |-> kind]} \subseteq FramesOf(Len(agent))
BY DEF TypeInv, FramesOf

LEMMA PodWritten ==
  ASSUME NEW f \in Computes, NEW k \in {"none", "live", "gone"}, NEW b \in BOOLEAN
  PROVE  /\ [f EXCEPT !.kept = k] \in Computes /\ [f EXCEPT !.kept = k].kept = k
         /\ [f EXCEPT !.kept = k].lost = f.lost
         /\ [f EXCEPT !.lost = b] \in Computes /\ [f EXCEPT !.lost = b].kept = f.kept
BY DEF Computes

\* Compute is made, lost and destroyed.
LEMMA ComputeKeepsTypes ==
  ASSUME TypeInv, Provision \/ ProvisionLost \/ Reap \/ ReapFails
  PROVE  TypeInv'
<1>0. pod \in Computes /\ agent \in Seq(AgentRecords)
  BY DEF TypeInv
<1>1. CASE Provision
  <2>1. pod' = [pod EXCEPT !.kept = "live"] /\ wf.at = "provision"
    BY <1>1 DEF Provision
  <2>2. pod' \in Computes
    BY <1>0, <2>1, PodWritten
  <2>3. Good(At("project"))
    BY <2>1, GoodAt DEF TypeInv, Good, Placed, Loose, Ats, Activities
  <2> QED
    BY <1>1, <2>2, <2>3 DEF Provision, TypeInv, aside
<1>2. CASE ProvisionLost
  <2>1. pod' = [pod EXCEPT !.lost = TRUE]
    BY <1>2 DEF ProvisionLost
  <2>2. pod' \in Computes
    BY <1>0, <2>1, PodWritten
  <2> QED
    BY <1>2, <2>2, GoodFails DEF ProvisionLost, TypeInv, aside
<1>3. CASE Reap
  <2>1. Good(At("closed"))
    BY GoodAt DEF Loose, Ats
  <2>2. pod' \in Computes
    <3> DEFINE k == IF pod.kept = "live" THEN "gone" ELSE pod.kept
    <3>1. pod' = [pod EXCEPT !.kept = k] /\ k \in {"none", "live", "gone"}
      BY <1>0, <1>3 DEF Reap, Computes
    <3> HIDE DEF k
    <3> QED
      BY <1>0, <3>1, PodWritten
  <2>3. Killed({i \in DOMAIN agent : Lives(i)})
    BY <1>3 DEF Reap, Killed
  <2> QED
    BY <1>0, <1>3, <2>1, <2>2, <2>3, AgentsKilled DEF Reap, TypeInv
<1>4. CASE ReapFails
  BY <1>4, GoodAt, OnWorkflow DEF ReapFails, TypeInv, Loose, Ats
<1> QED
  BY <1>1, <1>2, <1>3, <1>4

LEMMA CallWritten ==
  ASSUME call \in Calls, NEW d \in DOMAIN call,
         NEW c \in {"none", "launch", "action", "finalize", "done"},
         call' = [call EXCEPT ![d] = c]
  PROVE  call' \in Calls /\ call'[d] = c /\ \A e \in DOMAIN call : e # d => call'[e] = call[e]
BY DEF Calls

LEMMA AnswersKeepTypes ==
  ASSUME TypeInv, NEW d \in DOMAIN call, NEW then, Good(then), Answers(d, then)
  PROVE  Good(wf') /\ call' \in Calls
<1>1. call' \in Calls
  BY CallWritten DEF Answers, TypeInv
<1> QED
  BY <1>1 DEF Answers, TypeInv

LEMMA CallKeepsTypes ==
  ASSUME TypeInv, NEW d \in DOMAIN call, CallStep(d) \/ DispatchThrows(d)
  PROVE  TypeInv'
<1>0. /\ row \in Rows /\ poller \in Pollers /\ d[1] \in Stages /\ call \in Calls
      /\ row.status \in RowStatuses /\ agent \in Seq(AgentRecords)
  BY RowFields DEF TypeInv, Calls
<1>1. Good(Conclude("failed")) /\ Good(AttemptFails)
  BY GoodConclude, GoodFails DEF Over
<1>2. CASE LaunchFails(d)
  BY <1>1, <1>2, AnswersKeepTypes DEF LaunchFails, TypeInv, aside
<1>3. CASE DispatchThrows(d)
  BY <1>1, <1>3, AnswersKeepTypes DEF DispatchThrows, TypeInv, aside
<1>4. CASE FinalizeTooLate(d)
  BY <1>1, <1>4, AnswersKeepTypes DEF FinalizeTooLate, TypeInv, aside
<1>5. CASE ActionFails(d)
  <2>1. row' \in Rows
    BY <1>0, <1>5, UpdateGoes DEF ActionFails, RowStatuses, Over, RowGoes
  <2> QED
    BY <1>1, <1>5, <2>1, AnswersKeepTypes DEF ActionFails, TypeInv, aside
<1>6. wf.at = "dispatch" => Good(At("launched"))
  BY GoodAt DEF TypeInv, Good, Placed, Loose, Ats, Activities
<1>7. ASSUME Answers(d, At("launched"))
      PROVE  Good(wf') /\ call' \in Calls
  BY <1>0, <1>6, <1>7, CallWritten DEF Answers, TypeInv
<1>8. CASE ActionSucceeds(d)
  <2>1. row' \in Rows
    BY <1>0, <1>8, NoHandleGoes DEF ActionSucceeds, RowStatuses, RowGoes
  <2> QED
    BY <1>7, <1>8, <2>1 DEF ActionSucceeds, TypeInv, aside
<1>9. CASE Finalize(d)
  <2>1. row' \in Rows
    <3>1. row' = [row EXCEPT !.status = "running", !.handle = TRUE]
      BY <1>9 DEF Finalize
    <3> QED
      BY <1>0, <3>1 DEF Rows, RowStatuses
  <2>2. poller' \in Pollers
    BY <1>0, <1>9 DEF Finalize, Pollers
  <2> QED
    BY <1>7, <1>9, <2>1, <2>2 DEF Finalize, TypeInv
<1>10. CASE Spawn(d)
  <2> DEFINE new == [stage |-> d[1], state |-> "works"]
  <2>1. new \in AgentRecords
    BY <1>0 DEF AgentRecords
  <2>2. agent' = Append(agent, new)
    BY <1>10 DEF Spawn
  <2> HIDE DEF new
  <2>3. agent' \in Seq(AgentRecords) /\ Len(agent') = Len(agent) + 1
    BY <1>0, <2>1, <2>2
  <2>4. mail' \subseteq FramesOf(Len(agent'))
    <3>1. Len(agent) \in Nat /\ mail \subseteq FramesOf(Len(agent))
      BY DEF TypeInv
    <3>2. mail' = mail \cup Starts(Len(agent) + 1)
      BY <1>10 DEF Spawn, Last
    <3> QED
      BY <2>3, <3>1, <3>2 DEF FramesOf, Starts
  <2>5. row' \in Rows /\ call' \in Calls
    <3>1. row' = [row EXCEPT !.handle = TRUE] /\ call' = [call EXCEPT ![d] = "finalize"]
      BY <1>10 DEF Spawn
    <3>2. row' \in Rows
      BY <1>0, <3>1 DEF Rows
    <3> QED
      BY <1>0, <3>1, <3>2, CallWritten
  <2> QED
    BY <1>10, <2>3, <2>4, <2>5 DEF Spawn, TypeInv
<1> QED
  BY <1>2, <1>3, <1>4, <1>5, <1>8, <1>9, <1>10 DEF CallStep

LEMMA DispatchKeepsTypes ==
  ASSUME TypeInv, DispatchBegins \/ DispatchFindsRunning \/ DispatchRefused \/ HeartbeatLost
  PROVE  TypeInv'
<1>1. wf.at = "dispatch" /\ wf.stage \in Stages /\ row \in Rows /\ call \in Calls
  BY DEF DispatchBegins, DispatchFindsRunning, DispatchRefused, HeartbeatLost, Unbegun,
         TypeInv, Good, Placed, Loose
<1>2. Synced \in Rows
  BY <1>1, SyncedGoes DEF RowGoes
<1>3. Good(Conclude("failed")) /\ Good(AttemptFails) /\ Good(At("launched"))
  BY <1>1, GoodConclude, GoodFails, GoodAt DEF Over, Ats, Activities
<1>4. CASE DispatchBegins
  <2> DEFINE c == IF Kind[wf.stage] = "action" THEN "action" ELSE "launch"
  <2>1. call' = [call EXCEPT ![Current] = c] /\ c \in {"launch", "action"}
    BY <1>4 DEF DispatchBegins
  <2> HIDE DEF c
  <2>2. call' \in Calls
    BY <1>1, <2>1 DEF Calls
  <2> QED
    BY <1>2, <1>4, <2>2 DEF DispatchBegins, TypeInv, aside
<1>5. CASE DispatchFindsRunning
  BY <1>2, <1>3, <1>5, OnWorkflow DEF DispatchFindsRunning
<1>6. CASE DispatchRefused
  BY <1>2, <1>3, <1>6, OnWorkflow DEF DispatchRefused
<1>7. CASE HeartbeatLost
  BY <1>1, <1>3, <1>7, OnWorkflow DEF HeartbeatLost
<1> QED
  BY <1>4, <1>5, <1>6, <1>7

\* What neither the workflow nor its calls do.
LEMMA BesideWorkflow ==
  ASSUME TypeInv, UNCHANGED kept, row' \in Rows, agent' \in Seq(AgentRecords),
         mail' \subseteq FramesOf(Len(agent')), poller' \in Pollers
  PROVE  TypeInv'
BY DEF TypeInv, kept

LEMMA AgentKeepsTypes ==
  ASSUME TypeInv, NEW i \in DOMAIN agent, AgentEnds(i) \/ AgentFails(i)
  PROVE  TypeInv'
<1>1. agent \in Seq(AgentRecords) /\ i \in 1..Len(agent)
  BY DEF TypeInv
<1>2. PICK state \in {"ended", "failed", "stuck"} : StateChanges(i, state)
  BY DEF AgentEnds, AgentFails, StateChanges
<1>3. agent' \in Seq(AgentRecords) /\ Len(agent') = Len(agent)
  BY <1>1, <1>2, AgentChanges
<1>4. mail' \subseteq FramesOf(Len(agent))
  <2>1. /\ mail \subseteq FramesOf(Len(agent))
        /\ mail \cup {[from |-> i, kind |-> "SessionEnd"]} \subseteq FramesOf(Len(agent))
        /\ mail \cup {[from |-> i, kind |-> "StopFailure"]} \subseteq FramesOf(Len(agent))
    BY <1>1, FramesFit DEF TypeInv
  <2> QED
    BY <2>1 DEF AgentEnds, AgentFails
<1>5. UNCHANGED <<kept, row, poller>>
  BY DEF AgentEnds, AgentFails
<1> QED
  BY <1>3, <1>4, <1>5, BesideWorkflow DEF TypeInv

LEMMA FrameKeepsTypes ==
  ASSUME TypeInv, NEW f \in mail, HookFrame(f) \/ FrameLost(f)
  PROVE  TypeInv'
<1>1. /\ UNCHANGED <<kept, agent, poller>> /\ mail' \subseteq mail
      /\ \/ StillRuns \/ Update("ready") \/ Update("failed") \/ UNCHANGED row
  BY DEF HookFrame, HookEnds, HookAtManual, HookTooLate, HookOver, FrameLost
<1>2. row \in Rows /\ "ready" \in RowStatuses /\ "failed" \in RowStatuses
  BY DEF TypeInv, RowStatuses, Over
<1>3. row' \in Rows
  BY <1>1, <1>2, StillRunsGoes, UpdateGoes DEF RowGoes
<1> QED
  BY <1>1, <1>3, BesideWorkflow DEF TypeInv

LEMMA PollKeepsTypes ==
  ASSUME TypeInv, PollStep \/ PollSeesExit \/ PollUnreachable
  PROVE  TypeInv'
<1>1. row \in Rows /\ poller \in Pollers
  BY DEF TypeInv
<1>2. "ready" \in RowStatuses /\ "failed" \in RowStatuses
  BY DEF RowStatuses, Over
<1>3. UNCHANGED <<kept, agent, mail>>
  BY DEF PollStep, PollJudges, PollWrites, PollSeesExit, PollUnreachable
<1>4. row' \in Rows /\ poller' \in Pollers
  <2>1. CASE PollSeesExit
    <3>1. poller' = [poller EXCEPT !.seen = Verdict(Last)] /\ Verdict(Last) \in Verdicts
      BY <2>1 DEF PollSeesExit, Verdict, Verdicts
    <3>2. poller' \in Pollers
      BY <1>1, <3>1 DEF Pollers
    <3> QED
      BY <1>1, <2>1, <3>2 DEF PollSeesExit
  <2>2. CASE PollJudges
    BY <1>1, <2>2 DEF PollJudges, Pollers, Verdicts
  <2>3. CASE PollWrites
    <3>1. poller.verdict \in {"ready", "failed"}
      BY <1>1, <2>3 DEF PollWrites, Pollers, Verdicts
    <3>2. row' \in Rows
      BY <1>1, <1>2, <2>3, <3>1, NoHandleGoes DEF PollWrites, RowGoes
    <3>3. poller' \in Pollers
      BY <1>1, <2>3 DEF PollWrites, Pollers, Verdicts
    <3> QED
      BY <3>2, <3>3
  <2>4. CASE PollUnreachable
    <3>1. poller' \in Pollers
      BY <1>1, <2>4 DEF PollUnreachable, Pollers
    <3>2. row' \in Rows
      BY <1>1, <1>2, <2>4, NoHandleGoes DEF PollUnreachable, RowGoes
    <3> QED
      BY <3>1, <3>2
  <2> QED
    BY <2>1, <2>2, <2>3, <2>4 DEF PollStep
<1> QED
  BY <1>3, <1>4, BesideWorkflow DEF TypeInv

LEMMA SignalsGood ==
  ASSUME TypeInv
  PROVE  Good([wf EXCEPT !.approved = TRUE]) /\ Good([wf EXCEPT !.rejected = TRUE])
<1>1. Goes([wf EXCEPT !.approved = TRUE], wf.at, wf.stage, wf.try, wf.result, TRUE)
  BY TypesOfWorkflow, ApprovedWritten
<1>2. Goes([wf EXCEPT !.rejected = TRUE], wf.at, wf.stage, wf.try, wf.result, wf.approved)
  BY TypesOfWorkflow, RejectedWritten
<1> QED
  BY <1>1, <1>2, TypesOfWorkflow DEF Goes, Good, Placed, Results

LEMMA OperatorKeepsTypes ==
  ASSUME TypeInv, Approve \/ Reject \/ StopRow \/ StopAgent \/ StopEnds
  PROVE  TypeInv'
<1>1. row \in Rows /\ "stopped" \in RowStatuses
  BY DEF TypeInv, RowStatuses, Over
<1>2. CASE Approve
  BY <1>2, SignalsGood DEF Approve, TypeInv
<1>3. CASE Reject
  BY <1>3, SignalsGood, OnWorkflow DEF Reject, TypeInv
<1>4. CASE StopRow
  BY <1>1, <1>4, NoHandleGoes, GoodTerminate, OnWorkflow DEF StopRow, RowGoes
<1>5. CASE StopAgent
  <2>1. Killed({i \in DOMAIN agent : i = Last /\ Lives(i) /\ pod.kept = "live"})
    BY <1>5 DEF StopAgent, Killed
  <2>2. agent' \in Seq(AgentRecords) /\ Len(agent') = Len(agent)
    BY <2>1, AgentsKilled DEF TypeInv
  <2> QED
    BY <1>5, <2>2, GoodTerminate DEF StopAgent, TypeInv
<1>6. CASE StopEnds
  BY <1>1, <1>6, NoHandleGoes DEF StopEnds, RowGoes, TypeInv
<1> QED
  BY <1>2, <1>3, <1>4, <1>5, <1>6

LEMMA FaultKeepsTypes ==
  ASSUME TypeInv, ActivityThrows \/ WorkerDies
  PROVE  TypeInv'
<1>1. Projected \in Rows /\ row \in Rows
  BY TypesOfWorkflow, ProjectedGoes DEF RowGoes, TypeInv
<1>2. CASE ActivityThrows
  BY <1>1, <1>2, GoodFails, OnWorkflow DEF ActivityThrows
<1>3. CASE WorkerDies
  <2>1. Good(At("closed")) /\ Good(AttemptFails) /\ Good(wf)
    BY GoodAt, GoodFails DEF TypeInv, Loose, Ats
  <2>2. call' \in Calls
    BY <1>3 DEF WorkerDies, TypeInv, Calls
  <2>3. poller' \in Pollers
    <3>1. poller' = [on |-> row.status = "running" /\ row.handle,
                     seen |-> "none", verdict |-> "none"]
      BY <1>3 DEF WorkerDies
    <3>2. (row.status = "running" /\ row.handle) \in BOOLEAN
      OBVIOUS
    <3> QED
      BY <3>1, <3>2, Zenon DEF Pollers, Verdicts
  <2> QED
    BY <1>1, <1>3, <2>1, <2>2, <2>3 DEF WorkerDies, TypeInv
<1> QED
  BY <1>2, <1>3

LEMMA TypesBegin == Init => TypeInv
<1> SUFFICES ASSUME Init PROVE TypeInv
  OBVIOUS
<1>1. Good(wf)
  <2>1. 1 \in 1..(LastStage + 1) /\ 1 \in Attempts /\ "begin" \in Ats /\ "none" \in WfResults
    BY FirstStage DEF Attempts, Ats, Activities, WfResults
  <2> QED
    BY <2>1 DEF Init, Good, Workflows, Placed, Loose
<1>2. row \in Rows /\ poller \in Pollers /\ pod \in Computes /\ call \in Calls
  BY DEF Init, Rows, RowStatuses, Pollers, Verdicts, Computes, Calls
<1>3. agent \in Seq(AgentRecords) /\ mail \subseteq FramesOf(Len(agent))
  BY DEF Init
<1> QED
  BY <1>1, <1>2, <1>3 DEF Init, TypeInv

LEMMA StepKeepsTypes == TypeInv /\ [SessionNext]_own => TypeInv'
<1> SUFFICES ASSUME TypeInv, [SessionNext]_own PROVE TypeInv'
  OBVIOUS
<1>1. CASE UNCHANGED own
  BY <1>1 DEF own, TypeInv
<1>2. CASE SessionNext
  BY <1>2, ActivityKeepsTypes, ComputeKeepsTypes, CallKeepsTypes, DispatchKeepsTypes,
     AgentKeepsTypes, FrameKeepsTypes, PollKeepsTypes, OperatorKeepsTypes, FaultKeepsTypes
     DEF SessionNext, Activity
<1> QED
  BY <1>1, <1>2

\* The branches, and what the session does beside them.
LEMMA BranchSteps ==
  ASSUME NEW b \in Branches, BranchStep(b) \/ BranchThrows(b)
  PROVE  /\ UNCHANGED own /\ Alive(b)
         /\ \E from \in {"begun", "dispatch", "works"}, to \in Spots, has \in {branch[b].pod, TRUE} :
              branch[b].at = from /\ branch' = [branch EXCEPT ![b] = [at |-> to, pod |-> has]]
<1>1. CASE BranchProvisions(b) \/ BranchLaunches(b)
  BY <1>1 DEF BranchProvisions, BranchLaunches, BranchGoes, Spots
<1>2. CASE BranchEnds(b)
  BY <1>2 DEF BranchEnds, BranchGoes, Spots
<1>3. CASE BranchThrows(b)
  BY <1>3 DEF BranchThrows, BranchGoes, Spots
<1> QED
  BY <1>1, <1>2, <1>3 DEF BranchStep

LEMMA SessionKeepsBranch ==
  ASSUME SessionNext
  PROVE  branch' = branch
<1>1. CASE Activity
  BY <1>1 DEF Activity, Begin, LoadFlow, LoadNoStages, Park, PassGate, RejectGate, FanOut, Join,
     JoinThrows, Provision, ProjectDispatching, MarkRunning, AwaitAnswers, AwaitTimesOut, Record,
     Finish, Reap, DispatchBegins, DispatchFindsRunning, DispatchRefused, Project, Learn, aside
<1>2. CASE \E d \in DOMAIN call : CallStep(d) \/ DispatchThrows(d)
  BY <1>2 DEF CallStep, LaunchFails, Spawn, Finalize, FinalizeTooLate, ActionSucceeds,
     ActionFails, DispatchThrows, aside
<1>3. CASE \/ PollStep \/ PollSeesExit \/ PollUnreachable
           \/ \E f \in mail : HookFrame(f) \/ FrameLost(f)
           \/ \E i \in DOMAIN agent : AgentEnds(i) \/ AgentFails(i)
  BY <1>3 DEF PollStep, PollJudges, PollWrites, PollSeesExit, PollUnreachable, HookFrame,
     HookEnds, HookAtManual, HookTooLate, HookOver, FrameLost, AgentEnds, AgentFails, kept
<1>4. CASE \/ LoadUnknown \/ ActivityThrows \/ ProvisionLost \/ ReapFails
           \/ HeartbeatLost \/ WorkerDies
  BY <1>4 DEF LoadUnknown, ActivityThrows, ProvisionLost, ReapFails, HeartbeatLost, WorkerDies,
     Learn, aside
<1>5. CASE Approve \/ Reject \/ StopRow \/ StopAgent \/ StopEnds
  BY <1>5 DEF Approve, Reject, StopRow, StopAgent, StopEnds, aside
<1> QED
  BY <1>1, <1>2, <1>3, <1>4, <1>5 DEF SessionNext

\* What is said of the session alone, a step of a branch leaves alone.
LEMMA SessionSteps == [Next]_vars => [SessionNext]_own
BY BranchSteps DEF Next, vars

LEMMA EveryStep ==
  ASSUME [Next]_vars
  PROVE  \/ [SessionNext]_own /\ branch' = branch
         \/ \E b \in Branches : BranchStep(b) \/ BranchThrows(b)
BY SessionKeepsBranch DEF Next, vars

LEMMA BranchTypesKept == BranchTypes /\ [Next]_vars => BranchTypes'
<1> SUFFICES ASSUME BranchTypes, [Next]_vars PROVE BranchTypes'
  OBVIOUS
<1>1. ASSUME NEW b \in Branches, BranchStep(b) \/ BranchThrows(b)
      PROVE  BranchTypes'
  <2>1. PICK to \in Spots, has \in {branch[b].pod, TRUE} :
          branch' = [branch EXCEPT ![b] = [at |-> to, pod |-> has]]
    BY <1>1, BranchSteps
  <2>2. has \in BOOLEAN
    BY DEF BranchTypes
  <2> QED
    BY <2>1, <2>2 DEF BranchTypes
<1> QED
  BY <1>1, EveryStep DEF BranchTypes

LEMMA BranchesAreTyped == Spec => []BranchTypes
<1>1. Init => BranchTypes
  BY DEF Init, BranchTypes, Spots
<1> QED
  BY <1>1, BranchTypesKept, PTL DEF Spec

LEMMA TypesAreSafe == Spec => []TypeInv
BY TypesBegin, StepKeepsTypes, SessionSteps, PTL DEF Spec

\* Whatever is thrown, fails, is lost or stopped, and however late calls,
\* frames and verdicts are: the workflow, the row, the calls, the agents, their
\* compute and the branches stay within their types, at a stage of the flow.
THEOREM WorkflowTypesHold == Spec => []TypeOK
<1>1. TypeInv /\ BranchTypes => TypeOK
  BY TypeInvIs
<1> QED
  BY <1>1, TypesAreSafe, BranchesAreTyped, PTL

---------------------------------------------------------------------------
(* A stop lasts                                                            *)

\* The workflow is gone, nothing was under way: no activity and no call is left
\* to write, a hook of a stopped session writes nothing, a verdict was not
\* parked, and a stop can only write what is there.
THEOREM StoppedStaysStopped == Spec => StopHolds
<1>1. ASSUME TypeInv, SessionNext, row.status = "stopped", wf.at = "gone", poller.verdict = "none",
             \A d \in DOMAIN call : call[d] \in {"none", "done"}
      PROVE  row'.status = "stopped"
  <2>1. row \in Rows /\ "stopped" \in Over /\ "stopped" \in RowStatuses
    BY <1>1 DEF TypeInv, Over, RowStatuses
  <2>2. ~Activity
    BY <1>1 DEF Activity, Begin, LoadFlow, LoadNoStages, Park, PassGate, RejectGate, FanOut, Join,
       JoinThrows, Provision, ProjectDispatching, MarkRunning, AwaitAnswers, AwaitTimesOut, Record,
       Finish, Reap, DispatchBegins, DispatchFindsRunning, DispatchRefused, Unbegun, Project, Learn
  <2>3. ~(LoadUnknown \/ JoinThrows \/ ActivityThrows \/ ProvisionLost \/ ReapFails \/ HeartbeatLost)
    BY <1>1 DEF LoadUnknown, JoinThrows, ActivityThrows, ProvisionLost, ReapFails, HeartbeatLost,
       Learn, Activities
  <2>4. \A d \in DOMAIN call : ~(CallStep(d) \/ DispatchThrows(d))
    BY <1>1 DEF CallStep, LaunchFails, Spawn, Finalize, FinalizeTooLate, ActionSucceeds,
       ActionFails, DispatchThrows
  <2>5. \A f \in mail : HookFrame(f) \/ FrameLost(f) => row' = row
    BY <1>1, <2>1 DEF HookFrame, HookEnds, HookAtManual, HookTooLate, FrameLost
  <2>6. \A i \in DOMAIN agent : AgentEnds(i) \/ AgentFails(i) => row' = row
    BY DEF AgentEnds, AgentFails
  <2>7. PollStep \/ PollSeesExit \/ PollUnreachable => row' = row
    BY <1>1 DEF PollStep, PollJudges, PollWrites, PollSeesExit, PollUnreachable
  <2>8. Approve \/ Reject \/ StopRow \/ StopAgent => row' = row
    BY <1>1, <2>1 DEF Approve, Reject, StopRow, StopAgent
  <2>9. StopEnds => row'.status = "stopped"
    BY <2>1, NoHandleGoes DEF StopEnds, RowGoes
  <2>10. WorkerDies => row' = row
    <3>1. Projected = row
      BY <1>1, TypesOfWorkflow, ProjectedGoes, <2>1 DEF Staging
    <3> QED
      BY <3>1 DEF WorkerDies
  <2> QED
    BY <1>1, <2>2, <2>3, <2>4, <2>5, <2>6, <2>7, <2>8, <2>9, <2>10 DEF SessionNext
<1>2. TypeInv /\ [SessionNext]_own
        => [row.status = "stopped" /\ wf.at = "gone" /\ poller.verdict = "none"
              /\ (\A d \in DOMAIN call : call[d] \in {"none", "done"})
              => row'.status = "stopped"]_vars
  BY <1>1 DEF own
<1> QED
  BY <1>2, TypesAreSafe, SessionSteps, PTL DEF Spec, StopHolds

---------------------------------------------------------------------------
(* The workflow's moves, and its gates                                     *)

\* From one activity of a stage to its next.
Edges ==
  {<<"begin", "load">>, <<"park", "gate">>, <<"fan_out", "join">>, <<"provision", "project">>,
   <<"project", "dispatch">>, <<"dispatch", "launched">>, <<"launched", "await">>,
   <<"conclude", "reap">>, <<"reap", "closed">>}

\* It stays with its stage: retries, goes on, ends, or has an outcome.
Remains(w) ==
  /\ w.stage = wf.stage /\ w.approved = wf.approved
  /\ \/ (w.at = wf.at \/ <<wf.at, w.at>> \in Edges) /\ w.result = wf.result
     \/ w.at = "conclude" /\ w.result # "completed"
     \/ w.at = "reap" /\ w.result = "thrown"
     \/ w.at = "record" /\ wf.at = "gate" /\ w.result = "rejected"
     \/ w.at = "record" /\ wf.at \in {"join", "await"}

\* It passes a gate, or enters a stage.
Passes ==
  /\ wf.at = "gate" /\ wf.approved
  /\ Goes(wf', "record", wf.stage, 1, "completed", FALSE)
Enters(s) ==
  /\ wf' = Enter(s)
  /\ \/ s = 1 /\ wf.at = "load"
     \/ s = wf.stage + 1 /\ wf.at = "record" /\ wf.result = "completed" /\ wf.stage \in Stages

\* It was terminated.
Vanishes(w) ==
  /\ w.stage = wf.stage /\ w.approved = wf.approved
  /\ w.at = "gone" /\ (w.result = "stopped" \/ (wf.at = "reap" /\ w.result = wf.result))

ActivityMoves ==
  /\ approvals' = approvals
  /\ \/ Remains(wf') \/ Passes
     \/ \E s \in 1..(LastStage + 1) : Enters(s)

WorkflowMoves ==
  \/ UNCHANGED <<wf, approvals>>
  \/ Goes(wf', wf.at, wf.stage, wf.try, wf.result, TRUE) /\ approvals' = approvals + 1
  \/ ActivityMoves
  \/ approvals' = approvals /\ Vanishes(wf')

LEMMA GoesRemains ==
  ASSUME NEW w, NEW at, NEW k, NEW result, Goes(w, at, wf.stage, k, result, wf.approved),
         \/ (at = wf.at \/ <<wf.at, at>> \in Edges) /\ result = wf.result
         \/ at = "conclude" /\ result # "completed"
         \/ at = "reap" /\ result = "thrown"
         \/ at = "record" /\ wf.at = "gate" /\ result = "rejected"
         \/ at = "record" /\ wf.at \in {"join", "await"}
  PROVE  Remains(w)
BY DEF Goes, Remains

LEMMA PlacesRemain ==
  ASSUME TypeInv
  PROVE  /\ \A at \in Ats : <<wf.at, at>> \in Edges => Remains(At(at))
         /\ \A result \in WfResults \ {"completed"} : Remains(Conclude(result))
         /\ \A result \in WfResults :
              wf.at \in {"join", "await"} \/ (wf.at = "gate" /\ result = "rejected")
                => Remains(Outcome(result))
         /\ Remains(Thrown) /\ Remains(AttemptFails)
<1>1. wf \in Workflows
  BY TypesOfWorkflow
<1>2. \A at \in Ats : <<wf.at, at>> \in Edges => Remains(At(at))
  BY <1>1, AtGoes, GoesRemains
<1>3. \A result \in WfResults \ {"completed"} : Remains(Conclude(result))
  <2> SUFFICES ASSUME NEW result \in WfResults \ {"completed"} PROVE Remains(Conclude(result))
    OBVIOUS
  <2>1. Goes(Conclude(result), "conclude", wf.stage, 1, result, wf.approved)
    BY <1>1, ConcludeGoes
  <2> QED
    BY <2>1 DEF Goes, Remains
<1>4. \A result \in WfResults :
        wf.at \in {"join", "await"} \/ (wf.at = "gate" /\ result = "rejected")
          => Remains(Outcome(result))
  <2> SUFFICES ASSUME NEW result \in WfResults,
                      wf.at \in {"join", "await"} \/ (wf.at = "gate" /\ result = "rejected")
               PROVE  Remains(Outcome(result))
    OBVIOUS
  <2>1. Goes(Outcome(result), "record", wf.stage, 1, result, wf.approved)
    BY <1>1, OutcomeGoes
  <2> QED
    BY <2>1 DEF Goes, Remains
<1>5. Remains(Thrown)
  BY <1>1, ThrownGoes DEF Goes, Remains
<1>6. Remains(AttemptFails)
  BY <1>1, FailsGoes DEF Goes, Remains
<1> QED
  BY <1>2, <1>3, <1>4, <1>5, <1>6

LEMMA ActivitiesMove ==
  ASSUME TypeInv,
         \/ Begin \/ LoadFlow \/ LoadNoStages \/ Park \/ PassGate \/ RejectGate
         \/ FanOut \/ Join \/ ProjectDispatching \/ MarkRunning
         \/ AwaitAnswers \/ AwaitTimesOut \/ Record \/ Finish
         \/ LoadUnknown \/ JoinThrows \/ Provision \/ ProvisionLost \/ Reap \/ ReapFails
  PROVE  ActivityMoves
<1>0. /\ wf \in Workflows /\ Ats = Ats \cup Activities
      /\ {"load", "gate", "join", "project", "dispatch", "await", "reap", "closed"} \subseteq Ats
      /\ {"failed", "completed", "rejected"} \cup Over \subseteq WfResults
  BY TypesOfWorkflow DEF Ats, Activities, WfResults, Over
<1>1. CASE \/ Begin \/ Park \/ FanOut \/ ProjectDispatching \/ MarkRunning \/ Finish
           \/ Provision \/ Reap \/ ReapFails
  <2>1. approvals' = approvals
    BY <1>1 DEF Begin, Park, FanOut, ProjectDispatching, MarkRunning, Finish, Provision, Reap,
       ReapFails, Project, aside
  <2>2. \E at \in Ats : <<wf.at, at>> \in Edges /\ wf' = At(at)
    BY <1>0, <1>1 DEF Begin, Park, FanOut, ProjectDispatching, MarkRunning, Finish, Provision,
       Reap, ReapFails, Project, Edges
  <2> QED
    BY <2>1, <2>2, PlacesRemain DEF ActivityMoves
<1>2. CASE LoadFlow
  BY <1>2, FirstStage DEF LoadFlow, Learn, aside, ActivityMoves, Enters
<1>3. CASE LoadNoStages \/ LoadUnknown \/ JoinThrows \/ ProvisionLost
  BY <1>0, <1>3, PlacesRemain
     DEF LoadNoStages, LoadUnknown, JoinThrows, ProvisionLost, Learn, aside, ActivityMoves
<1>4. CASE PassGate
  <2> DEFINE f == Outcome("completed")
  <2>1. wf.at = "gate" /\ wf.approved /\ wf' = [f EXCEPT !.approved = FALSE]
        /\ approvals' = approvals
    BY <1>4 DEF PassGate, Learn, aside
  <2>2. Goes(f, "record", wf.stage, 1, "completed", wf.approved)
    BY <1>0, OutcomeGoes
  <2> HIDE DEF f
  <2>3. Goes([f EXCEPT !.approved = FALSE], f.at, f.stage, f.try, f.result, FALSE)
    BY <2>2, ApprovedWritten, Zenon DEF Goes
  <2>4. Goes(wf', "record", wf.stage, 1, "completed", FALSE)
    BY <2>1, <2>2, <2>3 DEF Goes
  <2> QED
    BY <2>1, <2>4 DEF ActivityMoves, Passes
<1>5. CASE RejectGate
  BY <1>0, <1>5, PlacesRemain DEF RejectGate, Learn, aside, ActivityMoves
<1>6. CASE Join \/ AwaitTimesOut
  BY <1>0, <1>6, PlacesRemain DEF Join, AwaitTimesOut, Learn, aside, ActivityMoves
<1>7. CASE AwaitAnswers
  <2> DEFINE result == IF row.status = "ready" THEN "completed" ELSE row.status
  <2>1. result \in WfResults
    BY <1>0, <1>7 DEF AwaitAnswers, Settled
  <2>2. Learn("await", Outcome(result))
    BY <1>7 DEF AwaitAnswers
  <2> HIDE DEF result
  <2> QED
    BY <2>1, <2>2, PlacesRemain DEF Learn, aside, ActivityMoves
<1>8. CASE Record
  <2>1. wf.at = "record" /\ approvals' = approvals
    BY <1>8 DEF Record, Project, aside
  <2>2. wf.stage \in Stages /\ wf.stage + 1 \in 1..(LastStage + 1)
    BY <2>1, Flow DEF TypeInv, Good, Placed, Loose
  <2>3. wf.result \in WfResults
    BY TypesOfWorkflow
  <2>4. CASE wf.result = "completed"
    <3>1. wf' = Enter(wf.stage + 1)
      BY <1>8, <2>4 DEF Record, Project
    <3> QED
      BY <2>1, <2>2, <2>4, <3>1 DEF ActivityMoves, Enters
  <2>5. CASE wf.result # "completed"
    <3>1. wf' = Conclude("failed") \/ wf' = Conclude(wf.result)
      BY <1>8, <2>5 DEF Record, Project
    <3> QED
      BY <1>0, <2>1, <2>3, <2>5, <3>1, PlacesRemain DEF ActivityMoves
  <2> QED
    BY <2>4, <2>5
<1> QED
  BY <1>1, <1>2, <1>3, <1>4, <1>5, <1>6, <1>7, <1>8

LEMMA EveryMove == TypeInv /\ [SessionNext]_own => WorkflowMoves
<1> SUFFICES ASSUME TypeInv, [SessionNext]_own PROVE WorkflowMoves
  OBVIOUS
<1>0. wf \in Workflows /\ "failed" \in WfResults /\ {"launched", "closed"} \subseteq Ats
  BY TypesOfWorkflow DEF WfResults, Over, Ats, Activities
<1>1. ASSUME NEW d \in DOMAIN call, CallStep(d) \/ DispatchThrows(d)
      PROVE  WorkflowMoves
  <2>1. approvals' = approvals
    BY <1>1 DEF CallStep, LaunchFails, Spawn, Finalize, FinalizeTooLate, ActionSucceeds,
       ActionFails, DispatchThrows, aside
  <2>2. \/ wf' = wf \/ wf' = Conclude("failed") \/ wf' = AttemptFails
        \/ wf.at = "dispatch" /\ wf' = At("launched")
    BY <1>1 DEF CallStep, LaunchFails, Spawn, Finalize, FinalizeTooLate, ActionSucceeds,
       ActionFails, DispatchThrows, Answers
  <2> QED
    BY <1>0, <2>1, <2>2, PlacesRemain DEF WorkflowMoves, ActivityMoves, Edges
<1>2. CASE DispatchBegins \/ DispatchFindsRunning \/ DispatchRefused \/ HeartbeatLost
  BY <1>0, <1>2, PlacesRemain DEF DispatchBegins, DispatchFindsRunning, DispatchRefused,
     HeartbeatLost, Unbegun, aside, WorkflowMoves, ActivityMoves, Edges
<1>3. ASSUME \/ \E f \in mail : HookFrame(f) \/ FrameLost(f)
             \/ \E i \in DOMAIN agent : AgentEnds(i) \/ AgentFails(i)
             \/ PollStep \/ PollSeesExit \/ PollUnreachable \/ StopEnds
      PROVE  UNCHANGED <<wf, approvals>>
  BY <1>3 DEF HookFrame, HookEnds, HookAtManual, HookTooLate, HookOver, FrameLost, AgentEnds,
     AgentFails, PollStep, PollJudges, PollWrites, PollSeesExit, PollUnreachable, StopEnds, kept
<1>4. CASE Approve
  BY <1>0, <1>4, ApprovedWritten DEF Approve, WorkflowMoves
<1>5. CASE Reject
  <2>1. Goes(wf', wf.at, wf.stage, wf.try, wf.result, wf.approved) /\ approvals' = approvals
    BY <1>0, <1>5, RejectedWritten DEF Reject, aside
  <2> QED
    BY <2>1 DEF Goes, Remains, WorkflowMoves, ActivityMoves
<1>6. CASE StopRow \/ StopAgent
  <2>1. Terminate /\ approvals' = approvals
    BY <1>6 DEF StopRow, StopAgent, aside
  <2>2. "gone" \in Ats /\ "stopped" \in WfResults
    BY DEF Ats, WfResults, Over
  <2>3. CASE wf' = wf
    BY <2>1, <2>3 DEF WorkflowMoves
  <2>4. CASE wf' = At("gone") /\ wf.at = "reap"
    <3>1. Goes(wf', "gone", wf.stage, 1, wf.result, wf.approved)
      BY <1>0, <2>2, <2>4, AtGoes
    <3> QED
      BY <2>1, <2>4, <3>1 DEF Goes, Vanishes, WorkflowMoves
  <2>5. CASE wf' = [At("gone") EXCEPT !.result = "stopped"]
    <3>1. Goes(wf', "gone", wf.stage, 1, "stopped", wf.approved)
      BY <1>0, <2>2, <2>5, ResultGoes
    <3> QED
      BY <2>1, <3>1 DEF Goes, Vanishes, WorkflowMoves
  <2> QED
    BY <2>1, <2>3, <2>4, <2>5 DEF Terminate
<1>7. CASE ActivityThrows
  BY <1>7, PlacesRemain DEF ActivityThrows, aside, WorkflowMoves, ActivityMoves
<1>8. CASE WorkerDies
  BY <1>0, <1>8, PlacesRemain DEF WorkerDies, Edges, WorkflowMoves, ActivityMoves
<1>9. CASE UNCHANGED own
  BY <1>9 DEF own, WorkflowMoves
<1>10. CASE SessionNext
  BY <1>1, <1>2, <1>3, <1>4, <1>5, <1>6, <1>7, <1>8, <1>10, ActivitiesMove
     DEF SessionNext, Activity, WorkflowMoves, ActivityMoves
<1> QED
  BY <1>9, <1>10

\* What the workflow does fits the kind of its stage.
Fits(w) ==
  /\ w.at \in {"park", "gate"} => KindOf(w.stage) \in Gates
  /\ w.at \in {"fan_out", "join"} => KindOf(w.stage) = "fan_out"
  /\ w.at \in {"provision", "project", "dispatch", "launched", "await"}
       => KindOf(w.stage) \in {"agent", "action"}

LEMMA FitsBegin == Init => Fits(wf)
BY DEF Init, Fits

LEMMA FitsStep ==
  ASSUME TypeInv, Fits(wf), WorkflowMoves
  PROVE  Fits(wf')
<1>1. CASE wf' = wf
  BY <1>1 DEF Fits
<1>2. CASE Goes(wf', wf.at, wf.stage, wf.try, wf.result, TRUE)
  BY <1>2 DEF Goes, Fits
<1>3. CASE Passes
  BY <1>3 DEF Passes, Goes, Fits
<1>4. ASSUME NEW s \in 1..(LastStage + 1), Enters(s)
      PROVE  Fits(wf')
  <2>1. CASE Goes(wf', "conclude", s, 1, "completed", wf.approved)
    BY <2>1 DEF Goes, Fits
  <2>2. ASSUME NEW at \in {"park", "fan_out", "provision"}, s \in Stages,
               Goes(wf', at, s, 1, wf.result, wf.approved),
               at = "park" => Kind[s] \in Gates, at = "fan_out" => Kind[s] = "fan_out",
               at = "provision" => Kind[s] \in {"agent", "action"}
        PROVE  Fits(wf')
    BY <2>2, Flow DEF Goes, Fits
  <2> QED
    BY <1>4, <2>1, <2>2, TypesOfWorkflow, EnterGoes DEF Enters
<1>5. CASE Remains(wf')
  <2>1. wf'.stage = wf.stage /\ (wf'.at = wf.at \/ <<wf.at, wf'.at>> \in Edges
                                  \/ wf'.at \in {"conclude", "reap", "record"})
    BY <1>5 DEF Remains
  <2> QED
    BY <2>1 DEF Fits, Edges
<1>6. CASE Vanishes(wf')
  BY <1>6 DEF Vanishes, Fits
<1> QED
  BY <1>1, <1>2, <1>3, <1>4, <1>5, <1>6 DEF WorkflowMoves, ActivityMoves

PassedGates(n) == {s \in Stages : s < n /\ Kind[s] \in Gates}

\* The approvals that what the workflow has passed, is passing and keeps for
\* the next gate has cost.
Passing(w) == w.at = "record" /\ w.result = "completed" /\ KindOf(w.stage) \in Gates
Cost(w) ==
  Cardinality(PassedGates(w.stage)) + (IF Passing(w) THEN 1 ELSE 0) + (IF w.approved THEN 1 ELSE 0)

GateInv == TypeInv /\ Fits(wf) /\ Cost(wf) <= approvals

LEMMA GatesCounted ==
  /\ \A n \in Nat : IsFiniteSet(PassedGates(n)) /\ Cardinality(PassedGates(n)) \in Nat
  /\ PassedGates(1) = {}
  /\ \A n \in Stages : Cardinality(PassedGates(n + 1))
       = Cardinality(PassedGates(n)) + (IF Kind[n] \in Gates THEN 1 ELSE 0)
<1>1. IsFiniteSet(Stages)
  BY Flow, FS_Interval
<1>2. \A n \in Nat : IsFiniteSet(PassedGates(n)) /\ Cardinality(PassedGates(n)) \in Nat
  <2> SUFFICES ASSUME NEW n \in Nat
               PROVE  IsFiniteSet(PassedGates(n)) /\ Cardinality(PassedGates(n)) \in Nat
    OBVIOUS
  <2>1. IsFiniteSet(PassedGates(n))
    BY <1>1, FS_Subset DEF PassedGates
  <2> QED
    BY <2>1, FS_CardinalityType
<1>3. PassedGates(1) = {}
  BY Flow DEF PassedGates
<1>4. ASSUME NEW n \in Stages
      PROVE  Cardinality(PassedGates(n + 1))
               = Cardinality(PassedGates(n)) + (IF Kind[n] \in Gates THEN 1 ELSE 0)
  <2>1. n \in Nat /\ n \notin PassedGates(n)
    BY Flow DEF PassedGates
  <2>2. CASE Kind[n] \in Gates
    <3>1. PassedGates(n + 1) = PassedGates(n) \cup {n}
      BY <1>4, <2>2, Flow DEF PassedGates
    <3> QED
      BY <1>2, <2>1, <2>2, <3>1, FS_AddElement
  <2>3. CASE Kind[n] \notin Gates
    <3>1. PassedGates(n + 1) = PassedGates(n)
      BY <1>4, <2>3, Flow DEF PassedGates
    <3>2. Cardinality(PassedGates(n)) \in Nat
      BY <1>2, <2>1
    <3> QED
      BY <2>3, <3>1, <3>2
  <2> QED
    BY <2>2, <2>3
<1> QED
  BY <1>2, <1>3, <1>4

LEMMA GatesBegin == Init => GateInv
<1> SUFFICES ASSUME Init PROVE GateInv
  OBVIOUS
<1>1. Cost(wf) = 0 /\ approvals = 0
  <2>1. Cardinality(PassedGates(1)) = 0
    BY GatesCounted, FS_EmptySet
  <2> QED
    BY <2>1 DEF Init, Cost, Passing
<1> QED
  BY <1>1, TypesBegin, FitsBegin DEF GateInv

LEMMA GatesStep ==
  ASSUME GateInv, [SessionNext]_own
  PROVE  GateInv'
<1>0. TypeInv /\ Fits(wf) /\ WorkflowMoves
  BY EveryMove DEF GateInv
<1>1. TypeInv' /\ Fits(wf')
  BY <1>0, StepKeepsTypes, FitsStep
<1> DEFINE c == Cardinality(PassedGates(wf.stage))
<1>2. c \in Nat /\ approvals \in Nat /\ wf.stage \in Nat
  BY <1>0, TypesOfWorkflow, GatesCounted DEF TypeInv
<1>3. Cost(wf) = c + (IF Passing(wf) THEN 1 ELSE 0) + (IF wf.approved THEN 1 ELSE 0)
  BY DEF Cost
<1>4. Cost(wf) <= approvals
  BY DEF GateInv
<1>5. CASE UNCHANGED <<wf, approvals>>
  <2>1. Cost(wf') = Cost(wf)
    BY <1>5
  <2> QED
    BY <1>1, <1>4, <1>5, <2>1 DEF GateInv
<1>6. CASE Goes(wf', wf.at, wf.stage, wf.try, wf.result, TRUE) /\ approvals' = approvals + 1
  <2>1. wf'.stage = wf.stage /\ wf'.at = wf.at /\ wf'.result = wf.result /\ wf'.approved
    BY <1>6 DEF Goes
  <2>2. Cost(wf') = c + (IF Passing(wf) THEN 1 ELSE 0) + 1
    BY <2>1 DEF Cost, Passing
  <2> HIDE DEF c
  <2>3. Cost(wf') <= approvals + 1
    BY <1>2, <1>3, <1>4, <2>2
  <2> QED
    BY <1>1, <1>6, <2>3 DEF GateInv
<1>7. CASE (Remains(wf') \/ Vanishes(wf')) /\ approvals' = approvals
  <2>1. wf'.stage = wf.stage /\ wf'.approved = wf.approved
    BY <1>7 DEF Remains, Vanishes
  <2>2. Passing(wf') => Passing(wf)
    BY <1>0, <1>7 DEF Remains, Vanishes, Passing, Fits, Edges, Gates
  <2>3. Cost(wf') = c + (IF Passing(wf') THEN 1 ELSE 0) + (IF wf.approved THEN 1 ELSE 0)
    BY <2>1 DEF Cost
  <2> HIDE DEF c
  <2>4. Cost(wf') <= approvals
    BY <1>2, <1>3, <1>4, <2>2, <2>3
  <2> QED
    BY <1>1, <1>7, <2>4 DEF GateInv
<1>8. CASE Passes /\ approvals' = approvals
  <2>1. wf.at = "gate" /\ wf.approved /\ wf'.stage = wf.stage /\ ~wf'.approved
    BY <1>8 DEF Passes, Goes
  <2>2. Cost(wf') = c + (IF Passing(wf') THEN 1 ELSE 0) + 0
    BY <2>1 DEF Cost
  <2>3. Cost(wf) = c + 0 + 1
    BY <2>1 DEF Cost, Passing
  <2> HIDE DEF c
  <2>4. Cost(wf') <= approvals
    BY <1>2, <1>4, <2>2, <2>3
  <2> QED
    BY <1>1, <1>8, <2>4 DEF GateInv
<1>9. ASSUME NEW s \in 1..(LastStage + 1), Enters(s), approvals' = approvals
      PROVE  GateInv'
  <2>1. wf'.stage = s /\ wf'.at # "record" /\ wf'.approved = wf.approved
    BY <1>0, <1>9, TypesOfWorkflow, EnterGoes DEF Enters, Goes
  <2>2. Cost(wf') = Cardinality(PassedGates(s)) + 0 + (IF wf.approved THEN 1 ELSE 0)
    BY <2>1 DEF Cost, Passing
  <2>3. Cardinality(PassedGates(s)) <= c + (IF Passing(wf) THEN 1 ELSE 0)
    <3>1. CASE s = 1
      <4>1. Cardinality(PassedGates(s)) = 0
        BY <3>1, GatesCounted, FS_EmptySet
      <4> HIDE DEF c
      <4> QED
        BY <1>2, <4>1
    <3>2. CASE /\ s = wf.stage + 1 /\ wf.at = "record" /\ wf.result = "completed"
               /\ wf.stage \in Stages
      <4>1. Cardinality(PassedGates(s)) = c + (IF Kind[wf.stage] \in Gates THEN 1 ELSE 0)
        BY <3>2, GatesCounted
      <4>2. Passing(wf) <=> Kind[wf.stage] \in Gates
        BY <3>2, Flow DEF Passing
      <4> HIDE DEF c
      <4> QED
        BY <1>2, <4>1, <4>2
    <3> QED
      BY <1>9, <3>1, <3>2 DEF Enters
  <2>4. Cardinality(PassedGates(s)) \in Nat
    BY GatesCounted
  <2> HIDE DEF c
  <2>5. Cost(wf') <= approvals
    BY <1>2, <1>3, <1>4, <2>2, <2>3, <2>4
  <2> QED
    BY <1>1, <1>9, <2>5 DEF GateInv
<1> QED
  BY <1>0, <1>5, <1>6, <1>7, <1>8, <1>9 DEF WorkflowMoves, ActivityMoves

LEMMA GatesArePaid == Spec => []GateInv
BY GatesBegin, GatesStep, SessionSteps, PTL DEF Spec

\* However many gates a flow has: signals that come early, twice or while a gate
\* is being left, retries and dead workers never get the workflow past more
\* gates than there were approvals.
THEOREM EveryGateIsApproved == Spec => []GatesNeedApproval
<1>1. GateInv => GatesNeedApproval
  <2> SUFFICES ASSUME GateInv PROVE Cardinality(PassedGates(wf.stage)) <= approvals
    BY DEF GatesNeedApproval, PassedGates
  <2> DEFINE c == Cardinality(PassedGates(wf.stage))
  <2>0. TypeInv
    BY DEF GateInv
  <2>1. c \in Nat /\ approvals \in Nat
    <3>1. wf.stage \in Nat
      BY <2>0, TypesOfWorkflow, Flow
    <3>2. c \in Nat
      BY <3>1, GatesCounted
    <3> QED
      BY <2>0, <3>2 DEF TypeInv
  <2>2. c + (IF Passing(wf) THEN 1 ELSE 0) + (IF wf.approved THEN 1 ELSE 0) <= approvals
    BY DEF GateInv, Cost
  <2> HIDE DEF c
  <2>3. c <= approvals
    BY <2>1, <2>2
  <2> QED
    BY <2>3 DEF c
<1> QED
  BY <1>1, GatesArePaid, PTL

---------------------------------------------------------------------------
(* The steps by kind                                                       *)

UnderWay(d) == call[d] \in {"launch", "action", "finalize"}

\* The steps of the workflow outside of its dispatches.
ActivityStep ==
  \/ Begin \/ LoadFlow \/ LoadNoStages \/ Park \/ PassGate \/ RejectGate
  \/ FanOut \/ Join \/ Provision \/ ProjectDispatching \/ MarkRunning
  \/ AwaitAnswers \/ AwaitTimesOut \/ Record \/ Finish \/ Reap
  \/ LoadUnknown \/ JoinThrows \/ ActivityThrows \/ ProvisionLost \/ ReapFails

\* Those of its attempts to dispatch, where they do not wait for a call.
DispatchStep == DispatchBegins \/ DispatchFindsRunning \/ DispatchRefused

\* Hooks, verdicts, and what the agents do by themselves.
OutsideStep ==
  \/ PollStep \/ PollSeesExit \/ PollUnreachable
  \/ \E f \in mail : HookFrame(f) \/ FrameLost(f)
  \/ \E i \in DOMAIN agent : AgentEnds(i) \/ AgentFails(i)

Signal == Approve \/ Reject
Stop == StopRow \/ StopAgent

LEMMA StepKinds ==
  ASSUME [SessionNext]_own
  PROVE  \/ UNCHANGED own \/ ActivityStep \/ DispatchStep \/ OutsideStep \/ Signal \/ Stop
         \/ StopEnds \/ HeartbeatLost \/ WorkerDies
         \/ \E d \in DOMAIN call : CallStep(d) \/ DispatchThrows(d)
BY DEF SessionNext, Activity, ActivityStep, DispatchStep, OutsideStep, Signal, Stop

LEMMA ActivityShape ==
  ASSUME ActivityStep
  PROVE  /\ wf.at \notin {"dispatch", "gone", "closed"}
         /\ UNCHANGED <<world, call, mail, poller, approvals, stopping>>
         /\ row' \in {row, Projected}
<1>1. CASE \/ Begin \/ Park \/ FanOut \/ ProjectDispatching \/ MarkRunning \/ Record \/ Finish
  BY <1>1 DEF Begin, Park, FanOut, ProjectDispatching, MarkRunning, Record, Finish, Project, aside
<1>2. CASE \/ LoadFlow \/ LoadNoStages \/ PassGate \/ RejectGate \/ Join \/ AwaitAnswers
           \/ AwaitTimesOut \/ LoadUnknown \/ JoinThrows
  BY <1>2 DEF LoadFlow, LoadNoStages, PassGate, RejectGate, Join, AwaitAnswers, AwaitTimesOut,
     LoadUnknown, JoinThrows, Learn, aside
<1>3. CASE Provision \/ ProvisionLost \/ Reap \/ ReapFails
  BY <1>3 DEF Provision, ProvisionLost, Reap, ReapFails, aside
<1>4. CASE ActivityThrows
  BY <1>4 DEF ActivityThrows, Activities, aside
<1> QED
  BY <1>1, <1>2, <1>3, <1>4 DEF ActivityStep

LEMMA OutsideShape ==
  ASSUME OutsideStep
  PROVE  UNCHANGED <<world, wf, call, pod, approvals, stopping>>
BY DEF OutsideStep, PollStep, PollJudges, PollWrites, PollSeesExit, PollUnreachable, HookFrame,
   HookEnds, HookAtManual, HookTooLate, HookOver, FrameLost, AgentEnds, AgentFails, kept

LEMMA SignalShape ==
  ASSUME TypeInv, Signal
  PROVE  /\ UNCHANGED <<world, row, call, agent, mail, poller, pod, stopping>>
         /\ wf'.at = wf.at /\ wf'.stage = wf.stage /\ wf'.try = wf.try /\ wf'.result = wf.result
<1>1. wf \in Workflows
  BY TypesOfWorkflow
<1>2. CASE Approve
  <2>1. Goes(wf', wf.at, wf.stage, wf.try, wf.result, TRUE)
    BY <1>1, <1>2, ApprovedWritten DEF Approve
  <2> QED
    BY <1>2, <2>1 DEF Approve, Goes
<1>3. CASE Reject
  <2>1. Goes(wf', wf.at, wf.stage, wf.try, wf.result, wf.approved)
    BY <1>1, <1>3, RejectedWritten DEF Reject
  <2> QED
    BY <1>3, <2>1 DEF Reject, aside, Goes
<1> QED
  BY <1>2, <1>3 DEF Signal

\* A call goes on, or is over and what its attempt hears is wf'.
LEMMA CallShape ==
  ASSUME TypeInv, NEW d \in DOMAIN call, CallStep(d) \/ DispatchThrows(d)
  PROVE  /\ UnderWay(d) /\ UNCHANGED <<world, pod, approvals, stopping>>
         /\ \/ Spawn(d) /\ wf' = wf /\ call' = [call EXCEPT ![d] = "finalize"]
            \/ /\ call' = [call EXCEPT ![d] = "done"] /\ UNCHANGED <<agent, mail>>
               /\ ~(wf.at = "dispatch" /\ d = Current) => wf' = wf
BY DEF CallStep, LaunchFails, Spawn, Finalize, FinalizeTooLate, ActionSucceeds,
   ActionFails, DispatchThrows, UnderWay, Answers, aside

\* What an activity may do, by where its workflow is.
LEMMA ActivityAt ==
  ASSUME ActivityStep
  PROVE  /\ wf.at = "await" => AwaitAnswers \/ AwaitTimesOut \/ ActivityThrows
         /\ wf.at = "project" => ProjectDispatching \/ ActivityThrows
         /\ wf.at = "launched" => MarkRunning \/ ActivityThrows
         /\ wf.at = "reap" => Reap \/ ReapFails
BY DEF ActivityStep, Begin, LoadFlow, LoadNoStages, Park, PassGate, RejectGate, FanOut,
   Join, Provision, ProjectDispatching, MarkRunning, AwaitAnswers, AwaitTimesOut, Record, Finish,
   Reap, LoadUnknown, JoinThrows, ActivityThrows, Activities, ProvisionLost, ReapFails, Project,
   Learn

---------------------------------------------------------------------------
(* The branches of a fan-out                                               *)

Ends == {"reap", "closed", "gone"}

\* A branch is under way, or over by an exception, only while its parent waits
\* for it, was terminated, or has thrown over one.
AtWork(b) == branch[b].at \in {"dispatch", "works", "thrown"}
Owned ==
  \A b \in Branches : AtWork(b) =>
    /\ b[1] = wf.stage
    /\ wf.at \in {"join", "gone"} \/ (wf.at \in {"reap", "closed"} /\ wf.result = "thrown")

\* A fan-out is left, or about to be, with every branch completed.
Passed(s) == s < wf.stage \/ (s = wf.stage /\ wf.at = "record" /\ wf.result = "completed")
Gathered == \A b \in Branches : Passed(b[1]) => branch[b].at = "completed"

BranchInv == TypeInv /\ Fits(wf) /\ BranchTypes /\ Owned /\ Gathered

LEMMA BranchesBegin == Init => BranchInv
<1> SUFFICES ASSUME Init PROVE BranchInv
  OBVIOUS
<1>1. \A b \in Branches : b[1] \in 1..LastStage /\ branch[b].at = "begun"
  BY WorkflowAssumption, Flow DEF Init
<1>2. wf.stage = 1 /\ wf.at = "begin"
  BY DEF Init
<1>3. BranchTypes
  BY DEF Init, BranchTypes, Spots
<1> QED
  BY <1>1, <1>2, <1>3, TypesBegin, FitsBegin DEF BranchInv, Owned, AtWork, Gathered, Passed

\* A workflow that ends stays at its end, and keeps its outcome.
LEMMA EndsRest ==
  ASSUME TypeInv, [SessionNext]_own, wf.at \in Ends
  PROVE  /\ wf'.at \in Ends /\ wf'.stage = wf.stage /\ wf'.result = wf.result
         /\ wf.at = "gone" => wf'.at = "gone"
<1>0. wf \in Workflows
  BY TypesOfWorkflow
<1>1. CASE UNCHANGED own \/ OutsideStep \/ StopEnds
  BY <1>1, OutsideShape DEF own, StopEnds
<1>2. CASE ActivityStep
  <2>1. wf' = At("closed") /\ wf.at # "gone"
    BY <1>2, ActivityShape, ActivityAt DEF Ends, Reap, ReapFails
  <2> QED
    BY <1>0, <2>1, AtGoes DEF Goes, Ats, Ends
<1>3. ~DispatchStep /\ ~HeartbeatLost
  BY DEF DispatchStep, DispatchBegins, DispatchFindsRunning, DispatchRefused, Unbegun,
     HeartbeatLost, Ends
<1>4. CASE Signal
  BY <1>4, SignalShape
<1>5. CASE Stop
  <2>1. wf' = wf \/ (wf.at = "reap" /\ wf' = At("gone"))
    BY <1>5 DEF Stop, StopRow, StopAgent, Terminate, Open, Ends
  <2> QED
    BY <1>0, <2>1, AtGoes DEF Goes, Ats, Ends
<1>6. CASE WorkerDies
  <2>1. wf' = wf \/ (wf.at = "reap" /\ wf' = At("closed"))
    BY <1>6 DEF WorkerDies, Ends, Activities
  <2> QED
    BY <1>0, <2>1, AtGoes DEF Goes, Ats, Ends
<1>7. ASSUME NEW d \in DOMAIN call, CallStep(d) \/ DispatchThrows(d)
      PROVE  wf' = wf
  BY <1>7, CallShape DEF Ends
<1> QED
  BY <1>1, <1>2, <1>3, <1>4, <1>5, <1>6, <1>7, StepKinds

\* A workflow that waits for its branches goes on by their answers, by a throw,
\* or is terminated.
LEMMA JoinEnds ==
  ASSUME TypeInv, [SessionNext]_own, wf.at = "join"
  PROVE  \/ wf'.at \in {"join", "gone"} /\ wf'.stage = wf.stage
         \/ Join \/ JoinThrows
<1>1. CASE UNCHANGED own \/ OutsideStep \/ StopEnds
  BY <1>1, OutsideShape DEF own, StopEnds
<1>2. CASE ActivityStep
  BY <1>2 DEF ActivityStep, Begin, LoadFlow, LoadNoStages, Park, PassGate, RejectGate, FanOut,
     Provision, ProjectDispatching, MarkRunning, AwaitAnswers, AwaitTimesOut, Record, Finish,
     Reap, LoadUnknown, ActivityThrows, Activities, ProvisionLost, ReapFails, Project, Learn
<1>3. ~DispatchStep /\ ~HeartbeatLost
  BY DEF DispatchStep, DispatchBegins, DispatchFindsRunning, DispatchRefused, Unbegun,
     HeartbeatLost
<1>4. CASE Signal
  BY <1>4, SignalShape
<1>5. CASE Stop
  BY <1>5, GoodTerminate DEF Stop, StopRow, StopAgent
<1>6. CASE WorkerDies
  BY <1>6 DEF WorkerDies, Activities
<1>7. ASSUME NEW d \in DOMAIN call, CallStep(d) \/ DispatchThrows(d)
      PROVE  wf' = wf
  BY <1>7, CallShape
<1> QED
  BY <1>1, <1>2, <1>3, <1>4, <1>5, <1>6, <1>7, StepKinds

\* Both ways out of the join, by their fields.
LEMMA JoinGoes ==
  ASSUME TypeInv
  PROVE  /\ Join => /\ wf'.at = "record" /\ wf'.stage = wf.stage
                    /\ \A b \in Siblings : branch[b].at \in {"completed", "failed"}
                    /\ wf'.result = "completed" => \A b \in Siblings : branch[b].at = "completed"
         /\ JoinThrows => wf'.at = "reap" /\ wf'.stage = wf.stage /\ wf'.result = "thrown"
<1>0. wf \in Workflows /\ {"completed", "failed"} \subseteq WfResults
  BY TypesOfWorkflow DEF WfResults, Over
<1>1. CASE Join
  <2> DEFINE result == IF \A b \in Siblings : branch[b].at = "completed"
                       THEN "completed" ELSE "failed"
  <2>1. result \in WfResults /\ wf' = Outcome(result)
    BY <1>0, <1>1 DEF Join, Learn
  <2>2. result = "completed" => \A b \in Siblings : branch[b].at = "completed"
    OBVIOUS
  <2> HIDE DEF result
  <2>3. Goes(wf', "record", wf.stage, 1, result, wf.approved)
    BY <1>0, <2>1, OutcomeGoes
  <2> QED
    BY <1>1, <2>2, <2>3 DEF Goes, Join, JoinThrows, Learn
<1>2. CASE JoinThrows
  BY <1>0, <1>2, ThrownGoes DEF JoinThrows, Join, Learn, Goes
<1> QED
  BY <1>1, <1>2

LEMMA OwnedStep ==
  ASSUME BranchInv, [SessionNext]_own, branch' = branch
  PROVE  Owned'
<1> SUFFICES ASSUME NEW b \in Branches, AtWork(b)
             PROVE  /\ b[1] = wf'.stage
                    /\ \/ wf'.at \in {"join", "gone"}
                       \/ wf'.at \in {"reap", "closed"} /\ wf'.result = "thrown"
  BY DEF Owned, AtWork
<1>0. TypeInv /\ b[1] = wf.stage
      /\ (wf.at \in {"join", "gone"} \/ (wf.at \in {"reap", "closed"} /\ wf.result = "thrown"))
  BY DEF BranchInv, Owned
<1>1. CASE wf.at = "join"
  <2>1. b \in Siblings /\ branch[b].at \notin {"completed", "failed"}
    BY <1>0 DEF Siblings, AtWork
  <2> QED
    BY <1>0, <1>1, <2>1, JoinEnds, JoinGoes
<1>2. CASE wf.at \in Ends
  BY <1>0, <1>2, EndsRest DEF Ends
<1> QED
  BY <1>0, <1>1, <1>2 DEF Ends

\* Who completes a stage: a gate, an agent or action, or all the branches.
LEMMA Completing ==
  ASSUME BranchInv, [SessionNext]_own, wf'.at = "record", wf'.result = "completed",
         NEW b \in Branches, b[1] = wf'.stage
  PROVE  branch[b].at = "completed"
<1>0. /\ TypeInv /\ Fits(wf) /\ WorkflowMoves /\ Gathered /\ wf \in Workflows
      /\ b[1] \in Stages /\ KindOf(b[1]) = "fan_out"
  BY EveryMove, TypesOfWorkflow, WorkflowAssumption DEF BranchInv, KindOf
<1>1. CASE wf.at = "record" /\ wf.result = "completed" /\ wf'.stage = wf.stage
  BY <1>0, <1>1 DEF Gathered, Passed
<1>2. CASE wf.at = "join"
  BY <1>0, <1>2, JoinEnds, JoinGoes DEF Siblings
<1>3. ~ \E s \in 1..(LastStage + 1) : Enters(s)
  BY <1>0, EnterGoes DEF Enters, Goes
<1>4. ~Passes /\ ~Vanishes(wf')
  BY <1>0 DEF Passes, Goes, Vanishes, Fits, Gates
<1>5. CASE Remains(wf')
  BY <1>0, <1>1, <1>2, <1>5 DEF Remains, Edges, Fits
<1>6. CASE wf' = wf \/ Goes(wf', wf.at, wf.stage, wf.try, wf.result, TRUE)
  BY <1>1, <1>6 DEF Goes
<1> QED
  BY <1>0, <1>3, <1>4, <1>5, <1>6 DEF WorkflowMoves, ActivityMoves

\* Stages are left behind one at a time.
LEMMA StageLeft ==
  ASSUME TypeInv, [SessionNext]_own
  PROVE  \/ wf'.stage = wf.stage
         \/ wf.at = "load" /\ wf'.stage = 1
         \/ /\ wf.at = "record" /\ wf.result = "completed" /\ wf.stage \in Stages
            /\ wf'.stage = wf.stage + 1
<1>1. WorkflowMoves /\ wf \in Workflows
  BY EveryMove, TypesOfWorkflow
<1>2. ASSUME NEW s \in 1..(LastStage + 1), Enters(s)
      PROVE  /\ wf'.stage = s
             /\ \/ wf.at = "load" /\ s = 1
                \/ s = wf.stage + 1 /\ wf.at = "record" /\ wf.result = "completed"
                     /\ wf.stage \in Stages
  BY <1>1, <1>2, EnterGoes DEF Enters, Goes
<1> QED
  BY <1>1, <1>2 DEF WorkflowMoves, ActivityMoves, Remains, Vanishes, Passes, Goes

LEMMA GatheredStep ==
  ASSUME BranchInv, [SessionNext]_own, branch' = branch
  PROVE  Gathered'
<1> SUFFICES ASSUME NEW b \in Branches, Passed(b[1])'
             PROVE  branch[b].at = "completed"
  BY DEF Gathered
<1>0. /\ TypeInv /\ Gathered /\ wf.stage \in Nat /\ b[1] \in Nat /\ b[1] >= 1
  BY TypesOfWorkflow, WorkflowAssumption, Flow DEF BranchInv
<1>1. CASE b[1] < wf'.stage
  BY <1>0, <1>1, StageLeft DEF Gathered, Passed
<1>2. CASE b[1] = wf'.stage /\ wf'.at = "record" /\ wf'.result = "completed"
  BY <1>2, Completing
<1> QED
  BY <1>1, <1>2 DEF Passed

\* A branch moves while its parent waits for it, or has thrown.
LEMMA BranchMoves ==
  ASSUME BranchInv, NEW b \in Branches, BranchStep(b) \/ BranchThrows(b)
  PROVE  /\ UNCHANGED own /\ b[1] = wf.stage /\ wf.stage \in Stages
         /\ wf.at = "join" \/ (wf.at = "reap" /\ wf.result = "thrown")
         /\ branch[b].at # "completed"
         /\ \A c \in Branches \ {b} : branch'[c] = branch[c]
<1>1. PICK from \in {"begun", "dispatch", "works"}, to \in Spots, has \in {branch[b].pod, TRUE} :
        branch[b].at = from /\ branch' = [branch EXCEPT ![b] = [at |-> to, pod |-> has]]
  BY BranchSteps
<1>2. \A c \in Branches \ {b} : branch'[c] = branch[c]
  BY <1>1 DEF BranchInv, BranchTypes
<1>3. UNCHANGED own /\ b[1] = wf.stage
      /\ (wf.at = "join" \/ (wf.at = "reap" /\ \E c \in Branches : branch[c].at = "thrown"))
  BY BranchSteps DEF Alive, Siblings
<1>4. wf.at = "reap" /\ (\E c \in Branches : branch[c].at = "thrown") => wf.result = "thrown"
  BY DEF BranchInv, Owned, AtWork
<1>5. b[1] \in Stages
  BY WorkflowAssumption
<1> QED
  BY <1>1, <1>2, <1>3, <1>4, <1>5

LEMMA BranchInvStep == BranchInv /\ [Next]_vars => BranchInv'
<1> SUFFICES ASSUME BranchInv, [Next]_vars PROVE BranchInv'
  OBVIOUS
<1>1. TypeInv' /\ Fits(wf)' /\ BranchTypes'
  BY StepKeepsTypes, SessionSteps, FitsStep, EveryMove, BranchTypesKept DEF BranchInv, Fits, KindOf
<1>2. CASE [SessionNext]_own /\ branch' = branch
  BY <1>1, <1>2, OwnedStep, GatheredStep DEF BranchInv
<1>3. ASSUME NEW b \in Branches, BranchStep(b) \/ BranchThrows(b)
      PROVE  BranchInv'
  <2>1. /\ wf' = wf /\ b[1] = wf.stage /\ b[1] \in Nat
        /\ wf.at = "join" \/ (wf.at = "reap" /\ wf.result = "thrown")
        /\ \A c \in Branches \ {b} : branch'[c] = branch[c]
    BY <1>3, BranchMoves, Flow DEF own
  <2>2. Owned'
    BY <2>1 DEF BranchInv, Owned, AtWork
  <2>3. Gathered'
    <3>1. ~Passed(b[1])'
      BY <2>1 DEF Passed
    <3>2. \A c \in Branches : Passed(c[1])' => Passed(c[1])
      BY <2>1 DEF Passed
    <3> QED
      BY <2>1, <3>1, <3>2 DEF BranchInv, Gathered
  <2> QED
    BY <1>1, <2>2, <2>3 DEF BranchInv
<1> QED
  BY <1>2, <1>3, EveryStep

LEMMA BranchesAreKept == Spec => []BranchInv
BY BranchesBegin, BranchInvStep, PTL DEF Spec

---------------------------------------------------------------------------
(* What is left behind                                                     *)

\* An agent lives on compute that is there.
LiveOnPod == \A i \in DOMAIN agent : Lives(i) => pod.kept = "live"

Destroyed ==
  {"worker", "arkd", "throw"} \cap world = {} =>
    ~pod.lost /\ (wf.at = "closed" => pod.kept # "live")

LeftInv == TypeInv /\ LiveOnPod /\ Destroyed

LEMMA WorldStays == [SessionNext]_own => world' = world
<1> SUFFICES ASSUME [SessionNext]_own PROVE world' = world
  OBVIOUS
<1>1. CASE UNCHANGED own
  BY <1>1 DEF own
<1>2. CASE Activity
  BY <1>2 DEF Activity, Begin, LoadFlow, LoadNoStages, Park, PassGate, RejectGate, FanOut, Join,
     JoinThrows, Provision, ProjectDispatching, MarkRunning, AwaitAnswers, AwaitTimesOut, Record,
     Finish,
     Reap, DispatchBegins, DispatchFindsRunning, DispatchRefused, Project, Learn, aside
<1>3. CASE \E d \in DOMAIN call : CallStep(d) \/ DispatchThrows(d)
  BY <1>3 DEF CallStep, LaunchFails, Spawn, Finalize, FinalizeTooLate, ActionSucceeds,
     ActionFails, DispatchThrows, aside
<1>4. CASE \/ PollStep \/ PollSeesExit \/ PollUnreachable
           \/ \E f \in mail : HookFrame(f) \/ FrameLost(f)
           \/ \E i \in DOMAIN agent : AgentEnds(i) \/ AgentFails(i)
  BY <1>4 DEF PollStep, PollJudges, PollWrites, PollSeesExit, PollUnreachable, HookFrame,
     HookEnds, HookAtManual, HookTooLate, HookOver, FrameLost, AgentEnds, AgentFails, kept
<1>5. CASE \/ LoadUnknown \/ JoinThrows \/ ActivityThrows \/ ProvisionLost \/ ReapFails
           \/ HeartbeatLost \/ WorkerDies
  BY <1>5 DEF LoadUnknown, JoinThrows, ActivityThrows, ProvisionLost, ReapFails, HeartbeatLost,
     WorkerDies, Learn, aside
<1>6. CASE Approve \/ Reject \/ StopRow \/ StopAgent \/ StopEnds
  BY <1>6 DEF Approve, Reject, StopRow, StopAgent, StopEnds, aside
<1> QED
  BY <1>1, <1>2, <1>3, <1>4, <1>5, <1>6 DEF SessionNext

\* Only the steps that say so make, lose or destroy compute, or touch agents.
LEMMA ComputeSteps ==
  ASSUME [SessionNext]_own
  PROVE  \/ UNCHANGED pod \/ Provision \/ ProvisionLost \/ Reap
<1>1. CASE UNCHANGED own
  BY <1>1 DEF own
<1>2. CASE Activity
  BY <1>2 DEF Activity, Begin, LoadFlow, LoadNoStages, Park, PassGate, RejectGate, FanOut, Join,
     JoinThrows, ProjectDispatching, MarkRunning, AwaitAnswers, AwaitTimesOut, Record, Finish,
     DispatchBegins, DispatchFindsRunning, DispatchRefused, Project, Learn
<1>3. CASE \E d \in DOMAIN call : CallStep(d) \/ DispatchThrows(d)
  BY <1>3 DEF CallStep, LaunchFails, Spawn, Finalize, FinalizeTooLate, ActionSucceeds,
     ActionFails, DispatchThrows
<1>4. CASE \/ PollStep \/ PollSeesExit \/ PollUnreachable
           \/ \E f \in mail : HookFrame(f) \/ FrameLost(f)
           \/ \E i \in DOMAIN agent : AgentEnds(i) \/ AgentFails(i)
  BY <1>4 DEF PollStep, PollJudges, PollWrites, PollSeesExit, PollUnreachable, HookFrame,
     HookEnds, HookAtManual, HookTooLate, HookOver, FrameLost, AgentEnds, AgentFails, kept
<1>5. CASE \/ LoadUnknown \/ JoinThrows \/ ActivityThrows \/ ProvisionLost \/ ReapFails
           \/ HeartbeatLost \/ WorkerDies
  BY <1>5 DEF LoadUnknown, JoinThrows, ActivityThrows, ReapFails, HeartbeatLost, WorkerDies, Learn
<1>6. CASE Approve \/ Reject \/ StopRow \/ StopAgent \/ StopEnds
  BY <1>6 DEF Approve, Reject, StopRow, StopAgent, StopEnds
<1> QED
  BY <1>1, <1>2, <1>3, <1>4, <1>5, <1>6 DEF SessionNext

LEMMA AgentSteps ==
  ASSUME [SessionNext]_own
  PROVE  \/ UNCHANGED agent \/ Reap \/ StopAgent
         \/ \E d \in DOMAIN call : Spawn(d)
         \/ \E i \in DOMAIN agent : AgentEnds(i) \/ AgentFails(i)
<1>1. CASE UNCHANGED own
  BY <1>1 DEF own
<1>2. CASE Activity
  BY <1>2 DEF Activity, Begin, LoadFlow, LoadNoStages, Park, PassGate, RejectGate, FanOut, Join,
     JoinThrows, Provision, ProjectDispatching, MarkRunning, AwaitAnswers, AwaitTimesOut, Record,
     Finish,
     DispatchBegins, DispatchFindsRunning, DispatchRefused, Project, Learn, aside
<1>3. CASE \E d \in DOMAIN call : CallStep(d) \/ DispatchThrows(d)
  BY <1>3 DEF CallStep, LaunchFails, Finalize, FinalizeTooLate, ActionSucceeds,
     ActionFails, DispatchThrows, aside
<1>4. CASE \/ PollStep \/ PollSeesExit \/ PollUnreachable
           \/ \E f \in mail : HookFrame(f) \/ FrameLost(f)
  BY <1>4 DEF PollStep, PollJudges, PollWrites, PollSeesExit, PollUnreachable, HookFrame,
     HookEnds, HookAtManual, HookTooLate, HookOver, FrameLost
<1>5. CASE \/ LoadUnknown \/ JoinThrows \/ ActivityThrows \/ ProvisionLost \/ ReapFails
           \/ HeartbeatLost \/ WorkerDies
  BY <1>5 DEF LoadUnknown, JoinThrows, ActivityThrows, ProvisionLost, ReapFails, HeartbeatLost,
     WorkerDies, Learn, aside
<1>6. CASE Approve \/ Reject \/ StopRow \/ StopEnds
  BY <1>6 DEF Approve, Reject, StopRow, StopEnds, aside
<1> QED
  BY <1>1, <1>2, <1>3, <1>4, <1>5, <1>6 DEF SessionNext

\* A workflow closes with its compute, unless something is in the way.
LEMMA Closing ==
  ASSUME TypeInv, [SessionNext]_own, wf'.at = "closed", wf.at # "closed"
  PROVE  wf.at = "reap" /\ (Reap \/ ReapFails \/ WorkerDies)
<1>1. wf.at = "reap"
  <2>1. WorkflowMoves
    BY EveryMove
  <2>2. \A s \in 1..(LastStage + 1) : Enters(s) => wf'.at # "closed"
    BY TypesOfWorkflow, EnterGoes DEF Enters, Goes
  <2>3. Remains(wf') => wf.at = "reap"
    BY DEF Remains, Edges
  <2> QED
    BY <2>1, <2>2, <2>3 DEF WorkflowMoves, ActivityMoves, Vanishes, Passes, Goes
<1>2. CASE UNCHANGED own
  BY <1>2 DEF own
<1>3. CASE Activity
  BY <1>1, <1>3 DEF Activity, Begin, LoadFlow, LoadNoStages, Park, PassGate, RejectGate, FanOut,
     Join, JoinThrows, Provision, ProjectDispatching, MarkRunning, AwaitAnswers, AwaitTimesOut, Record, Finish,
     DispatchBegins, DispatchFindsRunning, DispatchRefused, Unbegun, Project, Learn
<1>4. CASE \E d \in DOMAIN call : CallStep(d) \/ DispatchThrows(d)
  BY <1>1, <1>4 DEF CallStep, LaunchFails, Spawn, Finalize, FinalizeTooLate, ActionSucceeds,
     ActionFails, DispatchThrows, Answers, aside
<1>5. CASE \/ PollStep \/ PollSeesExit \/ PollUnreachable
           \/ \E f \in mail : HookFrame(f) \/ FrameLost(f)
           \/ \E i \in DOMAIN agent : AgentEnds(i) \/ AgentFails(i)
  BY <1>5 DEF PollStep, PollJudges, PollWrites, PollSeesExit, PollUnreachable, HookFrame,
     HookEnds, HookAtManual, HookTooLate, HookOver, FrameLost, AgentEnds, AgentFails, kept
<1>6. CASE LoadUnknown \/ JoinThrows \/ ActivityThrows \/ ProvisionLost \/ HeartbeatLost
  BY <1>1, <1>6 DEF LoadUnknown, JoinThrows, ActivityThrows, ProvisionLost, HeartbeatLost,
     Learn, Activities
<1>7. CASE Approve \/ Reject \/ StopRow \/ StopAgent \/ StopEnds
  <2>1. wf'.at \in {wf.at, "gone"}
    <3>1. Terminate => wf'.at \in {wf.at, "gone"}
      BY GoodTerminate
    <3>2. Approve \/ Reject => wf'.at = wf.at
      <4>1. wf \in Workflows
        BY TypesOfWorkflow
      <4>2. [wf EXCEPT !.approved = TRUE].at = wf.at
        BY <4>1, ApprovedWritten DEF Goes
      <4>3. [wf EXCEPT !.rejected = TRUE].at = wf.at
        BY <4>1, RejectedWritten DEF Goes
      <4> QED
        BY <4>2, <4>3 DEF Approve, Reject
    <3> QED
      BY <1>7, <3>1, <3>2 DEF StopRow, StopAgent, StopEnds
  <2> QED
    BY <1>1, <2>1
<1> QED
  BY <1>1, <1>2, <1>3, <1>4, <1>5, <1>6, <1>7 DEF SessionNext

LEMMA LeftBegins == Init => LeftInv
BY TypesBegin DEF Init, LeftInv, LiveOnPod, Destroyed

LEMMA LeftStep ==
  ASSUME LeftInv, [SessionNext]_own
  PROVE  LeftInv'
<1>0. TypeInv /\ TypeInv' /\ world' = world
  BY StepKeepsTypes, WorldStays DEF LeftInv
<1>1. /\ pod \in Computes /\ pod' \in Computes /\ agent \in Seq(AgentRecords)
      /\ agent' \in Seq(AgentRecords) /\ DOMAIN agent = 1..Len(agent)
      /\ DOMAIN agent' = 1..Len(agent')
  BY <1>0 DEF TypeInv
<1>2. CASE Reap
  <2> DEFINE k == IF pod.kept = "live" THEN "gone" ELSE pod.kept
  <2>1. pod' = [pod EXCEPT !.kept = k] /\ k \in {"none", "gone"}
    BY <1>1, <1>2 DEF Reap, Computes
  <2> HIDE DEF k
  <2>2. pod'.kept = k /\ pod'.lost = pod.lost
    BY <1>1, <2>1, PodWritten
  <2> DEFINE alive == {i \in DOMAIN agent : Lives(i)}
  <2>3. Killed(alive)
    BY <1>2 DEF Reap, Killed
  <2>4. /\ Len(agent') = Len(agent)
        /\ \A i \in 1..Len(agent) :
             agent'[i].state = IF i \in alive THEN "killed" ELSE agent[i].state
    <3> HIDE DEF alive
    <3> QED
      BY <1>1, <2>3, AgentsKilled
  <2>5. \A i \in 1..Len(agent) : agent'[i].state \notin {"works", "stuck"}
    BY <1>1, <2>4 DEF Lives
  <2>6. LiveOnPod'
    BY <1>1, <2>4, <2>5 DEF LiveOnPod, Lives
  <2>7. Destroyed'
    BY <1>0, <2>1, <2>2 DEF LeftInv, Destroyed
  <2> QED
    BY <1>0, <2>6, <2>7 DEF LeftInv
<1>3. CASE Provision \/ ProvisionLost
  <2>1. UNCHANGED agent /\ wf.at = "provision"
    BY <1>3 DEF Provision, ProvisionLost, aside
  <2>2. /\ Provision => pod'.kept = "live" /\ pod'.lost = pod.lost
        /\ ProvisionLost => pod'.kept = pod.kept
    <3>1. [pod EXCEPT !.kept = "live"].kept = "live" /\ [pod EXCEPT !.kept = "live"].lost = pod.lost
      BY <1>1, PodWritten
    <3>2. [pod EXCEPT !.lost = TRUE].kept = pod.kept
      BY <1>1, PodWritten DEF Computes
    <3> QED
      BY <3>1, <3>2 DEF Provision, ProvisionLost
  <2>3. wf'.at # "closed"
    BY <1>0, <1>3, <2>1, Closing DEF Reap, ReapFails, WorkerDies
  <2>4. ProvisionLost => {"worker", "arkd", "throw"} \cap world # {}
    BY DEF ProvisionLost, May
  <2> QED
    BY <1>0, <1>3, <2>1, <2>2, <2>3, <2>4 DEF LeftInv, LiveOnPod, Lives, Destroyed
<1>4. CASE UNCHANGED pod /\ ~Reap
  <2>1. Destroyed'
    <3>1. wf'.at = "closed" => wf.at = "closed" \/ {"worker", "arkd", "throw"} \cap world # {}
      BY <1>0, <1>4, Closing DEF ReapFails, WorkerDies, May
    <3> QED
      BY <1>0, <1>4, <3>1 DEF LeftInv, Destroyed
  <2>2. CASE UNCHANGED agent
    BY <1>0, <1>4, <2>1, <2>2 DEF LeftInv, LiveOnPod, Lives
  <2>3. CASE StopAgent
    <3>1. Killed({i \in DOMAIN agent : i = Last /\ Lives(i) /\ pod.kept = "live"})
      BY <2>3 DEF StopAgent, Killed
    <3>2. Len(agent') = Len(agent)
      BY <1>1, <3>1, AgentsKilled
    <3>3. \A i \in 1..Len(agent) : agent'[i].state \in {"works", "stuck"} => Lives(i)
      BY <1>1, <3>1, AgentsKilled DEF Lives
    <3> QED
      BY <1>0, <1>1, <1>4, <2>1, <3>2, <3>3 DEF LeftInv, LiveOnPod, Lives
  <2>4. ASSUME NEW d \in DOMAIN call, Spawn(d)
        PROVE  LeftInv'
    BY <1>0, <1>4, <2>1, <2>4 DEF LeftInv, LiveOnPod, Spawn
  <2>5. ASSUME NEW i \in DOMAIN agent, AgentEnds(i) \/ AgentFails(i)
        PROVE  LeftInv'
    <3>1. PICK state \in {"ended", "failed", "stuck"} : StateChanges(i, state)
      BY <2>5 DEF AgentEnds, AgentFails, StateChanges
    <3>2. Lives(i) /\ Len(agent') = Len(agent)
          /\ \A j \in 1..Len(agent) : j # i => agent'[j] = agent[j]
      BY <1>1, <2>5, <3>1, AgentChanges DEF AgentEnds, AgentFails, Lives
    <3> QED
      BY <1>0, <1>1, <1>4, <2>1, <3>2 DEF LeftInv, LiveOnPod, Lives
  <2> QED
    BY <1>4, <2>2, <2>3, <2>4, <2>5, AgentSteps
<1> QED
  BY <1>2, <1>3, <1>4, ComputeSteps

\* A workflow that closed leaves no compute and no agent of its session behind,
\* and never lost any compute it made, while its worker lives, the compute is
\* reached and nothing is thrown. With any fault there is, one that closed
\* without throwing leaves no branch under way.
THEOREM NothingIsLeft == Spec => []NothingLeft
<1>1. Spec => []LeftInv
  BY LeftBegins, LeftStep, SessionSteps, PTL DEF Spec
<1>2. LeftInv /\ BranchInv => NothingLeft
  BY DEF LeftInv, LiveOnPod, Destroyed, BranchInv, Owned, AtWork, NothingLeft
<1> QED
  BY <1>1, <1>2, BranchesAreKept, PTL

---------------------------------------------------------------------------
(* What is under way                                                       *)

\* While workers live and heartbeats come, a call is waited for by its attempt,
\* or its workflow was terminated; and there is one at a time.
Awaited ==
  {"slow", "worker"} \cap world = {} =>
    /\ \A d \in DOMAIN call : UnderWay(d) =>
         d[1] = wf.stage /\ (wf.at = "gone" \/ (wf.at = "dispatch" /\ d = Current))
    /\ \A d, e \in DOMAIN call : UnderWay(d) /\ UnderWay(e) => d = e

LEMMA AwaitedBegins == Init => Awaited
BY DEF Init, Awaited, UnderWay

LEMMA AwaitedStep ==
  ASSUME TypeInv, Awaited, [SessionNext]_own
  PROVE  Awaited'
<1> SUFFICES ASSUME {"slow", "worker"} \cap world = {}
             PROVE  Awaited'
  BY WorldStays DEF Awaited
<1>0. /\ \A d \in DOMAIN call : UnderWay(d) =>
           d[1] = wf.stage /\ (wf.at = "gone" \/ (wf.at = "dispatch" /\ d = Current))
      /\ \A d, e \in DOMAIN call : UnderWay(d) /\ UnderWay(e) => d = e
      /\ DOMAIN call = Stages \X Attempts
  BY DEF Awaited, TypeInv, Calls
<1>1. CASE UNCHANGED own
  BY <1>1 DEF own, Awaited, UnderWay, Current
<1>2. CASE ActivityStep
  <2>1. call' = call /\ \A d \in DOMAIN call : ~UnderWay(d)
    BY <1>0, <1>2, ActivityShape
  <2> QED
    BY <2>1 DEF Awaited, UnderWay
<1>3. CASE DispatchStep
  <2>1. Unbegun
    BY <1>3 DEF DispatchStep, DispatchBegins, DispatchFindsRunning, DispatchRefused
  <2>2. Current \in DOMAIN call
    BY <1>0, <2>1, TypesOfWorkflow DEF Unbegun, Current, Placed, Loose, Attempts
  <2>3. \A d \in DOMAIN call : ~UnderWay(d)
    BY <1>0, <2>1 DEF Unbegun, UnderWay
  <2>4. CASE DispatchBegins
    <3> DEFINE c == IF Kind[wf.stage] = "action" THEN "action" ELSE "launch"
    <3>1. call' = [call EXCEPT ![Current] = c] /\ wf' = wf /\ Unbegun
      BY <2>4 DEF DispatchBegins
    <3> HIDE DEF c
    <3>2. DOMAIN call' = DOMAIN call /\ \A d \in DOMAIN call : UnderWay(d)' => d = Current
      BY <2>3, <3>1 DEF UnderWay
    <3>3. Current' = Current /\ Current[1] = wf.stage /\ wf.at = "dispatch"
      BY <3>1 DEF Current, Unbegun
    <3> QED
      BY <3>1, <3>2, <3>3 DEF Awaited
  <2>5. CASE call' = call
    BY <2>3, <2>5 DEF Awaited, UnderWay
  <2> QED
    BY <1>3, <2>4, <2>5 DEF DispatchStep, DispatchFindsRunning, DispatchRefused
<1>4. CASE OutsideStep \/ StopEnds
  <2>1. UNCHANGED <<wf, call>>
    BY <1>4, OutsideShape DEF StopEnds
  <2> QED
    BY <1>0, <2>1 DEF Awaited, UnderWay, Current
<1>5. CASE Signal
  BY <1>0, <1>5, SignalShape DEF Awaited, UnderWay, Current
<1>6. CASE Stop
  <2>1. call' = call /\ Terminate
    BY <1>6 DEF Stop, StopRow, StopAgent
  <2>2. wf' = wf \/ (wf'.at = "gone" /\ wf'.stage = wf.stage)
    BY <2>1, GoodTerminate
  <2> QED
    BY <1>0, <2>1, <2>2 DEF Awaited, UnderWay, Current
<1>7. CASE HeartbeatLost \/ WorkerDies
  BY <1>7 DEF HeartbeatLost, WorkerDies, May
<1>8. ASSUME NEW d \in DOMAIN call, CallStep(d) \/ DispatchThrows(d)
      PROVE  Awaited'
  <2>1. UnderWay(d) /\ \A e \in DOMAIN call : e # d => ~UnderWay(e)
    BY <1>0, <1>8, CallShape
  <2>2. CASE wf' = wf /\ call' = [call EXCEPT ![d] = "finalize"]
    <3>1. DOMAIN call' = DOMAIN call /\ \A e \in DOMAIN call : UnderWay(e)' => e = d
      BY <2>1, <2>2 DEF UnderWay
    <3>2. d[1] = wf.stage /\ (wf.at = "gone" \/ (wf.at = "dispatch" /\ d = Current))
      BY <1>0, <2>1
    <3>3. Current' = Current
      BY <2>2 DEF Current
    <3> QED
      BY <2>2, <3>1, <3>2, <3>3 DEF Awaited
  <2>3. CASE call' = [call EXCEPT ![d] = "done"]
    <3>1. DOMAIN call' = DOMAIN call /\ \A e \in DOMAIN call : ~UnderWay(e)'
      BY <2>1, <2>3 DEF UnderWay
    <3> QED
      BY <3>1 DEF Awaited
  <2> QED
    BY <1>8, <2>2, <2>3, CallShape
<1> QED
  BY <1>1, <1>2, <1>3, <1>4, <1>5, <1>6, <1>7, <1>8, StepKinds

---------------------------------------------------------------------------
(* The row at the end                                                      *)

\* From its conclusion on, the workflow's result is what the row says.
EndsKept ==
  {"slow", "late", "worker", "stop"} \cap world = {} =>
    /\ ~stopping /\ wf.at # "gone"
    /\ wf.at \in {"reap", "closed"} /\ wf.result # "thrown" =>
         row.status = wf.result /\ row.status \in Over /\ poller.verdict = "none"

EndInv == TypeInv /\ Awaited /\ EndsKept

LEMMA EndsBegin == Init => EndInv
BY TypesBegin, AwaitedBegins DEF Init, EndInv, EndsKept

\* Over is over: no hook and no poll writes a row that ended, and no verdict is
\* taken of it.
LEMMA OutsideLeavesOver ==
  ASSUME TypeInv, OutsideStep, row.status \in Over, poller.verdict = "none"
  PROVE  row' = row /\ poller'.verdict = "none"
<1>1. poller \in Pollers /\ row.status # "running"
  BY DEF TypeInv, Over
<1>2. ASSUME NEW f \in mail, HookFrame(f) \/ FrameLost(f)
      PROVE  row' = row /\ poller' = poller
  BY <1>2 DEF HookFrame, HookEnds, HookAtManual, HookTooLate, HookOver, FrameLost
<1>3. ASSUME NEW i \in DOMAIN agent, AgentEnds(i) \/ AgentFails(i)
      PROVE  row' = row /\ poller' = poller
  BY <1>3 DEF AgentEnds, AgentFails
<1>4. CASE PollStep
  BY <1>1, <1>4 DEF PollStep, PollJudges, PollWrites
<1>5. CASE PollSeesExit
  <2>1. row' = row /\ poller' = [poller EXCEPT !.seen = Verdict(Last)]
    BY <1>5 DEF PollSeesExit
  <2> QED
    BY <1>1, <2>1 DEF Pollers
<1>6. CASE PollUnreachable
  <2>1. row' = row /\ poller' = [poller EXCEPT !.on = FALSE]
    BY <1>1, <1>6 DEF PollUnreachable
  <2> QED
    BY <1>1, <2>1 DEF Pollers
<1> QED
  BY <1>2, <1>3, <1>4, <1>5, <1>6 DEF OutsideStep

\* The workflow only gets to its end by what it projects there, or by a throw.
LEMMA FinishStep ==
  ASSUME TypeInv, ActivityStep, wf'.at \in {"reap", "closed"}, wf'.result # "thrown"
  PROVE  /\ wf'.result = wf.result
         /\ \/ Finish
            \/ wf.at = "reap" /\ UNCHANGED <<row, poller>>
<1>0. wf \in Workflows /\ wf.at \in Ats
  BY TypesOfWorkflow
<1>1. CASE Finish
  <2>1. Goes(wf', "reap", wf.stage, 1, wf.result, wf.approved)
    BY <1>0, <1>1, AtGoes DEF Finish, Project, Ats
  <2> QED
    BY <1>1, <2>1 DEF Goes
<1>2. CASE Reap \/ ReapFails
  <2>1. Goes(wf', "closed", wf.stage, 1, wf.result, wf.approved)
    BY <1>0, <1>2, AtGoes DEF Reap, ReapFails, Ats
  <2> QED
    BY <1>2, <2>1 DEF Goes, Reap, ReapFails, aside
<1>3. CASE LoadUnknown \/ JoinThrows \/ ActivityThrows \/ ProvisionLost
  <2>1. (wf' = AttemptFails \/ wf' = Thrown) /\ wf.at \notin {"reap", "closed"}
    BY <1>3 DEF LoadUnknown, JoinThrows, ActivityThrows, ProvisionLost, Learn, Activities
  <2>2. Goes(Thrown, "reap", wf.stage, 1, "thrown", wf.approved)
    BY <1>0, ThrownGoes
  <2> QED
    BY <1>0, <2>1, <2>2, FailsGoes DEF Goes
<1>4. CASE \/ Begin \/ LoadFlow \/ LoadNoStages \/ Park \/ PassGate \/ RejectGate
           \/ FanOut \/ Join \/ Provision \/ ProjectDispatching \/ MarkRunning
           \/ AwaitAnswers \/ AwaitTimesOut \/ Record
  <2>1. wf.at \notin {"conclude", "reap", "closed"}
    BY <1>4 DEF Begin, LoadFlow, LoadNoStages, Park, PassGate, RejectGate, FanOut, Join, Provision,
       ProjectDispatching, MarkRunning, AwaitAnswers, AwaitTimesOut, Record, Project, Learn
  <2>2. ActivityMoves
    BY <1>4, ActivitiesMove
  <2>3. \A s \in 1..(LastStage + 1) : Enters(s) => wf'.at \notin {"reap", "closed"}
    BY <1>0, EnterGoes DEF Enters, Goes
  <2>4. ~Remains(wf')
    BY <2>1 DEF Remains, Edges
  <2> QED
    BY <2>1, <2>2, <2>3, <2>4 DEF ActivityMoves, Passes, Goes
<1> QED
  BY <1>1, <1>2, <1>3, <1>4 DEF ActivityStep

\* Nothing but a stop terminates a workflow.
LEMMA ActivityStaysOpen ==
  ASSUME TypeInv, ActivityStep
  PROVE  wf'.at # "gone"
<1>1. wf \in Workflows /\ wf.at # "gone"
  BY TypesOfWorkflow, ActivityShape
<1>2. CASE ActivityThrows
  <2>1. wf' = AttemptFails
    BY <1>2 DEF ActivityThrows
  <2> QED
    BY <1>1, <2>1, FailsGoes DEF Goes
<1>3. CASE ~ActivityThrows
  <2>1. ActivityMoves
    BY <1>3, ActivitiesMove DEF ActivityStep
  <2>2. \A s \in 1..(LastStage + 1) : Enters(s) => wf'.at # "gone"
    BY <1>1, EnterGoes DEF Enters, Goes
  <2>3. Remains(wf') => wf'.at # "gone"
    BY <1>1 DEF Remains, Edges
  <2> QED
    BY <2>1, <2>2, <2>3 DEF ActivityMoves, Passes, Goes
<1> QED
  BY <1>2, <1>3

\* A dispatch that is answered goes on, or leads to the workflow's conclusion.
LEMMA AnswersOpen ==
  ASSUME TypeInv, wf.at = "dispatch",
         wf' = wf \/ wf' = At("launched") \/ wf' = Conclude("failed") \/ wf' = AttemptFails
  PROVE  /\ wf'.at \in {"dispatch", "launched", "conclude"} /\ wf'.stage = wf.stage
         /\ wf'.at = "conclude" => wf'.result = "failed"
<1>1. wf \in Workflows /\ "launched" \in Ats /\ "failed" \in WfResults
  BY TypesOfWorkflow DEF Ats, Activities, WfResults, Over
<1>2. Goes(At("launched"), "launched", wf.stage, 1, wf.result, wf.approved)
  BY <1>1, AtGoes
<1>3. Goes(Conclude("failed"), "conclude", wf.stage, 1, "failed", wf.approved)
  BY <1>1, ConcludeGoes
<1> QED
  BY <1>1, <1>2, <1>3, FailsGoes DEF Goes

LEMMA EndsStep ==
  ASSUME EndInv, [SessionNext]_own
  PROVE  EndInv'
<1>0. TypeInv /\ Awaited /\ TypeInv' /\ Awaited' /\ EndsKept
  BY StepKeepsTypes, AwaitedStep DEF EndInv
<1> SUFFICES ASSUME {"slow", "late", "worker", "stop"} \cap world = {}
             PROVE  EndsKept'
  BY <1>0, WorldStays DEF EndInv, EndsKept
<1>1. /\ ~stopping /\ wf.at # "gone"
      /\ wf.at \in {"reap", "closed"} /\ wf.result # "thrown" =>
           row.status = wf.result /\ row.status \in Over /\ poller.verdict = "none"
  BY <1>0 DEF EndsKept
<1>2. CASE UNCHANGED own
  BY <1>1, <1>2 DEF own, EndsKept
<1>3. CASE ActivityStep
  <2>1. UNCHANGED stopping /\ wf'.at # "gone"
    BY <1>0, <1>3, ActivityShape, ActivityStaysOpen
  <2>2. ASSUME wf'.at \in {"reap", "closed"}, wf'.result # "thrown"
        PROVE  row'.status = wf'.result /\ row'.status \in Over /\ poller'.verdict = "none"
    <3>1. CASE Finish
      <4>1. wf.at = "conclude" /\ row' = Projected /\ poller' = poller /\ Prompt
        BY <3>1 DEF Finish, Project, aside
      <4>2. row'.status = wf.result /\ wf.result \in Over
        BY <1>0, <4>1, TypesOfWorkflow, ProjectedGoes DEF TypeInv, Results
      <4>3. wf'.result = wf.result
        BY <1>0, <1>3, <2>2, FinishStep
      <4> QED
        BY <4>1, <4>2, <4>3 DEF Prompt, May
    <3>2. CASE wf.at = "reap" /\ UNCHANGED <<row, poller>> /\ wf'.result = wf.result
      BY <1>1, <2>2, <3>2
    <3> QED
      BY <1>0, <1>3, <2>2, <3>1, <3>2, FinishStep
  <2> QED
    BY <1>1, <2>1, <2>2 DEF EndsKept
<1>4. CASE DispatchStep
  <2>1. wf'.at \notin {"reap", "closed", "gone"} /\ UNCHANGED stopping
    <3>1. /\ wf.at = "dispatch" /\ UNCHANGED stopping
          /\ wf' = wf \/ wf' = At("launched") \/ wf' = Conclude("failed")
      BY <1>4 DEF DispatchStep, DispatchBegins, DispatchFindsRunning, DispatchRefused, Unbegun,
         aside
    <3> QED
      BY <1>0, <3>1, AnswersOpen
  <2> QED
    BY <1>1, <2>1 DEF EndsKept
<1>5. CASE OutsideStep
  <2>1. UNCHANGED <<wf, stopping>>
    BY <1>5, OutsideShape
  <2>2. row.status \in Over /\ poller.verdict = "none" => row' = row /\ poller'.verdict = "none"
    BY <1>0, <1>5, OutsideLeavesOver
  <2> QED
    BY <1>1, <2>1, <2>2 DEF EndsKept
<1>6. CASE Signal
  BY <1>0, <1>1, <1>6, SignalShape DEF EndsKept
<1>7. CASE Stop \/ StopEnds \/ HeartbeatLost \/ WorkerDies
  BY <1>1, <1>7 DEF Stop, StopRow, StopAgent, StopEnds, HeartbeatLost, WorkerDies, May
<1>8. ASSUME NEW d \in DOMAIN call, CallStep(d) \/ DispatchThrows(d)
      PROVE  EndsKept'
  <2>1. UnderWay(d) /\ UNCHANGED stopping
    BY <1>0, <1>8, CallShape
  <2>2. wf.at = "dispatch"
    BY <1>0, <1>1, <2>1 DEF Awaited
  <2>3. wf' = wf \/ wf' = At("launched") \/ wf' = Conclude("failed") \/ wf' = AttemptFails
    BY <1>8 DEF CallStep, LaunchFails, Spawn, Finalize, FinalizeTooLate, ActionSucceeds,
       ActionFails, DispatchThrows, Answers
  <2>4. wf'.at \notin {"reap", "closed", "gone"}
    BY <1>0, <2>2, <2>3, AnswersOpen
  <2> QED
    BY <1>1, <2>1, <2>4 DEF EndsKept
<1> QED
  BY <1>0, <1>2, <1>3, <1>4, <1>5, <1>6, <1>7, <1>8, StepKinds DEF EndInv

LEMMA EndsAreKept == Spec => []EndInv
BY EndsBegin, EndsStep, SessionSteps, PTL DEF Spec

\* What the row says once the workflow closed is what the workflow found, although
\* hooks, verdicts and probes go on arriving: while launches, frames and verdicts
\* are prompt, the worker lives and nobody stops the session.
THEOREM EndsDoAgree == Spec => []EndsAgree
<1>1. EndInv => EndsAgree
  BY DEF EndInv, EndsKept, EndsAgree
<1> QED
  BY <1>1, EndsAreKept, PTL

---------------------------------------------------------------------------
(* The calm: workers live, launches and frames are prompt                  *)

NoAgentOf(s) == \A i \in 1..Len(agent) : agent[i].stage # s
EndedWell(s) == \E i \in 1..Len(agent) : agent[i].stage = s /\ agent[i].state = "ended"

\* A call does what its stage is for.
CallsFit ==
  \A d \in Stages \X Attempts :
    /\ call[d] \in {"launch", "finalize"} => Kind[d[1]] = "agent"
    /\ call[d] = "action" => Kind[d[1]] = "action"

\* A stage has one agent, and only that of the current stage works.
Crew ==
  /\ \A i \in 1..Len(agent) :
       /\ Kind[agent[i].stage] = "agent" /\ agent[i].stage <= wf.stage
       /\ agent[i].state = "works" => agent[i].stage = wf.stage
  /\ \A i, j \in 1..Len(agent) : agent[i].stage = agent[j].stage => i = j

\* It has none before its launch.
BeforeLaunch ==
  \/ wf.at \in {"begin", "load", "provision", "project"}
  \/ wf.at = "dispatch" /\ call[Current] # "finalize"
Fresh ==
  /\ BeforeLaunch => NoAgentOf(wf.stage)
  /\ \A d \in Stages \X Attempts : call[d] = "launch" => NoAgentOf(d[1])

\* Once it has one, that is the last one, and everything that may say that the
\* stage is done speaks of it.
AtItsAgent ==
  \/ wf.at \in {"launched", "await"}
  \/ wf.at = "dispatch" /\ call[Current] = "finalize"
SaysDone ==
  \/ poller.seen = "ready" \/ poller.verdict = "ready"
  \/ wf.at # "dispatch" /\ row.status = "ready"
Here ==
  KindOf(wf.stage) = "agent" /\ AtItsAgent =>
    /\ Len(agent) > 0 /\ agent[Len(agent)].stage = wf.stage
    /\ \A f \in mail : f.from = Len(agent)
    /\ SaysDone => agent[Len(agent)].state = "ended"

\* A SessionEnd comes from an agent that ended, and no SessionStart is late.
Frames ==
  \A f \in mail :
    f.kind # "SessionStart" /\ (f.kind = "SessionEnd" => agent[f.from].state = "ended")

\* The row a dispatch finds, and never one that says the session is completed.
RowThere ==
  /\ wf.at \in {"dispatch", "launched", "await"} => row.status # "completed"
  /\ wf.at = "dispatch" => row.stage = wf.stage /\ row.status # "running"

\* The stages were left in order, each after its agent ended.
InOrder ==
  /\ wf.at \in {"begin", "load"} => wf.stage = 1
  /\ wf.at = "conclude" /\ wf.result = "completed" => wf.stage = LastStage + 1
  /\ \A s \in Stages : s < wf.stage /\ Kind[s] = "agent" => EndedWell(s)
  /\ wf.at = "record" /\ wf.result = "completed" /\ KindOf(wf.stage) = "agent"
       => EndedWell(wf.stage)

CalmKept == CallsFit /\ Crew /\ Fresh /\ Here /\ Frames /\ RowThere /\ InOrder
CalmInv == TypeInv /\ Fits(wf) /\ Awaited /\ (Calm => CalmKept)

\* What every step below starts from.
Still == TypeInv /\ Fits(wf) /\ Awaited /\ Calm /\ CalmKept

LEMMA CalmBegins == Init => CalmInv
<1> SUFFICES ASSUME Init PROVE CalmInv
  OBVIOUS
<1>1. /\ wf.at = "begin" /\ wf.stage = 1 /\ agent = << >> /\ mail = {}
      /\ call = [d \in Stages \X Attempts |-> "none"]
  BY DEF Init
<1>2. Len(agent) = 0
  BY <1>1
<1>3. NoAgentOf(1) /\ \A s \in Stages : ~(s < 1)
  BY <1>2, Flow DEF NoAgentOf
<1> QED
  BY <1>1, <1>2, <1>3, TypesBegin, FitsBegin, AwaitedBegins
     DEF CalmInv, CalmKept, CallsFit, Crew, Fresh, BeforeLaunch, Here, AtItsAgent, Frames, RowThere,
     InOrder

\* Agents come by a launch, and keep their stage and how they ended.
Grown ==
  \A i \in 1..Len(agent) :
    /\ agent'[i].stage = agent[i].stage
    /\ agent[i].state = "ended" => agent'[i].state = "ended"
    /\ agent'[i].state = "works" => agent[i].state = "works"
    /\ agent'[i].state = "ended" /\ agent[i].state # "ended" => AgentEnds(i)

LEMMA AgentsGrow ==
  ASSUME TypeInv, [SessionNext]_own
  PROVE  /\ Grown
         /\ \/ Len(agent') = Len(agent)
            \/ \E d \in DOMAIN call : Spawn(d)
<1>1. agent \in Seq(AgentRecords) /\ DOMAIN agent = 1..Len(agent)
  BY DEF TypeInv
<1>2. CASE UNCHANGED agent
  BY <1>2 DEF Grown
<1>3. CASE Reap \/ StopAgent
  <2>1. PICK which \in SUBSET {i \in DOMAIN agent : Lives(i)} : Killed(which)
    <3>1. Reap => Killed({i \in DOMAIN agent : Lives(i)})
      BY DEF Reap, Killed
    <3>2. StopAgent => Killed({i \in DOMAIN agent : i = Last /\ Lives(i) /\ pod.kept = "live"})
      BY DEF StopAgent, Killed
    <3> QED
      BY <1>3, <3>1, <3>2
  <2>2. /\ Len(agent') = Len(agent)
        /\ \A j \in 1..Len(agent) :
             /\ agent'[j].stage = agent[j].stage
             /\ agent'[j].state = IF j \in which THEN "killed" ELSE agent[j].state
    BY <1>1, <2>1, AgentsKilled
  <2>3. \A i \in which : agent[i].state # "ended"
    BY <2>1 DEF Lives
  <2> QED
    BY <2>2, <2>3 DEF Grown
<1>4. ASSUME NEW d \in DOMAIN call, Spawn(d)
      PROVE  Grown
  <2>1. agent' = Append(agent, [stage |-> d[1], state |-> "works"])
    BY <1>4 DEF Spawn
  <2>2. \A i \in 1..Len(agent) : agent'[i] = agent[i]
    BY <1>1, <2>1
  <2> QED
    BY <2>2 DEF Grown
<1>5. ASSUME NEW i \in DOMAIN agent, AgentEnds(i) \/ AgentFails(i)
      PROVE  Grown /\ Len(agent') = Len(agent)
  <2>1. PICK state \in {"ended", "failed", "stuck"} :
          StateChanges(i, state) /\ (state = "ended" => AgentEnds(i))
    BY <1>5 DEF AgentEnds, AgentFails, StateChanges
  <2>2. agent[i].state = "works"
    BY <1>5 DEF AgentEnds, AgentFails
  <2>3. /\ Len(agent') = Len(agent)
        /\ \A j \in 1..Len(agent) : agent'[j].stage = agent[j].stage
        /\ agent'[i].state = state
        /\ \A j \in 1..Len(agent) : j # i => agent'[j] = agent[j]
    BY <1>1, <2>1, AgentChanges
  <2> QED
    BY <1>1, <2>1, <2>2, <2>3 DEF Grown
<1> QED
  BY <1>2, <1>3, <1>4, <1>5, AgentSteps, <1>1 DEF Reap

LEMMA CalmSteps ==
  ASSUME Still, [SessionNext]_own
  PROVE  \/ UNCHANGED own \/ ActivityStep \/ DispatchStep \/ OutsideStep \/ Signal \/ Stop
         \/ StopEnds
         \/ \E d \in DOMAIN call : CallStep(d) \/ DispatchThrows(d)
<1>1. ~HeartbeatLost /\ ~WorkerDies
  BY DEF HeartbeatLost, WorkerDies, May, Still, Calm
<1> QED
  BY <1>1, StepKinds

\* What hooks, verdicts, probes and agents write outside of the workflow.
LEMMA OutsideRow ==
  ASSUME Still, OutsideStep
  PROVE  /\ row'.stage = row.stage
         /\ \/ row'.status \in {row.status, "failed"}
            \/ row'.status = "ready" /\ (poller.verdict = "ready" \/ \E f \in mail : f.kind = "SessionEnd")
            \/ row'.status = "running" /\ KindOf(row.stage) = "manual"
<1>1. /\ row \in Rows /\ poller \in Pollers
      /\ "ready" \in RowStatuses /\ "failed" \in RowStatuses
  BY DEF Still, TypeInv, RowStatuses, Over
<1>2. ASSUME NEW f \in mail, HookFrame(f) \/ FrameLost(f)
      PROVE  /\ row'.stage = row.stage
             /\ \/ row'.status \in {row.status, "failed"}
                \/ row'.status = "ready" /\ f.kind = "SessionEnd"
                \/ row'.status = "running" /\ KindOf(row.stage) = "manual"
  <2>1. \/ row' = row \/ Update("failed") \/ (Update("ready") /\ f.kind = "SessionEnd")
        \/ StillRuns /\ KindOf(row.stage) = "manual"
    BY <1>2 DEF HookFrame, HookEnds, HookAtManual, HookTooLate, FrameLost, kept, Still, CalmKept, Frames
  <2> QED
    BY <1>1, <2>1, UpdateGoes, StillRunsGoes DEF RowGoes
<1>3. ASSUME NEW i \in DOMAIN agent, AgentEnds(i) \/ AgentFails(i)
      PROVE  row' = row
  BY <1>3 DEF AgentEnds, AgentFails
<1>4. CASE PollJudges \/ PollSeesExit
  BY <1>4 DEF PollJudges, PollSeesExit
<1>5. CASE PollWrites
  <2>1. poller.verdict \in {"ready", "failed"} /\ NoHandle(poller.verdict)
    BY <1>1, <1>5 DEF PollWrites, Pollers, Verdicts
  <2> QED
    BY <1>1, <2>1, NoHandleGoes DEF RowGoes
<1>6. CASE PollUnreachable
  <2>1. row' = row \/ NoHandle("failed")
    BY <1>6 DEF PollUnreachable
  <2> QED
    BY <1>1, <2>1, NoHandleGoes DEF RowGoes
<1> QED
  BY <1>2, <1>3, <1>4, <1>5, <1>6 DEF OutsideStep, PollStep

LEMMA OutsidePoller ==
  ASSUME Still, OutsideStep
  PROVE  /\ poller'.seen = "ready" =>
              \/ poller.seen = "ready"
              \/ Len(agent) > 0 /\ agent[Len(agent)].state = "ended"
         /\ poller'.verdict = "ready" => "ready" \in {poller.seen, poller.verdict}
<1>1. poller \in Pollers
  BY DEF Still, TypeInv
<1>2. CASE UNCHANGED poller
  BY <1>2
<1>3. CASE PollJudges
  BY <1>3 DEF PollJudges
<1>4. CASE PollWrites
  <2>1. poller' = [poller EXCEPT !.verdict = "none"]
    BY <1>4 DEF PollWrites
  <2> QED
    BY <1>1, <2>1 DEF Pollers
<1>5. CASE PollSeesExit
  <2>1. poller' = [poller EXCEPT !.seen = Verdict(Last)] /\ Last > 0
    BY <1>5 DEF PollSeesExit
  <2>2. Verdict(Last) = "ready" => agent[Last].state = "ended"
    BY DEF Verdict
  <2> QED
    BY <1>1, <2>1, <2>2 DEF Pollers, Last
<1>6. CASE PollUnreachable
  <2>1. poller' = [poller EXCEPT !.on = FALSE]
    BY <1>6 DEF PollUnreachable
  <2> QED
    BY <1>1, <2>1 DEF Pollers
<1> QED
  BY <1>2, <1>3, <1>4, <1>5, <1>6 DEF OutsideStep, PollStep, HookFrame, HookEnds, HookAtManual,
     HookTooLate, HookOver, FrameLost, AgentEnds, AgentFails

LEMMA OutsideFrames ==
  ASSUME Still, OutsideStep, NEW f \in mail'
  PROVE  \/ f \in mail
         \/ \E i \in 1..Len(agent) :
              /\ f.from = i /\ agent[i].state = "works"
              /\ \/ f.kind = "StopFailure"
                 \/ f.kind = "SessionEnd" /\ agent'[i].state = "ended"
<1>1. agent \in Seq(AgentRecords) /\ DOMAIN agent = 1..Len(agent)
  BY DEF Still, TypeInv
<1>2. CASE mail' \subseteq mail
  BY <1>2
<1>3. ASSUME NEW i \in DOMAIN agent, AgentEnds(i)
      PROVE  f \in mail \/ (f.from = i /\ agent[i].state = "works" /\ f.kind = "SessionEnd"
                              /\ agent'[i].state = "ended")
  <2>1. StateChanges(i, "ended") /\ agent[i].state = "works"
        /\ mail' = mail \cup {[from |-> i, kind |-> "SessionEnd"]}
    BY <1>3 DEF AgentEnds, StateChanges
  <2>2. agent'[i].state = "ended"
    BY <1>1, <2>1, AgentChanges
  <2> QED
    BY <2>1, <2>2
<1>4. ASSUME NEW i \in DOMAIN agent, AgentFails(i)
      PROVE  f \in mail \/ (f.from = i /\ agent[i].state = "works" /\ f.kind = "StopFailure")
  BY <1>4 DEF AgentFails
<1> QED
  BY <1>1, <1>2, <1>3, <1>4 DEF OutsideStep, PollStep, PollJudges, PollWrites, PollSeesExit,
     PollUnreachable, HookFrame, HookEnds, HookAtManual, HookTooLate, HookOver, FrameLost, kept

\* Calls begin with a dispatch, and end or launch by their own steps.
LEMMA CallChanges ==
  ASSUME Still, [SessionNext]_own
  PROVE  \/ call' = call \/ DispatchBegins
         \/ \E d \in DOMAIN call : CallStep(d) \/ DispatchThrows(d)
<1>1. UNCHANGED own => call' = call
  BY DEF own
<1>2. ActivityStep => call' = call
  BY ActivityShape
<1>3. DispatchStep => call' = call \/ DispatchBegins
  BY DEF DispatchStep, DispatchFindsRunning, DispatchRefused
<1>4. OutsideStep => call' = call
  BY OutsideShape
<1>5. Signal \/ Stop \/ StopEnds => call' = call
  BY DEF Signal, Approve, Reject, Stop, StopRow, StopAgent, StopEnds
<1> QED
  BY <1>1, <1>2, <1>3, <1>4, <1>5, CalmSteps

LEMMA CallsFitStep ==
  ASSUME Still, [SessionNext]_own
  PROVE  CallsFit'
<1>0. CallsFit /\ call \in Calls /\ DOMAIN call = Stages \X Attempts
  BY DEF Still, CalmKept, TypeInv, Calls
<1>1. CASE call' = call
  BY <1>0, <1>1 DEF CallsFit
<1>2. CASE DispatchBegins
  <2> DEFINE c == IF Kind[wf.stage] = "action" THEN "action" ELSE "launch"
  <2>1. call' = [call EXCEPT ![Current] = c] /\ wf.at = "dispatch"
    BY <1>2 DEF DispatchBegins, Unbegun
  <2>2. Kind[wf.stage] \in {"agent", "action"}
    BY <2>1, Flow DEF Still, Fits, TypeInv, Good, Placed, Loose
  <2>3. c \in {"action", "launch"} /\ Current[1] = wf.stage
        /\ (c = "launch" => Kind[Current[1]] = "agent") /\ (c = "action" => Kind[Current[1]] = "action")
    BY <2>2 DEF Current
  <2> HIDE DEF c
  <2> QED
    BY <1>0, <2>1, <2>3 DEF CallsFit
<1>3. ASSUME NEW d \in DOMAIN call, CallStep(d) \/ DispatchThrows(d)
      PROVE  CallsFit'
  <2>1. \/ call[d] = "launch" /\ call' = [call EXCEPT ![d] = "finalize"]
        \/ call' = [call EXCEPT ![d] = "done"]
    BY <1>3, CallShape DEF Still, Spawn
  <2> QED
    BY <1>0, <2>1 DEF CallsFit
<1> QED
  BY <1>1, <1>2, <1>3, CallChanges

\* What was said of an agent stays true of it.
LEMMA SaidStays ==
  ASSUME Still, [SessionNext]_own
  PROVE  /\ \A s : EndedWell(s) => EndedWell(s)'
         /\ \A s : NoAgentOf(s) /\ Len(agent') = Len(agent) => NoAgentOf(s)'
<1>1. Grown /\ agent \in Seq(AgentRecords) /\ agent' \in Seq(AgentRecords)
      /\ Len(agent) \in Nat /\ Len(agent') \in Nat
  BY AgentsGrow, StepKeepsTypes DEF Still, TypeInv
<1>2. Len(agent') >= Len(agent)
  <2>1. ASSUME NEW d \in DOMAIN call, Spawn(d) PROVE Len(agent') = Len(agent) + 1
    <3>1. agent' = Append(agent, [stage |-> d[1], state |-> "works"])
      BY <2>1 DEF Spawn
    <3> QED
      BY <1>1, <3>1
  <2> QED
    BY <1>1, <2>1, AgentsGrow DEF Still
<1> QED
  BY <1>1, <1>2 DEF Grown, EndedWell, NoAgentOf

\* Only a launch adds an agent: the one of its stage, when nothing is under way.
LEMMA SpawnShape ==
  ASSUME Still, NEW d \in DOMAIN call, Spawn(d)
  PROVE  /\ agent' = Append(agent, [stage |-> d[1], state |-> "works"])
         /\ Len(agent') = Len(agent) + 1 /\ agent'[Len(agent')].stage = d[1]
         /\ \A i \in 1..Len(agent) : agent'[i] = agent[i]
         /\ d \in Stages \X Attempts /\ call[d] = "launch" /\ NoAgentOf(d[1])
         /\ d[1] = wf.stage /\ Kind[d[1]] = "agent"
         /\ wf.at = "gone" \/ (wf.at = "dispatch" /\ d = Current)
         /\ call' = [call EXCEPT ![d] = "finalize"] /\ wf' = wf /\ poller' = poller
         /\ mail = {} /\ mail' = {} /\ poller.seen = "none" /\ poller.verdict = "none"
         /\ row'.status = row.status /\ row'.stage = row.stage
<1>1. /\ agent' = Append(agent, [stage |-> d[1], state |-> "works"]) /\ call[d] = "launch"
      /\ call' = [call EXCEPT ![d] = "finalize"] /\ wf' = wf /\ poller' = poller /\ Prompt
      /\ mail' = mail \cup Starts(Last + 1) /\ row' = [row EXCEPT !.handle = TRUE]
  BY DEF Spawn
<1>2. /\ agent \in Seq(AgentRecords) /\ DOMAIN call = Stages \X Attempts /\ row \in Rows
      /\ Awaited /\ Fresh /\ CallsFit /\ ~May("late") /\ {"slow", "worker"} \cap world = {}
  BY DEF Still, TypeInv, Calls, CalmKept, Calm, May
<1>3. /\ mail = {} /\ mail' = {} /\ poller.seen = "none" /\ poller.verdict = "none"
  BY <1>1, <1>2 DEF Prompt, Starts
<1>4. /\ d[1] = wf.stage /\ (wf.at = "gone" \/ (wf.at = "dispatch" /\ d = Current))
  BY <1>1, <1>2 DEF Awaited, UnderWay
<1>5. d \in Stages \X Attempts /\ NoAgentOf(d[1]) /\ Kind[d[1]] = "agent"
  BY <1>1, <1>2 DEF Fresh, CallsFit
<1>6. row'.status = row.status /\ row'.stage = row.stage
  BY <1>1, <1>2 DEF Rows
<1>7. /\ Len(agent') = Len(agent) + 1 /\ agent'[Len(agent')].stage = d[1]
      /\ \A i \in 1..Len(agent) : agent'[i] = agent[i]
  BY <1>1, <1>2
<1> QED
  BY <1>1, <1>3, <1>4, <1>5, <1>6, <1>7

LEMMA FramesStep ==
  ASSUME Still, [SessionNext]_own
  PROVE  Frames'
<1>1. /\ Grown /\ Frames /\ \A f \in mail : f.from \in 1..Len(agent)
  BY AgentsGrow DEF Still, CalmKept, TypeInv, FramesOf
<1>2. CASE mail' \subseteq mail
  BY <1>1, <1>2 DEF Frames, Grown
<1>3. CASE OutsideStep
  BY <1>1, <1>3, OutsideFrames DEF Frames, Grown
<1>4. ASSUME NEW d \in DOMAIN call, CallStep(d) \/ DispatchThrows(d)
      PROVE  mail' \subseteq mail
  BY <1>4, CallShape, SpawnShape DEF Still
<1>5. UNCHANGED own \/ ActivityStep \/ DispatchStep \/ Signal \/ Stop \/ StopEnds => mail' = mail
  BY ActivityShape DEF own, DispatchStep, DispatchBegins, DispatchFindsRunning, DispatchRefused,
     Signal, Approve, Reject, Stop, StopRow, StopAgent, StopEnds, aside
<1> QED
  BY <1>2, <1>3, <1>4, <1>5, CalmSteps

\* The agents of a stage that is done are at rest.
LEMMA EndedRests ==
  ASSUME Still, NEW s, EndedWell(s), NEW i \in 1..Len(agent), agent[i].stage = s
  PROVE  agent[i].state = "ended"
BY DEF Still, CalmKept, Crew, EndedWell

\* How the workflow's stage moves.
LEMMA StageMoves ==
  ASSUME Still, [SessionNext]_own
  PROVE  \/ wf'.stage = wf.stage
         \/ /\ wf.at = "record" /\ wf.result = "completed" /\ wf.stage \in Stages
            /\ wf'.stage = wf.stage + 1
BY StageLeft DEF Still, CalmKept, InOrder

LEMMA CrewStep ==
  ASSUME Still, [SessionNext]_own
  PROVE  Crew'
<1>0. /\ Grown /\ Crew /\ InOrder /\ agent \in Seq(AgentRecords) /\ Len(agent) \in Nat
      /\ wf.stage \in Nat /\ \A i \in 1..Len(agent) : agent[i].stage \in Stages
  <2>1. Grown /\ Crew /\ InOrder /\ agent \in Seq(AgentRecords)
    BY AgentsGrow DEF Still, CalmKept, TypeInv
  <2>2. wf.stage \in Nat
    BY TypesOfWorkflow, Flow DEF Still
  <2>3. ASSUME NEW i \in 1..Len(agent) PROVE agent[i].stage \in Stages
    <3>1. agent[i] \in AgentRecords
      BY <2>1
    <3> QED
      BY <3>1 DEF AgentRecords
  <2> QED
    BY <2>1, <2>2, <2>3
<1>1. ASSUME NEW d \in DOMAIN call, Spawn(d)
      PROVE  Crew'
  <2>1. wf' = wf /\ agent' = Append(agent, [stage |-> d[1], state |-> "works"])
        /\ Len(agent') = Len(agent) + 1 /\ agent'[Len(agent')].stage = wf.stage
        /\ NoAgentOf(wf.stage) /\ Kind[wf.stage] = "agent"
        /\ \A i \in 1..Len(agent) : agent'[i] = agent[i]
    BY <1>1, SpawnShape
  <2>2. \A i \in 1..Len(agent') : i = Len(agent') \/ i \in 1..Len(agent)
    BY <1>0, <2>1
  <2>3. wf.stage <= wf.stage
    BY <1>0
  <2>4. \A i \in 1..Len(agent') :
          /\ Kind[agent'[i].stage] = "agent" /\ agent'[i].stage <= wf.stage
          /\ agent'[i].state = "works" => agent'[i].stage = wf.stage
    BY <1>0, <2>1, <2>2, <2>3 DEF Crew
  <2>5. \A i, j \in 1..Len(agent') : agent'[i].stage = agent'[j].stage => i = j
    BY <1>0, <2>1, <2>2 DEF Crew, NoAgentOf
  <2> QED
    BY <2>1, <2>4, <2>5 DEF Crew
<1>2. CASE Len(agent') = Len(agent)
  <2>1. ASSUME NEW i \in 1..Len(agent)
        PROVE  /\ Kind[agent'[i].stage] = "agent" /\ agent'[i].stage <= wf'.stage
               /\ agent'[i].state = "works" => agent'[i].stage = wf'.stage
    <3>1. /\ agent'[i].stage = agent[i].stage /\ Kind[agent[i].stage] = "agent"
          /\ agent[i].stage <= wf.stage /\ agent[i].stage \in Stages
          /\ agent'[i].state = "works" => agent[i].state = "works" /\ agent[i].stage = wf.stage
      BY <1>0, <2>1 DEF Grown, Crew
    <3>2. CASE wf'.stage = wf.stage
      BY <3>1, <3>2
    <3>3. CASE wf.at = "record" /\ wf.result = "completed" /\ wf.stage \in Stages
               /\ wf'.stage = wf.stage + 1
      <4>1. agent[i].stage = wf.stage => agent[i].state = "ended"
        <5>1. agent[i].stage = wf.stage => EndedWell(wf.stage)
          BY <1>0, <3>1, <3>3, Flow DEF InOrder
        <5> QED
          BY <5>1, EndedRests
      <4>2. agent[i].stage <= wf.stage + 1
        <5>1. agent[i].stage \in Nat
          BY <3>1, Flow
        <5> QED
          BY <1>0, <3>1, <5>1
      <4> QED
        BY <3>1, <3>3, <4>1, <4>2
    <3> QED
      BY <3>2, <3>3, StageMoves
  <2>2. \A i, j \in 1..Len(agent) : agent'[i].stage = agent'[j].stage => i = j
    BY <1>0 DEF Grown, Crew
  <2> QED
    BY <1>2, <2>1, <2>2 DEF Crew
<1> QED
  BY <1>1, <1>2, AgentsGrow DEF Still

\* Where the workflow comes from.
LEMMA CameFrom ==
  ASSUME Still, [SessionNext]_own
  PROVE  \/ wf'.at = wf.at /\ wf'.stage = wf.stage /\ wf'.result = wf.result
         \/ <<wf.at, wf'.at>> \in Edges /\ wf'.stage = wf.stage /\ wf'.result = wf.result
         \/ wf'.at = "conclude" /\ wf'.stage = wf.stage /\ wf'.result # "completed"
         \/ wf'.at \in {"reap", "gone"} /\ wf'.stage = wf.stage
         \/ /\ wf'.at = "record" /\ wf'.stage = wf.stage
            /\ \/ wf'.result = "rejected" \/ wf.at \in {"join", "await"}
               \/ wf.at = "gate"
         \/ \E s \in 1..(LastStage + 1) :
              /\ Enters(s) /\ wf'.stage = s
              /\ wf'.at \in {"park", "fan_out", "provision", "conclude"}
              /\ wf'.at = "conclude" => s = LastStage + 1
<1>1. WorkflowMoves /\ wf \in Workflows
  BY EveryMove, TypesOfWorkflow DEF Still
<1>2. ASSUME NEW s \in 1..(LastStage + 1), Enters(s)
      PROVE  /\ wf'.stage = s /\ wf'.at \in {"park", "fan_out", "provision", "conclude"}
             /\ wf'.at = "conclude" => s = LastStage + 1
  BY <1>1, <1>2, EnterGoes DEF Enters, Goes
<1>3. CASE Remains(wf')
  BY <1>3 DEF Remains
<1>4. CASE Passes
  BY <1>4 DEF Passes, Goes
<1>5. CASE Vanishes(wf')
  BY <1>5 DEF Vanishes
<1>6. CASE wf' = wf \/ Goes(wf', wf.at, wf.stage, wf.try, wf.result, TRUE)
  BY <1>6 DEF Goes
<1> QED
  BY <1>1, <1>2, <1>3, <1>4, <1>5, <1>6 DEF WorkflowMoves, ActivityMoves

\* The workflow takes "ready" for an agent's end, and it is one.
LEMMA AwaitDone ==
  ASSUME Still, [SessionNext]_own, wf.at = "await", KindOf(wf.stage) = "agent",
         wf'.at = "record", wf'.result = "completed"
  PROVE  EndedWell(wf.stage)
<1>0. wf \in Workflows /\ agent \in Seq(AgentRecords) /\ Here /\ RowThere /\ TypeInv /\ Awaited
      /\ {"slow", "worker"} \cap world = {}
  BY TypesOfWorkflow DEF Still, CalmKept, TypeInv, Calm
<1>1. ActivityStep
  <2>1. ~(UNCHANGED own)
    BY DEF own
  <2>2. ~DispatchStep
    BY DEF DispatchStep, DispatchBegins, DispatchFindsRunning, DispatchRefused, Unbegun
  <2>3. ~OutsideStep /\ ~StopEnds
    BY OutsideShape DEF StopEnds
  <2>4. ~Signal
    BY <1>0, SignalShape
  <2>5. ~Stop
    <3>1. Terminate => wf'.at \in {"await", "gone"}
      BY <1>0, GoodTerminate
    <3> QED
      BY <3>1 DEF Stop, StopRow, StopAgent
  <2>6. ~ \E d \in DOMAIN call : CallStep(d) \/ DispatchThrows(d)
    BY <1>0, CallShape DEF Awaited
  <2> QED
    BY <2>1, <2>2, <2>3, <2>4, <2>5, <2>6, CalmSteps
<1>2. AwaitAnswers
  <2>1. ~AwaitTimesOut
    <3>1. Goes(Outcome("failed"), "record", wf.stage, 1, "failed", wf.approved)
      BY <1>0, OutcomeGoes DEF WfResults, Over
    <3> QED
      BY <1>0, <3>1, FailsGoes DEF AwaitTimesOut, Learn, Goes
  <2>2. ~ActivityThrows
    BY <1>0, FailsGoes DEF ActivityThrows, Goes
  <2> QED
    BY <1>1, <2>1, <2>2, ActivityAt
<1>3. row.status = "ready"
  <2> DEFINE result == IF row.status = "ready" THEN "completed" ELSE row.status
  <2>1. result \in WfResults /\ wf' = Outcome(result)
    BY <1>2 DEF AwaitAnswers, Settled, Learn, WfResults, Over
  <2>2. result # "completed" \/ row.status = "ready"
    BY <1>0 DEF RowThere
  <2> HIDE DEF result
  <2>3. Goes(wf', "record", wf.stage, 1, result, wf.approved)
    BY <1>0, <2>1, OutcomeGoes
  <2> QED
    BY <2>2, <2>3 DEF Goes
<1>4. /\ Len(agent) > 0 /\ agent[Len(agent)].stage = wf.stage
      /\ agent[Len(agent)].state = "ended"
  BY <1>0, <1>3 DEF Here, AtItsAgent, SaysDone
<1>5. Len(agent) \in 1..Len(agent)
  BY <1>0, <1>4
<1> QED
  BY <1>4, <1>5 DEF EndedWell

LEMMA InOrderStep ==
  ASSUME Still, [SessionNext]_own
  PROVE  InOrder'
<1>0. /\ InOrder /\ Fits(wf) /\ wf.stage \in Nat /\ LastStage \in Nat \ {0} /\ Stages = 1..LastStage
      /\ \A s : EndedWell(s) => EndedWell(s)'
  BY TypesOfWorkflow, Flow, SaidStays DEF Still, CalmKept
<1>1. \A s \in Stages : s < wf'.stage /\ Kind[s] = "agent" => EndedWell(s)'
  <2>1. CASE wf'.stage = wf.stage
    BY <1>0, <2>1 DEF InOrder
  <2>2. CASE wf.at = "record" /\ wf.result = "completed" /\ wf.stage \in Stages
             /\ wf'.stage = wf.stage + 1
    <3>1. \A s \in Stages : s < wf.stage + 1 => s < wf.stage \/ s = wf.stage
      BY <1>0
    <3> QED
      BY <1>0, <2>2, <3>1, Flow DEF InOrder
  <2> QED
    BY <2>1, <2>2, StageMoves
<1>2. wf'.at \in {"begin", "load"} => wf'.stage = 1
  BY <1>0, CameFrom DEF InOrder, Edges
<1>3. wf'.at = "conclude" /\ wf'.result = "completed" => wf'.stage = LastStage + 1
  BY <1>0, CameFrom DEF InOrder, Edges
<1>4. ASSUME wf'.at = "record", wf'.result = "completed", KindOf(wf'.stage) = "agent"
      PROVE  EndedWell(wf.stage)'
  <2>1. /\ wf'.stage = wf.stage
        /\ \/ wf.at = "record" /\ wf.result = "completed"
           \/ wf.at \in {"join", "await", "gate"}
    BY <1>4, CameFrom DEF Edges
  <2>2. wf.at \notin {"join", "gate"}
    BY <1>0, <1>4, <2>1 DEF Fits, Gates
  <2>3. EndedWell(wf.stage)
    BY <1>0, <1>4, <2>1, <2>2, AwaitDone DEF InOrder
  <2> QED
    BY <1>0, <2>1, <2>3 DEF EndedWell
<1> QED
  BY <1>1, <1>2, <1>3, <1>4 DEF InOrder, KindOf

\* A launched agent's call stays with its attempt.
LEMMA LaunchedStays ==
  ASSUME Still, [SessionNext]_own, wf.at = "dispatch", wf'.at = "dispatch", call[Current] = "finalize"
  PROVE  Current' = Current /\ call'[Current] = "finalize"
<1>0. /\ wf \in Workflows /\ TypeInv /\ Awaited /\ {"slow", "worker"} \cap world = {}
      /\ Current \in DOMAIN call /\ UnderWay(Current)
  BY TypesOfWorkflow DEF Still, TypeInv, Calm, Calls, Good, Placed, Loose, Current, Attempts,
     UnderWay
<1>1. CASE UNCHANGED own \/ OutsideStep \/ StopEnds
  BY <1>1, OutsideShape DEF own, StopEnds, Current
<1>2. ~ActivityStep /\ ~DispatchStep
  BY ActivityShape DEF DispatchStep, DispatchBegins, DispatchFindsRunning, DispatchRefused, Unbegun
<1>3. CASE Signal
  BY <1>0, <1>3, SignalShape DEF Current
<1>4. CASE Stop
  <2>1. Terminate /\ call' = call
    BY <1>4 DEF Stop, StopRow, StopAgent
  <2>2. wf' = wf
    BY <1>0, <2>1, GoodTerminate
  <2> QED
    BY <2>1, <2>2 DEF Current
<1>5. ASSUME NEW d \in DOMAIN call, CallStep(d) \/ DispatchThrows(d)
      PROVE  FALSE
  <2>1. d = Current
    BY <1>0, <1>5, CallShape DEF Awaited
  <2>2. wf' = At("launched") \/ wf' = Conclude("failed")
    BY <1>5, <2>1 DEF CallStep, LaunchFails, Spawn, Finalize, FinalizeTooLate, ActionSucceeds,
       ActionFails, DispatchThrows, Answers
  <2>3. Goes(At("launched"), "launched", wf.stage, 1, wf.result, wf.approved)
    BY <1>0, AtGoes DEF Ats, Activities
  <2>4. Goes(Conclude("failed"), "conclude", wf.stage, 1, "failed", wf.approved)
    BY <1>0, ConcludeGoes DEF WfResults, Over
  <2> QED
    BY <2>2, <2>3, <2>4 DEF Goes
<1> QED
  BY <1>1, <1>2, <1>3, <1>4, <1>5, CalmSteps

LEMMA FreshStep ==
  ASSUME Still, [SessionNext]_own
  PROVE  Fresh'
<1>0. /\ Fresh /\ Crew /\ InOrder /\ Awaited /\ call \in Calls /\ DOMAIN call = Stages \X Attempts
      /\ {"slow", "worker"} \cap world = {} /\ wf.stage \in Nat
      /\ \A s : NoAgentOf(s) /\ Len(agent') = Len(agent) => NoAgentOf(s)'
  BY SaidStays, TypesOfWorkflow, Flow DEF Still, CalmKept, TypeInv, Calls, Calm
<1>1. ASSUME NEW d \in DOMAIN call, Spawn(d)
      PROVE  Fresh'
  <2>1. /\ call' = [call EXCEPT ![d] = "finalize"] /\ call[d] = "launch" /\ wf' = wf
        /\ wf.at = "gone" \/ (wf.at = "dispatch" /\ d = Current)
    BY <1>1, SpawnShape
  <2>2. \A e \in Stages \X Attempts : call'[e] # "launch"
    BY <1>0, <2>1 DEF Awaited, UnderWay
  <2>3. wf.at = "dispatch" => call'[Current'] = "finalize"
    BY <1>0, <2>1 DEF Current
  <2> QED
    BY <2>1, <2>2, <2>3 DEF Fresh, BeforeLaunch
<1>2. CASE Len(agent') = Len(agent)
  <2>1. ASSUME NEW e \in Stages \X Attempts, call'[e] = "launch"
        PROVE  NoAgentOf(e[1])
    <3>1. CASE call[e] = "launch"
      BY <1>0, <3>1 DEF Fresh
    <3>2. CASE DispatchBegins
      <4>1. wf.at = "dispatch" /\ call[Current] = "none" /\ \E c : call' = [call EXCEPT ![Current] = c]
        BY <3>2 DEF DispatchBegins, Unbegun
      <4>2. e = Current \/ call[e] = "launch"
        BY <1>0, <2>1, <4>1
      <4>3. Current[1] = wf.stage
        BY DEF Current
      <4> QED
        BY <1>0, <3>1, <4>1, <4>2, <4>3 DEF Fresh, BeforeLaunch
    <3>3. ASSUME NEW d \in DOMAIN call, CallStep(d) \/ DispatchThrows(d)
          PROVE  call[e] = "launch"
      <4>1. call' = [call EXCEPT ![d] = "finalize"] \/ call' = [call EXCEPT ![d] = "done"]
        BY <3>3, CallShape DEF Still
      <4> QED
        BY <1>0, <2>1, <4>1
    <3> QED
      BY <2>1, <3>1, <3>2, <3>3, CallChanges
  <2>2. ASSUME \/ wf'.at \in {"begin", "load", "provision", "project"}
               \/ wf'.at = "dispatch" /\ call'[Current'] # "finalize"
        PROVE  \A i \in 1..Len(agent) : agent[i].stage # wf'.stage
    <3>1. CASE wf'.at = wf.at /\ wf'.stage = wf.stage
      BY <1>0, <2>2, <3>1, LaunchedStays DEF Fresh, BeforeLaunch, NoAgentOf
    <3>2. CASE <<wf.at, wf'.at>> \in Edges /\ wf'.stage = wf.stage
      BY <1>0, <2>2, <3>2 DEF Fresh, BeforeLaunch, Edges, NoAgentOf
    <3>3. ASSUME NEW s \in 1..(LastStage + 1), Enters(s), wf'.stage = s
          PROVE  \A i \in 1..Len(agent) : agent[i].stage # wf'.stage
      <4>1. CASE s = 1 /\ wf.at = "load"
        BY <1>0, <3>3, <4>1 DEF Fresh, BeforeLaunch, InOrder, NoAgentOf
      <4>2. CASE s = wf.stage + 1
        <5>1. \A i \in 1..Len(agent) : agent[i].stage <= wf.stage
          BY <1>0 DEF Crew
        <5>2. \A i \in 1..Len(agent) : agent[i].stage # s
          BY <1>0, <4>2, <5>1
        <5> QED
          BY <3>3, <5>2
      <4> QED
        BY <3>3, <4>1, <4>2 DEF Enters
    <3> QED
      BY <2>2, <3>1, <3>2, <3>3, CameFrom
  <2> QED
    BY <1>0, <1>2, <2>1, <2>2 DEF Fresh, BeforeLaunch, NoAgentOf
<1> QED
  BY <1>1, <1>2, AgentsGrow DEF Still

\* A dispatch that succeeds leaves a row that runs, or is ready behind an action.
LEMMA RowOfAnswer ==
  ASSUME row \in Rows, NEW d, Finalize(d) \/ ActionSucceeds(d)
  PROVE  row'.status \in {"running", "ready"}
<1>1. "running" \in RowStatuses /\ "ready" \in RowStatuses /\ TRUE \in BOOLEAN
  BY DEF RowStatuses
<1>2. CASE Finalize(d)
  <2>1. row' = [row EXCEPT !.status = "running", !.handle = TRUE]
    BY <1>2 DEF Finalize
  <2>2. RowGoes(row', "running", row.stage, TRUE)
    BY <1>1, <2>1, HandleWritten
  <2> QED
    BY <2>2 DEF RowGoes
<1>3. CASE ActionSucceeds(d)
  <2>1. NoHandle("ready")
    BY <1>3 DEF ActionSucceeds
  <2>2. RowGoes(row', "ready", row.stage, FALSE)
    BY <1>1, <2>1, NoHandleGoes
  <2> QED
    BY <2>2 DEF RowGoes
<1> QED
  BY <1>2, <1>3

LEMMA RowThereStep ==
  ASSUME Still, [SessionNext]_own
  PROVE  RowThere'
<1>0. /\ wf \in Workflows /\ TypeInv /\ Awaited /\ RowThere /\ Fits(wf) /\ row \in Rows
      /\ {"slow", "worker"} \cap world = {} /\ Placed(wf) /\ Results /\ "stopped" \in RowStatuses
  BY TypesOfWorkflow DEF Still, CalmKept, TypeInv, Calm, RowStatuses, Over
<1>1. CASE UNCHANGED own
  BY <1>0, <1>1 DEF own, RowThere
<1>2. CASE ActivityStep
  <2>1. wf.at \notin {"dispatch", "gone", "closed"} /\ row' \in {row, Projected}
    BY <1>2, ActivityShape
  <2>2. CASE wf'.at = "dispatch"
    <3>1. wf.at = "project" /\ wf'.stage = wf.stage
      BY <2>1, <2>2, CameFrom DEF Edges
    <3>2. ~ActivityThrows
      BY <1>0, <2>2, <3>1, FailsGoes DEF ActivityThrows, Goes
    <3>3. row' = Projected
      BY <1>2, <3>1, <3>2, ActivityAt DEF ProjectDispatching, Project
    <3>4. row'.status = "dispatching" /\ row'.stage = wf.stage
      BY <1>0, <3>1, <3>3, ProjectedGoes DEF Staging
    <3> QED
      BY <2>2, <3>1, <3>4 DEF RowThere
  <2>3. CASE wf'.at \in {"launched", "await"}
    <3>1. wf.at \in {"launched", "await"}
      BY <2>1, <2>3, CameFrom DEF Edges
    <3>2. row'.status \in {"running", row.status}
      BY <1>0, <2>1, <3>1, ProjectedGoes DEF Staging
    <3> QED
      BY <1>0, <2>3, <3>1, <3>2 DEF RowThere
  <2> QED
    BY <2>2, <2>3 DEF RowThere
<1>3. CASE DispatchStep
  <2>1. wf.at = "dispatch" /\ row' = Synced /\ wf.stage \in Stages
    BY <1>0, <1>3 DEF DispatchStep, DispatchBegins, DispatchFindsRunning, DispatchRefused, Unbegun,
       Placed, Loose
  <2>2. Synced.stage = wf.stage /\ Synced.status \notin {"completed", "running"}
    BY <1>0, <2>1, SyncedGoes DEF RowGoes, RowThere
  <2>3. wf' = wf \/ wf' = Conclude("failed")
    BY <1>3, <2>2 DEF DispatchStep, DispatchBegins, DispatchFindsRunning, DispatchRefused
  <2>4. wf'.stage = wf.stage
    BY <1>0, <2>1, <2>3, AnswersOpen
  <2> QED
    BY <2>1, <2>2, <2>4 DEF RowThere
<1>4. CASE OutsideStep
  <2>1. wf' = wf
    BY <1>4, OutsideShape
  <2>2. wf.at = "dispatch" => KindOf(row.stage) # "manual"
    BY <1>0 DEF RowThere, Fits
  <2>3. wf.at \in {"dispatch", "launched", "await"} => row'.status # "completed"
    BY <1>0, <1>4, OutsideRow DEF RowThere
  <2>4. wf.at = "dispatch" => row'.stage = wf.stage /\ row'.status # "running"
    BY <1>0, <1>4, <2>2, OutsideRow DEF RowThere
  <2> QED
    BY <2>1, <2>3, <2>4 DEF RowThere
<1>5. CASE Signal
  BY <1>0, <1>5, SignalShape DEF RowThere
<1>6. CASE Stop \/ StopEnds
  <2>1. row' = row \/ NoHandle("stopped")
    BY <1>6 DEF Stop, StopRow, StopAgent, StopEnds
  <2>2. row'.stage = row.stage /\ row'.status \in {row.status, "stopped"}
    BY <1>0, <2>1, NoHandleGoes DEF RowGoes
  <2>3. wf' = wf \/ wf'.at = "gone"
    BY <1>0, <1>6, GoodTerminate DEF Stop, StopRow, StopAgent, StopEnds
  <2> QED
    BY <1>0, <2>2, <2>3 DEF RowThere
<1>7. ASSUME NEW d \in DOMAIN call, CallStep(d) \/ DispatchThrows(d)
      PROVE  RowThere'
  <2>1. /\ ~(wf.at = "dispatch" /\ d = Current) => wf' = wf /\ wf.at = "gone"
        /\ Spawn(d) => wf' = wf
    BY <1>0, <1>7, CallShape DEF Awaited, Spawn
  <2>2. CASE wf' = wf /\ wf.at = "gone"
    BY <2>2 DEF RowThere
  <2>3. CASE wf.at = "dispatch" /\ d = Current
    <3>1. wf' = wf \/ wf' = At("launched") \/ wf' = Conclude("failed") \/ wf' = AttemptFails
      BY <1>7 DEF CallStep, LaunchFails, Spawn, Finalize, FinalizeTooLate, ActionSucceeds,
         ActionFails, DispatchThrows, Answers
    <3>2. /\ wf'.at \in {"dispatch", "launched", "conclude"} /\ wf'.stage = wf.stage
      BY <1>0, <2>3, <3>1, AnswersOpen
    <3>3. CASE Spawn(d)
      BY <1>0, <1>7, <2>1, <3>3, SpawnShape DEF RowThere
    <3>4. CASE row' = row
      BY <1>0, <2>3, <3>2, <3>4 DEF RowThere
    <3>5. CASE Finalize(d) \/ ActionSucceeds(d)
      <4>1. wf' = At("launched")
        BY <2>3, <3>5 DEF Finalize, ActionSucceeds, Answers
      <4>2. wf'.at = "launched"
        BY <1>0, <4>1, AtGoes DEF Goes, Ats, Activities
      <4>3. row'.status \in {"running", "ready"}
        BY <1>0, <3>5, RowOfAnswer
      <4> QED
        BY <4>2, <4>3 DEF RowThere
    <3>6. CASE ActionFails(d)
      <4>1. wf' = Conclude("failed")
        BY <2>3, <3>6 DEF ActionFails, Answers
      <4>2. wf'.at = "conclude"
        BY <1>0, <4>1, ConcludeGoes DEF Goes, WfResults, Over
      <4> QED
        BY <4>2 DEF RowThere
    <3> QED
      BY <1>7, <3>3, <3>4, <3>5, <3>6 DEF CallStep, LaunchFails, FinalizeTooLate, DispatchThrows
  <2> QED
    BY <2>1, <2>2, <2>3
<1> QED
  BY <1>1, <1>2, <1>3, <1>4, <1>5, <1>6, <1>7, CalmSteps

\* Beside the workflow's own steps, only the last agent's end says that the
\* stage is done.
LEMMA HereBeside ==
  ASSUME Still, [SessionNext]_own, UNCHANGED call, wf'.at = wf.at, wf'.stage = wf.stage, wf'.try = wf.try,
         OutsideStep \/ (row'.status \in {row.status, "stopped"} /\ UNCHANGED <<mail, poller>>)
  PROVE  Here'
<1> SUFFICES ASSUME KindOf(wf.stage) = "agent", AtItsAgent
             PROVE  /\ Len(agent') > 0 /\ agent'[Len(agent')].stage = wf'.stage
                    /\ \A f \in mail' : f.from = Len(agent')
                    /\ SaysDone' => agent'[Len(agent')].state = "ended"
  BY DEF Here, AtItsAgent, KindOf, Current
<1>0. /\ Crew /\ Frames /\ Grown /\ Len(agent) \in Nat
      /\ Len(agent) > 0 /\ agent[Len(agent)].stage = wf.stage
      /\ \A f \in mail : f.from = Len(agent)
      /\ SaysDone => agent[Len(agent)].state = "ended"
  BY AgentsGrow DEF Still, CalmKept, Here, TypeInv
<1>1. Len(agent) \in 1..Len(agent)
  BY <1>0
<1>2. Len(agent') = Len(agent)
  <2>1. ASSUME NEW d \in DOMAIN call, Spawn(d) PROVE FALSE
    <3>1. call' = [call EXCEPT ![d] = "finalize"] /\ call[d] = "launch"
      BY <2>1, SpawnShape
    <3> QED
      BY <3>1
  <2> QED
    BY <2>1, AgentsGrow DEF Still
<1>3. /\ agent'[Len(agent)].stage = wf'.stage
      /\ agent[Len(agent)].state = "ended" => agent'[Len(agent)].state = "ended"
  BY <1>0, <1>1 DEF Grown
<1>4. \A f \in mail' : f.from = Len(agent)
  <2>1. \A i \in 1..Len(agent) : agent[i].state = "works" => i = Len(agent)
    BY <1>0, <1>1 DEF Crew
  <2> QED
    BY <1>0, <2>1, OutsideFrames
<1>5. ASSUME SaysDone' PROVE agent[Len(agent)].state = "ended"
  <2>1. CASE OutsideStep
    <3>1. "ready" \in {poller'.seen, poller'.verdict}
            => SaysDone \/ agent[Len(agent)].state = "ended"
      BY <2>1, OutsidePoller DEF SaysDone
    <3>2. wf.at # "dispatch" /\ row'.status = "ready"
            => SaysDone \/ \E f \in mail : f.kind = "SessionEnd"
      BY <2>1, OutsideRow DEF SaysDone
    <3>3. \A f \in mail : f.kind = "SessionEnd" => agent[Len(agent)].state = "ended"
      BY <1>0 DEF Frames
    <3> QED
      BY <1>0, <1>5, <3>1, <3>2, <3>3 DEF SaysDone
  <2>2. CASE row'.status \in {row.status, "stopped"} /\ UNCHANGED <<mail, poller>>
    BY <1>0, <1>5, <2>2 DEF SaysDone
  <2> QED
    BY <2>1, <2>2
<1> QED
  BY <1>0, <1>2, <1>3, <1>4, <1>5

LEMMA HereStep ==
  ASSUME Still, [SessionNext]_own
  PROVE  Here'
<1>0. /\ wf \in Workflows /\ TypeInv /\ Awaited /\ Here /\ RowThere /\ CallsFit /\ row \in Rows
      /\ {"slow", "worker"} \cap world = {} /\ Placed(wf) /\ Results /\ "stopped" \in RowStatuses
      /\ Grown /\ Len(agent) \in Nat /\ DOMAIN call = Stages \X Attempts
  BY TypesOfWorkflow, AgentsGrow DEF Still, CalmKept, TypeInv, Calm, RowStatuses, Over, Calls
<1>1. CASE UNCHANGED own \/ OutsideStep
  <2>1. UNCHANGED <<call, wf>> /\ (OutsideStep \/ UNCHANGED <<row, mail, poller>>)
    BY <1>1, OutsideShape DEF own
  <2> QED
    BY <2>1, HereBeside
<1>2. CASE Signal
  BY <1>0, <1>2, SignalShape, HereBeside
<1>3. CASE Stop \/ StopEnds
  <2>1. /\ row' = row \/ NoHandle("stopped")
        /\ UNCHANGED <<call, mail, poller>>
    BY <1>3 DEF Stop, StopRow, StopAgent, StopEnds, aside
  <2>2. row'.status \in {row.status, "stopped"}
    BY <1>0, <2>1, NoHandleGoes DEF RowGoes
  <2>3. wf' = wf \/ wf'.at = "gone"
    BY <1>0, <1>3, GoodTerminate DEF Stop, StopRow, StopAgent, StopEnds
  <2> QED
    BY <2>1, <2>2, <2>3, HereBeside DEF Here, AtItsAgent
<1>4. CASE ActivityStep
  <2>1. /\ wf.at \notin {"dispatch", "gone", "closed"} /\ row' \in {row, Projected}
        /\ UNCHANGED <<call, mail, poller>>
    BY <1>4, ActivityShape
  <2>2. CASE wf'.at = "dispatch"
    <3>1. \A d \in DOMAIN call : ~UnderWay(d)
      BY <1>0, <2>1 DEF Awaited
    <3>2. wf'.stage \in Stages /\ wf'.try \in Attempts
      BY <2>2, StepKeepsTypes, WfFields DEF Still, TypeInv, Good, Placed, Loose, Attempts
    <3>3. Current' \in DOMAIN call /\ call'[Current'] = call[Current']
      BY <1>0, <2>1, <3>2 DEF Current
    <3>4. ~AtItsAgent'
      BY <2>2, <3>1, <3>3 DEF AtItsAgent, UnderWay
    <3> QED
      BY <3>4 DEF Here
  <2>3. CASE wf'.at \in {"launched", "await"}
    <3>1. wf.at \in {"launched", "await"} /\ wf'.stage = wf.stage
      BY <2>1, <2>3, CameFrom DEF Edges
    <3>2. row'.status \in {"running", row.status}
      BY <1>0, <2>1, <3>1, ProjectedGoes DEF Staging
    <3>3. Len(agent') = Len(agent)
      <4>1. ASSUME NEW d \in DOMAIN call, Spawn(d) PROVE FALSE
        BY <2>1, <3>1, <4>1, SpawnShape
      <4> QED
        BY <4>1, <1>0, AgentsGrow
    <3> SUFFICES ASSUME KindOf(wf.stage) = "agent"
                 PROVE  /\ Len(agent') > 0 /\ agent'[Len(agent')].stage = wf'.stage
                        /\ \A f \in mail' : f.from = Len(agent')
                        /\ SaysDone' => agent'[Len(agent')].state = "ended"
      BY <3>1 DEF Here, KindOf
    <3>4. /\ Len(agent) > 0 /\ agent[Len(agent)].stage = wf.stage
          /\ \A f \in mail : f.from = Len(agent)
          /\ SaysDone => agent[Len(agent)].state = "ended"
      BY <1>0, <3>1 DEF Here, AtItsAgent
    <3>5. Len(agent) \in 1..Len(agent)
      BY <1>0, <3>4
    <3>6. SaysDone' => SaysDone
      BY <2>1, <3>1, <3>2 DEF SaysDone
    <3> QED
      BY <1>0, <2>1, <3>1, <3>3, <3>4, <3>5, <3>6 DEF Grown
  <2> QED
    BY <2>2, <2>3 DEF Here, AtItsAgent
<1>5. CASE DispatchStep
  <2>1. wf.at = "dispatch" /\ wf.stage \in Stages /\ Unbegun
    BY <1>0, <1>5 DEF DispatchStep, DispatchBegins, DispatchFindsRunning, DispatchRefused, Unbegun,
       Placed, Loose
  <2>2. CASE DispatchBegins
    <3> DEFINE c == IF Kind[wf.stage] = "action" THEN "action" ELSE "launch"
    <3>1. call' = [call EXCEPT ![Current] = c] /\ wf' = wf /\ c # "finalize"
      BY <2>2 DEF DispatchBegins
    <3>2. Current \in DOMAIN call
      BY <1>0, <2>1, WfFields DEF Current, Attempts
    <3> HIDE DEF c
    <3>3. Current' = Current /\ call'[Current] # "finalize"
      BY <3>1, <3>2 DEF Current
    <3> QED
      BY <2>1, <3>1, <3>3 DEF Here, AtItsAgent
  <2>3. CASE DispatchFindsRunning
    <3>1. Synced.status = "running"
      BY <2>3 DEF DispatchFindsRunning
    <3> QED
      BY <1>0, <2>1, <3>1, SyncedGoes DEF RowThere
  <2>4. CASE DispatchRefused
    <3>1. Goes(wf', "conclude", wf.stage, 1, "failed", wf.approved)
      BY <1>0, <2>4, ConcludeGoes DEF DispatchRefused, WfResults, Over
    <3> QED
      BY <3>1 DEF Goes, Here, AtItsAgent
  <2> QED
    BY <1>5, <2>2, <2>3, <2>4 DEF DispatchStep
<1>6. ASSUME NEW d \in DOMAIN call, Spawn(d)
      PROVE  Here'
  <2>1. /\ Len(agent') = Len(agent) + 1 /\ agent'[Len(agent')].stage = wf'.stage
        /\ mail' = {} /\ poller'.seen = "none" /\ poller'.verdict = "none"
        /\ wf'.at \in {"gone", "dispatch"}
    BY <1>6, SpawnShape
  <2> QED
    BY <1>0, <2>1 DEF Here, AtItsAgent, SaysDone
<1>7. ASSUME NEW d \in DOMAIN call, CallStep(d) \/ DispatchThrows(d), ~Spawn(d)
      PROVE  Here'
  <2>1. /\ UnderWay(d) /\ call' = [call EXCEPT ![d] = "done"] /\ UNCHANGED <<agent, mail>>
        /\ ~(wf.at = "dispatch" /\ d = Current) => wf' = wf /\ wf.at = "gone"
    BY <1>0, <1>7, CallShape DEF Awaited
  <2>2. \A e \in DOMAIN call' : call'[e] # "finalize"
    BY <1>0, <2>1 DEF Awaited, UnderWay
  <2>3. wf'.at = "dispatch" => Current' \in DOMAIN call'
    <3>1. wf'.at = "dispatch" => wf'.stage \in Stages /\ wf'.try \in Attempts
      BY StepKeepsTypes, WfFields DEF Still, TypeInv, Good, Placed, Loose, Attempts
    <3> QED
      BY <1>0, <2>1, <3>1 DEF Current
  <2>4. ASSUME wf'.at \in {"launched", "await"}, KindOf(wf'.stage) = "agent"
        PROVE  /\ Len(agent') > 0 /\ agent'[Len(agent')].stage = wf'.stage
               /\ \A f \in mail' : f.from = Len(agent')
               /\ SaysDone' => agent'[Len(agent')].state = "ended"
    <3>1. wf.at = "dispatch" /\ d = Current
      BY <2>1, <2>4
    <3>2. wf' = At("launched") \/ wf' = Conclude("failed") \/ wf' = AttemptFails
      BY <1>7, <3>1 DEF CallStep, LaunchFails, Finalize, FinalizeTooLate, ActionSucceeds,
         ActionFails, DispatchThrows, Answers
    <3>3. wf' = At("launched") /\ wf'.stage = wf.stage
      BY <1>0, <2>4, <3>1, <3>2, AnswersOpen, ConcludeGoes, FailsGoes DEF Goes, WfResults, Over
    <3>4. Finalize(d)
      <4>1. ~ActionSucceeds(d)
        <5>1. call[d] = "action" => Kind[d[1]] = "action"
          BY <1>0 DEF CallsFit
        <5>2. d[1] = wf.stage /\ wf.stage \in Stages
          BY <1>0, <3>1 DEF Current, Placed, Loose
        <5> QED
          BY <2>4, <3>3, <5>1, <5>2, Flow DEF ActionSucceeds
      <4>2. At("launched") # Conclude("failed") /\ At("launched") # AttemptFails
        BY <1>0, <3>1, AtGoes, ConcludeGoes, FailsGoes DEF Goes, WfResults, Over, Ats, Activities
      <4> QED
        BY <1>7, <3>1, <3>3, <4>1, <4>2 DEF CallStep, LaunchFails, FinalizeTooLate, ActionFails,
           DispatchThrows, Answers
    <3>5. /\ AtItsAgent /\ poller' = [poller EXCEPT !.on = TRUE]
          /\ row' = [row EXCEPT !.status = "running", !.handle = TRUE]
      BY <3>1, <3>4 DEF AtItsAgent, Finalize
    <3>6. row'.status = "running" /\ poller'.seen = poller.seen /\ poller'.verdict = poller.verdict
      BY <1>0, <3>5 DEF Rows, TypeInv, Pollers
    <3>7. SaysDone' => SaysDone
      BY <3>6 DEF SaysDone
    <3> QED
      BY <1>0, <2>1, <2>4, <3>3, <3>5, <3>7 DEF Here
  <2> QED
    BY <2>1, <2>2, <2>3, <2>4 DEF Here, AtItsAgent, KindOf
<1> QED
  BY <1>1, <1>2, <1>3, <1>4, <1>5, <1>6, <1>7, CalmSteps

LEMMA CalmStep ==
  ASSUME CalmInv, [SessionNext]_own
  PROVE  CalmInv'
<1>1. TypeInv' /\ Fits(wf)' /\ Awaited' /\ world' = world
  BY StepKeepsTypes, FitsStep, EveryMove, AwaitedStep, WorldStays DEF CalmInv, Fits, KindOf
<1>2. Calm' <=> Calm
  BY <1>1 DEF Calm
<1>3. Calm => CalmKept'
  BY CallsFitStep, CrewStep, FreshStep, HereStep, FramesStep, RowThereStep, InOrderStep
     DEF CalmInv, Still, CalmKept
<1> QED
  BY <1>1, <1>2, <1>3 DEF CalmInv

LEMMA CalmIsKept == Spec => []CalmInv
BY CalmBegins, CalmStep, SessionSteps, PTL DEF Spec

---------------------------------------------------------------------------
(* The workflow implements the pipeline                                    *)

\* The mapping, by name: the stages that end by themselves, the stage, those
\* whose agent or branches have ended, the outcome.
AgentStages == {s \in Stages : Kind[s] = "agent"}
Working == AgentStages \cup Forks
Joined == {s \in Forks : \A b \in Branches : b[1] = s => branch[b].at = "completed"}
StageNow ==
  IF Calm /\ wf.stage \in Stages THEN wf.stage ELSE IF Calm THEN LastStage ELSE 1
EndedNow ==
  IF Calm
  THEN {agent[i].stage : i \in {j \in DOMAIN agent : agent[j].state = "ended"}} \cup Joined
  ELSE {}
OutcomeNow ==
  IF ~Calm \/ wf.at \notin {"reap", "closed", "gone"} THEN "open"
  ELSE IF wf.result = "completed" THEN "completed" ELSE "failed"

LEMMA PipelineActions ==
  /\ Pipeline!AgentEnds <=>
       /\ StageNow \in Working \ EndedNow
       /\ EndedNow' = EndedNow \cup {StageNow}
       /\ StageNow' = StageNow /\ OutcomeNow' = OutcomeNow
  /\ Pipeline!LeaveStage <=>
       /\ OutcomeNow = "open" /\ StageNow < LastStage
       /\ StageNow \in Working => StageNow \in EndedNow
       /\ StageNow' = StageNow + 1
       /\ EndedNow' = EndedNow /\ OutcomeNow' = OutcomeNow
  /\ Pipeline!CompleteLast <=>
       /\ OutcomeNow = "open" /\ StageNow = LastStage
       /\ StageNow \in Working => StageNow \in EndedNow
       /\ OutcomeNow' = "completed" /\ StageNow' = StageNow /\ EndedNow' = EndedNow
  /\ Pipeline!Fail <=>
       /\ OutcomeNow = "open" /\ OutcomeNow' = "failed"
       /\ StageNow' = StageNow /\ EndedNow' = EndedNow
BY DEF Pipeline!AgentEnds, Pipeline!LeaveStage, Pipeline!CompleteLast, Pipeline!Fail,
   Pipeline!Done, StageNow, EndedNow, OutcomeNow, Working, AgentStages, Joined

LEMMA PipelineBegins == Init => Pipeline!PipelineInit
<1> SUFFICES ASSUME Init PROVE StageNow = 1 /\ EndedNow = {} /\ OutcomeNow = "open"
  BY DEF Pipeline!PipelineInit, StageNow, EndedNow, OutcomeNow, Joined
<1>1. wf.at = "begin" /\ wf.stage = 1 /\ agent = << >>
  BY DEF Init
<1>2. 1 \in Stages /\ DOMAIN agent = {}
  BY <1>1, FirstStage
<1>3. Joined = {}
  BY DEF Init, Joined, Forks
<1> QED
  BY <1>1, <1>2, <1>3 DEF StageNow, EndedNow, OutcomeNow

\* Under the calm, what the mapping says.
LEMMA MappedState ==
  ASSUME Calm, agent \in Seq(AgentRecords)
  PROVE  /\ wf.stage \in Stages => StageNow = wf.stage
         /\ wf.stage \notin Stages => StageNow = LastStage
         /\ \A s : s \in EndedNow <=> EndedWell(s) \/ s \in Joined
         /\ wf.at \notin Ends => OutcomeNow = "open"
         /\ wf.at \in Ends => OutcomeNow = IF wf.result = "completed" THEN "completed" ELSE "failed"
<1>1. DOMAIN agent = 1..Len(agent)
  OBVIOUS
<1> QED
  BY <1>1 DEF StageNow, EndedNow, OutcomeNow, EndedWell, Ends

\* An outcome is final, and is "completed" only by the workflow's conclusion.
LEMMA EndMoves ==
  ASSUME Still, [SessionNext]_own
  PROVE  /\ wf.at \in Ends => /\ wf'.at \in Ends /\ wf'.stage = wf.stage
                              /\ wf'.result = wf.result
         /\ wf.at \notin Ends /\ wf'.at \in Ends =>
              /\ wf'.stage = wf.stage
              /\ wf'.result = "completed" => wf.at = "conclude" /\ wf.result = "completed"
<1>0. wf \in Workflows /\ TypeInv /\ WorkflowMoves
  BY TypesOfWorkflow, EveryMove DEF Still
<1>1. wf.at \in Ends => wf'.at \in Ends /\ wf'.stage = wf.stage /\ wf'.result = wf.result
  BY <1>0, EndsRest
<1>2. ASSUME wf.at \notin Ends, wf'.at \in Ends
      PROVE  /\ wf'.stage = wf.stage
             /\ wf'.result = "completed" => wf.at = "conclude" /\ wf.result = "completed"
  <2>1. \A s \in 1..(LastStage + 1) : ~Enters(s)
    BY <1>0, <1>2, EnterGoes DEF Enters, Goes, Ends
  <2>2. ~Passes /\ wf' # wf /\ ~Goes(wf', wf.at, wf.stage, wf.try, wf.result, TRUE)
    BY <1>2 DEF Passes, Goes, Ends
  <2>3. CASE Remains(wf')
    BY <1>2, <2>3 DEF Remains, Edges, Ends
  <2>4. CASE Vanishes(wf')
    BY <1>2, <2>4 DEF Vanishes, Ends
  <2> QED
    BY <1>0, <2>1, <2>2, <2>3, <2>4 DEF WorkflowMoves, ActivityMoves
<1> QED
  BY <1>1, <1>2

\* Agents come to their own end by that step only.
LEMMA EndedStays ==
  ASSUME Still, [SessionNext]_own, \A i \in DOMAIN agent : ~AgentEnds(i)
  PROVE  \A s : EndedWell(s)' <=> EndedWell(s)
<1>0. Grown /\ agent \in Seq(AgentRecords) /\ DOMAIN agent = 1..Len(agent) /\ Len(agent) \in Nat
  BY AgentsGrow DEF Still, TypeInv
<1>1. ASSUME NEW i \in 1..Len(agent'), agent'[i].state = "ended"
      PROVE  i \in 1..Len(agent)
  <2>1. ASSUME NEW d \in DOMAIN call, Spawn(d)
        PROVE  i \in 1..Len(agent)
    <3>1. /\ agent' = Append(agent, [stage |-> d[1], state |-> "works"])
          /\ Len(agent') = Len(agent) + 1
      BY <2>1, SpawnShape
    <3>2. agent'[Len(agent')].state = "works"
      BY <1>0, <3>1
    <3> QED
      BY <1>0, <1>1, <3>1, <3>2
  <2> QED
    BY <1>1, <2>1, AgentsGrow DEF Still
<1>2. ASSUME NEW i \in 1..Len(agent)
      PROVE  /\ agent'[i].stage = agent[i].stage
             /\ agent'[i].state = "ended" <=> agent[i].state = "ended"
  BY <1>0, <1>2 DEF Grown
<1>3. \A s : EndedWell(s) => EndedWell(s)'
  BY SaidStays
<1> QED
  BY <1>1, <1>2, <1>3 DEF EndedWell

\* A fan-out the workflow leaves, or completes behind, is one it joined.
LEMMA JoinedBefore ==
  ASSUME BranchInv
  PROVE  \A s \in Forks : Passed(s) => s \in Joined
BY DEF BranchInv, Gathered, Joined

LEMMA PipelineStep ==
  ASSUME CalmInv, BranchInv, [SessionNext]_own, branch' = branch
  PROVE  Pipeline!PipelineNext \/ UNCHANGED <<StageNow, EndedNow, OutcomeNow>>
<1>0. (Calm' <=> Calm) /\ TypeInv /\ TypeInv'
  BY WorldStays, StepKeepsTypes DEF Calm, CalmInv
<1>1. CASE ~Calm
  BY <1>0, <1>1 DEF StageNow, EndedNow, OutcomeNow
<1>2. CASE Calm
  <2>0. /\ Still /\ Calm' /\ agent \in Seq(AgentRecords) /\ agent' \in Seq(AgentRecords)
        /\ InOrder /\ Crew /\ wf.stage \in 1..(LastStage + 1) /\ DOMAIN agent = 1..Len(agent)
        /\ LastStage \in Nat \ {0} /\ Stages = 1..LastStage
    BY <1>0, <1>2, TypesOfWorkflow, Flow DEF CalmInv, Still, CalmKept, TypeInv
  <2>1. Joined' = Joined /\ Joined \subseteq Stages
        /\ \A s \in Forks : s \in Stages /\ Kind[s] = "fan_out"
    BY WorkflowAssumption DEF Joined, Forks
  <2>2. /\ wf.stage \in Stages => StageNow = wf.stage
        /\ wf.stage \notin Stages => StageNow = LastStage
        /\ \A s : s \in EndedNow <=> EndedWell(s) \/ s \in Joined
        /\ wf.at \notin Ends => OutcomeNow = "open"
        /\ wf.at \in Ends => OutcomeNow = IF wf.result = "completed" THEN "completed" ELSE "failed"
    BY <2>0, MappedState DEF Still
  <2>3. /\ wf'.stage \in Stages => StageNow' = wf'.stage
        /\ wf'.stage \notin Stages => StageNow' = LastStage
        /\ \A s : s \in EndedNow' <=> EndedWell(s)' \/ s \in Joined'
        /\ wf'.at \notin Ends => OutcomeNow' = "open"
        /\ wf'.at \in Ends =>
             OutcomeNow' = IF wf'.result = "completed" THEN "completed" ELSE "failed"
    <3>1. DOMAIN agent' = 1..Len(agent')
      BY <2>0
    <3> QED
      BY <2>0, <3>1 DEF StageNow, EndedNow, OutcomeNow, EndedWell, Ends
  <2>4. ASSUME NEW i \in DOMAIN agent, AgentEnds(i)
        PROVE  Pipeline!AgentEnds
    <3>1. /\ wf' = wf /\ agent[i].state = "works" /\ StateChanges(i, "ended")
      BY <2>4 DEF AgentEnds, StateChanges, kept
    <3>2. /\ agent[i].stage = wf.stage /\ Kind[wf.stage] = "agent" /\ wf.stage \in Stages
      <4>1. agent[i] \in AgentRecords
        BY <2>0
      <4> QED
        BY <2>0, <3>1, <4>1 DEF Crew, AgentRecords
    <3>3. ~EndedWell(wf.stage)
      BY <2>0, <3>1, <3>2, EndedRests
    <3>4. /\ Len(agent') = Len(agent)
          /\ \A j \in 1..Len(agent) : agent'[j].stage = agent[j].stage
          /\ agent'[i].state = "ended"
          /\ \A j \in 1..Len(agent) : j # i => agent'[j] = agent[j]
      BY <2>0, <3>1, AgentChanges
    <3>5. \A s : EndedWell(s)' <=> EndedWell(s) \/ s = wf.stage
      BY <2>0, <3>1, <3>2, <3>4 DEF EndedWell
    <3>6. StageNow = wf.stage /\ StageNow' = StageNow /\ OutcomeNow' = OutcomeNow
      BY <2>2, <2>3, <3>1, <3>2
    <3>7. EndedNow' = EndedNow \cup {StageNow}
      BY <2>2, <2>3, <2>1, <3>5, <3>6
    <3>8. StageNow \in Working \ EndedNow
      BY <2>2, <2>1, <3>2, <3>3, <3>6 DEF Working, AgentStages, Joined
    <3> QED
      BY <3>6, <3>7, <3>8, PipelineActions
  <2>5. ASSUME \A i \in DOMAIN agent : ~AgentEnds(i)
        PROVE  Pipeline!PipelineNext \/ UNCHANGED <<StageNow, EndedNow, OutcomeNow>>
    <3>1. EndedNow' = EndedNow
      <4>1. \A s : EndedWell(s)' <=> EndedWell(s)
        BY <2>0, <2>5, EndedStays
      <4>2. \A s : s \in EndedNow' <=> s \in EndedNow
        BY <2>2, <2>3, <2>1, <4>1
      <4>3. EndedNow \subseteq Stages /\ EndedNow' \subseteq Stages
        <5>1. \A j \in DOMAIN agent : agent[j] \in AgentRecords
          BY <2>0
        <5>2. \A j \in DOMAIN agent' : agent'[j] \in AgentRecords
          BY <2>0
        <5> QED
          BY <2>1, <5>1, <5>2 DEF EndedNow, AgentRecords
      <4> QED
        BY <4>2, <4>3
    <3>2. CASE wf.at \in Ends
      <4>1. wf'.at \in Ends /\ wf'.stage = wf.stage /\ wf'.result = wf.result
        BY <2>0, <3>2, EndMoves
      <4> QED
        BY <2>2, <2>3, <3>1, <3>2, <4>1
    <3>3. CASE wf.at \notin Ends /\ wf'.at \in Ends
      <4>1. /\ wf'.stage = wf.stage
            /\ wf'.result = "completed" => wf.at = "conclude" /\ wf.result = "completed"
        BY <2>0, <3>3, EndMoves
      <4>2. StageNow' = StageNow /\ OutcomeNow = "open"
        BY <2>2, <2>3, <3>3, <4>1
      <4>3. CASE wf'.result = "completed"
        <5>1. wf.stage = LastStage + 1 /\ OutcomeNow' = "completed"
          BY <2>0, <2>3, <3>3, <4>1, <4>3 DEF InOrder
        <5>2. StageNow = LastStage /\ LastStage \in Stages /\ LastStage < wf.stage
          BY <2>0, <2>2, <5>1
        <5>3. StageNow \in Working => StageNow \in EndedNow
          BY <2>0, <2>2, <5>2, JoinedBefore DEF InOrder, Working, AgentStages, Passed
        <5> QED
          BY <3>1, <4>2, <5>1, <5>2, <5>3, PipelineActions DEF Pipeline!PipelineNext
      <4>4. CASE wf'.result # "completed"
        BY <2>3, <3>1, <3>3, <4>2, <4>4, PipelineActions DEF Pipeline!PipelineNext
      <4> QED
        BY <4>3, <4>4
    <3>4. CASE wf.at \notin Ends /\ wf'.at \notin Ends
      <4>1. OutcomeNow = "open" /\ OutcomeNow' = OutcomeNow
        BY <2>2, <2>3, <3>4
      <4>2. CASE wf'.stage = wf.stage
        BY <2>2, <2>3, <3>1, <4>1, <4>2
      <4>3. CASE wf.at = "record" /\ wf.result = "completed" /\ wf.stage \in Stages
                 /\ wf'.stage = wf.stage + 1
        <5>1. StageNow = wf.stage
          BY <2>2, <4>3
        <5>2. StageNow \in Working => StageNow \in EndedNow
          BY <2>0, <2>2, <4>3, <5>1, Flow, JoinedBefore
             DEF InOrder, Working, AgentStages, Passed
        <5>3. CASE wf.stage = LastStage
          <6>1. wf'.stage \notin Stages
            BY <2>0, <4>3, <5>3
          <6> QED
            BY <2>3, <3>1, <4>1, <5>1, <5>3, <6>1
        <5>4. CASE wf.stage # LastStage
          <6>1. wf'.stage \in Stages /\ wf.stage < LastStage
            BY <2>0, <4>3, <5>4
          <6>2. StageNow' = StageNow + 1 /\ StageNow < LastStage
            BY <2>3, <4>3, <5>1, <6>1
          <6> QED
            BY <3>1, <4>1, <5>2, <6>2, PipelineActions DEF Pipeline!PipelineNext
        <5> QED
          BY <5>3, <5>4
      <4> QED
        BY <2>0, <4>2, <4>3, StageMoves
    <3> QED
      BY <3>2, <3>3, <3>4
  <2> QED
    BY <2>4, <2>5 DEF Pipeline!PipelineNext
<1> QED
  BY <1>1, <1>2

\* A branch that ends well may be the last of its fan-out to do so.
LEMMA BranchPipelineStep ==
  ASSUME CalmInv, BranchInv, NEW b \in Branches, BranchStep(b) \/ BranchThrows(b)
  PROVE  Pipeline!PipelineNext \/ UNCHANGED <<StageNow, EndedNow, OutcomeNow>>
<1>0. /\ UNCHANGED own /\ b[1] = wf.stage /\ wf.stage \in Stages
      /\ branch[b].at # "completed"
      /\ \A c \in Branches \ {b} : branch'[c] = branch[c]
  BY BranchMoves
<1>1. wf' = wf /\ agent' = agent /\ (Calm' <=> Calm)
  BY <1>0 DEF own, Calm
<1>2. StageNow' = StageNow /\ OutcomeNow' = OutcomeNow
  BY <1>1 DEF StageNow, OutcomeNow
<1>3. wf.stage \in Forks /\ Kind[wf.stage] = "fan_out" /\ wf.stage \notin Joined
  BY <1>0, WorkflowAssumption DEF Forks, Joined
<1>4. \A s \in Forks \ {wf.stage} : s \in Joined' <=> s \in Joined
  BY <1>0 DEF Joined
<1>5. Joined' \in {Joined, Joined \cup {wf.stage}}
  <2>1. Joined \subseteq Forks /\ Joined' \subseteq Forks
    BY DEF Joined
  <2> QED
    BY <1>3, <1>4, <2>1
<1>6. CASE ~Calm
  BY <1>1, <1>2, <1>6 DEF EndedNow
<1>7. CASE Calm
  <2>1. EndedNow' \in {EndedNow, EndedNow \cup {wf.stage}}
    BY <1>1, <1>5, <1>7 DEF EndedNow
  <2>2. StageNow = wf.stage /\ StageNow \in Working
    BY <1>0, <1>3, <1>7 DEF StageNow, Working
  <2>3. wf.stage \notin EndedNow
    <3>1. agent \in Seq(AgentRecords) /\ Crew
      BY <1>7 DEF CalmInv, TypeInv, CalmKept
    <3>2. ~EndedWell(wf.stage)
      BY <1>3, <3>1 DEF EndedWell, Crew
    <3> QED
      BY <1>3, <1>7, <3>1, <3>2, MappedState
  <2> QED
    BY <1>2, <2>1, <2>2, <2>3, PipelineActions DEF Pipeline!PipelineNext
<1> QED
  BY <1>6, <1>7

\* Temporal's workflow, with its activities retried, thrown out of and timed out,
\* its agents crashing, its signals early and its stops at any moment, keeps the
\* flow's promise: the stages are left one by one and in order, an agent's after
\* its agent came to its own end, a fan-out's after all of its branches completed,
\* and an outcome is final. That is as long as
\* the worker lives and launches, frames and verdicts are prompt.
THEOREM WorkflowIsThePipeline == Spec => ImplementsPipeline
<1>1. Init => Pipeline!PipelineInit
  BY PipelineBegins
<1>2. CalmInv /\ BranchInv /\ [Next]_vars
        => [Pipeline!PipelineNext]_<<StageNow, EndedNow, OutcomeNow>>
  BY PipelineStep, BranchPipelineStep, EveryStep
<1> QED
  BY <1>1, <1>2, CalmIsKept, BranchesAreKept, PTL
     DEF Spec, ImplementsPipeline, Pipeline!PipelineSpec, StageNow, EndedNow, OutcomeNow, Joined

---------------------------------------------------------------------------
(* The workflow goes forward, and its dispatches are awaited               *)

\* How far a workflow is that is at an attempt of an activity of a stage.
SpotOf(at, s, k) ==
  CASE at = "conclude" -> EndOfFlow + k
    [] at = "reap" -> EndOfFlow + 2 + k
    [] at \in {"closed", "gone"} -> EndOfFlow + 5
    [] OTHER -> 16 * s + 2 * PlaceOf(at) + k

LEMMA ProgressIs == Progress = SpotOf(wf.at, wf.stage, wf.try)
BY DEF Progress, SpotOf

LEMMA Places ==
  /\ PlaceOf("begin") = 0 /\ PlaceOf("load") = 1
  /\ PlaceOf("park") = 2 /\ PlaceOf("fan_out") = 2 /\ PlaceOf("provision") = 2
  /\ PlaceOf("gate") = 3 /\ PlaceOf("join") = 3 /\ PlaceOf("project") = 3
  /\ PlaceOf("dispatch") = 4 /\ PlaceOf("launched") = 5
  /\ PlaceOf("await") = 6 /\ PlaceOf("record") = 7
BY DEF PlaceOf

Closings == {"conclude", "reap", "closed", "gone"}

LEMMA SpotsAre ==
  ASSUME NEW s \in Nat, NEW k \in 1..2
  PROVE  /\ \A at \in Ats \ Closings : /\ PlaceOf(at) \in 0..7
                                   /\ SpotOf(at, s, k) = 16 * s + 2 * PlaceOf(at) + k
         /\ SpotOf("conclude", s, k) = EndOfFlow + k
         /\ SpotOf("reap", s, k) = EndOfFlow + 2 + k
         /\ SpotOf("closed", s, k) = EndOfFlow + 5
         /\ SpotOf("gone", s, k) = EndOfFlow + 5
<1>1. \A at \in Ats \ Closings : PlaceOf(at) \in 0..7
  BY Places DEF Ats, Activities, Closings
<1>2. \A at \in Ats \ Closings : SpotOf(at, s, k) = 16 * s + 2 * PlaceOf(at) + k
  BY DEF SpotOf, Closings
<1>3. /\ SpotOf("conclude", s, k) = EndOfFlow + k
      /\ SpotOf("reap", s, k) = EndOfFlow + 2 + k
      /\ SpotOf("closed", s, k) = EndOfFlow + 5
      /\ SpotOf("gone", s, k) = EndOfFlow + 5
  BY DEF SpotOf
<1> QED
  BY <1>1, <1>2, <1>3

LEMMA EndIs == EndOfFlow \in Nat /\ EndOfFlow = 16 * LastStage + 32
BY Flow DEF EndOfFlow

LEMMA SpotBounds ==
  ASSUME NEW at \in Ats, NEW s \in 1..(LastStage + 1), NEW k \in 1..2
  PROVE  /\ SpotOf(at, s, k) \in 1..(EndOfFlow + 5)
         /\ at \notin Closings => SpotOf(at, s, k) <= EndOfFlow
<1>1. CASE at \notin Closings
  <2>1. SpotOf(at, s, k) = 16 * s + 2 * PlaceOf(at) + k /\ PlaceOf(at) \in 0..7
    <3>1. s \in Nat /\ at \in Ats \ Closings
      BY <1>1, Flow
    <3> QED
      BY <3>1, SpotsAre
  <2>2. s <= LastStage + 1 /\ s \in Nat \ {0} /\ LastStage \in Nat
    BY Flow
  <2>3. \A p \in 0..7 : 16 * s + 2 * p + k \in 1..(16 * LastStage + 32)
    BY <2>2
  <2> QED
    BY <2>1, <2>2, <2>3, EndIs
<1>2. CASE at \in Closings
  BY <1>2, SpotsAre, EndIs, Flow DEF Closings
<1> QED
  BY <1>1, <1>2

\* Each way on leads forward: a second attempt, the next activity, an outcome,
\* a conclusion, a throw, the next stage, an end.
LEMMA SpotsGrow ==
  ASSUME NEW at \in Ats, NEW s \in 1..(LastStage + 1), NEW k \in 1..2
  PROVE  /\ SpotOf(at, s, 1) < SpotOf(at, s, 2) \/ at \in {"closed", "gone"}
         /\ \A to \in Ats : <<at, to>> \in Edges => SpotOf(at, s, k) < SpotOf(to, s, 1)
         /\ at \in {"gate", "join", "await"} => SpotOf(at, s, k) < SpotOf("record", s, 1)
         /\ at \notin Closings => SpotOf(at, s, k) < SpotOf("conclude", s, 1)
         /\ at \notin {"reap", "closed", "gone"} => SpotOf(at, s, k) < SpotOf("reap", s, 1)
         /\ at \notin {"closed", "gone"} => SpotOf(at, s, k) < SpotOf("closed", s, 1)
         /\ at \notin {"closed", "gone"} => SpotOf(at, s, k) < SpotOf("gone", s, 1)
<1>0. /\ s \in Nat /\ Closings \subseteq Ats /\ 1 \in 1..2 /\ 2 \in 1..2
      /\ {"record", "load", "gate", "join", "project", "dispatch", "launched", "await"}
           \subseteq Ats \ Closings
  BY Flow DEF Ats, Activities, Closings
<1>1. CASE at \notin Closings
  <2>1. SpotOf(at, s, k) = 16 * s + 2 * PlaceOf(at) + k /\ PlaceOf(at) \in 0..7
        /\ SpotOf(at, s, 1) = 16 * s + 2 * PlaceOf(at) + 1
        /\ SpotOf(at, s, 2) = 16 * s + 2 * PlaceOf(at) + 2
    BY <1>0, <1>1, SpotsAre
  <2>2. SpotOf(at, s, k) <= EndOfFlow
    BY <1>1, SpotBounds
  <2>3. \A to \in Ats : <<at, to>> \in Edges => SpotOf(at, s, k) < SpotOf(to, s, 1)
    <3> SUFFICES ASSUME NEW to \in Ats, <<at, to>> \in Edges
                 PROVE  SpotOf(at, s, k) < SpotOf(to, s, 1)
      OBVIOUS
    <3>1. PlaceOf(to) = PlaceOf(at) + 1 /\ to \in Ats \ Closings
      BY <1>0, <1>1, Places DEF Edges, Closings
    <3>2. SpotOf(to, s, 1) = 16 * s + 2 * PlaceOf(to) + 1
      BY <1>0, <3>1, SpotsAre
    <3> QED
      BY <2>1, <3>1, <3>2
  <2>4. at \in {"gate", "join", "await"} => SpotOf(at, s, k) < SpotOf("record", s, 1)
    <3>1. SpotOf("record", s, 1) = 16 * s + 2 * 7 + 1
      BY <1>0, SpotsAre, Places
    <3>2. at \in {"gate", "join", "await"} => PlaceOf(at) \in {3, 6}
      BY Places
    <3> QED
      BY <2>1, <3>1, <3>2
  <2> QED
    BY <1>0, <1>1, <2>1, <2>2, <2>3, <2>4, EndIs, SpotsAre, SMTT(30) DEF Closings
<1>2. CASE at \in Closings
  <2>1. at \notin {"gate", "join", "await"}
    BY <1>2 DEF Closings
  <2>2. \A to \in Ats : <<at, to>> \in Edges =>
          (at = "conclude" /\ to = "reap") \/ (at = "reap" /\ to = "closed")
    BY <1>2 DEF Edges, Closings
  <2> QED
    BY <1>0, <1>2, <2>1, <2>2, EndIs, SpotsAre DEF Closings
<1> QED
  BY <1>1, <1>2

LEMMA StagesGrow ==
  ASSUME NEW s \in 1..LastStage, NEW k \in 1..2, NEW at \in {"park", "fan_out", "provision"}
  PROVE  /\ SpotOf("record", s, k) < SpotOf(at, s + 1, 1)
         /\ SpotOf("record", s, k) < SpotOf("conclude", s + 1, 1)
         /\ SpotOf("load", 1, k) < SpotOf(at, 1, 1)
<1>1. {"record", "load", "park", "fan_out", "provision"} \subseteq Ats \ Closings
      /\ PlaceOf(at) = 2 /\ PlaceOf("load") = 1 /\ PlaceOf("record") = 7
  BY Places DEF Ats, Activities, Closings
<1>2. SpotOf(at, s + 1, 1) = 16 * (s + 1) + 2 * 2 + 1 /\ SpotOf(at, 1, 1) = 16 * 1 + 2 * 2 + 1
  BY <1>1, SpotsAre
<1>3. SpotOf("record", s, k) = 16 * s + 2 * 7 + k /\ SpotOf("load", 1, k) = 16 * 1 + 2 * 1 + k
  BY <1>1, SpotsAre, SMTT(30)
<1>4. SpotOf("conclude", s + 1, 1) = EndOfFlow + 1
  BY SpotsAre
<1> QED
  BY <1>2, <1>3, <1>4, EndIs, Flow

\* A flow is begun and loaded before its first stage.
Started == wf.at \in {"begin", "load"} => wf.stage = 1

LEMMA StartedStep ==
  ASSUME TypeInv, Started, [SessionNext]_own
  PROVE  Started'
<1>1. CASE UNCHANGED wf
  BY <1>1 DEF Started
<1>2. CASE Goes(wf', wf.at, wf.stage, wf.try, wf.result, TRUE) \/ Passes \/ Vanishes(wf')
  BY <1>2 DEF Goes, Passes, Vanishes, Started
<1>3. CASE Remains(wf')
  BY <1>3 DEF Remains, Started, Edges
<1>4. ASSUME NEW s \in 1..(LastStage + 1), Enters(s)
      PROVE  Started'
  <2>1. wf' = Enter(s)
    BY <1>4 DEF Enters
  <2>2. wf'.at \notin {"begin", "load"}
    BY <2>1, TypesOfWorkflow, EnterGoes DEF Goes
  <2> QED
    BY <2>2 DEF Started
<1> QED
  BY <1>1, <1>2, <1>3, <1>4, EveryMove DEF WorkflowMoves, ActivityMoves

\* The workflow is where it was, or further on.
Rests == wf'.at = wf.at /\ wf'.stage = wf.stage /\ wf'.try = wf.try
Advances == Progress < Progress'

LEMMA GoneOn ==
  ASSUME NEW at, NEW s, NEW k, NEW result, NEW approved, Goes(wf', at, s, k, result, approved),
         SpotOf(wf.at, wf.stage, wf.try) < SpotOf(at, s, k)
  PROVE  Advances
<1>1. Progress' = SpotOf(wf'.at, wf'.stage, wf'.try)
  BY DEF Progress, SpotOf, PlaceOf, EndOfFlow
<1> QED
  BY <1>1, ProgressIs DEF Goes, Advances

LEMMA ForwardOn ==
  ASSUME TypeInv
  PROVE  /\ \A at \in Ats : <<wf.at, at>> \in Edges /\ wf' = At(at) => Advances
         /\ \A result \in WfResults :
              wf.at \notin Closings /\ wf' = Conclude(result) => Advances
         /\ \A result \in WfResults :
              wf.at \in {"gate", "join", "await"} /\ wf' = Outcome(result) => Advances
         /\ wf.at \notin {"reap", "closed", "gone"} /\ wf' = Thrown => Advances
         /\ wf.at \notin {"reap", "closed", "gone"} /\ wf' = AttemptFails => Advances
<1>0. wf \in Workflows /\ wf.at \in Ats /\ wf.stage \in 1..(LastStage + 1) /\ wf.try \in 1..2
  BY TypesOfWorkflow
<1>1. \A at \in Ats : <<wf.at, at>> \in Edges /\ wf' = At(at) => Advances
  BY <1>0, AtGoes, GoneOn, SpotsGrow
<1>2. \A result \in WfResults : wf.at \notin Closings /\ wf' = Conclude(result) => Advances
  BY <1>0, ConcludeGoes, GoneOn, SpotsGrow
<1>3. \A result \in WfResults :
        wf.at \in {"gate", "join", "await"} /\ wf' = Outcome(result) => Advances
  BY <1>0, OutcomeGoes, GoneOn, SpotsGrow
<1>4. wf.at \notin {"reap", "closed", "gone"} /\ wf' = Thrown => Advances
  BY <1>0, ThrownGoes, GoneOn, SpotsGrow
<1>5. ASSUME wf.at \notin {"reap", "closed", "gone"}, wf' = AttemptFails PROVE Advances
  <2>1. CASE wf.try = 1 /\ Goes(wf', wf.at, wf.stage, 2, wf.result, wf.approved)
    BY <1>0, <1>5, <2>1, GoneOn, SpotsGrow
  <2>2. CASE wf.at = "dispatch" /\ Goes(wf', "conclude", wf.stage, 1, "failed", wf.approved)
    <3>1. "dispatch" \notin Closings
      BY DEF Closings
    <3> QED
      BY <1>0, <2>2, <3>1, GoneOn, SpotsGrow
  <2>3. CASE Goes(wf', "reap", wf.stage, 1, "thrown", wf.approved)
    BY <1>0, <1>5, <2>3, GoneOn, SpotsGrow
  <2> QED
    BY <1>0, <1>5, <2>1, <2>2, <2>3, FailsGoes
<1> QED
  BY <1>1, <1>2, <1>3, <1>4, <1>5

\* Every step leaves the workflow where it is, or takes it further.
LEMMA ForwardStep ==
  ASSUME TypeInv, Started, [SessionNext]_own
  PROVE  Rests \/ Advances
<1>0. /\ wf \in Workflows /\ wf.at \in Ats /\ wf.stage \in 1..(LastStage + 1) /\ wf.try \in 1..2
      /\ {"failed", "completed", "rejected", "stopped"} \cup Over \subseteq WfResults
      /\ {"load", "gate", "join", "project", "dispatch", "launched", "await", "reap", "closed",
          "gone"} \subseteq Ats
      /\ {"load", "gate", "join", "dispatch", "await", "record"} \cap Closings = {}
  BY TypesOfWorkflow DEF Ats, Activities, WfResults, Over, Closings
<1>1. CASE \/ Begin \/ Park \/ FanOut \/ ProjectDispatching \/ MarkRunning \/ Finish
           \/ Provision \/ Reap \/ ReapFails
  <2>1. \E at \in Ats : <<wf.at, at>> \in Edges /\ wf' = At(at)
    BY <1>0, <1>1 DEF Begin, Park, FanOut, ProjectDispatching, MarkRunning, Finish, Provision,
       Reap, ReapFails, Project, Edges
  <2> QED
    BY <2>1, ForwardOn
<1>2. CASE LoadNoStages \/ LoadUnknown \/ JoinThrows \/ ProvisionLost
  <2>1. \/ wf.at = "load" /\ wf' = Conclude("failed")
        \/ wf.at \notin {"reap", "closed", "gone"} /\ wf' \in {AttemptFails, Thrown}
    BY <1>2 DEF LoadNoStages, LoadUnknown, JoinThrows, ProvisionLost, Learn
  <2> QED
    BY <1>0, <2>1, ForwardOn
<1>3. CASE PassGate
  <2> DEFINE f == Outcome("completed")
  <2>1. wf.at = "gate" /\ wf' = [f EXCEPT !.approved = FALSE]
    BY <1>3 DEF PassGate, Learn
  <2>2. Goes(f, "record", wf.stage, 1, "completed", wf.approved)
    BY <1>0, OutcomeGoes
  <2> HIDE DEF f
  <2>3. Goes([f EXCEPT !.approved = FALSE], f.at, f.stage, f.try, f.result, FALSE)
    BY <2>2, ApprovedWritten, Zenon DEF Goes
  <2>4. Goes(wf', "record", wf.stage, 1, "completed", FALSE)
    BY <2>1, <2>2, <2>3 DEF Goes
  <2>5. SpotOf(wf.at, wf.stage, wf.try) < SpotOf("record", wf.stage, 1)
    BY <1>0, <2>1, SpotsGrow
  <2> QED
    BY <2>4, <2>5, GoneOn
<1>4. CASE RejectGate \/ Join \/ AwaitTimesOut \/ AwaitAnswers
  <2>1. wf.at \in {"gate", "join", "await"}
    BY <1>4 DEF RejectGate, Join, AwaitTimesOut, AwaitAnswers, Learn
  <2>2. wf' = AttemptFails \/ \E result \in WfResults : wf' = Outcome(result)
    <3>1. CASE RejectGate \/ Join \/ AwaitTimesOut
      BY <1>0, <3>1 DEF RejectGate, Join, AwaitTimesOut, Learn
    <3>2. CASE AwaitAnswers
      <4>1. (IF row.status = "ready" THEN "completed" ELSE row.status) \in WfResults
        BY <1>0, <3>2 DEF AwaitAnswers, Settled
      <4> QED
        BY <3>2, <4>1, Zenon DEF AwaitAnswers, Learn
    <3> QED
      BY <1>4, <3>1, <3>2
  <2> QED
    BY <2>1, <2>2, ForwardOn
<1>5. ASSUME NEW s \in 1..(LastStage + 1), Enters(s)
      PROVE  Advances
  <2>1. wf.at = "record" => wf.stage \in 1..LastStage
    BY Flow DEF TypeInv, Good, Placed, Loose
  <2>2. CASE s = LastStage + 1 /\ Goes(wf', "conclude", s, 1, "completed", wf.approved)
    <3>1. s = wf.stage + 1 /\ wf.at = "record"
      BY <1>5, <2>2, Flow DEF Enters
    <3>2. SpotOf("record", wf.stage, wf.try) < SpotOf("conclude", wf.stage + 1, 1)
      BY <1>0, <2>1, <3>1, StagesGrow
    <3> QED
      BY <2>2, <3>1, <3>2, GoneOn
  <2>3. ASSUME NEW at \in {"park", "fan_out", "provision"},
               Goes(wf', at, s, 1, wf.result, wf.approved)
        PROVE  Advances
    <3>1. SpotOf(wf.at, wf.stage, wf.try) < SpotOf(at, s, 1)
      <4>1. CASE s = wf.stage + 1 /\ wf.at = "record"
        BY <1>0, <2>1, <4>1, StagesGrow
      <4>2. CASE s = 1 /\ wf.at = "load"
        <5>1. 1 \in 1..LastStage /\ wf.stage = 1
          BY <4>2, Flow DEF Started
        <5> QED
          BY <1>0, <4>2, <5>1, StagesGrow
      <4> QED
        BY <1>5, <4>1, <4>2 DEF Enters
    <3> QED
      BY <2>3, <3>1, GoneOn
  <2> QED
    BY <1>0, <1>5, <2>2, <2>3, EnterGoes DEF Enters
<1>6. CASE LoadFlow
  BY <1>5, <1>6, FirstStage DEF LoadFlow, Learn, Enters
<1>7. CASE Record
  <2>1. wf.at = "record"
    BY <1>7 DEF Record, Project
  <2>2. CASE wf.result = "completed"
    <3> DEFINE s == wf.stage + 1
    <3>1. wf' = Enter(s) /\ s = wf.stage + 1
      BY <1>7, <2>2 DEF Record, Project
    <3>2. s \in 1..(LastStage + 1)
      BY <2>1, Flow DEF TypeInv, Good, Placed, Loose
    <3> HIDE DEF s
    <3>3. Enters(s)
      BY <2>1, <2>2, <3>1, <3>2, Flow DEF Enters, TypeInv, Good, Placed, Loose
    <3> QED
      BY <1>5, <3>2, <3>3
  <2>3. CASE wf.result # "completed"
    <3>1. wf' = Conclude("failed") \/ wf' = Conclude(wf.result)
      BY <1>7, <2>3 DEF Record, Project
    <3>2. wf.result \in WfResults
      BY TypesOfWorkflow
    <3> QED
      BY <1>0, <2>1, <3>1, <3>2, ForwardOn
  <2> QED
    BY <2>2, <2>3
<1>8. CASE DispatchStep
  <2>1. wf.at = "dispatch" /\ wf' \in {wf, At("launched"), Conclude("failed")}
    BY <1>8 DEF DispatchStep, DispatchBegins, DispatchFindsRunning, DispatchRefused, Unbegun
  <2> QED
    BY <1>0, <2>1, ForwardOn DEF Rests, Edges
<1>9. ASSUME NEW d \in DOMAIN call, CallStep(d) \/ DispatchThrows(d)
      PROVE  Rests \/ Advances
  <2>1. \/ wf' = wf
        \/ wf.at = "dispatch" /\ wf' \in {At("launched"), Conclude("failed"), AttemptFails}
    BY <1>9 DEF CallStep, LaunchFails, Spawn, Finalize, FinalizeTooLate, ActionSucceeds,
       ActionFails, DispatchThrows, Answers
  <2> QED
    BY <1>0, <2>1, ForwardOn DEF Rests, Edges
<1>10. CASE HeartbeatLost \/ ActivityThrows \/ WorkerDies
  <2>1. \/ wf' = wf
        \/ wf.at \in Activities \cup {"dispatch"} /\ wf' = AttemptFails
        \/ wf.at = "reap" /\ wf' = At("closed")
    BY <1>10 DEF HeartbeatLost, ActivityThrows, WorkerDies
  <2>2. {"reap", "closed", "gone"} \cap (Activities \cup {"dispatch"}) = {}
    BY DEF Activities
  <2> QED
    BY <1>0, <2>1, <2>2, ForwardOn DEF Rests, Edges
<1>11. CASE Stop
  <2>1. Terminate
    BY <1>11 DEF Stop, StopRow, StopAgent
  <2>2. CASE wf' = wf
    BY <2>2 DEF Rests
  <2>3. CASE Open /\ wf' = At("gone")
    <3>1. Goes(wf', "gone", wf.stage, 1, wf.result, wf.approved)
      BY <1>0, <2>3, AtGoes
    <3> QED
      BY <1>0, <2>3, <3>1, SpotsGrow, GoneOn DEF Open
  <2>4. CASE Open /\ wf' = [At("gone") EXCEPT !.result = "stopped"]
    <3>1. Goes(wf', "gone", wf.stage, 1, "stopped", wf.approved)
      BY <1>0, <2>4, ResultGoes
    <3> QED
      BY <1>0, <2>4, <3>1, SpotsGrow, GoneOn DEF Open
  <2> QED
    BY <2>1, <2>2, <2>3, <2>4 DEF Terminate
<1>12. CASE Signal
  BY <1>12, SignalShape DEF Rests
<1>13. CASE OutsideStep \/ StopEnds \/ UNCHANGED own
  BY <1>13, OutsideShape DEF StopEnds, own, Rests
<1> QED
  BY <1>1, <1>2, <1>3, <1>4, <1>6, <1>7, <1>8, <1>9, <1>10, <1>11, <1>12, <1>13, StepKinds
     DEF ActivityStep

ForwardInv == TypeInv /\ Started

LEMMA ForwardBegins == Init => ForwardInv
BY TypesBegin DEF Init, ForwardInv, Started

LEMMA ForwardKept == ForwardInv /\ [SessionNext]_own => ForwardInv'
BY StepKeepsTypes, StartedStep DEF ForwardInv

\* A workflow is never set back: it repeats no stage, no activity and no
\* attempt, and changes no more often than the length of its flow allows, with
\* every fault there is.
THEOREM WorkflowsGoForward == Spec => WorkflowGoesForward
<1>1. ASSUME ForwardInv, [SessionNext]_own
      PROVE  /\ Progress \in 1..(EndOfFlow + 5)
             /\ <<wf.at, wf.stage, wf.try>>' # <<wf.at, wf.stage, wf.try>> => Progress < Progress'
  <2>1. Progress \in 1..(EndOfFlow + 5)
    BY <1>1, TypesOfWorkflow, SpotBounds, ProgressIs DEF ForwardInv
  <2>2. Rests \/ Advances
    BY <1>1, ForwardStep DEF ForwardInv
  <2> QED
    BY <2>1, <2>2 DEF Rests, Advances
<1>2. ForwardInv /\ [SessionNext]_own
        => [/\ Progress \in 1..(EndOfFlow + 5)
            /\ <<wf.at, wf.stage, wf.try>>' # <<wf.at, wf.stage, wf.try>>
                 => Progress < Progress']_vars
  <2>1. UNCHANGED vars => <<wf.at, wf.stage, wf.try>>' = <<wf.at, wf.stage, wf.try>>
    BY DEF vars, own
  <2> QED
    BY <1>1, <2>1
<1> QED
  BY <1>2, ForwardBegins, ForwardKept, SessionSteps, PTL DEF Spec, WorkflowGoesForward

\* No dispatch was begun beyond where the workflow is.
SpotOfCall(d) == 16 * d[1] + 8 + d[2]
CallsBehind == \A d \in Stages \X Attempts : call[d] # "none" => SpotOfCall(d) <= Progress

AwaitInv == ForwardInv /\ CallsBehind /\ DispatchIsAwaited

LEMMA AwaitBegins == Init => AwaitInv
BY ForwardBegins DEF Init, AwaitInv, CallsBehind, DispatchIsAwaited

LEMMA SpotAtDispatch ==
  ASSUME wf \in Workflows, wf.at = "dispatch"
  PROVE  Progress = SpotOfCall(Current)
<1>1. "dispatch" \in Ats \ Closings /\ PlaceOf("dispatch") = 4
  BY Places DEF Ats, Activities, Closings
<1>2. wf.stage \in Nat /\ wf.try \in 1..2
  BY WfFields, Flow
<1>3. Progress = 16 * wf.stage + 2 * 4 + wf.try
  BY <1>1, <1>2, SpotsAre, ProgressIs
<1> QED
  BY <1>2, <1>3 DEF SpotOfCall, Current

LEMMA ProgressInNat ==
  /\ wf \in Workflows => Progress \in Nat
  /\ wf' \in Workflows => Progress' \in Nat
<1>1. ASSUME NEW w \in Workflows
      PROVE  SpotOf(w.at, w.stage, w.try) \in Nat
  BY WfFields, SpotBounds, EndIs
<1>2. Progress' = SpotOf(wf'.at, wf'.stage, wf'.try)
  BY DEF Progress, SpotOf, PlaceOf, EndOfFlow
<1> QED
  BY <1>1, <1>2, ProgressIs

LEMMA AdvancesOrRests ==
  ASSUME TypeInv
  PROVE  /\ Rests => Progress' = Progress
         /\ ~(Rests /\ Advances)
<1>1. Progress \in Nat
  BY ProgressInNat, TypesOfWorkflow
<1>2. Rests => Progress' = Progress
  BY DEF Rests, Progress, PlaceOf, EndOfFlow
<1> QED
  BY <1>1, <1>2 DEF Advances

\* What a step does to the calls, and to the one that is waited for.
LEMMA CallsMove ==
  ASSUME TypeInv, [SessionNext]_own
  PROVE  /\ \A e \in Stages \X Attempts :
              call'[e] # "none" => call[e] # "none" \/ (wf.at = "dispatch" /\ e = Current)
         /\ wf.at = "dispatch" /\ Rests /\ call'[Current] = "done" => call[Current] = "done"
<1>0. /\ call \in Calls /\ DOMAIN call = Stages \X Attempts /\ wf \in Workflows
      /\ wf.at = "dispatch" => Current \in DOMAIN call
  BY TypesOfWorkflow DEF TypeInv, Good, Calls, Placed, Loose, Current, Attempts
<1>1. CASE call' = call
  BY <1>1
<1>2. CASE DispatchBegins
  <2> DEFINE c == IF Kind[wf.stage] = "action" THEN "action" ELSE "launch"
  <2>1. wf.at = "dispatch" /\ call' = [call EXCEPT ![Current] = c] /\ c # "done"
    BY <1>2 DEF DispatchBegins, Unbegun
  <2> HIDE DEF c
  <2> QED
    BY <1>0, <2>1
<1>3. ASSUME NEW d \in DOMAIN call, CallStep(d) \/ DispatchThrows(d)
      PROVE  /\ \A e \in Stages \X Attempts : call'[e] # "none" => call[e] # "none"
             /\ wf.at = "dispatch" /\ Rests /\ call'[Current] = "done" => call[Current] = "done"
  <2>1. /\ UnderWay(d)
        /\ call' = [call EXCEPT ![d] = "finalize"] \/ call' = [call EXCEPT ![d] = "done"]
    BY <1>3, CallShape
  <2>2. \A e \in Stages \X Attempts : call'[e] # "none" => call[e] # "none"
    BY <1>0, <2>1 DEF UnderWay
  <2>3. ASSUME wf.at = "dispatch", Rests, call'[Current] = "done", call[Current] # "done"
        PROVE  FALSE
    <3>1. d = Current /\ call' = [call EXCEPT ![d] = "done"]
      BY <1>0, <2>1, <2>3
    <3>2. wf' \in {At("launched"), Conclude("failed"), AttemptFails}
      BY <1>3, <2>3, <3>1 DEF CallStep, LaunchFails, Spawn, Finalize, FinalizeTooLate,
         ActionSucceeds, ActionFails, DispatchThrows, Answers
    <3>3. Advances
      <4>1. "launched" \in Ats /\ "failed" \in WfResults /\ "dispatch" \notin Closings
            /\ <<"dispatch", "launched">> \in Edges
        BY DEF Ats, Activities, WfResults, Over, Closings, Edges
      <4> QED
        BY <2>3, <3>2, <4>1, ForwardOn
    <3> QED
      BY <2>3, <3>3, AdvancesOrRests
  <2> QED
    BY <2>2, <2>3
<1>4. CASE WorkerDies
  <2>1. call' = [d \in DOMAIN call |-> IF call[d] = "none" THEN "none" ELSE "done"]
    BY <1>4 DEF WorkerDies
  <2>2. wf.at = "dispatch" /\ call[Current] # "none" => wf' = AttemptFails
    BY <1>4 DEF WorkerDies
  <2>3. wf.at = "dispatch" /\ call[Current] # "none" => ~Rests
    BY <2>2, ForwardOn, AdvancesOrRests
  <2> QED
    BY <1>0, <2>1, <2>3
<1>5. UNCHANGED own \/ ActivityStep \/ OutsideStep \/ Signal \/ Stop \/ StopEnds \/ HeartbeatLost
        \/ DispatchFindsRunning \/ DispatchRefused => call' = call
  BY ActivityShape, OutsideShape DEF own, Signal, Approve, Reject, Stop, StopRow, StopAgent,
     StopEnds, HeartbeatLost, DispatchFindsRunning, DispatchRefused
<1> QED
  BY <1>1, <1>2, <1>3, <1>4, <1>5, StepKinds DEF DispatchStep

LEMMA AwaitStep == AwaitInv /\ [SessionNext]_own => AwaitInv'
<1> SUFFICES ASSUME AwaitInv, [SessionNext]_own PROVE AwaitInv'
  OBVIOUS
<1>0. /\ TypeInv /\ TypeInv' /\ ForwardInv' /\ wf \in Workflows /\ wf' \in Workflows
      /\ \A d \in Stages \X Attempts : SpotOfCall(d) \in Nat
  <2>1. TypeInv /\ ForwardInv' /\ TypeInv'
    BY ForwardKept DEF AwaitInv, ForwardInv
  <2>2. wf \in Workflows /\ wf' \in Workflows
    BY <2>1 DEF TypeInv, Good
  <2>3. \A d \in Stages \X Attempts : SpotOfCall(d) \in Nat
    BY Flow DEF SpotOfCall, Attempts
  <2> QED
    BY <2>1, <2>2, <2>3
<1>1. Progress \in Nat /\ Progress' \in Nat
  BY <1>0, ProgressInNat
<1>2. Rests \/ Advances
  BY ForwardStep DEF AwaitInv, ForwardInv
<1>3. Progress <= Progress'
  BY <1>0, <1>1, <1>2, AdvancesOrRests DEF Advances
<1>4. wf.at = "dispatch" => Progress = SpotOfCall(Current) /\ Current \in Stages \X Attempts
  BY <1>0, SpotAtDispatch DEF TypeInv, Good, Placed, Loose, Current, Workflows
<1>5. wf'.at = "dispatch" => Progress' = SpotOfCall(Current') /\ Current' \in Stages \X Attempts
  <2>1. Progress' = SpotOf(wf'.at, wf'.stage, wf'.try)
    BY DEF Progress, SpotOf, PlaceOf, EndOfFlow
  <2>2. "dispatch" \in Ats \ Closings /\ PlaceOf("dispatch") = 4
    BY Places DEF Ats, Activities, Closings
  <2>3. wf'.stage \in Nat /\ wf'.try \in 1..2 /\ wf'.try \in Attempts
    BY <1>0, WfFields, Flow DEF Attempts
  <2>4. wf'.at = "dispatch" => Progress' = 16 * wf'.stage + 2 * 4 + wf'.try
    BY <2>1, <2>2, <2>3, SpotsAre
  <2>5. Current' = <<wf'.stage, wf'.try>>
    BY DEF Current
  <2>6. wf'.at = "dispatch" => wf'.stage \in Stages
    BY <1>0 DEF TypeInv, Good, Placed, Loose
  <2> QED
    BY <2>3, <2>4, <2>5, <2>6 DEF SpotOfCall
<1>6. CallsBehind'
  <2>1. ASSUME NEW d \in Stages \X Attempts, call'[d] # "none"
        PROVE  SpotOfCall(d) <= Progress'
    <3>1. call[d] # "none" \/ (wf.at = "dispatch" /\ d = Current)
      BY <1>0, <2>1, CallsMove
    <3>2. SpotOfCall(d) <= Progress
      BY <1>1, <1>4, <3>1 DEF AwaitInv, CallsBehind
    <3> QED
      BY <1>0, <1>1, <1>3, <3>2
  <2> QED
    BY <2>1 DEF CallsBehind, SpotOfCall
<1>7. DispatchIsAwaited'
  <2>1. ASSUME wf'.at = "dispatch", call'[Current'] = "done"
        PROVE  FALSE
    <3>1. CASE Rests
      <4>1. wf.at = "dispatch" /\ Current' = Current
        BY <2>1, <3>1 DEF Rests, Current
      <4> QED
        BY <1>0, <2>1, <3>1, <4>1, CallsMove DEF AwaitInv, DispatchIsAwaited
    <3>2. CASE Advances
      <4>1. Progress' = SpotOfCall(Current') /\ Current' \in Stages \X Attempts
        BY <1>5, <2>1
      <4>2. call[Current'] # "none" \/ (wf.at = "dispatch" /\ Current' = Current)
        BY <1>0, <2>1, <4>1, CallsMove
      <4>3. SpotOfCall(Current') <= Progress
        BY <1>1, <1>4, <4>1, <4>2 DEF AwaitInv, CallsBehind
      <4> QED
        BY <1>1, <3>2, <4>1, <4>3 DEF Advances
    <3> QED
      BY <1>2, <3>1, <3>2
  <2> QED
    BY <2>1 DEF DispatchIsAwaited
<1> QED
  BY <1>0, <1>6, <1>7 DEF AwaitInv

\* The workflow never waits for a dispatch that has answered already: behind a
\* slow launch and behind a dead worker, a second attempt begins one of its own.
THEOREM DispatchesAreAwaited == Spec => []DispatchIsAwaited
<1>1. AwaitInv => DispatchIsAwaited
  BY DEF AwaitInv
<1> QED
  BY <1>1, AwaitBegins, AwaitStep, SessionSteps, PTL DEF Spec

=============================================================================
