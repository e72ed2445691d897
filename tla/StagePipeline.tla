---------------------------- MODULE StagePipeline ----------------------------
(***************************************************************************)
(* What a flow promises of a session that nobody interferes with: its      *)
(* stages are left one by one and in order, an agent's stage only after    *)
(* that stage's agent came to its own end, and an outcome once reached is  *)
(* final.  SessionLifecycle implements it while agents neither lose their  *)
(* pane nor fall silent.  SessionWorkflow does in its calm, with the       *)
(* fan-outs among AgentStages: such a stage ends with its last branch.     *)
(***************************************************************************)
EXTENDS Naturals

CONSTANTS LastStage, AgentStages

VARIABLES
    stage,    \* the stage the flow is at
    ended,    \* the AgentStages that came to their own end
    outcome   \* "open", "completed" or "failed"

PipelineInit ==
    /\ stage = 1
    /\ ended = {}
    /\ outcome = "open"

Done(s) == s \in AgentStages => s \in ended

\* only the agent of the current stage works, and may outlive the outcome
AgentEnds ==
    /\ stage \in AgentStages \ ended
    /\ ended' = ended \cup {stage}
    /\ UNCHANGED <<stage, outcome>>

LeaveStage ==
    /\ outcome = "open"
    /\ stage < LastStage
    /\ Done(stage)
    /\ stage' = stage + 1
    /\ UNCHANGED <<ended, outcome>>

CompleteLast ==
    /\ outcome = "open"
    /\ stage = LastStage
    /\ Done(stage)
    /\ outcome' = "completed"
    /\ UNCHANGED <<stage, ended>>

Fail ==
    /\ outcome = "open"
    /\ outcome' = "failed"
    /\ UNCHANGED <<stage, ended>>

PipelineNext == AgentEnds \/ LeaveStage \/ CompleteLast \/ Fail

PipelineSpec == PipelineInit /\ [][PipelineNext]_<<stage, ended, outcome>>
=============================================================================
