\* two stages, the last one reviewed; the operator's RPCs race one another
SPECIFICATION Spec
CONSTANTS
    LastStage = 2
    ActionStages = {}
    GateOf <- MCGateLastReview
    MaxRetries = 0
    Verify = FALSE
    MayPrompt = {}
    Operations = {"stop", "kill", "archive", "restore", "resume", "pause", "interrupt", "advance", "reject", "delete", "undelete"}
    Faults = {"arkd"}
    Workers = {w1, w2}
    MaxSpawns = 2
    MaxMail = 1
    w1 = w1
    w2 = w2
SYMMETRY Symmetry
INVARIANTS
    AgentOfStage
    GatesHold
\* a session that is over, or waits for its operator, rests
CHECK_DEADLOCK FALSE
