\* an agent, an action and another agent stage, verified; nobody interferes
SPECIFICATION FairSpec
CONSTANTS
    LastStage = 3
    ActionStages = {2}
    GateOf <- MCGateAuto
    MaxRetries = 0
    Verify = TRUE
    MayPrompt = {"Working", "StopFailure", "error"}
    Operations = {}
    Faults = {"launch", "crash"}
    Workers = {w1, w2}
    MaxSpawns = 3
    MaxMail = 2
    w1 = w1
    w2 = w2
INVARIANTS
    ReadyIsDriven
PROPERTIES
    AlwaysSettles
    ImplementsPipeline
\* a session that is over, or waits for its operator, rests
CHECK_DEADLOCK FALSE
