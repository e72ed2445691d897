\* an operator stops a session while its agent is being launched
SPECIFICATION Spec
CONSTANTS
    LastStage = 2
    ActionStages = {}
    GateOf <- MCGateAuto
    MaxRetries = 0
    Verify = FALSE
    MayPrompt = {}
    Operations = {"stop"}
    Faults = {}
    Workers = {w1, w2}
    MaxSpawns = 2
    MaxMail = 1
    w1 = w1
    w2 = w2
PROPERTIES
    StopIsKept
\* a session that is over, or waits for its operator, rests
CHECK_DEADLOCK FALSE
