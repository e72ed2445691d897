\* a session that nobody interferes with, on its way to rest
SPECIFICATION Spec
CONSTANTS
    LastStage = 3
    ActionStages = {2}
    GateOf <- MCGateAuto
    MaxRetries = 0
    Verify = TRUE
    MayPrompt = {"Working", "StopFailure", "error", "progress"}
    Operations = {}
    Faults = {"launch", "crash", "arkd", "slowProbe"}
    Workers = {w1, w2}
    MaxSpawns = 3
    MaxMail = 2
    w1 = w1
    w2 = w2
INVARIANT SettlingIsUnderWay
PROPERTY SettlingGoesOn
\* a session that is over, or waits for its operator, rests
CHECK_DEADLOCK FALSE
