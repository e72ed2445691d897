\* a retry resumes the conversation of the failed agent
SPECIFICATION Spec
CONSTANTS
    LastStage = 2
    ActionStages = {}
    GateOf <- MCGateAuto
    MaxRetries = 1
    Verify = FALSE
    MayPrompt = {"StopFailure"}
    Operations = {}
    Faults = {}
    Workers = {w1, w2}
    MaxSpawns = 2
    MaxMail = 1
    w1 = w1
    w2 = w2
INVARIANTS
    OnlyEarlierHooksAreStale
\* a session that is over, or waits for its operator, rests
CHECK_DEADLOCK FALSE
