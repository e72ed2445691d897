\* an agent idles after it reported completion
SPECIFICATION Spec
CONSTANTS
    LastStage = 1
    ActionStages = {}
    GateOf <- MCGateAuto
    MaxRetries = 0
    Verify = FALSE
    MayPrompt = {"completed", "Notification"}
    Operations = {}
    Faults = {}
    Workers = {w1, w2}
    MaxSpawns = 2
    MaxMail = 1
    w1 = w1
    w2 = w2
PROPERTIES
    HooksKeepTerminal
\* a session that is over, or waits for its operator, rests
CHECK_DEADLOCK FALSE
