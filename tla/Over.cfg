\* a session that is over, between late hooks, retries and its operator
SPECIFICATION Spec
CONSTANTS
    LastStage = 2
    ActionStages = {}
    GateOf <- MCGateAuto
    MaxRetries = 1
    Verify = FALSE
    MayPrompt = {"Working", "Notification", "StopFailure"}
    Operations = {"stop", "resume"}
    Faults = {"crash", "pane", "reorder"}
    Workers = {w1, w2}
    MaxSpawns = 2
    MaxMail = 1
    w1 = w1
    w2 = w2
SYMMETRY Symmetry
INVARIANT EndsAreReal
PROPERTIES
    OverIsOver
    OnlyNotificationsReopen
\* a session that is over rests
CHECK_DEADLOCK FALSE
