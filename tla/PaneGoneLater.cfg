\* the second stage's pane is lost after the first stage's agent ended
SPECIFICATION Spec
CONSTANTS
    LastStage = 2
    ActionStages = {}
    GateOf <- MCGateAuto
    MaxRetries = 0
    Verify = FALSE
    MayPrompt = {}
    Operations = {}
    Faults = {"pane"}
    Workers = {w1, w2}
    MaxSpawns = 2
    MaxMail = 1
    w1 = w1
    w2 = w2
PROPERTIES
    GoneIsJudgedRightly
\* a session that is over, or waits for its operator, rests
CHECK_DEADLOCK FALSE
