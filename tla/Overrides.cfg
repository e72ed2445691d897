\* forced moves, rewinds and restarts around a gated action stage
SPECIFICATION Spec
CONSTANTS
    LastStage = 3
    ActionStages = {2}
    GateOf <- MCGateManual
    MaxRetries = 0
    Verify = TRUE
    MayPrompt = {}
    Operations = {"rewind", "complete", "force", "restart"}
    Faults = {"crash", "pane"}
    Workers = {w1, w2}
    MaxSpawns = 2
    MaxMail = 1
    w1 = w1
    w2 = w2
SYMMETRY Symmetry
INVARIANTS
    RunningIsWatched
\* a session that is over, or waits for its operator, rests
CHECK_DEADLOCK FALSE
