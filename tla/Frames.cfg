\* every fault and every frame, a retry, and a review gate at the end
SPECIFICATION Spec
CONSTANTS
    LastStage = 2
    ActionStages = {}
    GateOf <- MCGateLastReview
    MaxRetries = 1
    Verify = FALSE
    MayPrompt <- Prompts
    Operations = {}
    Faults <- AllFaults
    Workers = {w1, w2}
    MaxSpawns = 2
    MaxMail = 1
    w1 = w1
    w2 = w2
SYMMETRY Symmetry
INVARIANTS
    TypeOK
    RunningHasHandle
    RetriesBounded
    OneAgent
\* a session that is over, or waits for its operator, rests
CHECK_DEADLOCK FALSE
