\* the walks of flows.cfg: every step brings them nearer to their end
SPECIFICATION EitherSpec
CONSTANTS
    LastStage = 4
    Flows <- GraphFlows
    Attended <- AttendedFlows
    Advances = {a1, a2}
    a1 = a1
    a2 = a2
    MaxItems = 3
    Caps = {2,9}
    MaxRestarts = 1
INVARIANTS
    RunningLoopIsCarried
PROPERTIES
    WalkShrinks
    LoopShrinks
\* a flow that is complete, or waits, rests
CHECK_DEADLOCK FALSE
