\* every flow of four stages, walked alone; a diamond also with an operator;
\* lists of up to three items, a budget that binds and one that does not
SPECIFICATION EitherSpec
CONSTANTS
    LastStage = 4
    Flows <- GraphFlows
    Attended <- AttendedFlows
    Advances = {a1, a2}
    a1 = a1
    a2 = a2
    MaxItems = 3
    Caps = {2,9}
    MaxRestarts = 1
INVARIANTS
    TypesOK
    JoinsWait
    RunsOnce
    SkippedIsDead
    TreesNeverWait
    LoopIsComplete
    OneAtATime
PROPERTIES
    WalkEnds
    NoRework
    BudgetHolds
    RunningLoopEnds
\* a flow that is complete, or waits, rests
CHECK_DEADLOCK FALSE
