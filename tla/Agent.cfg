\* three steers, one more than interrupts are allowed; a failure, a compaction
SPECIFICATION RuntimeFairSpec
CONSTANTS
    MaxInterrupts = 2
    MaxSteers = 3
    MaxFailures = 1
    MaxReminders = 1
INVARIANTS
    RuntimeTypeOK
    SteersGoToFresh
    ZeroMeansDone
    NoFalseFailure
    EndIsTheEnd
    SteersAreHeld
    SteersFedInOrder
PROPERTIES
    SteersArrive
    FedOnce
\* a process that has exited, or waits for its user, rests
CHECK_DEADLOCK FALSE
