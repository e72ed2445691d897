\* two channels, three readers; two steers, as many as interrupts are allowed;
\* a stream beside a completion, neither of them tried again (Router.cfg has a
\* retry); a session on its own clone beside one on a shared row
SPECIFICATION PartsSpec
CONSTANTS
    MaxSockets = 3
    MaxEnvelopes = 4
    MaxInterrupts = 2
    MaxSteers = 2
    MaxFailures = 1
    MaxReminders = 1
    m1 = m1
    m2 = m2
    m3 = m3
    p1 = p1
    p2 = p2
    Registry <- MCRegistry
    Completes = {c1}
    Streams = {r1}
    Retries = 0
    Threshold = 2
    s1 = s1
    s2 = s2
    Newest <- MCNewest
    Staged = {s1}
    Limit = 1
    Pods = {k1, k2}
    Slots <- MCSlots
    Deletable = {s2}
    DeletedWhen = {"ready"}
INVARIANTS
    TypesOK
    InOrderOnce
    NothingWaits
    AckIsGuarantee
    SteersGoToFresh
    ZeroMeansDone
    NoFalseFailure
    BreakerCounts
    FailsLast
    RunsWhereItSays
PROPERTIES
    ListedKeepRows
    SteersArrive
\* a part that has come to its end, or waits, rests
CHECK_DEADLOCK FALSE
