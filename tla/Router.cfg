\* requests after requests, a stream beside a completion, over three models of
\* two providers and two tiers
SPECIFICATION RouterFairSpec
CONSTANTS
    m1 = m1
    m2 = m2
    m3 = m3
    p1 = p1
    p2 = p2
    Registry <- MCRegistry
    Completes = {c1}
    Streams = {s1}
    Retries = 1
    Threshold = 2
INVARIANTS
    RouterTypeOK
    BreakerCounts
    FailsLast
    OneTurnEach
    NoSelfReplay
    Budget
PROPERTIES
    HeadersCome
