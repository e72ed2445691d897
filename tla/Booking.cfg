\* who is charged for an answer
SPECIFICATION RouterSpec
CONSTANTS
    m1 = m1
    m2 = m2
    m3 = m3
    p1 = p1
    p2 = p2
    Registry <- MCRegistry
    Completes = {c1}
    Streams = {s1}
    Retries = 1
    Threshold = 2
INVARIANTS
    BookedOnServer
