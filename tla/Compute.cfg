\* a session on its own clone beside one on a shared row
SPECIFICATION ComputeSpec
CONSTANTS
    s1 = s1
    s2 = s2
    Newest <- MCNewest
    Staged = {s1}
    Limit = 1
    Pods = {k1, k2}
    Slots <- MCDouble
    Deletable = {s2}
    DeletedWhen = {"ready"}
INVARIANTS
    ComputeTypeOK
    OwnPod
    RunsWhereItSays
PROPERTIES
    ListedKeepRows
    OneInstance
