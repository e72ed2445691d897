\* a session deleted and restored beside one that stops
SPECIFICATION ComputeSpec
CONSTANTS
    s1 = s1
    s2 = s2
    Newest <- MCNewest
    Staged = {}
    Limit = 2
    Pods = {k1, k2}
    Slots <- MCSingle
    Deletable = {s2}
    DeletedWhen <- Statuses
PROPERTY UndoKeepsCompute
