\* two dispatches of one session at once
SPECIFICATION ComputeSpec
CONSTANTS
    s1 = s1
    s2 = s2
    Newest <- MCAlone
    Staged = {}
    Limit = 2
    Pods = {k1, k2}
    Slots <- MCTwo
    Deletable = {}
    DeletedWhen <- Statuses
PROPERTY SameCompute
