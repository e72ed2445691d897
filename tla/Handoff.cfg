\* a stage that names another compute than the one before
SPECIFICATION ComputeSpec
CONSTANTS
    s1 = s1
    s2 = s2
    Newest <- MCAlone
    Staged = {s1}
    Limit = 2
    Pods = {k1, k2}
    Slots <- MCOne
    Deletable = {}
    DeletedWhen <- Statuses
INVARIANT StageOnItsCompute
