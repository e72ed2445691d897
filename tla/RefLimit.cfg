\* one page of sessions (here one) decides who references a row
SPECIFICATION ComputeSpec
CONSTANTS
    s1 = s1
    s2 = s2
    Newest <- MCNewest
    Staged = {}
    Limit = 1
    Pods = {k1, k2}
    Slots <- MCSingle
    Deletable = {}
    DeletedWhen <- Statuses
PROPERTY NeverPulled
