\* a session deleted while its pod is provisioned
SPECIFICATION ComputeSpec
CONSTANTS
    s1 = s1
    s2 = s2
    Newest <- MCAlone
    Staged = {}
    Limit = 2
    Pods = {k1, k2}
    Slots <- MCOne
    Deletable = {s1}
    DeletedWhen <- Statuses
PROPERTY UndeleteRestores
