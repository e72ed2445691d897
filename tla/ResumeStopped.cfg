\* a stop collects the row its session needs to be resumed
SPECIFICATION ComputeSpec
CONSTANTS
    s1 = s1
    s2 = s2
    Newest <- MCAlone
    Staged = {}
    Limit = 2
    Pods = {k1, k2}
    Slots <- MCOne
    Deletable = {}
    DeletedWhen <- Statuses
PROPERTY ResumeDispatches
