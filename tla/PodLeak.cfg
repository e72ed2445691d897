\* a row that is collected, the pod behind it and the agent in it: `tlc -continue`
\* shows traces of both
SPECIFICATION ComputeSpec
CONSTANTS
    s1 = s1
    s2 = s2
    Newest <- MCAlone
    Staged = {s1}
    Limit = 2
    Pods = {k1, k2}
    Slots <- MCOne
    Deletable = {}
    DeletedWhen <- Statuses
INVARIANT PodsReleased
PROPERTY StopKills
