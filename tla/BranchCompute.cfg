\* the computes of a fan-out's branches
SPECIFICATION Spec
CONSTANTS
    Kind <- MCKind
    Branches <- MCBranches
    Worlds = {{}}
INVARIANT NoComputeLeft
CHECK_DEADLOCK FALSE
