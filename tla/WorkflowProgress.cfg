\* the faults of Workflow.cfg: why a workflow closes, without fairness
SPECIFICATION Spec
CONSTANTS
    Kind <- MCKind
    Branches <- MCBranches
    Worlds <- MCWorlds
INVARIANTS
    DispatchIsAwaited
PROPERTIES
    WorkflowGoesForward
\* a workflow that is over rests
CHECK_DEADLOCK FALSE
