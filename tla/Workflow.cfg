\* a durable workflow over two agents, an action and two gates
SPECIFICATION FairSpec
CONSTANTS
    Kind <- MCKind
    Branches <- MCBranches
    Worlds <- MCWorlds
INVARIANTS
    TypeOK
    GatesNeedApproval
    EndsAgree
    NothingLeft
PROPERTIES
    ImplementsPipeline
    StopHolds
    AlwaysCloses
\* a workflow that is over rests
CHECK_DEADLOCK FALSE
