SPECIFICATION FairSpec
CONSTANTS
    N = 2
    V = 2
    PAVersion = 2
    PartitionAware = TRUE
    Forbidding <- LastNode
    Versions <- AllVersions
INVARIANTS TypeOK ContextKnown NeverNewerThanSession OutOfNodes InStep
PROPERTY OperationsReturn
