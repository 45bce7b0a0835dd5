CONSTANTS
    t1 = t1
    t2 = t2
    Tasks <- MCTasks
    MaxRetries = 1
    MaxGeneration = 4
SPECIFICATION Spec
SYMMETRY Symmetry
INVARIANTS
    OnlyTheLastClaimSettles
    RetriesAreBounded
    LeaseNamesTheHolder
CHECK_DEADLOCK FALSE
