CONSTANTS
    t1 = t1
    t2 = t2
    t3 = t3
    a1 = a1
    a2 = a2
    p1 = p1
    Tasks <- MCTwoTasks
    AgentOf <- MCAgentOf
    ProjectOf <- MCProjectOf
    GlobalLimit = 0
    HardCap <- MCHardCap
    Level <- MCLevel
    ProjectLimit <- MCUnlimited
    DailyCap <- MCUnlimited
    Overlaps = {}
    Predecessors <- MCChain
    Scenarios <- MCLiveness
    StartOverIdle = FALSE
    MaxRetries = 0
SPECIFICATION FairSpec
CHECK_DEADLOCK FALSE
PROPERTIES
    QueuedLeaves
    ClaimsSettle
    StopsReturn
