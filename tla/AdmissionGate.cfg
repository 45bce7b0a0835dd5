CONSTANTS
    t1 = t1
    t2 = t2
    t3 = t3
    t4 = t4
    t5 = t5
    a1 = a1
    a2 = a2
    p1 = p1
    p2 = p2
    Tasks <- MCTasks
    AgentOf <- MCAgentOf
    ProjectOf <- MCProjectOf
    GlobalLimit = 3
    HardCap <- MCHardCap
    Level <- MCLevel
    ProjectLimit <- MCProjectLimit
    DailyCap <- MCDailyCap
    Overlaps <- MCOverlaps
    MaxDay = 1
    MaxStartsPerDay = 3
SPECIFICATION Spec
INVARIANTS
    TypeOK
    RunningWithinLimits
    AdmitsExactlyWhatFits
    GlobalRefusalBlocksEveryStart
    DailyCapHolds
