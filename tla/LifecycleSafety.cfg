CONSTANTS
    t1 = t1
    t2 = t2
    t3 = t3
    a1 = a1
    a2 = a2
    p1 = p1
    Tasks <- MCThreeTasks
    AgentOf <- MCAgentOf
    ProjectOf <- MCProjectOf
    GlobalLimit = 0
    HardCap <- MCHardCap
    Level <- MCLevel
    ProjectLimit <- MCUnlimited
    DailyCap <- MCUnlimited
    Overlaps = {}
    Predecessors <- MCNoPredecessors
    Scenarios <- MCSafety
    StartOverIdle = FALSE
    MaxRetries = 1
SPECIFICATION Spec
CHECK_DEADLOCK FALSE
INVARIANTS
    ClaimsAreHeld
    AtMostOneWorking
    StopIsFinal
    SlotsHold
    NoMissedWakeup
    WorkingIsBacked
PROPERTIES
    NoResurrection
