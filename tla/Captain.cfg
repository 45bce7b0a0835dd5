SPECIFICATION Spec
CONSTANTS
    a1 = a1
    a2 = a2
    c1 = c1
    c2 = c2
    NoAgent = NoAgent
    Agents <- MCAgents
    Calls <- MCCalls
    MaxSessions = 4
    Scenarios <- MCApart
SYMMETRY MCSymmetry
CHECK_DEADLOCK FALSE
INVARIANTS
    HandoffCreatesOnce
    SourceStopsFirst
    HealthyIsTrue
    OneRuntime
    NothingStartsForever
PROPERTIES
    SelectionIsEarned
    BoundForSelected
