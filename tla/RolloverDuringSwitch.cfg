SPECIFICATION Spec
CONSTANTS
    a1 = a1
    a2 = a2
    c1 = c1
    c2 = c2
    NoAgent = NoAgent
    Agents <- MCAgents
    Calls <- MCCalls
    MaxSessions = 4
    Scenarios <- MCTogether
SYMMETRY MCSymmetry
CHECK_DEADLOCK FALSE
PROPERTIES
    BoundForSelected
