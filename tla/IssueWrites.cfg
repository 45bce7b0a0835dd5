CONSTANTS
    c1 = c1
    c2 = c2
    c3 = c3
    s1 = s1
    k1 = k1
    k2 = k2
    k3 = k3
    Calls <- MCTwoCalls
    Sweeps <- MCOneSweep
    Keys <- MCThreeKeys
    Action <- MCActions
    Captains = {"a", "b"}
    Nobody = "nobody"
    Texts = {"plain", "speaks of a timeout"}
    MaxChanges = 1
    MaxCrashes = 1
SPECIFICATION Spec
SYMMETRY MCSymmetry
CHECK_DEADLOCK FALSE
PROPERTIES
    DispatchIsAuthorized
    KeepsThePromise
