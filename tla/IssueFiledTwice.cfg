CONSTANTS
    c1 = c1
    c2 = c2
    c3 = c3
    s1 = s1
    k1 = k1
    k2 = k2
    k3 = k3
    Calls <- MCTwoCalls
    Sweeps <- MCOneSweep
    Keys <- MCOneKey
    Action <- MCActions
    Captains = {"a"}
    Nobody = "nobody"
    Texts = {"speaks of a refusal"}
    MaxChanges = 0
    MaxCrashes = 0
SPECIFICATION Spec
CHECK_DEADLOCK FALSE
INVARIANTS
    WrittenOnce
