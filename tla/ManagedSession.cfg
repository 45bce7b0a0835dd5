SPECIFICATION Spec
CONSTANTS
    b1 = b1
    b2 = b2
    i1 = i1
    i2 = i2
    None = None
    Backends <- TwoBackends
    Intents <- TwoIntents
    MaxRetries = 1
    MaxTurns = 2
    MaxRuns = 2
SYMMETRY MCSymmetry
CHECK_DEADLOCK FALSE
INVARIANTS
    OneAttemptRuns
    ShutdownSettles
    CrashOnlyIfUnreported
    NoOrphanRuns
PROPERTIES
    ActsAsIfProjectedAtOnce
