SPECIFICATION Spec
CONSTANTS
    b1 = b1
    b2 = b2
    i1 = i1
    i2 = i2
    None = None
    Backends <- OneBackend
    Intents <- OneIntent
    MaxRetries = 1
    MaxTurns = 2
    MaxRuns = 1
CHECK_DEADLOCK FALSE
PROPERTIES
    LostSessionIsReplaced
