CONSTANTS
    LastMessage = 2
    MaxAttempts = 2
    MaxRetries = 1
    Scenarios <- MCScenarios
SPECIFICATION FairSpec
CHECK_DEADLOCK FALSE
INVARIANTS
    ClaimsAreInFlight
    TakenOnce
    FailedWasNotTaken
    AcknowledgedIsOwned
PROPERTIES
    StopIsABoundary
    EveryMessageEnds
