SPECIFICATION Spec
CONSTANTS
    f1 = f1
    f2 = f2
    t1 = t1
    Facts <- MCFacts
    Tasks <- MCTasks
    TaskOf <- MCTaskOf
    Debounce = 1
    MaxDefer = 2
    Window = 1
    Hour = 3
    HourlyCap = 2
INVARIANTS
    WakesAreCapped
PROPERTIES
    EventsEnd
