SPECIFICATION LiveSpec
CONSTANTS
    c1 = c1
    c2 = c2
    Callers <- MCOneCaller
    Kinds <- AllKinds
    WaitInBackground = FALSE
    MaxTags = 2
INVARIANT WaitsForSomething
INVARIANT TakesItsOwn
PROPERTY CallsReturn
CHECK_DEADLOCK FALSE
