SPECIFICATION FairSpec
CONSTANTS
    c1 = c1
    c2 = c2
    Callers <- MCTwoCallers
    Kinds <- MCContinued
    WaitInBackground = TRUE
    MaxTags = 2
INVARIANT OneResult
PROPERTY EarlyCallsReturn
CHECK_DEADLOCK FALSE
