SPECIFICATION FairSpec
CONSTANTS
    a = a
    b = b
    c = c
    Names <- MCNames
    DepGraphs <- MCDepGraphs
INVARIANTS
    OrderLists
    CountsWhatIsLeft
PROPERTIES
    ResolveReturns
    KeepsPromise
