SPECIFICATION FairSpec
CONSTANTS
    Commands <- EachProgram
    Chains <- SafeChains
    MaxCommands = 3
    MaxInput = 2
    MaxLate = 1
INVARIANT AnsweredOnce
INVARIANT StateAgrees
INVARIANT ActiveIsExact
PROPERTY EveryCommandAnswered
CHECK_DEADLOCK FALSE
