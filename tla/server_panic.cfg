SPECIFICATION Spec
CONSTANTS
    Commands <- EachProgram
    Chains <- ReadmeChain
    MaxCommands = 2
    MaxInput = 2
    MaxLate = 1
INVARIANT RecoveryRecovers
CHECK_DEADLOCK FALSE
