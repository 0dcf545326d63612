SPECIFICATION FairSpec
CONSTANTS
    s1 = s1
    s2 = s2
    Sessions <- MCTwo
    Names <- MCInbox
    Flags <- MCNoFlags
    MaxBoxes = 2
    MaxUid = 1
INVARIANTS NoLockCycle OnlySelectedHasMailbox OneNamePerMailbox
PROPERTY HandlersReturn
