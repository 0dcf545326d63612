SPECIFICATION Spec
CONSTANTS
    s1 = s1
    s2 = s2
    Sessions <- MCTwo
    Names <- MCOnlyInbox
    Flags <- MCSeenDeleted
    MaxBoxes = 1
    MaxUid = 3
SYMMETRY Symmetry
INVARIANTS TypeOK UidsAscend ExpungeReplays
PROPERTIES UidsNameOneMessage ExamineKeepsFlags
