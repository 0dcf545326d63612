SPECIFICATION FairSpec
CONSTANTS
    m1 = m1
    m2 = m2
    s1 = s1
    p1 = p1
    p2 = p2
    NoMailbox = NoMailbox
    Mailboxes <- MCMailboxes
    Sessions <- MCOneSession
    Producers <- MCProducers
    AllowExpunge = {TRUE, FALSE}
    MaxCalls = 3
INVARIANTS NoStaleUpdates RegisteredWhereSelected ViewConverges
PROPERTY CallsReturn
CHECK_DEADLOCK FALSE
