CONSTANTS
    m1 = m1
    m2 = m2
    s1 = s1
    p1 = p1
    p2 = p2
    NoMailbox = NoMailbox
    Mailboxes <- MCOne
    Sessions <- MCOneSession
    Producers <- MCOneProducer
    AllowExpunge = {TRUE}
    MaxCalls = 2
SPECIFICATION Spec
INVARIANT NoLockCycle
CHECK_DEADLOCK FALSE
