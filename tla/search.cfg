SPECIFICATION Spec
CONSTANTS
    MaxKeys = 3
    Mailboxes <- MCMailboxes
    Requests <- MCRequests
INVARIANTS
    SearchExact
    SetExact
CHECK_DEADLOCK
    FALSE
