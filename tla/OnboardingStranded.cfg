\* One request at a time and no failures: only the time to live of the link ends it.
CONSTANTS
    r1 = r1
    r2 = r2
    c1 = c1
    c2 = c2
    l1 = l1
    l2 = l2
    NoItem = NoItem
    Requests <- MCOneRequest
    Codes <- MCOneCode
    Links <- MCTwoLinks
    Attempts = 2
    Failures = FALSE
SPECIFICATION Spec
INVARIANT PendingCanBeInvited
CHECK_DEADLOCK FALSE
