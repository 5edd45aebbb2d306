\* Two requests at a time, two codes, one link, jobs of two attempts, every failure.
CONSTANTS
    r1 = r1
    r2 = r2
    c1 = c1
    c2 = c2
    l1 = l1
    l2 = l2
    NoItem = NoItem
    Requests <- MCTwoRequests
    Codes <- MCTwoCodes
    Links <- MCOneLink
    Attempts = 2
    Failures = TRUE
SPECIFICATION FairSpec
INVARIANTS
    TypeOK
    ActiveHasPassword
    AskedToWaitHasACode
PROPERTY InvitationIsDecided
\* A deleted account whose keys have expired sees no further step.
CHECK_DEADLOCK FALSE
