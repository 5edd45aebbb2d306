\* Two requests at a time, two access tokens of two ticks, one change or reset of the password.
CONSTANTS
    r1 = r1
    r2 = r2
    a1 = a1
    a2 = a2
    NoToken = NoToken
    Requests <- MCTwoRequests
    Tokens <- MCTokens
    Duration = 2
    MaxVersion = 2
SPECIFICATION FairSpec
INVARIANTS
    TypeOK
    SignedOutStaysOut
    RevocationIsFinal
PROPERTIES
    RevokedLosesAccess
    DeletedLosesAccess
\* A deleted account whose tokens have expired sees no further step.
CHECK_DEADLOCK FALSE
