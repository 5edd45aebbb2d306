\* Walks through at most three rows in pages of one, and answers of at most three blocks.
CONSTANTS
    Listings = {"conversations", "attachments", "users", "groups", "members"}
    Ids = {1, 2, 3}
    Limit = 1
    MaxTime = 2
    MaxChanges = 3
    Tokens <- MCTokens
    Bodies <- MCBodies
    Text <- MCText
SPECIFICATION Spec
INVARIANTS
    RepeatsNeedAMove
    SteadyRowsAreShown
    TokensAreTheStream
    DocumentIsTheAnswer
CHECK_DEADLOCK FALSE
