\* Two requests, one with files, to one conversation; see MCMessageStream.
CONSTANTS
    r1 = r1
    r2 = r2
    c1 = c1
    Requests <- MCRequests
    Conversations <- MCConversations
    ConversationOf <- MCConversationOf
    WithFiles <- MCWithFiles
    MaxTokens = 3
SPECIFICATION FairSpec
INVARIANTS
    TypeOK
    StopWins
    ToldWhatIsStored
    PendingHasOwner
    ReadyIsDurable
PROPERTIES
    SettledOnce
    StreamSettles
    LifecycleSpec
\* Each request is served once, so the system stops when all are over.
CHECK_DEADLOCK FALSE
