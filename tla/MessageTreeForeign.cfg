\* A client may name a parent in another of its conversations.
CONSTANTS
    q1 = q1
    q2 = q2
    q3 = q3
    c1 = c1
    c2 = c2
    NoConversation = NoConversation
    Requests <- MCRequests
    Conversations <- MCConversations
    MaxMessages = 6
    HistoryLimit = 2
    ForeignParents = TRUE
SPECIFICATION Spec
SYMMETRY Interchangeable
INVARIANTS
    HistoryIsOfTheConversation
\* Each request is served once, so the system stops when all are over.
CHECK_DEADLOCK FALSE
