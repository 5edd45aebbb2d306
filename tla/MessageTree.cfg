\* Clients name parents in the conversation they post to.
CONSTANTS
    q1 = q1
    q2 = q2
    q3 = q3
    c1 = c1
    c2 = c2
    NoConversation = NoConversation
    Requests <- MCRequests
    Conversations <- MCConversations
    MaxMessages = 6
    HistoryLimit = 2
    ForeignParents = FALSE
SPECIFICATION Spec
SYMMETRY Interchangeable
INVARIANTS
    TypeOK
    AncestorsAreTheWalk
    RepliesAnswerQuestions
PROPERTIES
    HistoryIsTheBranch
\* Each request is served once, so the system stops when all are over.
CHECK_DEADLOCK FALSE
