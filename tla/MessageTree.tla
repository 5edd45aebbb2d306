---------------------------- MODULE MessageTree ----------------------------
(***************************************************************************)
(* The tree of messages of a conversation: prepareMessageStream of         *)
(* services/message.service.ts, which hangs a question under a message the  *)
(* client names, or a new reply under the question of a retried one, and    *)
(* reads the branch above it as the history for the model.  Requests        *)
(* interleave with each other, with replies that settle and with            *)
(* conversations that are deleted.                                          *)
(*                                                                          *)
(* Every row stores its ancestors besides its parent (a materialized path). *)
(* Ids are handed out in the order of creation, so createdAt orders rows as *)
(* their ids do.                                                            *)
(***************************************************************************)
EXTENDS Integers, Sequences, FiniteSets, SequencesExt

CONSTANTS
    Requests,        \* the requests
    Conversations,   \* the conversations that may ever exist
    NoConversation,  \* none of them
    MaxMessages,     \* bound: rows ever created
    HistoryLimit,    \* rows of history read (10 in the code)
    ForeignParents   \* whether a client may name a parent in another conversation

ASSUME TreeAssumption ==
    /\ NoConversation \notin Conversations
    /\ MaxMessages \in Nat
    /\ HistoryLimit \in Nat \ {0}
    /\ ForeignParents \in BOOLEAN

VARIABLES
    pc,         \* pc[q]: the step request q takes next
    frame,      \* frame[q]: the input and the locals of request q
    messages,   \* the rows of the messages table, by id
    created,    \* rows created so far: the last id handed out
    conversations   \* whether each conversation is unborn, live or deleted

vars == <<pc, frame, messages, created, conversations>>

-----------------------------------------------------------------------------
ROOT_PARENT_ID == 0

Ids == 1 .. MaxMessages

Rows == [conversation : Conversations, sender : {"user", "assistant"},
         parent : {ROOT_PARENT_ID} \cup Ids, ancestors : Seq(Ids),
         status : {"PENDING", "SUCCESS", "FAILED"}]

\* question: the user message a reply hangs under, once it is stored or found.
NoFrame == [kind |-> "none", conversation |-> NoConversation, parent |-> ROOT_PARENT_ID,
            branch |-> <<>>, history |-> <<>>, question |-> ROOT_PARENT_ID,
            reply |-> ROOT_PARENT_ID]

Init ==
    /\ pc = [q \in Requests |-> "idle"]
    /\ frame = [q \in Requests |-> NoFrame]
    /\ messages = <<>>
    /\ created = 0
    /\ conversations = [c \in Conversations |-> "unborn"]

Exists(id) == id \in DOMAIN messages

Go(q, stage) == pc' = [pc EXCEPT ![q] = stage]

Refuse(q) == Go(q, "refused") /\ UNCHANGED <<frame, messages, created>>

-----------------------------------------------------------------------------
(* The request arrives.  The definitions named ...Mutant are faulty variants *)
(* of the operator that follows them; no specification uses them.            *)

\* The messages a client names: it shows those of the conversation it posts to, and
\* with ForeignParents it may name any it has ever seen.
Nameable(c) ==
    {ROOT_PARENT_ID} \cup
    IF ForeignParents THEN 1 .. created
    ELSE {m \in DOMAIN messages : messages[m].conversation = c}

Send(q, kind, c, parent, stage) ==
    /\ pc[q] = "idle"
    /\ frame' = [frame EXCEPT ![q] = [NoFrame EXCEPT !.kind = kind, !.conversation = c,
                                                     !.parent = parent]]
    /\ Go(q, stage)
    /\ UNCHANGED <<messages, created>>

\* Without a conversation in its path a request creates one; the parent it names, if
\* any, is not looked up.
SendNew(q) ==
    \E c \in Conversations :
        /\ conversations[c] = "unborn"
        /\ \E parent \in Nameable(c) : Send(q, "new", c, parent, "asking")
        /\ conversations' = [conversations EXCEPT ![c] = "live"]

SendTo(q) ==
    /\ \E c \in Conversations :
          /\ conversations[c] # "unborn"
          /\ \E parent \in Nameable(c) : Send(q, "send", c, parent, "checking")
    /\ UNCHANGED conversations

\* With retryMessageId the frame's parent is the message to be answered anew.
SendRetry(q) ==
    /\ \E c \in Conversations :
          /\ conversations[c] # "unborn"
          /\ \E m \in Nameable(c) \ {ROOT_PARENT_ID} : Send(q, "retry", c, m, "checking")
    /\ UNCHANGED conversations

-----------------------------------------------------------------------------
(* prepareMessageStream.                                                   *)

\* A row and all above it, as the row itself records them.
BranchOf(id) == Append(messages[id].ancestors, id)

\* The conversation must exist; a parent must exist, wherever it is.
CheckSend(q) ==
    LET f == frame[q]
    IN  /\ pc[q] = "checking" /\ f.kind = "send"
        /\ IF \/ conversations[f.conversation] # "live"
              \/ f.parent # ROOT_PARENT_ID /\ ~Exists(f.parent)
           THEN Refuse(q)
           ELSE /\ IF f.parent = ROOT_PARENT_ID
                   THEN Go(q, "asking") /\ UNCHANGED frame
                   ELSE /\ Go(q, "reading")
                        /\ frame' = [frame EXCEPT ![q].branch = BranchOf(f.parent)]
                /\ UNCHANGED <<messages, created>>
        /\ UNCHANGED conversations

InConversation(id, c, sender) ==
    Exists(id) /\ messages[id].conversation = c /\ messages[id].sender = sender

\* A retry names an assistant message of the conversation whose parent is one of its
\* user messages.
CheckRetry(q) ==
    LET f == frame[q]
    IN  /\ pc[q] = "checking" /\ f.kind = "retry"
        /\ IF /\ conversations[f.conversation] = "live"
              /\ InConversation(f.parent, f.conversation, "assistant")
              /\ InConversation(messages[f.parent].parent, f.conversation, "user")
           THEN /\ Go(q, "reading")
                /\ frame' = [frame EXCEPT
                               ![q].question = messages[f.parent].parent,
                               ![q].branch = BranchOf(messages[f.parent].parent)]
                /\ UNCHANGED <<messages, created>>
           ELSE Refuse(q)
        /\ UNCHANGED conversations

LastOf(s, n) == SubSeq(s, IF Len(s) > n THEN Len(s) - n + 1 ELSE 1, Len(s))

\* The members of a finite set of ids in the order of creation: the i-th has i - 1 below it.
Ascending(S) ==
    [i \in 1 .. Cardinality(S) |-> CHOOSE x \in S : Cardinality({y \in S : y < x}) = i - 1]

Successful(id) == Exists(id) /\ messages[id].status = "SUCCESS"

RecentOfAnyStatusMutant(branch) ==
    LastOf(Ascending({id \in ToSet(branch) : Exists(id)}), HistoryLimit)

RecentUnlimitedMutant(branch) == Ascending({id \in ToSet(branch) : Successful(id)})

\* findRecentBranchHistory: the newest successful rows of the branch, oldest first.
Recent(branch) == LastOf(Ascending({id \in ToSet(branch) : Successful(id)}), HistoryLimit)

ReadHistory(q) ==
    /\ pc[q] = "reading"
    /\ frame' = [frame EXCEPT ![q].history = Recent(frame[q].branch)]
    /\ Go(q, IF frame[q].kind = "retry" THEN "replying" ELSE "asking")
    /\ UNCHANGED <<messages, created, conversations>>

AncestorsMutant(parent) ==
    IF parent = ROOT_PARENT_ID THEN <<>> ELSE messages[parent].ancestors

Ancestors(parent) == IF parent = ROOT_PARENT_ID THEN <<>> ELSE BranchOf(parent)

\* createMessage, one transaction: the parent must exist, and so must the conversation.
Creatable(c, parent) ==
    /\ conversations[c] = "live"
    /\ parent # ROOT_PARENT_ID => Exists(parent)

Create(c, sender, parent, status) ==
    /\ created < MaxMessages
    /\ created' = created + 1
    /\ LET row == [conversation |-> c, sender |-> sender, parent |-> parent,
                   ancestors |-> Ancestors(parent), status |-> status]
       IN  messages' = [id \in DOMAIN messages \cup {created'} |->
                            IF id = created' THEN row ELSE messages[id]]

StoreQuestion(q) ==
    LET f == frame[q]
    IN  /\ pc[q] = "asking"
        /\ IF Creatable(f.conversation, f.parent)
           THEN /\ Create(f.conversation, "user", f.parent, "SUCCESS")
                /\ frame' = [frame EXCEPT ![q].question = created']
                /\ Go(q, "replying")
           ELSE Refuse(q)
        /\ UNCHANGED conversations

StoreReplyParentMutant(f) == f.parent

\* A reply always hangs under the question, also under that of a retried reply.
StoreReplyParent(f) == f.question

StoreReply(q) ==
    LET f == frame[q]
    IN  /\ pc[q] = "replying"
        /\ IF Creatable(f.conversation, StoreReplyParent(f))
           THEN /\ Create(f.conversation, "assistant", StoreReplyParent(f), "PENDING")
                /\ frame' = [frame EXCEPT ![q].reply = created']
                /\ Go(q, "prepared")
           ELSE Refuse(q)
        /\ UNCHANGED conversations

-----------------------------------------------------------------------------
(* What happens around the requests.                                       *)

\* The handler of a prepared request settles its reply, as MessageStream has it.
Settle(q) ==
    LET id == frame[q].reply
    IN  /\ pc[q] = "prepared" /\ Exists(id)
        /\ \E status \in {"SUCCESS", "FAILED"} :
              messages' = [messages EXCEPT ![id].status = status]
        /\ Go(q, "settled")
        /\ UNCHANGED <<frame, created, conversations>>

\* The rows the foreign key cascades to.
DeletedWith(c) == {id \in DOMAIN messages : messages[id].conversation = c}

DeleteConversation(c) ==
    /\ conversations[c] = "live"
    /\ conversations' = [conversations EXCEPT ![c] = "deleted"]
    /\ messages' = [id \in DOMAIN messages \ DeletedWith(c) |-> messages[id]]
    /\ UNCHANGED <<pc, frame, created>>

Next ==
    \/ \E q \in Requests :
          \/ SendNew(q) \/ SendTo(q) \/ SendRetry(q)
          \/ CheckSend(q) \/ CheckRetry(q) \/ ReadHistory(q)
          \/ StoreQuestion(q) \/ StoreReply(q) \/ Settle(q)
    \/ \E c \in Conversations : DeleteConversation(c)

Spec == Init /\ [][Next]_vars

-----------------------------------------------------------------------------
(* Properties.                                                             *)

\* Every variable has its type.
TypeOK ==
    /\ pc \in [Requests -> {"idle", "checking", "reading", "asking", "replying",
                            "prepared", "settled", "refused"}]
    /\ DOMAIN messages \subseteq 1 .. created
    /\ \A id \in DOMAIN messages :
          /\ messages[id].conversation \in Conversations
          /\ messages[id].sender \in {"user", "assistant"}
          /\ messages[id].parent \in {ROOT_PARENT_ID} \cup Ids
          /\ ToSet(messages[id].ancestors) \subseteq Ids
          /\ messages[id].status \in {"PENDING", "SUCCESS", "FAILED"}
    /\ created \in 0 .. MaxMessages
    /\ conversations \in [Conversations -> {"unborn", "live", "deleted"}]
    /\ \A q \in Requests :
          /\ frame[q].question \in {ROOT_PARENT_ID} \cup Ids
          /\ frame[q].reply \in {ROOT_PARENT_ID} \cup Ids
          /\ Len(frame[q].history) <= HistoryLimit

\* The way from the root down to a row, found by following parents alone.
Walk[id \in {ROOT_PARENT_ID} \cup Ids] ==
    IF id = ROOT_PARENT_ID \/ ~Exists(id) THEN <<>>
    ELSE Append(Walk[messages[id].parent], id)

\* The stored ancestors of every row are exactly the rows met by following parents,
\* in that order, and all of them exist in the row's own conversation: nothing that
\* is deleted or created meanwhile leaves a branch with a gap or with a row of
\* another conversation.
AncestorsAreTheWalk ==
    \A id \in DOMAIN messages :
        /\ BranchOf(id) = Walk[id]
        /\ \A a \in ToSet(messages[id].ancestors) :
              Exists(a) /\ messages[a].conversation = messages[id].conversation

\* The successful rows on that way, in the order of the way.
SuccessfulWalk[id \in {ROOT_PARENT_ID} \cup Ids] ==
    IF id = ROOT_PARENT_ID \/ ~Exists(id) THEN <<>>
    ELSE LET above == SuccessfulWalk[messages[id].parent]
         IN  IF messages[id].status = "SUCCESS" THEN Append(above, id) ELSE above

\* The history a request reads is the successful part of the way down to the message
\* it answers under, cut to its newest rows and in conversation order, whatever
\* siblings retries have added: an order by creation time agrees with the tree.
HistoryIsTheBranch ==
    [][\A q \in Requests :
          frame'[q].history # frame[q].history =>
              LET target == IF frame[q].kind = "retry"
                            THEN frame[q].question ELSE frame[q].parent
              IN  frame'[q].history = LastOf(SuccessfulWalk[target], HistoryLimit)]_vars

\* Every reply hangs under a user message of its own conversation, and the reply of a
\* prepared request under the question the client was told about.
RepliesAnswerQuestions ==
    /\ \A id \in DOMAIN messages :
          messages[id].sender = "assistant" =>
              InConversation(messages[id].parent, messages[id].conversation, "user")
    /\ \A q \in Requests :
          pc[q] \in {"prepared", "settled"} /\ Exists(frame[q].reply) =>
              messages[frame[q].reply].parent = frame[q].question

\* What is handed to the model as the conversation so far comes from the conversation
\* the request was sent to.
HistoryIsOfTheConversation ==
    \A q \in Requests : \A id \in ToSet(frame[q].history) :
        Exists(id) => messages[id].conversation = frame[q].conversation

=============================================================================
