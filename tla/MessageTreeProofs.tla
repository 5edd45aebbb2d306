------------------------- MODULE MessageTreeProofs -------------------------
(***************************************************************************)
(* What is proved of MessageTree, for any number of requests,              *)
(* conversations and messages.                                             *)
(*                                                                         *)
(* Both invariants rest on the same facts: an id is never given out twice, *)
(* a row never changes its conversation, and a conversation takes all its  *)
(* rows with it.  What a request once read of a row is therefore true of   *)
(* it as long as the row exists.                                           *)
(*                                                                         *)
(* That the recorded ancestors are the way found by following parents is   *)
(* argued by the least row at which two functions of the tree differ: the  *)
(* parent of that row is older, so they agree there, and their recursion   *)
(* makes them agree at the row.  BInv adds what a request has read of its  *)
(* branch before it reads the history.                                     *)
(***************************************************************************)
EXTENDS MessageTree, SequenceTheorems, FiniteSetTheorems, TLAPS

Stages == {"idle", "checking", "reading", "asking", "replying", "prepared", "settled", "refused"}

Fields == {"kind", "conversation", "parent", "branch", "history", "question", "reply"}

Typed ==
    /\ pc \in [Requests -> Stages]
    /\ DOMAIN frame = Requests
    /\ \A q \in Requests :
          /\ Fields \subseteq DOMAIN frame[q]
          /\ frame[q].parent \in 0 .. created
          /\ frame[q].question \in 0 .. created
          /\ pc[q] # "idle" => frame[q].conversation \in Conversations
    /\ created \in 0 .. MaxMessages
    /\ DOMAIN messages \subseteq 1 .. created
    /\ \A id \in DOMAIN messages : messages[id] \in Rows

\* From where it is found or stored, the question is one of the conversation, or gone.
HasQuestion(q) ==
    pc[q] = "replying" \/ (pc[q] = "reading" /\ frame[q].kind = "retry") =>
        /\ frame[q].question # ROOT_PARENT_ID
        /\ Exists(frame[q].question) => InConversation(frame[q].question, frame[q].conversation, "user")

HasReply(q) ==
    pc[q] \in {"prepared", "settled"} =>
        /\ frame[q].reply \in 1 .. created
        /\ Exists(frame[q].reply) => messages[frame[q].reply].parent = frame[q].question

\* The parent a client named is one of the conversation, or gone.
HasParent(q) ==
    ~ForeignParents /\ pc[q] # "idle" /\ Exists(frame[q].parent) =>
        messages[frame[q].parent].conversation = frame[q].conversation

Answered ==
    \A id \in DOMAIN messages :
        messages[id].sender = "assistant" => InConversation(messages[id].parent, messages[id].conversation, "user")

\* A row records what its parent records, and its parent, all of them of its conversation.
RootedAt(id) ==
    /\ messages[id].ancestors = Ancestors(messages[id].parent)
    /\ messages[id].parent # ROOT_PARENT_ID => Exists(messages[id].parent)
    /\ \A a \in ToSet(messages[id].ancestors) :
          Exists(a) /\ messages[a].conversation = messages[id].conversation

Rooted == \A id \in DOMAIN messages : RootedAt(id)

IInv ==
    /\ Typed
    /\ \A q \in Requests : HasQuestion(q) /\ HasReply(q) /\ HasParent(q)
    /\ Answered
    /\ ~ForeignParents => Rooted

LEMMA TreeInit == Init => IInv
<1> SUFFICES ASSUME Init PROVE IInv
    OBVIOUS
<1>1. DOMAIN messages = {}
    BY DEF Init
<1>2. Typed
    BY <1>1, TreeAssumption DEF Init, Typed, Stages, Fields, NoFrame, ROOT_PARENT_ID
<1>3. \A q \in Requests : HasQuestion(q) /\ HasReply(q) /\ HasParent(q)
    BY DEF Init, HasQuestion, HasReply, HasParent
<1> QED
    BY <1>1, <1>2, <1>3 DEF IInv, Answered, Rooted

-----------------------------------------------------------------------------
(* Steps that leave the table alone.                                       *)

\* A step of one request that neither stores nor settles a row.
LEMMA OwnStep ==
    ASSUME IInv, NEW q \in Requests, NEW stage \in Stages, pc' = [pc EXCEPT ![q] = stage],
           UNCHANGED <<messages, created>>,
           DOMAIN frame' = Requests, \A p \in Requests : p # q => frame'[p] = frame[p],
           Fields \subseteq DOMAIN frame'[q], frame'[q].parent \in 0 .. created, frame'[q].question \in 0 .. created,
           stage # "idle" => frame'[q].conversation \in Conversations,
           HasQuestion(q)', HasReply(q)', HasParent(q)'
    PROVE  IInv'
<1>1. \A p \in Requests : p # q => pc'[p] = pc[p]
    BY DEF IInv, Typed
<1>2. Typed'
    BY <1>1 DEF IInv, Typed
<1>3. ASSUME NEW p \in Requests PROVE (HasQuestion(p) /\ HasReply(p) /\ HasParent(p))'
  <2>1. CASE p = q
    BY <2>1
  <2>2. CASE p # q
    BY <1>1, <2>2 DEF IInv, HasQuestion, HasReply, HasParent, InConversation, Exists
  <2> QED
    BY <2>1, <2>2
<1>4. Answered' /\ (~ForeignParents => Rooted')
    BY DEF IInv, Answered, Rooted, RootedAt, InConversation, Exists, Ancestors, BranchOf
<1> QED
    BY <1>2, <1>3, <1>4 DEF IInv

LEMMA RefuseStep == ASSUME IInv, NEW q \in Requests, pc[q] # "idle", Refuse(q) PROVE IInv'
<1>1. pc' = [pc EXCEPT ![q] = "refused"] /\ UNCHANGED <<frame, messages, created>>
    BY DEF Refuse, Go
<1>2. pc'[q] = "refused"
    BY <1>1 DEF IInv, Typed
<1>3. HasQuestion(q)' /\ HasReply(q)'
    BY <1>2 DEF HasQuestion, HasReply
<1>4. HasParent(q)'
    BY <1>1 DEF IInv, HasParent, Exists
<1>5. "refused" \in Stages
    BY DEF Stages
<1> QED
    BY <1>1, <1>3, <1>4, <1>5, OwnStep DEF IInv, Typed

LEMMA SendStep ==
    ASSUME IInv, NEW q \in Requests, NEW kind, NEW c \in Conversations, NEW parent \in Nameable(c),
           NEW stage \in {"asking", "checking"}, Send(q, kind, c, parent, stage)
    PROVE  IInv'
<1> DEFINE f == [NoFrame EXCEPT !.kind = kind, !.conversation = c, !.parent = parent]
<1>1. /\ frame' = [frame EXCEPT ![q] = f]
      /\ pc' = [pc EXCEPT ![q] = stage]
      /\ UNCHANGED <<messages, created>>
    BY DEF Send, Go
<1>2. frame'[q] = f /\ pc'[q] = stage /\ \A p \in Requests : p # q => frame'[p] = frame[p]
    BY <1>1 DEF IInv, Typed
<1>3. Fields \subseteq DOMAIN f /\ f.conversation = c /\ f.parent = parent /\ f.question = 0
    BY DEF Fields, NoFrame, ROOT_PARENT_ID
<1> HIDE DEF f
<1>4. /\ parent \in 0 .. created
      /\ ~ForeignParents /\ Exists(parent) => messages[parent].conversation = c
    BY TreeAssumption DEF Nameable, IInv, Typed, Exists, ROOT_PARENT_ID
<1>5. HasQuestion(q)' /\ HasReply(q)'
    BY <1>2 DEF HasQuestion, HasReply
<1>6. HasParent(q)'
    BY <1>1, <1>2, <1>3, <1>4 DEF HasParent, Exists
<1>7. stage \in Stages /\ DOMAIN frame' = Requests /\ 0 \in 0 .. created
    BY <1>1, TreeAssumption DEF Stages, IInv, Typed
<1> QED
    BY <1>1, <1>2, <1>3, <1>4, <1>5, <1>6, <1>7, OwnStep

LEMMA CheckSendStep == ASSUME IInv, NEW q \in Requests, CheckSend(q) PROVE IInv'
<1>1. pc[q] = "checking" /\ frame[q].kind = "send"
    BY DEF CheckSend
<1>2. CASE Refuse(q)
    BY <1>1, <1>2, RefuseStep
<1>3. CASE ~Refuse(q)
  <2>1. /\ UNCHANGED <<messages, created>>
        /\ \/ Go(q, "asking") /\ UNCHANGED frame
           \/ Go(q, "reading") /\ frame' = [frame EXCEPT ![q].branch = BranchOf(frame[q].parent)]
    BY <1>3 DEF CheckSend
  <2>2. PICK stage \in {"asking", "reading"} : pc' = [pc EXCEPT ![q] = stage] /\ pc'[q] = stage
    BY <2>1 DEF Go, IInv, Typed
  <2>3. /\ DOMAIN frame' = Requests /\ \A p \in Requests : p # q => frame'[p] = frame[p]
        /\ Fields \subseteq DOMAIN frame'[q]
        /\ \A x \in {"kind", "conversation", "parent", "question"} : frame'[q][x] = frame[q][x]
    BY <2>1 DEF IInv, Typed, Fields
  <2>4. /\ frame'[q].kind = "send" /\ frame'[q].conversation = frame[q].conversation
        /\ frame'[q].parent = frame[q].parent /\ frame'[q].question = frame[q].question
    BY <1>1, <2>3
  <2>5. HasQuestion(q)' /\ HasReply(q)'
    BY <2>2, <2>4 DEF HasQuestion, HasReply
  <2>6. HasParent(q)'
    BY <1>1, <2>1, <2>4 DEF HasParent, IInv, Exists
  <2>7. stage \in Stages /\ frame[q].conversation \in Conversations /\ frame[q].parent \in 0 .. created
        /\ frame[q].question \in 0 .. created
    BY <1>1, <2>2 DEF Stages, IInv, Typed
  <2> QED
    BY <2>1, <2>2, <2>3, <2>4, <2>5, <2>6, <2>7, OwnStep
<1> QED
    BY <1>2, <1>3

LEMMA CheckRetryStep == ASSUME IInv, NEW q \in Requests, CheckRetry(q) PROVE IInv'
<1> DEFINE question == messages[frame[q].parent].parent
<1>1. pc[q] = "checking" /\ frame[q].kind = "retry"
    BY DEF CheckRetry
<1>2. CASE Refuse(q)
    BY <1>1, <1>2, RefuseStep
<1>3. CASE ~Refuse(q)
  <2>1. /\ UNCHANGED <<messages, created>>
        /\ InConversation(question, frame[q].conversation, "user")
        /\ pc' = [pc EXCEPT ![q] = "reading"]
        /\ frame' = [frame EXCEPT ![q].question = question, ![q].branch = BranchOf(question)]
    BY <1>3 DEF CheckRetry, Go
  <2>2. question \in 1 .. created /\ created \in Nat
    BY <2>1, TreeAssumption DEF InConversation, Exists, IInv, Typed
  <2> HIDE DEF question
  <2>3. /\ DOMAIN frame' = Requests /\ \A p \in Requests : p # q => frame'[p] = frame[p]
        /\ Fields \subseteq DOMAIN frame'[q]
        /\ \A x \in {"kind", "conversation", "parent"} : frame'[q][x] = frame[q][x]
        /\ frame'[q].question = question
    BY <2>1 DEF IInv, Typed, Fields
  <2>4. frame'[q].conversation = frame[q].conversation /\ frame'[q].parent = frame[q].parent
    BY <2>3
  <2>5. pc'[q] = "reading"
    BY <2>1 DEF IInv, Typed
  <2>6. HasQuestion(q)' /\ HasReply(q)'
    BY <2>1, <2>2, <2>3, <2>4, <2>5 DEF HasQuestion, HasReply, InConversation, Exists, ROOT_PARENT_ID
  <2>7. HasParent(q)'
    BY <1>1, <2>1, <2>4 DEF HasParent, IInv, Exists
  <2>8. "reading" \in Stages /\ frame[q].conversation \in Conversations /\ frame[q].parent \in 0 .. created
        /\ question \in 0 .. created
    BY <1>1, <2>2 DEF Stages, IInv, Typed
  <2> QED
    BY <2>1, <2>3, <2>4, <2>6, <2>7, <2>8, OwnStep
<1> QED
    BY <1>2, <1>3

LEMMA ReadStep == ASSUME IInv, NEW q \in Requests, ReadHistory(q) PROVE IInv'
<1> DEFINE next == IF frame[q].kind = "retry" THEN "replying" ELSE "asking"
<1>1. /\ pc[q] = "reading" /\ pc' = [pc EXCEPT ![q] = next]
      /\ frame' = [frame EXCEPT ![q].history = Recent(frame[q].branch)]
      /\ UNCHANGED <<messages, created>>
    BY DEF ReadHistory, Go
<1>2. /\ DOMAIN frame' = Requests /\ \A p \in Requests : p # q => frame'[p] = frame[p]
      /\ Fields \subseteq DOMAIN frame'[q]
      /\ \A x \in {"kind", "conversation", "parent", "question"} : frame'[q][x] = frame[q][x]
    BY <1>1 DEF IInv, Typed, Fields
<1>3. /\ frame'[q].kind = frame[q].kind /\ frame'[q].conversation = frame[q].conversation
      /\ frame'[q].parent = frame[q].parent /\ frame'[q].question = frame[q].question
    BY <1>2
<1>4. pc'[q] = next
    BY <1>1 DEF IInv, Typed
<1>5. HasQuestion(q)' /\ HasReply(q)'
    BY <1>1, <1>3, <1>4 DEF HasQuestion, HasReply, InConversation, Exists, IInv
<1>6. HasParent(q)'
    BY <1>1, <1>3 DEF HasParent, IInv, Exists
<1>7. next \in Stages /\ frame[q].conversation \in Conversations /\ frame[q].parent \in 0 .. created
      /\ frame[q].question \in 0 .. created
    BY <1>1 DEF Stages, IInv, Typed
<1> QED
    BY <1>1, <1>2, <1>3, <1>5, <1>6, <1>7, OwnStep

-----------------------------------------------------------------------------
(* Steps that store a row.                                                 *)

LEMMA ToSetAppend ==
    ASSUME NEW S, NEW s \in Seq(S), NEW x \in S
    PROVE  Append(s, x) \in Seq(S) /\ ToSet(Append(s, x)) = ToSet(s) \cup {x}
<1>1. /\ Append(s, x) \in Seq(S) /\ Len(s) \in Nat
      /\ Len(Append(s, x)) = Len(s) + 1
      /\ \A i \in 1 .. Len(s) : Append(s, x)[i] = s[i]
      /\ Append(s, x)[Len(s) + 1] = x
    OBVIOUS
<1>2. DOMAIN s = 1 .. Len(s) /\ DOMAIN Append(s, x) = 1 .. Len(s) + 1
    BY <1>1
<1>3. ToSet(Append(s, x)) \subseteq ToSet(s) \cup {x}
    BY <1>1, <1>2 DEF ToSet
<1>4. ToSet(s) \subseteq ToSet(Append(s, x)) /\ x \in ToSet(Append(s, x))
    BY <1>1, <1>2 DEF ToSet
<1> QED
    BY <1>1, <1>3, <1>4

\* The new row is fit for the table, and leaves the others as they are.
LEMMA NewRow ==
    ASSUME IInv, NEW c \in Conversations, NEW sender \in {"user", "assistant"}, NEW parent \in 0 .. created,
           NEW status \in {"PENDING", "SUCCESS"}, Creatable(c, parent), Create(c, sender, parent, status),
           sender = "assistant" => InConversation(parent, c, "user"),
           ~ForeignParents /\ parent # ROOT_PARENT_ID => messages[parent].conversation = c
    PROVE  /\ created' = created + 1 /\ created' \in 1 .. MaxMessages /\ ~Exists(created')
           /\ DOMAIN messages' = DOMAIN messages \cup {created'}
           /\ \A id \in DOMAIN messages : messages'[id] = messages[id]
           /\ messages'[created'].parent = parent /\ messages'[created'].conversation = c
           /\ messages'[created'].sender = sender
           /\ \A id \in DOMAIN messages' : messages'[id] \in Rows
           /\ Answered' /\ (~ForeignParents => Rooted')
<1> DEFINE row == [conversation |-> c, sender |-> sender, parent |-> parent,
                   ancestors |-> Ancestors(parent), status |-> status]
<1>1. /\ created < MaxMessages /\ created' = created + 1
      /\ messages' = [id \in DOMAIN messages \cup {created'} |-> IF id = created' THEN row ELSE messages[id]]
    BY DEF Create
<1>2. created' \in 1 .. MaxMessages /\ ~Exists(created')
    BY <1>1, TreeAssumption DEF IInv, Typed, Exists
<1>3. /\ DOMAIN messages' = DOMAIN messages \cup {created'} /\ messages'[created'] = row
      /\ \A id \in DOMAIN messages : messages'[id] = messages[id]
    BY <1>1, <1>2 DEF Exists
<1>4. parent # ROOT_PARENT_ID => parent \in Ids /\ Exists(parent) /\ messages[parent].ancestors \in Seq(Ids)
    BY TreeAssumption DEF Creatable, IInv, Typed, Ids, Exists, Rows, ROOT_PARENT_ID
<1>5. /\ Ancestors(parent) \in Seq(Ids)
      /\ parent = ROOT_PARENT_ID => ToSet(Ancestors(parent)) = {}
      /\ parent # ROOT_PARENT_ID => ToSet(Ancestors(parent)) = ToSet(messages[parent].ancestors) \cup {parent}
  <2>1. CASE parent = ROOT_PARENT_ID
    BY <2>1 DEF Ancestors, ToSet
  <2>2. CASE parent # ROOT_PARENT_ID
    BY <1>4, <2>2, ToSetAppend DEF Ancestors, BranchOf
  <2> QED
    BY <2>1, <2>2
<1>6. row \in Rows
    BY <1>4, <1>5 DEF Rows
<1>7. \A id \in DOMAIN messages' : messages'[id] \in Rows
    BY <1>3, <1>6 DEF IInv, Typed
<1>8. \A id : Exists(id) => (Exists(id)' /\ messages'[id] = messages[id] /\ Ancestors(id)' = Ancestors(id))
    BY <1>3 DEF Exists, Ancestors, BranchOf
<1>9. Ancestors(ROOT_PARENT_ID)' = Ancestors(ROOT_PARENT_ID)
    BY DEF Ancestors
<1>10. Answered'
    BY <1>3, <1>8 DEF IInv, Answered, InConversation, Exists
<1>11. ASSUME ~ForeignParents PROVE Rooted'
  <2>0. Rooted
    BY <1>11 DEF IInv
  <2> SUFFICES ASSUME NEW id \in DOMAIN messages' PROVE RootedAt(id)'
    BY DEF Rooted
  <2>1. CASE id = created'
    <3>1. messages'[id].ancestors = Ancestors(parent) /\ messages'[id].parent = parent
      BY <1>3, <2>1
    <3>2. Ancestors(parent)' = Ancestors(parent)
      BY <1>4, <1>8, <1>9
    <3>3. ASSUME NEW a \in ToSet(Ancestors(parent)) PROVE Exists(a) /\ messages[a].conversation = c
      <4>1. parent # ROOT_PARENT_ID /\ Exists(parent) /\ messages[parent].conversation = c
        BY <1>4, <1>5, <1>11, <3>3
      <4> QED
        BY <1>5, <2>0, <3>3, <4>1 DEF Rooted, RootedAt, Exists
    <3>4. messages'[id].ancestors = Ancestors(messages[id].parent)'
      BY <3>1, <3>2 DEF Ancestors, BranchOf
    <3>5. messages'[id].parent # ROOT_PARENT_ID => Exists(messages[id].parent)'
      BY <1>4, <1>8, <3>1 DEF Exists
    <3>6. messages'[id].conversation = c
      BY <1>3, <2>1
    <3>7. \A a \in ToSet(messages'[id].ancestors) : Exists(a)' /\ messages'[a].conversation = messages'[id].conversation
      BY <1>8, <3>1, <3>3, <3>6
    <3> QED
      BY <3>4, <3>5, <3>7 DEF RootedAt
  <2>2. CASE id # created'
    <3>1. id \in DOMAIN messages /\ messages'[id] = messages[id]
      BY <1>3, <2>2
    <3> QED
      BY <1>8, <2>0, <3>1 DEF Rooted, RootedAt, Exists, Ancestors, BranchOf
  <2> QED
    BY <2>1, <2>2
<1> QED
    BY <1>1, <1>2, <1>3, <1>7, <1>10, <1>11

\* What another request knows of the rows stays true when a new one appears.
LEMMA OthersKeep ==
    ASSUME IInv, NEW p \in Requests, pc'[p] = pc[p], frame'[p] = frame[p],
           created' = created + 1, DOMAIN messages' = DOMAIN messages \cup {created'},
           \A id \in DOMAIN messages : messages'[id] = messages[id]
    PROVE  (HasQuestion(p) /\ HasReply(p) /\ HasParent(p))'
<1>1. \A id \in 0 .. created : Exists(id)' => (Exists(id) /\ messages'[id] = messages[id])
    BY TreeAssumption DEF Exists, IInv, Typed
<1>2. frame[p].parent \in 0 .. created /\ frame[p].question \in 0 .. created /\ created \in Nat
    BY TreeAssumption DEF IInv, Typed
<1>3. HasQuestion(p)'
    BY <1>1, <1>2 DEF IInv, HasQuestion, InConversation
<1>4. HasParent(p)'
    BY <1>1, <1>2 DEF IInv, HasParent
<1>5. HasReply(p)'
  <2> SUFFICES ASSUME pc[p] \in {"prepared", "settled"}
               PROVE  /\ frame[p].reply \in 1 .. created + 1
                      /\ Exists(frame[p].reply)' => messages'[frame[p].reply].parent = frame[p].question
    BY DEF HasReply
  <2>1. frame[p].reply \in 1 .. created /\ (Exists(frame[p].reply) => messages[frame[p].reply].parent = frame[p].question)
    BY DEF IInv, HasReply
  <2> QED
    BY <1>1, <1>2, <2>1
<1> QED
    BY <1>3, <1>4, <1>5

LEMMA StoreQuestionStep == ASSUME IInv, NEW q \in Requests, StoreQuestion(q) PROVE IInv'
<1> DEFINE f == frame[q]
<1>1. pc[q] = "asking"
    BY DEF StoreQuestion
<1>2. CASE Refuse(q)
    BY <1>1, <1>2, RefuseStep
<1>3. CASE ~Refuse(q)
  <2>1. /\ Creatable(f.conversation, f.parent) /\ Create(f.conversation, "user", f.parent, "SUCCESS")
        /\ frame' = [frame EXCEPT ![q].question = created']
        /\ pc' = [pc EXCEPT ![q] = "replying"]
    BY <1>3 DEF StoreQuestion, Go
  <2>2. f.conversation \in Conversations /\ f.parent \in 0 .. created /\ created \in Nat
    BY <1>1, TreeAssumption DEF IInv, Typed
  <2>3. ~ForeignParents /\ f.parent # ROOT_PARENT_ID => messages[f.parent].conversation = f.conversation
    BY <1>1, <2>1 DEF Creatable, IInv, HasParent
  <2>4. /\ created' = created + 1 /\ created' \in 1 .. MaxMessages /\ ~Exists(created')
        /\ DOMAIN messages' = DOMAIN messages \cup {created'}
        /\ \A id \in DOMAIN messages : messages'[id] = messages[id]
        /\ messages'[created'].parent = f.parent /\ messages'[created'].conversation = f.conversation
        /\ messages'[created'].sender = "user"
        /\ \A id \in DOMAIN messages' : messages'[id] \in Rows
        /\ Answered' /\ (~ForeignParents => Rooted')
    BY <2>1, <2>2, <2>3, NewRow
  <2> HIDE DEF f
  <2>5. /\ DOMAIN frame' = Requests /\ \A p \in Requests : p # q => frame'[p] = frame[p] /\ pc'[p] = pc[p]
        /\ Fields \subseteq DOMAIN frame'[q]
        /\ \A x \in {"kind", "conversation", "parent"} : frame'[q][x] = frame[q][x]
        /\ frame'[q].question = created' /\ pc'[q] = "replying"
    BY <2>1 DEF IInv, Typed, Fields
  <2>6. frame'[q].conversation = f.conversation /\ frame'[q].parent = f.parent
    BY <2>5 DEF f
  <2>7. Typed'
    BY <2>1, <2>2, <2>4, <2>5, <2>6, TreeAssumption DEF IInv, Typed, Stages
  <2>8. HasQuestion(q)' /\ HasReply(q)'
    BY <2>2, <2>4, <2>5, <2>6 DEF HasQuestion, HasReply, InConversation, ROOT_PARENT_ID
  <2>9. HasParent(q)'
    BY <1>1, <2>2, <2>3, <2>4, <2>5, <2>6, TreeAssumption DEF HasParent, Exists, IInv, f
  <2>10. \A p \in Requests : (HasQuestion(p) /\ HasReply(p) /\ HasParent(p))'
    BY <2>4, <2>5, <2>8, <2>9, OthersKeep
  <2> QED
    BY <2>4, <2>7, <2>10 DEF IInv
<1> QED
    BY <1>2, <1>3

LEMMA StoreReplyStep == ASSUME IInv, NEW q \in Requests, StoreReply(q) PROVE IInv'
<1> DEFINE f == frame[q]
<1>1. pc[q] = "replying"
    BY DEF StoreReply
<1>2. CASE Refuse(q)
    BY <1>1, <1>2, RefuseStep
<1>3. CASE ~Refuse(q)
  <2>1. /\ Creatable(f.conversation, f.question) /\ Create(f.conversation, "assistant", f.question, "PENDING")
        /\ frame' = [frame EXCEPT ![q].reply = created']
        /\ pc' = [pc EXCEPT ![q] = "prepared"]
    BY <1>3 DEF StoreReply, StoreReplyParent, Go
  <2>2. f.conversation \in Conversations /\ f.question \in 0 .. created /\ created \in Nat
    BY <1>1, TreeAssumption DEF IInv, Typed
  <2>3. InConversation(f.question, f.conversation, "user")
    BY <1>1, <2>1 DEF Creatable, IInv, HasQuestion
  <2>4. messages[f.question].conversation = f.conversation
    BY <2>3 DEF InConversation
  <2>5. /\ created' = created + 1 /\ created' \in 1 .. MaxMessages /\ ~Exists(created')
        /\ DOMAIN messages' = DOMAIN messages \cup {created'}
        /\ \A id \in DOMAIN messages : messages'[id] = messages[id]
        /\ messages'[created'].parent = f.question
        /\ \A id \in DOMAIN messages' : messages'[id] \in Rows
        /\ Answered' /\ (~ForeignParents => Rooted')
    BY <2>1, <2>2, <2>3, <2>4, NewRow
  <2> HIDE DEF f
  <2>6. /\ DOMAIN frame' = Requests /\ \A p \in Requests : p # q => frame'[p] = frame[p] /\ pc'[p] = pc[p]
        /\ Fields \subseteq DOMAIN frame'[q]
        /\ \A x \in {"kind", "conversation", "parent", "question"} : frame'[q][x] = frame[q][x]
        /\ frame'[q].reply = created' /\ pc'[q] = "prepared"
    BY <2>1 DEF IInv, Typed, Fields
  <2>7. /\ frame'[q].conversation = f.conversation /\ frame'[q].parent = frame[q].parent
        /\ frame'[q].question = f.question
    BY <2>6 DEF f
  <2>8. Typed'
    BY <2>1, <2>2, <2>5, <2>6, <2>7, TreeAssumption DEF IInv, Typed, Stages
  <2>9. HasQuestion(q)' /\ HasReply(q)'
    BY <2>2, <2>5, <2>6, <2>7 DEF HasQuestion, HasReply
  <2>10. HasParent(q)'
    BY <1>1, <2>2, <2>5, <2>6, <2>7, TreeAssumption DEF HasParent, Exists, IInv, Typed, f
  <2>11. \A p \in Requests : (HasQuestion(p) /\ HasReply(p) /\ HasParent(p))'
    BY <2>5, <2>6, <2>9, <2>10, OthersKeep
  <2> QED
    BY <2>5, <2>8, <2>11 DEF IInv
<1> QED
    BY <1>2, <1>3

-----------------------------------------------------------------------------
(* Steps around the requests.                                              *)

LEMMA SettleStep == ASSUME IInv, NEW q \in Requests, Settle(q) PROVE IInv'
<1>1. PICK status \in {"SUCCESS", "FAILED"} :
          /\ messages' = [messages EXCEPT ![frame[q].reply].status = status]
          /\ pc[q] = "prepared" /\ pc' = [pc EXCEPT ![q] = "settled"]
          /\ UNCHANGED <<frame, created>>
    BY DEF Settle, Go
<1>2. /\ DOMAIN messages' = DOMAIN messages
      /\ \A id \in DOMAIN messages :
            /\ messages'[id] \in Rows
            /\ messages'[id].conversation = messages[id].conversation
            /\ messages'[id].sender = messages[id].sender
            /\ messages'[id].parent = messages[id].parent
            /\ messages'[id].ancestors = messages[id].ancestors
    BY <1>1 DEF IInv, Typed, Rows
<1>3. pc' \in [Requests -> Stages] /\ pc'[q] = "settled" /\ \A p \in Requests : p # q => pc'[p] = pc[p]
    BY <1>1 DEF IInv, Typed, Stages
<1>4. Typed'
    BY <1>1, <1>2, <1>3 DEF IInv, Typed
<1>5. ASSUME NEW p \in Requests PROVE (HasQuestion(p) /\ HasReply(p) /\ HasParent(p))'
  <2>1. HasQuestion(p)'
    BY <1>1, <1>2, <1>3 DEF IInv, HasQuestion, InConversation, Exists
  <2>2. HasReply(p)'
    BY <1>1, <1>2, <1>3 DEF IInv, HasReply, Exists
  <2>3. HasParent(p)'
    BY <1>1, <1>2, <1>3 DEF IInv, HasParent, Exists
  <2> QED
    BY <2>1, <2>2, <2>3
<1>6. Answered'
    BY <1>2 DEF IInv, Answered, InConversation, Exists
<1>7. ASSUME ~ForeignParents PROVE Rooted'
  <2>1. \A id : Exists(id) => Ancestors(id)' = Ancestors(id)
    BY <1>2 DEF Ancestors, BranchOf, Exists
  <2>2. Ancestors(ROOT_PARENT_ID)' = Ancestors(ROOT_PARENT_ID)
    BY DEF Ancestors
  <2> QED
    BY <1>2, <1>7, <2>1, <2>2 DEF IInv, Rooted, RootedAt, Exists
<1> QED
    BY <1>4, <1>5, <1>6, <1>7 DEF IInv

\* A conversation goes with all its rows, so that none that stays leads to one that goes.
LEMMA DeleteStep == ASSUME IInv, NEW c \in Conversations, DeleteConversation(c) PROVE IInv'
<1>1. /\ DOMAIN messages' = {id \in DOMAIN messages : messages[id].conversation # c}
      /\ \A id \in DOMAIN messages' : messages'[id] = messages[id]
      /\ UNCHANGED <<pc, frame, created>>
    BY DEF DeleteConversation, DeletedWith
<1>2. Typed'
    BY <1>1 DEF IInv, Typed
<1>3. ASSUME NEW q \in Requests PROVE (HasQuestion(q) /\ HasReply(q) /\ HasParent(q))'
  <2>1. HasQuestion(q)'
    BY <1>1 DEF IInv, HasQuestion, InConversation, Exists
  <2>2. HasReply(q)'
    BY <1>1 DEF IInv, HasReply, Exists
  <2>3. HasParent(q)'
    BY <1>1 DEF IInv, HasParent, Exists
  <2> QED
    BY <2>1, <2>2, <2>3
<1>4. Answered'
    BY <1>1 DEF IInv, Answered, InConversation, Exists
<1>5. ASSUME ~ForeignParents PROVE Rooted'
  <2>1. SUFFICES ASSUME NEW id \in DOMAIN messages' PROVE RootedAt(id)'
    BY DEF Rooted
  <2>2. /\ id \in DOMAIN messages /\ messages'[id] = messages[id] /\ messages[id].conversation # c
        /\ messages[id] \in Rows
    BY <1>1 DEF IInv, Typed
  <2>3. /\ messages[id].ancestors = Ancestors(messages[id].parent)
        /\ messages[id].parent # ROOT_PARENT_ID => Exists(messages[id].parent)
        /\ \A a \in ToSet(messages[id].ancestors) :
              Exists(a) /\ messages[a].conversation = messages[id].conversation
    BY <1>5, <2>2 DEF IInv, Rooted, RootedAt
  <2>4. \A a \in ToSet(messages[id].ancestors) :
            Exists(a)' /\ messages'[a].conversation = messages'[id].conversation
    BY <1>1, <2>2, <2>3 DEF Exists
  <2>5. CASE messages[id].parent = ROOT_PARENT_ID
    BY <2>2, <2>3, <2>4, <2>5 DEF RootedAt, Ancestors
  <2>6. CASE messages[id].parent # ROOT_PARENT_ID
    <3>1. /\ Exists(messages[id].parent) /\ messages[messages[id].parent].ancestors \in Seq(Ids)
          /\ messages[id].parent \in Ids
      BY <2>2, <2>3, <2>6 DEF Exists, IInv, Typed, Rows
    <3>2. messages[id].parent \in ToSet(messages[id].ancestors)
      BY <2>3, <2>6, <3>1, ToSetAppend DEF Ancestors, BranchOf
    <3>3. Exists(messages[id].parent)' /\ messages'[messages[id].parent] = messages[messages[id].parent]
      BY <1>1, <2>4, <3>2 DEF Exists
    <3> QED
      BY <2>2, <2>3, <2>4, <2>6, <3>3 DEF RootedAt, Ancestors, BranchOf
  <2> QED
    BY <2>5, <2>6
<1> QED
    BY <1>2, <1>3, <1>4, <1>5 DEF IInv

LEMMA TreeStutter == ASSUME IInv, UNCHANGED vars PROVE IInv'
<1>1. UNCHANGED <<pc, frame, messages, created>>
    BY DEF vars
<1>2. Typed'
    BY <1>1 DEF IInv, Typed
<1>3. \A q \in Requests : (HasQuestion(q) /\ HasReply(q) /\ HasParent(q))'
    BY <1>1 DEF IInv, HasQuestion, HasReply, HasParent, InConversation, Exists
<1>4. Answered' /\ (~ForeignParents => Rooted')
    BY <1>1 DEF IInv, Answered, Rooted, RootedAt, InConversation, Exists, Ancestors, BranchOf
<1> QED
    BY <1>2, <1>3, <1>4 DEF IInv

LEMMA TreeStep == IInv /\ [Next]_vars => IInv'
<1> SUFFICES ASSUME IInv, [Next]_vars PROVE IInv'
    OBVIOUS
<1>1. ASSUME NEW q \in Requests, SendNew(q) PROVE IInv'
    BY <1>1, SendStep DEF SendNew
<1>2. ASSUME NEW q \in Requests, SendTo(q) PROVE IInv'
    BY <1>2, SendStep DEF SendTo
<1>3. ASSUME NEW q \in Requests, SendRetry(q) PROVE IInv'
    BY <1>3, SendStep DEF SendRetry
<1> QED
    BY <1>1, <1>2, <1>3, CheckSendStep, CheckRetryStep, ReadStep, StoreQuestionStep, StoreReplyStep, SettleStep,
       DeleteStep, TreeStutter DEF Next

-----------------------------------------------------------------------------
(* The theorems.                                                           *)

\* The strengthened invariant: rows and what requests know of them, at every await of
\* prepareMessageStream and under every deletion.
THEOREM Inductive == Spec => []IInv
    BY TreeInit, TreeStep, PTL DEF Spec

\* A reply hangs under a user message of its own conversation, also when the question was
\* read or stored by an earlier transaction and conversations are deleted between: what
\* StoreReply checks is enough, and clients may name parents anywhere.
THEOREM RepliesStay == Spec => []RepliesAnswerQuestions
<1>1. IInv => RepliesAnswerQuestions
    BY DEF IInv, Answered, HasReply, RepliesAnswerQuestions
<1> QED
    BY <1>1, Inductive, PTL

\* As long as no client names a parent of another conversation, the ancestors a row records
\* are its parent and the ancestors its parent records, and all of them exist in the row's
\* own conversation: no deletion between two transactions leaves a branch with a gap.
THEOREM BranchesAreRooted == ASSUME ~ForeignParents PROVE Spec => []Rooted
<1>1. IInv => Rooted
    BY DEF IInv
<1> QED
    BY <1>1, Inductive, PTL

-----------------------------------------------------------------------------
(* Numbers, and finite sets of them.                                       *)

LEMMA LeastNatural ==
    ASSUME NEW T \in SUBSET Nat, T # {}
    PROVE  \E x \in T : \A y \in T : x <= y
<1> DEFINE R == {ss \in Nat \X Nat : ss[1] < ss[2]}
<1>0. IsWellFoundedOn(R, Nat)
    BY NatLessThanWellFounded DEF OpToRel
<1> HIDE DEF R
<1>1. PICK x \in T : \A y \in T : <<y, x>> \notin R
    BY <1>0, WFMin
<1>2. \A y \in T : ~(y < x)
    BY <1>1 DEF R
<1>3. \A y \in T : x <= y
    BY <1>2
<1> QED
    BY <1>3

\* How many members of S are below x.
Rank(S, x) == Cardinality({y \in S : y < x})

LEMMA RankFacts ==
    ASSUME NEW S \in SUBSET Nat, IsFiniteSet(S)
    PROVE  /\ Cardinality(S) \in Nat
           /\ \A x \in S : Rank(S, x) \in 0 .. Cardinality(S) - 1
           /\ \A x, y \in S : x < y => Rank(S, x) < Rank(S, y)
           /\ \A i \in 1 .. Cardinality(S) : \E x \in S : Rank(S, x) = i - 1
<1> DEFINE n == Cardinality(S)
           L(x) == {y \in S : y < x}
<1>0. n \in Nat
    BY FS_CardinalityType
<1>1. ASSUME NEW A \in SUBSET S, NEW B \in SUBSET S, A \subseteq B, A # B
      PROVE  Cardinality(A) \in Nat /\ Cardinality(B) \in Nat /\ Cardinality(A) < Cardinality(B)
  <2>1. IsFiniteSet(A) /\ IsFiniteSet(B)
    BY FS_Subset
  <2>2. Cardinality(A) \in Nat /\ Cardinality(B) \in Nat
    BY <2>1, FS_CardinalityType
  <2>3. Cardinality(A) <= Cardinality(B) /\ Cardinality(A) # Cardinality(B)
    BY <1>1, <2>1, FS_Subset
  <2> QED
    BY <2>2, <2>3
<1>2. ASSUME NEW x \in S PROVE Rank(S, x) \in 0 .. n - 1
  <2>1. x \notin L(x)
    OBVIOUS
  <2>2. Cardinality(L(x)) \in Nat /\ Cardinality(L(x)) < n
    BY <1>1, <2>1
  <2> QED
    BY <1>0, <2>2 DEF Rank
<1>3. ASSUME NEW x \in S, NEW y \in S, x < y PROVE Rank(S, x) < Rank(S, y)
  <2>1. L(x) \subseteq L(y) /\ x \in L(y) /\ x \notin L(x)
    <3>1. x \in Nat /\ y \in Nat /\ ~(x < x)
      OBVIOUS
    <3>2. ASSUME NEW z \in S, z < x PROVE z < y
      <4>1. z \in Nat
        OBVIOUS
      <4> QED
        BY <1>3, <3>1, <3>2, <4>1
    <3> QED
      BY <1>3, <3>1, <3>2, Zenon
  <2>2. Cardinality(L(x)) < Cardinality(L(y))
    BY <1>1, <2>1
  <2> QED
    BY <2>2 DEF Rank
<1>4. ASSUME NEW i \in 1 .. n PROVE \E x \in S : Rank(S, x) = i - 1
  <2> DEFINE T == 0 .. n - 1
             f == [x \in S |-> Rank(S, x)]
  <2>1. f \in [S -> T]
    BY <1>2
  <2>2. ASSUME NEW x \in S, NEW y \in S, f[x] = f[y] PROVE x = y
    <3>1. ~(x < y) /\ ~(y < x)
      BY <1>2, <1>3, <2>2
    <3> QED
      BY <3>1
  <2>3. f \in Injection(S, T)
    BY <2>1, <2>2 DEF Injection, IsInjective
  <2>4. IsFiniteSet(T) /\ Cardinality(T) = n
    <3> HIDE DEF n
    <3>1. n - 1 \in Int /\ 0 \in Int /\ (IF 0 > n - 1 THEN 0 ELSE (n - 1) - 0 + 1) = n
      BY <1>0
    <3> QED
      BY <3>1, FS_Interval
  <2>5. f \in Surjection(S, T)
    BY <2>3, <2>4, FS_Injection
  <2>6. i - 1 \in T
    BY <1>0
  <2> QED
    BY <2>5, <2>6 DEF Surjection
<1> QED
    BY <1>0, <1>2, <1>3, <1>4

\* Whoever has the rank of the i-th member is the i-th member.
LEMMA AscendingFacts ==
    ASSUME NEW S \in SUBSET Nat, IsFiniteSet(S)
    PROVE  /\ Cardinality(S) \in Nat
           /\ Ascending(S) \in [1 .. Cardinality(S) -> S]
           /\ \A i \in 1 .. Cardinality(S) : \A x \in S : Rank(S, x) = i - 1 <=> x = Ascending(S)[i]
<1>1. ASSUME NEW i \in 1 .. Cardinality(S)
      PROVE  Ascending(S)[i] \in S /\ Rank(S, Ascending(S)[i]) = i - 1
  <2>1. \E x \in S : Rank(S, x) = i - 1
    BY RankFacts
  <2>2. \E x \in S : Cardinality({y \in S : y < x}) = i - 1
    BY <2>1 DEF Rank
  <2>3. Ascending(S)[i] = CHOOSE x \in S : Cardinality({y \in S : y < x}) = i - 1
    BY DEF Ascending
  <2> QED
    BY <2>2, <2>3 DEF Rank
<1>2. Ascending(S) \in [1 .. Cardinality(S) -> S]
  <2> DEFINE e(i) == CHOOSE x \in S : Cardinality({y \in S : y < x}) = i - 1
  <2>1. Ascending(S) = [i \in 1 .. Cardinality(S) |-> e(i)]
    BY DEF Ascending
  <2> HIDE DEF e
  <2>2. \A i \in 1 .. Cardinality(S) : e(i) \in S
    BY <1>1, <2>1
  <2> QED
    BY <2>1, <2>2
<1>3. ASSUME NEW i \in 1 .. Cardinality(S), NEW x \in S, Rank(S, x) = i - 1
      PROVE  x = Ascending(S)[i]
  <2> DEFINE z == Ascending(S)[i]
  <2>1. z \in S /\ Rank(S, z) = i - 1
    BY <1>1
  <2> HIDE DEF z
  <2>2. ~(x < z) /\ ~(z < x)
    BY <1>3, <2>1, RankFacts
  <2>3. x = z
    BY <2>1, <2>2
  <2> QED
    BY <2>3 DEF z
<1> QED
    BY <1>1, <1>2, <1>3, RankFacts

LEMMA AscendingSeq ==
    ASSUME NEW S \in SUBSET Nat, IsFiniteSet(S)
    PROVE  /\ Ascending(S) \in Seq(S) /\ Ascending(S) \in Seq(Nat)
           /\ Len(Ascending(S)) = Cardinality(S)
<1>1. Cardinality(S) \in Nat /\ Ascending(S) \in [1 .. Cardinality(S) -> S]
    BY AscendingFacts
<1>2. Ascending(S) \in [1 .. Cardinality(S) -> Nat]
    BY <1>1
<1> QED
    BY <1>1, <1>2

LEMMA AscendingEmpty == Ascending({}) = <<>>
<1>1. IsFiniteSet({}) /\ Cardinality({}) = 0 /\ {} \in SUBSET Nat
    BY FS_EmptySet
<1>2. Ascending({}) \in Seq({}) /\ Len(Ascending({})) = 0
    BY <1>1, AscendingSeq
<1> QED
    BY <1>2

\* A number above all others comes last.
LEMMA AscendingAppend ==
    ASSUME NEW S \in SUBSET Nat, IsFiniteSet(S), NEW x \in Nat, \A y \in S : y < x
    PROVE  Ascending(S \cup {x}) = Append(Ascending(S), x)
<1> DEFINE T == S \cup {x}
           n == Cardinality(S)
<1>1. x \notin S
    OBVIOUS
<1>2. n \in Nat /\ IsFiniteSet(T) /\ Cardinality(T) = n + 1 /\ T \in SUBSET Nat
    BY <1>1, FS_AddElement, FS_CardinalityType
<1>3. \A y \in S : Rank(T, y) = Rank(S, y)
  <2>1. ASSUME NEW y \in S PROVE {z \in T : z < y} = {z \in S : z < y}
    BY <2>1
  <2> QED
    BY <2>1 DEF Rank
<1>4. Rank(T, x) = n
  <2>1. {z \in T : z < x} = S
    <3>1. ~(x < x)
      OBVIOUS
    <3> QED
      BY <3>1, Zenon
  <2> QED
    BY <2>1 DEF Rank
<1> HIDE DEF T, n
<1>5. Ascending(S) \in Seq(Nat) /\ Len(Ascending(S)) = n
    BY AscendingSeq DEF n
<1>6. Ascending(T) \in Seq(Nat) /\ Len(Ascending(T)) = n + 1
    BY <1>2, AscendingSeq
<1>7. ASSUME NEW i \in 1 .. n + 1 PROVE Ascending(T)[i] = Append(Ascending(S), x)[i]
  <2>1. CASE i = n + 1
    <3>1. x \in T /\ Rank(T, x) = i - 1 /\ i \in 1 .. Cardinality(T)
      BY <1>2, <1>4, <2>1 DEF T
    <3>2. Ascending(T)[i] = x
      BY <1>2, <3>1, AscendingFacts
    <3>3. Append(Ascending(S), x)[i] = x
      BY <1>2, <1>5, <2>1
    <3> QED
      BY <3>2, <3>3
  <2>2. CASE i # n + 1
    <3>1. i \in 1 .. n
      BY <1>2, <2>2
    <3> DEFINE y == Ascending(S)[i]
    <3>2. y \in S /\ Rank(S, y) = i - 1
      BY <3>1, AscendingFacts DEF n
    <3>3. y \in T /\ Rank(T, y) = i - 1 /\ i \in 1 .. Cardinality(T)
      BY <1>2, <1>3, <3>1, <3>2 DEF T
    <3> HIDE DEF y
    <3>4. Ascending(T)[i] = y
      BY <1>2, <3>3, AscendingFacts
    <3>5. Append(Ascending(S), x)[i] = y
      BY <1>5, <3>1 DEF y
    <3> QED
      BY <3>4, <3>5
  <2> QED
    BY <2>1, <2>2
<1>8. Append(Ascending(S), x) \in Seq(Nat) /\ Len(Append(Ascending(S), x)) = n + 1
    BY <1>5
<1>9. Ascending(T) = Append(Ascending(S), x)
    BY <1>6, <1>7, <1>8, SeqEqual
<1> QED
    BY <1>9 DEF T


-----------------------------------------------------------------------------
(* The ways through the tree.                                              *)

\* Parents and ancestors are older rows, so that a way down ends.
Below ==
    \A id \in DOMAIN messages :
        messages[id].parent < id /\ \A a \in ToSet(messages[id].ancestors) : a < id

Nodes == {ROOT_PARENT_ID} \cup Ids

Absent(id) == id = ROOT_PARENT_ID \/ ~Exists(id)

\* f satisfies the equation of Walk, and of SuccessfulWalk.
IsWalk(f) ==
    f = [id \in Nodes |-> IF Absent(id) THEN <<>> ELSE Append(f[messages[id].parent], id)]

IsSuccessfulWalk(f) ==
    f = [id \in Nodes |->
            IF Absent(id) THEN <<>>
            ELSE IF messages[id].status = "SUCCESS" THEN Append(f[messages[id].parent], id)
                 ELSE f[messages[id].parent]]

\* Two functions on the nodes that agree at a row when they agree at its parent are equal:
\* otherwise look at the oldest row where they differ.
LEMMA SameFromTheRoot ==
    ASSUME Typed, Below, NEW f, NEW g, DOMAIN f = Nodes, DOMAIN g = Nodes,
           f = [id \in DOMAIN f |-> f[id]], g = [id \in DOMAIN g |-> g[id]],
           \A id \in Nodes : Absent(id) => f[id] = g[id],
           \A id \in Nodes : ~Absent(id) /\ f[messages[id].parent] = g[messages[id].parent] => f[id] = g[id]
    PROVE  f = g
<1> DEFINE T == {id \in Nodes : f[id] # g[id]}
<1>1. Nodes \subseteq Nat
    BY TreeAssumption DEF Nodes, Ids, ROOT_PARENT_ID
<1>2. ASSUME T # {} PROVE FALSE
  <2>1. PICK id \in T : \A other \in T : id <= other
    <3>1. T \in SUBSET Nat
      BY <1>1
    <3> HIDE DEF T
    <3> QED
      BY <1>2, <3>1, LeastNatural
  <2>2. id \in Nodes /\ ~Absent(id) /\ f[id] # g[id]
    OBVIOUS
  <2>3. id \in DOMAIN messages /\ messages[id].parent \in Nodes /\ messages[id].parent < id
    BY <2>2 DEF Absent, Exists, Typed, Rows, Nodes, Below
  <2>4. messages[id].parent \notin T
    <3>1. messages[id].parent \in Nat /\ id \in Nat
      BY <1>1, <2>2, <2>3
    <3> QED
      BY <2>1, <2>3, <3>1
  <2>5. f[messages[id].parent] = g[messages[id].parent]
    BY <2>3, <2>4
  <2> QED
    BY <2>2, <2>5
<1>3. \A id \in Nodes : f[id] = g[id]
    BY <1>2
<1> QED
    BY <1>3

\* What the rows record.
Recorded == [id \in Nodes |-> IF Absent(id) THEN <<>> ELSE BranchOf(id)]

LEMMA RecordedIsWalk == ASSUME Typed, Rooted PROVE IsWalk(Recorded)
<1>1. ASSUME NEW id \in Nodes, ~Absent(id)
      PROVE  Recorded[id] = Append(Recorded[messages[id].parent], id)
  <2>1. /\ messages[id].parent \in Nodes
        /\ messages[id].ancestors = Ancestors(messages[id].parent)
        /\ messages[id].parent # ROOT_PARENT_ID => Exists(messages[id].parent)
    BY <1>1 DEF Absent, Exists, Typed, Rows, Nodes, Rooted, RootedAt
  <2>2. Recorded[messages[id].parent] = messages[id].ancestors
    BY <2>1 DEF Recorded, Ancestors, Absent
  <2> QED
    BY <1>1, <2>2 DEF Recorded, BranchOf
<1>2. \A id \in Nodes : Absent(id) => Recorded[id] = <<>>
    BY DEF Recorded
<1>3. Recorded = [id \in Nodes |-> Recorded[id]]
    BY DEF Recorded
<1> QED
    BY <1>1, <1>2, <1>3 DEF IsWalk

LEMMA WalkIsRecorded == ASSUME Typed, Rooted, Below PROVE Walk = Recorded
<1>1. Walk = CHOOSE f : IsWalk(f)
    BY DEF Walk, IsWalk, Nodes, Absent
<1>2. IsWalk(Walk) /\ IsWalk(Recorded)
    BY <1>1, RecordedIsWalk
<1>3. ASSUME NEW f, IsWalk(f)
      PROVE  /\ DOMAIN f = Nodes /\ f = [id \in DOMAIN f |-> f[id]]
             /\ \A id \in Nodes : Absent(id) => f[id] = <<>>
             /\ \A id \in Nodes : ~Absent(id) => f[id] = Append(f[messages[id].parent], id)
  <2> DEFINE e(id) == IF Absent(id) THEN <<>> ELSE Append(f[messages[id].parent], id)
  <2>1. f = [id \in Nodes |-> e(id)]
    BY <1>3 DEF IsWalk
  <2>2. \A id \in Nodes : f[id] = e(id)
    <3> HIDE DEF e
    <3> QED BY <2>1
  <2>3. DOMAIN f = Nodes /\ f = [id \in DOMAIN f |-> f[id]]
    <3> HIDE DEF e
    <3> QED BY <2>1
  <2> QED
    BY <2>2, <2>3
<1> DEFINE f == Walk
           g == Recorded
<1>4. IsWalk(f) /\ IsWalk(g)
    BY <1>2
<1> HIDE DEF f, g
<1>5. /\ DOMAIN f = Nodes /\ f = [id \in DOMAIN f |-> f[id]]
      /\ DOMAIN g = Nodes /\ g = [id \in DOMAIN g |-> g[id]]
    BY <1>3, <1>4, Zenon
<1>6. \A id \in Nodes : Absent(id) => f[id] = g[id]
    BY <1>3, <1>4, Zenon
<1>7. \A id \in Nodes :
          ~Absent(id) /\ f[messages[id].parent] = g[messages[id].parent] => f[id] = g[id]
  <2>1. ASSUME NEW id \in Nodes, ~Absent(id), f[messages[id].parent] = g[messages[id].parent]
        PROVE  f[id] = g[id]
    <3>1. f[id] = Append(f[messages[id].parent], id)
      BY <1>3, <1>4, <2>1, Zenon
    <3>2. g[id] = Append(g[messages[id].parent], id)
      BY <1>3, <1>4, <2>1, Zenon
    <3> QED
      BY <2>1, <3>1, <3>2, Zenon
  <2> QED
    BY <2>1
<1>8. f = g
    BY <1>5, <1>6, <1>7, SameFromTheRoot
<1> QED
    BY <1>8 DEF f, g

\* The successful rows a row records, itself among them, by age.
RecordedSuccesses ==
    [id \in Nodes |-> IF Absent(id) THEN <<>> ELSE Ascending({a \in ToSet(BranchOf(id)) : Successful(a)})]

\* The rows a row records are its parent's, the parent, and older than it.
LEMMA RecordedRows ==
    ASSUME Typed, Rooted, Below, NEW id \in DOMAIN messages
    PROVE  /\ id \in Ids /\ messages[id].ancestors \in Seq(Ids)
           /\ messages[id].parent \in Nodes
           /\ ToSet(BranchOf(id)) = ToSet(messages[id].ancestors) \cup {id}
           /\ messages[id].parent = ROOT_PARENT_ID => ToSet(messages[id].ancestors) = {}
           /\ messages[id].parent # ROOT_PARENT_ID =>
                 /\ messages[id].parent \in DOMAIN messages
                 /\ ToSet(messages[id].ancestors) = ToSet(BranchOf(messages[id].parent))
           /\ ToSet(messages[id].ancestors) \in SUBSET Nat
           /\ IsFiniteSet(ToSet(messages[id].ancestors))
           /\ \A a \in ToSet(messages[id].ancestors) : a < id
<1>1. id \in Ids /\ messages[id].ancestors \in Seq(Ids) /\ messages[id].parent \in Nodes
    BY TreeAssumption DEF Typed, Rows, Ids, Nodes
<1>2. ToSet(BranchOf(id)) = ToSet(messages[id].ancestors) \cup {id}
    BY <1>1, ToSetAppend DEF BranchOf
<1>3. /\ messages[id].ancestors = Ancestors(messages[id].parent)
      /\ messages[id].parent # ROOT_PARENT_ID => messages[id].parent \in DOMAIN messages
    BY DEF Rooted, RootedAt, Exists
<1>4. messages[id].parent = ROOT_PARENT_ID => ToSet(messages[id].ancestors) = {}
    BY <1>3 DEF Ancestors, ToSet
<1>5. ToSet(messages[id].ancestors) \subseteq Ids
    BY <1>1 DEF ToSet
<1>6. IsFiniteSet(Ids) /\ Ids \subseteq Nat
    BY TreeAssumption, FS_Interval DEF Ids
<1>7. IsFiniteSet(ToSet(messages[id].ancestors))
    BY <1>5, <1>6, FS_Subset
<1> QED
    BY <1>1, <1>2, <1>3, <1>4, <1>5, <1>6, <1>7 DEF Ancestors, Below

LEMMA RecordedIsSuccessfulWalk ==
    ASSUME Typed, Rooted, Below PROVE IsSuccessfulWalk(RecordedSuccesses)
<1> DEFINE R == RecordedSuccesses
           e(id) == IF Absent(id) THEN <<>>
                    ELSE IF messages[id].status = "SUCCESS" THEN Append(R[messages[id].parent], id)
                    ELSE R[messages[id].parent]
<1>1. ASSUME NEW id \in Nodes, ~Absent(id) PROVE R[id] = e(id)
  <2> DEFINE A == ToSet(messages[id].ancestors)
             S == {a \in A : Successful(a)}
  <2>0. id \in DOMAIN messages
    BY <1>1 DEF Absent, Exists
  <2>1. R[messages[id].parent] = Ascending(S)
    <3>1. CASE messages[id].parent = ROOT_PARENT_ID
      <4>1. S = {} /\ messages[id].parent \in Nodes
        BY <2>0, <3>1, RecordedRows
      <4> QED
        BY <3>1, <4>1, AscendingEmpty DEF RecordedSuccesses, Absent
    <3>2. CASE messages[id].parent # ROOT_PARENT_ID
      BY <2>0, <3>2, RecordedRows DEF RecordedSuccesses, Absent, Exists
    <3> QED
      BY <3>1, <3>2
  <2>2. R[id] = Ascending({a \in A \cup {id} : Successful(a)})
    BY <1>1, <2>0, RecordedRows DEF RecordedSuccesses
  <2>3. CASE messages[id].status = "SUCCESS"
    <3>1. {a \in A \cup {id} : Successful(a)} = S \cup {id}
      BY <2>0, <2>3 DEF Successful, Exists
    <3>2. A \in SUBSET Nat /\ IsFiniteSet(A) /\ \A a \in A : a < id
      BY <2>0, RecordedRows
    <3>3. S \in SUBSET Nat /\ IsFiniteSet(S) /\ \A a \in S : a < id
      <4> HIDE DEF A
      <4> QED BY <3>2, FS_Subset
    <3>4. id \in Nat
      BY <2>0, RecordedRows, TreeAssumption DEF Ids
    <3> HIDE DEF S
    <3>5. Ascending(S \cup {id}) = Append(Ascending(S), id)
      BY <3>3, <3>4, AscendingAppend
    <3> QED
      BY <1>1, <2>1, <2>2, <2>3, <3>1, <3>5
  <2>4. CASE messages[id].status # "SUCCESS"
    <3>1. {a \in A \cup {id} : Successful(a)} = S
      BY <2>4 DEF Successful
    <3> QED
      BY <1>1, <2>1, <2>2, <2>4, <3>1
  <2> QED
    BY <2>3, <2>4
<1>2. \A id \in Nodes : Absent(id) => R[id] = e(id)
    BY DEF RecordedSuccesses
<1>3. \A id \in Nodes : R[id] = e(id)
    BY <1>1, <1>2
<1>4. R = [id \in Nodes |-> R[id]]
    BY DEF RecordedSuccesses
<1> HIDE DEF e
<1>5. R = [id \in Nodes |-> e(id)]
    BY <1>3, <1>4
<1> QED
    BY <1>5 DEF IsSuccessfulWalk, e

LEMMA SuccessfulWalkIsRecorded ==
    ASSUME Typed, Rooted, Below PROVE SuccessfulWalk = RecordedSuccesses
<1>1. SuccessfulWalk = CHOOSE f : IsSuccessfulWalk(f)
    BY DEF SuccessfulWalk, IsSuccessfulWalk, Nodes, Absent
<1>2. IsSuccessfulWalk(SuccessfulWalk) /\ IsSuccessfulWalk(RecordedSuccesses)
    BY <1>1, RecordedIsSuccessfulWalk
<1>3. ASSUME NEW f, IsSuccessfulWalk(f)
      PROVE  /\ DOMAIN f = Nodes /\ f = [id \in DOMAIN f |-> f[id]]
             /\ \A id \in Nodes : Absent(id) => f[id] = <<>>
             /\ \A id \in Nodes : ~Absent(id) =>
                   f[id] = IF messages[id].status = "SUCCESS" THEN Append(f[messages[id].parent], id)
                           ELSE f[messages[id].parent]
  <2> DEFINE e(id) == IF Absent(id) THEN <<>>
                      ELSE IF messages[id].status = "SUCCESS" THEN Append(f[messages[id].parent], id)
                      ELSE f[messages[id].parent]
  <2>1. f = [id \in Nodes |-> e(id)]
    BY <1>3 DEF IsSuccessfulWalk
  <2>2. \A id \in Nodes : f[id] = e(id)
    <3> HIDE DEF e
    <3> QED BY <2>1
  <2>3. DOMAIN f = Nodes /\ f = [id \in DOMAIN f |-> f[id]]
    <3> HIDE DEF e
    <3> QED BY <2>1
  <2> QED
    BY <2>2, <2>3
<1> DEFINE f == SuccessfulWalk
           g == RecordedSuccesses
<1>4. IsSuccessfulWalk(f) /\ IsSuccessfulWalk(g)
    BY <1>2
<1> HIDE DEF f, g
<1>5. /\ DOMAIN f = Nodes /\ f = [id \in DOMAIN f |-> f[id]]
      /\ DOMAIN g = Nodes /\ g = [id \in DOMAIN g |-> g[id]]
    BY <1>3, <1>4, Zenon
<1>6. \A id \in Nodes : Absent(id) => f[id] = g[id]
    BY <1>3, <1>4, Zenon
<1>7. \A id \in Nodes :
          ~Absent(id) /\ f[messages[id].parent] = g[messages[id].parent] => f[id] = g[id]
  <2>1. ASSUME NEW id \in Nodes, ~Absent(id), f[messages[id].parent] = g[messages[id].parent]
        PROVE  f[id] = g[id]
    <3> DEFINE e(above) == IF messages[id].status = "SUCCESS" THEN Append(above, id) ELSE above
    <3>1. f[id] = e(f[messages[id].parent])
      BY <1>3, <1>4, <2>1, Zenon
    <3>2. g[id] = e(g[messages[id].parent])
      BY <1>3, <1>4, <2>1, Zenon
    <3> QED
      BY <2>1, <3>1, <3>2, Zenon
  <2> QED
    BY <2>1
<1>8. f = g
    BY <1>5, <1>6, <1>7, SameFromTheRoot
<1> QED
    BY <1>8 DEF f, g


-----------------------------------------------------------------------------
(* What a request has read of the branch, until it reads the history.      *)

\* The message a request answers under.
Target(q) == IF frame[q].kind = "retry" THEN frame[q].question ELSE frame[q].parent

\* The branch a request holds is still that of its target, or all of it is gone.
HasBranch(q) ==
    pc[q] = "reading" =>
        /\ Target(q) \in 1 .. created
        /\ ToSet(frame[q].branch) \subseteq 1 .. created
        /\ ~ForeignParents =>
              IF Exists(Target(q)) THEN frame[q].branch = BranchOf(Target(q))
              ELSE \A a \in ToSet(frame[q].branch) : ~Exists(a)

HasHistory(q) ==
    /\ frame[q].reply \in 0 .. created
    /\ Len(frame[q].history) <= HistoryLimit
    /\ pc[q] = "idle" => frame[q].history = <<>>

ConversationsOK == conversations \in [Conversations -> {"unborn", "live", "deleted"}]

Reads == Below /\ ConversationsOK /\ \A q \in Requests : HasBranch(q) /\ HasHistory(q)

BInv == IInv /\ Reads

LEMMA ReadsInit == Init => Reads
<1> SUFFICES ASSUME Init PROVE Reads
    OBVIOUS
<1>1. DOMAIN messages = {} /\ created = 0 /\ ConversationsOK
    BY DEF Init, ConversationsOK
<1>2. \A q \in Requests : pc[q] = "idle" /\ frame[q].reply = 0 /\ frame[q].history = <<>>
    BY DEF Init, NoFrame, ROOT_PARENT_ID
<1>3. Len(<<>>) <= HistoryLimit
    BY TreeAssumption
<1> QED
    BY <1>1, <1>2, <1>3 DEF Reads, Below, HasBranch, HasHistory

\* A step of request q that leaves the table alone.
LEMMA OwnReads ==
    ASSUME BInv, NEW q \in Requests, UNCHANGED <<messages, created>>, ConversationsOK',
           \A p \in Requests : p # q => frame'[p] = frame[p] /\ pc'[p] = pc[p],
           HasBranch(q)', HasHistory(q)'
    PROVE  Reads'
<1>1. ASSUME NEW p \in Requests PROVE HasBranch(p)' /\ HasHistory(p)'
  <2>1. CASE p # q
    BY <2>1 DEF BInv, Reads, HasBranch, HasHistory, Target, Exists, BranchOf
  <2> QED
    BY <2>1
<1>2. Below'
    BY DEF BInv, Reads, Below
<1> QED
    BY <1>1, <1>2 DEF Reads

LEMMA RefuseReads ==
    ASSUME BInv, NEW q \in Requests, Refuse(q), UNCHANGED conversations
    PROVE  Reads'
<1>1. pc'[q] = "refused" /\ UNCHANGED <<frame, messages, created>> /\ \A p \in Requests : p # q => pc'[p] = pc[p]
    BY DEF Refuse, Go, BInv, IInv, Typed
<1>2. HasBranch(q)' /\ HasHistory(q)' /\ ConversationsOK'
    BY <1>1 DEF BInv, Reads, HasBranch, HasHistory, ConversationsOK
<1> QED
    BY <1>1, <1>2, OwnReads

LEMMA SendReads ==
    ASSUME BInv, NEW q \in Requests, SendNew(q) \/ SendTo(q) \/ SendRetry(q)
    PROVE  Reads' /\ frame'[q].history = frame[q].history
<1>1. PICK kind, c, parent, stage :
          /\ Send(q, kind, c, parent, stage) /\ stage \in {"asking", "checking"}
    BY DEF SendNew, SendTo, SendRetry
<1> DEFINE f == [NoFrame EXCEPT !.kind = kind, !.conversation = c, !.parent = parent]
<1>2. /\ pc[q] = "idle" /\ frame'[q] = f /\ pc'[q] = stage /\ UNCHANGED <<messages, created>>
      /\ \A p \in Requests : p # q => frame'[p] = frame[p] /\ pc'[p] = pc[p]
    BY <1>1 DEF Send, Go, BInv, IInv, Typed
<1>3. f.reply = 0 /\ f.history = <<>>
    BY DEF NoFrame, ROOT_PARENT_ID
<1>4. created \in Nat /\ Len(<<>>) <= HistoryLimit
    BY TreeAssumption DEF BInv, IInv, Typed
<1>5. HasBranch(q)' /\ HasHistory(q)'
    BY <1>1, <1>2, <1>3, <1>4 DEF HasBranch, HasHistory
<1>6. ConversationsOK'
    BY DEF SendNew, SendTo, SendRetry, BInv, Reads, ConversationsOK
<1>7. frame[q].history = <<>>
    BY <1>2 DEF BInv, Reads, HasHistory
<1> QED
    BY <1>2, <1>3, <1>5, <1>6, <1>7, OwnReads

\* The rows of a branch have been created.
LEMMA BranchCreated ==
    ASSUME IInv, Below, NEW id \in DOMAIN messages
    PROVE  id \in 1 .. created /\ ToSet(BranchOf(id)) \subseteq 1 .. created
<1>1. /\ id \in 1 .. created /\ created \in Nat /\ id \in Ids
      /\ messages[id].ancestors \in Seq(Ids)
    BY TreeAssumption DEF IInv, Typed, Rows, Ids
<1>2. ToSet(BranchOf(id)) = ToSet(messages[id].ancestors) \cup {id}
    BY <1>1, ToSetAppend DEF BranchOf
<1>3. ASSUME NEW a \in ToSet(messages[id].ancestors) PROVE a \in 1 .. created
  <2>1. a \in Ids /\ a < id
    BY <1>1 DEF ToSet, Below
  <2> QED
    BY <1>1, <2>1, TreeAssumption DEF Ids
<1> QED
    BY <1>1, <1>2, <1>3

LEMMA CheckReads ==
    ASSUME BInv, NEW q \in Requests, CheckSend(q) \/ CheckRetry(q)
    PROVE  Reads' /\ frame'[q].history = frame[q].history
<1>0. ConversationsOK' /\ UNCHANGED conversations
    BY DEF CheckSend, CheckRetry, BInv, Reads, ConversationsOK
<1>1. CASE Refuse(q)
    BY <1>0, <1>1, RefuseReads DEF Refuse
<1>2. CASE CheckSend(q) /\ ~Refuse(q)
  <2> DEFINE t == frame[q].parent
  <2>1. /\ UNCHANGED <<messages, created>> /\ pc[q] = "checking" /\ frame[q].kind = "send"
        /\ \/ Go(q, "asking") /\ UNCHANGED frame
           \/ /\ Exists(t)
              /\ Go(q, "reading") /\ frame' = [frame EXCEPT ![q].branch = BranchOf(t)]
    BY <1>2 DEF CheckSend
  <2>2. /\ \A p \in Requests : p # q => frame'[p] = frame[p] /\ pc'[p] = pc[p]
        /\ \A x \in Fields \ {"branch"} : frame'[q][x] = frame[q][x]
        /\ pc'[q] \in {"asking", "reading"}
        /\ pc'[q] = "reading" => Exists(t) /\ frame'[q].branch = BranchOf(t)
    BY <2>1 DEF Go, BInv, IInv, Typed, Fields
  <2>3. /\ frame'[q].kind = "send" /\ frame'[q].parent = t /\ frame'[q].reply = frame[q].reply
        /\ frame'[q].history = frame[q].history
    BY <2>1, <2>2 DEF Fields
  <2> HIDE DEF t
  <2>4. HasBranch(q)'
    BY <2>1, <2>2, <2>3, BranchCreated DEF HasBranch, Target, Exists, BranchOf, BInv, Reads
  <2>5. HasHistory(q)'
    BY <2>1, <2>2, <2>3 DEF HasHistory, BInv, Reads
  <2> QED
    BY <1>0, <2>1, <2>2, <2>3, <2>4, <2>5, OwnReads
<1>3. CASE CheckRetry(q) /\ ~Refuse(q)
  <2> DEFINE t == messages[frame[q].parent].parent
  <2>1. /\ UNCHANGED <<messages, created>> /\ pc[q] = "checking" /\ frame[q].kind = "retry"
        /\ Exists(t)
        /\ Go(q, "reading") /\ frame' = [frame EXCEPT ![q].question = t, ![q].branch = BranchOf(t)]
    BY <1>3 DEF CheckRetry, InConversation
  <2>2. /\ \A p \in Requests : p # q => frame'[p] = frame[p] /\ pc'[p] = pc[p]
        /\ \A x \in Fields \ {"branch", "question"} : frame'[q][x] = frame[q][x]
        /\ pc'[q] = "reading" /\ frame'[q].branch = BranchOf(t) /\ frame'[q].question = t
    BY <2>1 DEF Go, BInv, IInv, Typed, Fields
  <2>3. /\ frame'[q].kind = "retry" /\ frame'[q].reply = frame[q].reply
        /\ frame'[q].history = frame[q].history
    BY <2>1, <2>2 DEF Fields
  <2> HIDE DEF t
  <2>4. HasBranch(q)'
    BY <2>1, <2>2, <2>3, BranchCreated DEF HasBranch, Target, Exists, BranchOf, BInv, Reads
  <2>5. HasHistory(q)'
    BY <2>1, <2>2, <2>3 DEF HasHistory, BInv, Reads
  <2> QED
    BY <1>0, <2>1, <2>2, <2>3, <2>4, <2>5, OwnReads
<1> QED
    BY <1>1, <1>2, <1>3

LEMMA LastOfLength ==
    ASSUME NEW s \in Seq(Nat)
    PROVE  Len(LastOf(s, HistoryLimit)) <= HistoryLimit
<1>1. Len(s) \in Nat /\ HistoryLimit \in Nat \ {0}
    BY TreeAssumption
<1> DEFINE m == IF Len(s) > HistoryLimit THEN Len(s) - HistoryLimit + 1 ELSE 1
<1>2. /\ m \in 1 .. Len(s) + 1
      /\ (IF m <= Len(s) THEN Len(s) - m + 1 ELSE 0) <= HistoryLimit
    BY <1>1
<1> HIDE DEF m
<1>3. Len(SubSeq(s, m, Len(s))) = IF m <= Len(s) THEN Len(s) - m + 1 ELSE 0
    BY <1>1, <1>2, SubSeqProperties
<1> QED
    BY <1>2, <1>3 DEF LastOf, m

LEMMA ReadReads ==
    ASSUME BInv, NEW q \in Requests, ReadHistory(q)
    PROVE  Reads'
<1> DEFINE S == {id \in ToSet(frame[q].branch) : Successful(id)}
<1>1. /\ pc[q] = "reading" /\ UNCHANGED <<messages, created, conversations>>
      /\ frame' = [frame EXCEPT ![q].history = Recent(frame[q].branch)]
      /\ pc'[q] \in {"replying", "asking"}
      /\ \A p \in Requests : p # q => frame'[p] = frame[p] /\ pc'[p] = pc[p]
    BY DEF ReadHistory, Go, BInv, IInv, Typed
<1>2. frame'[q].history = Recent(frame[q].branch) /\ frame'[q].reply = frame[q].reply
    BY <1>1 DEF BInv, IInv, Typed, Fields
<1>3. S \in SUBSET Nat /\ IsFiniteSet(S)
  <2>1. S \subseteq 1 .. created /\ created \in Nat
    BY <1>1, TreeAssumption DEF BInv, Reads, HasBranch, IInv, Typed
  <2>2. IsFiniteSet(1 .. created) /\ 1 .. created \subseteq Nat
    BY <2>1, FS_Interval
  <2> QED
    BY <2>1, <2>2, FS_Subset
<1>4. Len(Recent(frame[q].branch)) <= HistoryLimit
    BY <1>3, AscendingSeq, LastOfLength DEF Recent
<1>5. HasBranch(q)' /\ HasHistory(q)' /\ ConversationsOK'
    BY <1>1, <1>2, <1>4 DEF HasBranch, HasHistory, BInv, Reads, ConversationsOK
<1> QED
    BY <1>1, <1>5, OwnReads

\* A new row is younger than all it records.
LEMMA CreateBelow ==
    ASSUME IInv, Below, NEW c, NEW sender, NEW status, NEW parent \in 0 .. created,
           Creatable(c, parent), Create(c, sender, parent, status)
    PROVE  /\ created' = created + 1 /\ created \in Nat /\ ~Exists(created')
           /\ DOMAIN messages' = DOMAIN messages \cup {created'}
           /\ \A id \in DOMAIN messages : messages'[id] = messages[id]
           /\ Below'
<1> DEFINE row == [conversation |-> c, sender |-> sender, parent |-> parent,
                   ancestors |-> Ancestors(parent), status |-> status]
<1>1. /\ created' = created + 1 /\ created \in Nat
      /\ messages' = [id \in DOMAIN messages \cup {created'} |-> IF id = created' THEN row ELSE messages[id]]
    BY TreeAssumption DEF Create, IInv, Typed
<1>2. ~Exists(created')
    BY <1>1 DEF IInv, Typed, Exists
<1>3. /\ DOMAIN messages' = DOMAIN messages \cup {created'} /\ messages'[created'] = row
      /\ \A id \in DOMAIN messages : messages'[id] = messages[id]
    BY <1>1, <1>2 DEF Exists
<1>4. ToSet(Ancestors(parent)) \subseteq 1 .. created
  <2>1. CASE parent = ROOT_PARENT_ID
    BY <2>1 DEF Ancestors, ToSet
  <2>2. CASE parent # ROOT_PARENT_ID
    BY <2>2, BranchCreated DEF Ancestors, Creatable, Exists
  <2> QED
    BY <2>1, <2>2
<1>5. ASSUME NEW id \in DOMAIN messages'
      PROVE  messages'[id].parent < id /\ \A a \in ToSet(messages'[id].ancestors) : a < id
  <2>1. CASE id = created'
    <3>1. messages'[id].parent = parent /\ messages'[id].ancestors = Ancestors(parent)
      BY <1>3, <2>1
    <3> QED
      BY <1>1, <1>4, <2>1, <3>1
  <2>2. CASE id # created'
    BY <1>3, <2>2 DEF Below
  <2> QED
    BY <2>1, <2>2
<1> QED
    BY <1>1, <1>2, <1>3, <1>5 DEF Below

LEMMA StoreReads ==
    ASSUME BInv, NEW q \in Requests, UNCHANGED conversations,
           created' = created + 1, created \in Nat, DOMAIN messages' = DOMAIN messages \cup {created'},
           \A id \in DOMAIN messages : messages'[id] = messages[id], Below',
           \A p \in Requests : p # q => frame'[p] = frame[p] /\ pc'[p] = pc[p],
           pc'[q] \in {"replying", "prepared"},
           frame'[q].reply \in 0 .. created + 1, frame'[q].history = frame[q].history
    PROVE  Reads'
<1>1. \A id \in 1 .. created : Exists(id)' <=> Exists(id)
    BY DEF Exists
<1>2. \A id : Exists(id) => BranchOf(id)' = BranchOf(id)
    BY DEF Exists, BranchOf
<1>3. ASSUME NEW p \in Requests PROVE HasBranch(p)' /\ HasHistory(p)'
  <2>1. CASE p = q
    BY <2>1 DEF BInv, Reads, HasBranch, HasHistory
  <2>2. CASE p # q
    <3>1. HasHistory(p)'
      BY <2>2 DEF BInv, Reads, HasHistory
    <3>2. HasBranch(p)'
      <4>1. SUFFICES ASSUME pc[p] = "reading" PROVE HasBranch(p)'
        BY <2>2 DEF HasBranch
      <4> DEFINE t == Target(p)
                 b == frame[p].branch
      <4>2. /\ t \in 1 .. created /\ ToSet(b) \subseteq 1 .. created
            /\ ~ForeignParents => IF Exists(t) THEN b = BranchOf(t) ELSE \A a \in ToSet(b) : ~Exists(a)
        BY <4>1 DEF BInv, Reads, HasBranch
      <4>3. Target(p)' = t /\ frame'[p].branch = b
        BY <2>2 DEF Target
      <4>4. ASSUME ~ForeignParents
            PROVE  IF Exists(Target(p))' THEN frame'[p].branch = BranchOf(Target(p))'
                   ELSE \A a \in ToSet(frame'[p].branch) : ~Exists(a)'
        <5>1. CASE Exists(t)
          <6>1. b = BranchOf(t) /\ t \in DOMAIN messages' /\ messages'[t] = messages[t]
            BY <4>2, <4>4, <5>1 DEF Exists
          <6> QED
            BY <4>3, <6>1 DEF Exists, BranchOf
        <5>2. CASE ~Exists(t)
          <6>1. t \notin DOMAIN messages' /\ \A a \in ToSet(b) : a \notin DOMAIN messages'
            BY <4>2, <4>4, <5>2 DEF Exists
          <6> QED
            BY <4>3, <6>1 DEF Exists
        <5> QED
          BY <5>1, <5>2
      <4>5. t \in 1 .. created' /\ ToSet(b) \subseteq 1 .. created'
        BY <4>2
      <4> QED
        BY <4>3, <4>4, <4>5 DEF HasBranch
    <3> QED
      BY <3>1, <3>2
  <2> QED
    BY <2>1, <2>2
<1> QED
    BY <1>3 DEF BInv, Reads, ConversationsOK

LEMMA StoresRead ==
    ASSUME BInv, NEW q \in Requests, StoreQuestion(q) \/ StoreReply(q)
    PROVE  Reads' /\ frame'[q].history = frame[q].history
<1>0. UNCHANGED conversations
    BY DEF StoreQuestion, StoreReply
<1>1. CASE Refuse(q)
    BY <1>0, <1>1, RefuseReads DEF Refuse
<1>2. CASE ~Refuse(q)
  <2>1. \E c, sender, status, parent :
            parent \in 0 .. created /\ Creatable(c, parent) /\ Create(c, sender, parent, status)
    <3>1. CASE StoreQuestion(q)
      <4>1. /\ Creatable(frame[q].conversation, frame[q].parent)
            /\ Create(frame[q].conversation, "user", frame[q].parent, "SUCCESS")
        BY <1>2, <3>1 DEF StoreQuestion
      <4> QED
        BY <4>1 DEF BInv, IInv, Typed
    <3>2. CASE StoreReply(q)
      <4>1. /\ Creatable(frame[q].conversation, frame[q].question)
            /\ Create(frame[q].conversation, "assistant", frame[q].question, "PENDING")
        BY <1>2, <3>2 DEF StoreReply, StoreReplyParent
      <4> QED
        BY <4>1 DEF BInv, IInv, Typed
    <3> QED
      BY <3>1, <3>2
  <2>2. /\ created' = created + 1 /\ created \in Nat
        /\ DOMAIN messages' = DOMAIN messages \cup {created'}
        /\ \A id \in DOMAIN messages : messages'[id] = messages[id]
        /\ Below'
    <3>1. PICK c, sender, status, parent :
              parent \in 0 .. created /\ Creatable(c, parent) /\ Create(c, sender, parent, status)
      BY <2>1
    <3> QED
      BY <3>1, CreateBelow DEF BInv, Reads
  <2>3. /\ \A p \in Requests : p # q => frame'[p] = frame[p] /\ pc'[p] = pc[p]
        /\ pc'[q] \in {"replying", "prepared"}
        /\ frame'[q].reply \in {frame[q].reply, created'}
        /\ frame'[q].history = frame[q].history
    BY <1>2 DEF StoreQuestion, StoreReply, Go, BInv, IInv, Typed, Fields
  <2>4. frame'[q].reply \in 0 .. created + 1
    BY <2>2, <2>3 DEF BInv, Reads, HasHistory
  <2> QED
    BY <1>0, <2>2, <2>3, <2>4, StoreReads
<1> QED
    BY <1>1, <1>2

LEMMA SettleReads ==
    ASSUME BInv, NEW q \in Requests, Settle(q)
    PROVE  Reads' /\ frame'[q].history = frame[q].history
<1>1. /\ UNCHANGED <<frame, created, conversations>>
      /\ DOMAIN messages' = DOMAIN messages
      /\ \A id \in DOMAIN messages :
            /\ messages'[id].parent = messages[id].parent
            /\ messages'[id].ancestors = messages[id].ancestors
      /\ \A p \in Requests : pc'[p] \in {"reading", "idle"} => pc'[p] = pc[p]
    BY DEF Settle, Go, BInv, IInv, Typed, Rows
<1>2. Below' /\ ConversationsOK'
    BY <1>1 DEF BInv, Reads, Below, ConversationsOK
<1>3. ASSUME NEW p \in Requests PROVE HasBranch(p)' /\ HasHistory(p)'
  <2>1. HasHistory(p)'
    BY <1>1 DEF BInv, Reads, HasHistory
  <2>2. HasBranch(p)'
    BY <1>1 DEF BInv, Reads, HasBranch, Target, Exists, BranchOf
  <2> QED
    BY <2>1, <2>2
<1> QED
    BY <1>1, <1>2, <1>3 DEF Reads

\* A conversation takes the branches of its rows with it, whole.
LEMMA DeleteReads ==
    ASSUME BInv, NEW c \in Conversations, DeleteConversation(c)
    PROVE  Reads' /\ UNCHANGED frame
<1>1. /\ DOMAIN messages' = {id \in DOMAIN messages : messages[id].conversation # c}
      /\ \A id \in DOMAIN messages' : messages'[id] = messages[id]
      /\ UNCHANGED <<pc, frame, created>>
    BY DEF DeleteConversation, DeletedWith
<1>2. Below' /\ ConversationsOK'
    BY <1>1 DEF BInv, Reads, Below, ConversationsOK, DeleteConversation
<1>3. ASSUME NEW p \in Requests PROVE HasBranch(p)' /\ HasHistory(p)'
  <2>1. HasHistory(p)'
    BY <1>1 DEF BInv, Reads, HasHistory
  <2>2. HasBranch(p)'
    <3>1. SUFFICES ASSUME pc[p] = "reading" PROVE HasBranch(p)'
      BY <1>1 DEF HasBranch
    <3> DEFINE t == Target(p)
               b == frame[p].branch
    <3>2. /\ t \in 1 .. created /\ ToSet(b) \subseteq 1 .. created
          /\ ~ForeignParents => IF Exists(t) THEN b = BranchOf(t) ELSE \A a \in ToSet(b) : ~Exists(a)
      BY <3>1 DEF BInv, Reads, HasBranch
    <3>3. Target(p)' = t /\ frame'[p].branch = b
      BY <1>1 DEF Target
    <3>4. ASSUME ~ForeignParents
          PROVE  IF Exists(Target(p))' THEN frame'[p].branch = BranchOf(Target(p))'
                 ELSE \A a \in ToSet(frame'[p].branch) : ~Exists(a)'
      <4>1. CASE ~Exists(t)
        BY <1>1, <3>2, <3>3, <3>4, <4>1 DEF Exists
      <4>2. CASE Exists(t)
        <5>1. /\ b = BranchOf(t) /\ t \in DOMAIN messages /\ t \in Ids
              /\ messages[t].ancestors \in Seq(Ids)
          BY <3>2, <3>4, <4>2, TreeAssumption DEF Exists, BInv, IInv, Typed, Rows, Ids
        <5>2. ToSet(b) = ToSet(messages[t].ancestors) \cup {t}
          BY <5>1, ToSetAppend DEF BranchOf
        <5>3. \A a \in ToSet(b) : messages[a].conversation = messages[t].conversation
          BY <3>4, <5>1, <5>2 DEF BInv, IInv, Rooted, RootedAt
        <5>4. CASE messages[t].conversation = c
          <6>1. \A a \in ToSet(b) : a \notin DOMAIN messages'
            BY <1>1, <5>3, <5>4
          <6>2. t \notin DOMAIN messages'
            BY <1>1, <5>4
          <6> QED
            BY <3>3, <6>1, <6>2 DEF Exists
        <5>5. CASE messages[t].conversation # c
          <6>1. t \in DOMAIN messages' /\ messages'[t] = messages[t]
            BY <1>1, <5>1, <5>5
          <6> QED
            BY <3>3, <5>1, <6>1 DEF Exists, BranchOf
        <5> QED
          BY <5>4, <5>5
      <4> QED
        BY <4>1, <4>2
    <3> QED
      BY <1>1, <3>2, <3>3, <3>4 DEF HasBranch
  <2> QED
    BY <2>1, <2>2
<1> QED
    BY <1>1, <1>2, <1>3 DEF Reads

LEMMA ReadsStep == BInv /\ [Next]_vars => Reads'
<1> SUFFICES ASSUME BInv, [Next]_vars PROVE Reads'
    OBVIOUS
<1>1. CASE UNCHANGED vars
  <2>1. UNCHANGED <<pc, frame, messages, created, conversations>>
    BY <1>1 DEF vars
  <2> QED
    BY <2>1 DEF BInv, Reads, Below, ConversationsOK, HasBranch, HasHistory, Target, Exists, BranchOf
<1> QED
    BY <1>1, SendReads, CheckReads, ReadReads, StoresRead, SettleReads, DeleteReads DEF Next

\* Only the read of a history changes one.
LEMMA HistoryIsRead ==
    ASSUME BInv, [Next]_vars, NEW q \in Requests, frame'[q].history # frame[q].history
    PROVE  ReadHistory(q)
<1>1. ASSUME NEW p \in Requests, p # q,
             \/ SendNew(p) \/ SendTo(p) \/ SendRetry(p) \/ CheckSend(p) \/ CheckRetry(p) \/ ReadHistory(p)
             \/ StoreQuestion(p) \/ StoreReply(p) \/ Settle(p)
      PROVE  frame'[q] = frame[q]
  <2>1. DOMAIN frame = Requests
    BY DEF BInv, IInv, Typed
  <2>2. CASE SendNew(p) \/ SendTo(p) \/ SendRetry(p)
    <3>1. PICK kind, c, parent, stage : Send(p, kind, c, parent, stage)
      BY <2>2 DEF SendNew, SendTo, SendRetry
    <3> QED
      BY <1>1, <2>1, <3>1 DEF Send
  <2>3. CASE CheckSend(p)
    BY <1>1, <2>1, <2>3 DEF CheckSend, Refuse
  <2>4. CASE CheckRetry(p)
    BY <1>1, <2>1, <2>4 DEF CheckRetry, Refuse
  <2>5. CASE ReadHistory(p)
    BY <1>1, <2>1, <2>5 DEF ReadHistory
  <2>6. CASE StoreQuestion(p)
    BY <1>1, <2>1, <2>6 DEF StoreQuestion, Refuse
  <2>7. CASE StoreReply(p)
    BY <1>1, <2>1, <2>7 DEF StoreReply, Refuse
  <2>8. CASE Settle(p)
    BY <1>1, <2>1, <2>8 DEF Settle
  <2> QED
    BY <1>1, <2>2, <2>3, <2>4, <2>5, <2>6, <2>7, <2>8
<1>2. ~UNCHANGED vars
    BY DEF vars
<1> QED
    BY <1>1, <1>2, SendReads, CheckReads, StoresRead, SettleReads, DeleteReads DEF Next

\* What is read is the successful part of the way down to the target.
LEMMA ReadIsTheBranch ==
    ASSUME BInv, ~ForeignParents, NEW q \in Requests, ReadHistory(q)
    PROVE  frame'[q].history = LastOf(SuccessfulWalk[Target(q)], HistoryLimit)
<1> DEFINE t == Target(q)
           S == {id \in ToSet(frame[q].branch) : Successful(id)}
<1>1. pc[q] = "reading" /\ frame'[q].history = LastOf(Ascending(S), HistoryLimit)
    BY DEF ReadHistory, Recent, BInv, IInv, Typed, Fields
<1>2. /\ t \in 1 .. created
      /\ IF Exists(t) THEN frame[q].branch = BranchOf(t) ELSE \A a \in ToSet(frame[q].branch) : ~Exists(a)
    BY <1>1 DEF BInv, Reads, HasBranch
<1>3. SuccessfulWalk = RecordedSuccesses
    BY SuccessfulWalkIsRecorded DEF BInv, Reads, IInv
<1>4. t \in Nodes /\ t # ROOT_PARENT_ID
    BY <1>2, TreeAssumption DEF BInv, IInv, Typed, Nodes, Ids, ROOT_PARENT_ID
<1>5. SuccessfulWalk[t] = Ascending(S)
  <2>1. CASE Exists(t)
    BY <1>2, <1>3, <1>4, <2>1 DEF RecordedSuccesses, Absent
  <2>2. CASE ~Exists(t)
    <3>1. S = {}
      BY <1>2, <2>2 DEF Successful
    <3> QED
      BY <1>3, <1>4, <2>2, <3>1, AscendingEmpty DEF RecordedSuccesses, Absent
  <2> QED
    BY <2>1, <2>2
<1> QED
    BY <1>1, <1>5

\* The invariant with what requests read of branches.
THEOREM InductiveReads == Spec => []BInv
<1>1. Init => BInv
    BY TreeInit, ReadsInit DEF BInv
<1>2. BInv /\ [Next]_vars => BInv'
  <2>1. BInv => IInv
    BY DEF BInv
  <2>2. IInv' /\ Reads' => BInv'
    BY DEF BInv
  <2> QED
    BY <2>1, <2>2, TreeStep, ReadsStep
<1> QED
    BY <1>1, <1>2, PTL DEF Spec

\* Every variable has its type, wherever the parents are that clients name: a history in
\* particular never exceeds the limit.
THEOREM TypeCorrect == Spec => []TypeOK
<1>1. BInv => TypeOK
  <2> SUFFICES ASSUME BInv PROVE TypeOK
    OBVIOUS
  <2>1. Typed /\ created \in 0 .. MaxMessages
    BY DEF BInv, IInv, Typed
  <2>2. ASSUME NEW id \in DOMAIN messages
        PROVE  /\ messages[id].conversation \in Conversations
               /\ messages[id].sender \in {"user", "assistant"}
               /\ messages[id].parent \in {ROOT_PARENT_ID} \cup Ids
               /\ ToSet(messages[id].ancestors) \subseteq Ids
               /\ messages[id].status \in {"PENDING", "SUCCESS", "FAILED"}
    <3>1. messages[id] \in Rows
      BY <2>1 DEF Typed
    <3>2. messages[id].ancestors \in Seq(Ids)
      BY <3>1 DEF Rows
    <3>3. ToSet(messages[id].ancestors) \subseteq Ids
      BY <3>2 DEF ToSet
    <3> QED
      BY <3>1, <3>3 DEF Rows
  <2>3. \A x \in 0 .. created : x \in {ROOT_PARENT_ID} \cup Ids
    BY <2>1, TreeAssumption DEF Ids, ROOT_PARENT_ID
  <2>4. ASSUME NEW q \in Requests
        PROVE  /\ frame[q].question \in {ROOT_PARENT_ID} \cup Ids
               /\ frame[q].reply \in {ROOT_PARENT_ID} \cup Ids
               /\ Len(frame[q].history) <= HistoryLimit
    BY <2>1, <2>3 DEF Typed, BInv, Reads, HasHistory
  <2> QED
    BY <2>1, <2>2, <2>4 DEF TypeOK, Typed, Stages, BInv, Reads, ConversationsOK
<1> QED
    BY <1>1, InductiveReads, PTL

\* As long as no client names a parent of another conversation, the ancestors a row
\* records are the rows met by following parents to the root, in that order.
THEOREM AncestorsAreRight == ASSUME ~ForeignParents PROVE Spec => []AncestorsAreTheWalk
<1>1. BInv => AncestorsAreTheWalk
  <2> SUFFICES ASSUME BInv, NEW id \in DOMAIN messages
               PROVE  /\ BranchOf(id) = Walk[id]
                      /\ \A a \in ToSet(messages[id].ancestors) :
                            Exists(a) /\ messages[a].conversation = messages[id].conversation
    BY DEF AncestorsAreTheWalk
  <2>1. Typed /\ Rooted /\ Below
    BY DEF BInv, IInv, Reads
  <2>2. Walk = Recorded
    BY <2>1, WalkIsRecorded
  <2>3. id \in Nodes /\ ~Absent(id)
    BY <2>1, TreeAssumption DEF Typed, Nodes, Ids, Absent, Exists, ROOT_PARENT_ID
  <2> QED
    BY <2>1, <2>2, <2>3 DEF Recorded, Rooted, RootedAt
<1> QED
    BY <1>1, InductiveReads, PTL

\* As long as no client names a parent of another conversation, the history read for a
\* request is the newest successful part of the way down to the message it answers under,
\* although the branch was read by an earlier query and the conversation may be gone since.
THEOREM HistoryIsRight == ASSUME ~ForeignParents PROVE Spec => HistoryIsTheBranch
<1> DEFINE Step ==
      \A q \in Requests :
          frame'[q].history # frame[q].history =>
              LET target == IF frame[q].kind = "retry" THEN frame[q].question ELSE frame[q].parent
              IN  frame'[q].history = LastOf(SuccessfulWalk[target], HistoryLimit)
<1>1. BInv /\ [Next]_vars => Step
    BY HistoryIsRead, ReadIsTheBranch DEF Target
<1>2. BInv /\ [Next]_vars => [Step]_vars
    BY <1>1
<1>3. Spec => [][Step]_vars
    BY <1>2, InductiveReads, PTL DEF Spec
<1> QED
    BY <1>3 DEF HistoryIsTheBranch

=============================================================================
