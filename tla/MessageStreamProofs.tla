------------------------ MODULE MessageStreamProofs ------------------------
(***************************************************************************)
(* What is proved of MessageStream, for any number of requests,            *)
(* conversations and tokens.                                               *)
(*                                                                         *)
(* StopWins, PendingHasOwner and SettledOnce are not inductive: a failed   *)
(* row after a stop is excluded by what the handler knows at the await it  *)
(* stands at.  Known(r) says it stage by stage: which stages follow a stop, *)
(* which exclude one, and what the row can be at each of them.             *)
(* ToldWhatIsStored and ReadyIsDurable need two facts more: Told(r), what  *)
(* the last event of a response says of the row, and Held(r), what is in   *)
(* the database once the client was promised that its message is ready.    *)
(***************************************************************************)
EXTENDS MessageStream, TLAPS

Unprepared == {"idle", "preparing", "replying"}

\* From the creation of the reply to the first write that may settle it.
Unsettled == {"attaching", "extracting", "streaming", "stopping", "finishing"}

\* The catch block: a save may have been tried before.
Catching == {"failing", "rescuing"}

Known(r) ==
    /\ pc[r] = "idle" => ~aborted[r]
    /\ pc[r] \in Unprepared => reply[r] = NoReply /\ faults[r] = {}
    /\ pc[r] \in Unsettled =>
          /\ reply[r].status \in {"PENDING", "removed"}
          /\ faults[r] = {}
    /\ pc[r] \in {"stopping", "rescuing"} => aborted[r]
    /\ pc[r] \in {"finishing", "failing"} => ~aborted[r]
    /\ pc[r] \in Catching =>
          /\ reply[r].status \in {"PENDING", "SUCCESS", "removed"}
          /\ reply[r].status = "SUCCESS" => "unacknowledged" \in faults[r]
    /\ pc[r] = "rescuing" /\ reply[r].status = "SUCCESS" => reply[r].stopped
    /\ reply[r].stopped => aborted[r] /\ pc[r] \notin Unprepared \cup Unsettled
    /\ reply[r].status = "FAILED" => ~aborted[r] /\ pc[r] \in Over
    /\ reply[r].status = "PENDING" /\ pc[r] = "done" => faults[r] # {}

IInv == TypeOK /\ \A r \in Requests : Known(r)

-----------------------------------------------------------------------------
(* Type correctness.                                                       *)

USE StreamAssumption

LEMMA TypeInit == Init => TypeOK
  BY DEF Init, TypeOK, Stages, InFlight, Listening, Saving, Over, NoReply, Replies,
         ErrorText

\* A write puts a row of the right type in the place of another.
LEMMA WriteType ==
  ASSUME TypeOK, NEW r \in Requests, NEW outcome \in Outcomes, NEW possible,
         NEW row \in Replies, WriteReply(r, outcome, possible, row)
  PROVE  /\ reply' \in [Requests -> Replies]
         /\ faults' \in [Requests -> SUBSET {"refused", "unacknowledged"}]
  BY DEF TypeOK, WriteReply, Outcomes

LEMMA GoType ==
  ASSUME TypeOK, NEW r \in Requests, NEW stage \in Stages, GoTo(r, stage)
  PROVE  pc' \in [Requests -> Stages]
  BY DEF TypeOK, GoTo

\* Every row a handler may write has its type.
LEMMA RowTypes ==
  ASSUME TypeOK, NEW r \in Requests
  PROVE  /\ PendingReply \in Replies
         /\ Failure(r) \in Replies
         /\ \A stopped \in BOOLEAN : Success(r, stopped) \in Replies
  BY DEF TypeOK, PendingReply, Failure, Success, Replies, ErrorText

LEMMA CatchStages ==
  ASSUME TypeOK, NEW r \in Requests
  PROVE  CatchStage(r) \in Stages /\ AfterStream(r) \in Stages
  BY DEF TypeOK, CatchStage, AfterStream, Stages, InFlight, Saving

LEMMA TypeStep == TypeOK /\ [Next]_vars => TypeOK'
<1> SUFFICES ASSUME TypeOK, [Next]_vars PROVE TypeOK'
  OBVIOUS
<1>1. ASSUME NEW r \in Requests, Accept(r) PROVE TypeOK'
  BY <1>1 DEF TypeOK, Accept, GoTo, Stages, InFlight, Listening
<1>2. ASSUME NEW r \in Requests, StoreQuestion(r) PROVE TypeOK'
  <2>1. PICK outcome \in Outcomes :
          /\ stored' = IF outcome = "refused"
                       THEN stored ELSE [stored EXCEPT ![r] = {"question"}]
          /\ IF outcome = "ok"
             THEN GoTo(r, "replying") /\ UNCHANGED said
             ELSE CatchUnprepared(r)
    BY <1>2 DEF StoreQuestion
  <2>2. pc' \in [Requests -> Stages]
    BY <2>1 DEF TypeOK, CatchUnprepared, GoTo, Stages, InFlight, Listening, Over
  <2>3. said' \in [Requests -> {"nothing", "ready", "done", "error", "httpError"}]
    BY <2>1 DEF TypeOK, CatchUnprepared
  <2>4. stored' \in [Requests -> SUBSET {"question", "files", "removedFiles"}]
    BY <2>1 DEF TypeOK
  <2> QED
    BY <1>2, <2>2, <2>3, <2>4 DEF TypeOK, StoreQuestion
<1>3. ASSUME NEW r \in Requests, CreateReply(r) PROVE TypeOK'
  <2>1. PICK outcome \in Outcomes :
          /\ WriteReply(r, outcome, stored[r] # {}, PendingReply)
          /\ IF outcome = "ok"
             THEN GoTo(r, "attaching") /\ UNCHANGED said
             ELSE CatchUnprepared(r)
    BY <1>3 DEF CreateReply
  <2>2. pc' \in [Requests -> Stages]
    BY <2>1 DEF TypeOK, CatchUnprepared, GoTo, Stages, InFlight, Listening, Over
  <2>3. said' \in [Requests -> {"nothing", "ready", "done", "error", "httpError"}]
    BY <2>1 DEF TypeOK, CatchUnprepared
  <2>4. /\ reply' \in [Requests -> Replies]
        /\ faults' \in [Requests -> SUBSET {"refused", "unacknowledged"}]
    BY <2>1, RowTypes, WriteType
  <2> QED
    BY <1>3, <2>2, <2>3, <2>4 DEF TypeOK, CreateReply
<1>4. ASSUME NEW r \in Requests, AttachFiles(r) PROVE TypeOK'
  <2>1. PICK outcome \in Outcomes :
          /\ stored' = IF outcome = "refused" \/ r \notin WithFiles
                       THEN stored ELSE [stored EXCEPT ![r] = @ \cup {"files"}]
          /\ IF outcome = "ok"
             THEN GoTo(r, "extracting") /\ said' = [said EXCEPT ![r] = "ready"]
             ELSE AttachFailed(r)
    BY <1>4 DEF AttachFiles
  <2>2. pc' \in [Requests -> Stages]
    BY <2>1, CatchStages, GoType DEF AttachFailed, Stages, InFlight, Listening
  <2>3. said' \in [Requests -> {"nothing", "ready", "done", "error", "httpError"}]
    BY <2>1 DEF TypeOK, AttachFailed
  <2>4. stored' \in [Requests -> SUBSET {"question", "files", "removedFiles"}]
    BY <2>1 DEF TypeOK
  <2> QED
    BY <1>4, <2>2, <2>3, <2>4 DEF TypeOK, AttachFiles
<1>5. ASSUME NEW r \in Requests, OpenStream(r) PROVE TypeOK'
  <2>1. pc' \in [Requests -> Stages]
    BY <1>5, CatchStages, GoType DEF OpenStream, Stages, InFlight, Listening
  <2>2. timer' \in [Requests -> {"off", "armed", "fired"}]
    BY <1>5 DEF TypeOK, OpenStream, Armed
  <2> QED
    BY <1>5, <2>1, <2>2 DEF TypeOK, OpenStream
<1>6. ASSUME NEW r \in Requests, Token(r) PROVE TypeOK'
  <2>1. pc' \in [Requests -> Stages]
    BY <1>6, CatchStages, GoType DEF TypeOK, Token, LeaveStream
  <2>2. timer' \in [Requests -> {"off", "armed", "fired"}]
    BY <1>6 DEF TypeOK, Token, LeaveStream
  <2>3. chunks' \in [Requests -> 0 .. MaxTokens]
    BY <1>6 DEF TypeOK, Token, Pushed
  <2> QED
    BY <1>6, <2>1, <2>2, <2>3 DEF TypeOK, Token
<1>7. ASSUME NEW r \in Requests, StreamEnds(r) \/ StreamFails(r) PROVE TypeOK'
  <2>1. pc' \in [Requests -> Stages]
    BY <1>7, CatchStages, GoType DEF StreamEnds, StreamFails, LeaveStream
  <2>2. timer' \in [Requests -> {"off", "armed", "fired"}]
    BY <1>7 DEF TypeOK, StreamEnds, StreamFails, LeaveStream
  <2> QED
    BY <1>7, <2>1, <2>2 DEF TypeOK, StreamEnds, StreamFails
<1>8. ASSUME NEW r \in Requests, TimeoutFires(r) \/ ClientCloses(r) PROVE TypeOK'
  BY <1>8 DEF TypeOK, TimeoutFires, ClientCloses
<1>9. ASSUME NEW r \in Requests,
             SaveStop(r) \/ SaveAnswer(r) \/ SaveFailure(r) \/ RescueStop(r)
      PROVE  TypeOK'
  <2>1. /\ reply' \in [Requests -> Replies]
        /\ faults' \in [Requests -> SUBSET {"refused", "unacknowledged"}]
    <3>1. PICK outcome \in Outcomes, row \in Replies : WriteReply(r, outcome, Exists(r), row)
      BY <1>9, RowTypes DEF SaveStop, SaveAnswer, SaveFailure, RescueStop
    <3> QED
      BY <3>1, WriteType
  <2>2. pc' \in [Requests -> Stages]
    <3>1. PICK stage \in Stages : GoTo(r, stage)
      BY <1>9, CatchStages
         DEF SaveStop, SaveAnswer, SaveFailure, RescueStop, AfterStop, AfterAnswer,
             Stages, Over
    <3> QED
      BY <3>1, GoType
  <2>3. said' \in [Requests -> {"nothing", "ready", "done", "error", "httpError"}]
    BY <1>9 DEF TypeOK, SaveStop, SaveAnswer, SaveFailure, RescueStop
  <2> QED
    BY <1>9, <2>1, <2>2, <2>3 DEF TypeOK, SaveStop, SaveAnswer, SaveFailure, RescueStop
<1>10. ASSUME NEW c \in Conversations, DeleteConversation(c) PROVE TypeOK'
  <2>1. reply' \in [Requests -> Replies]
    BY <1>10 DEF TypeOK, DeleteConversation, Replies
  <2> QED
    BY <1>10, <2>1 DEF TypeOK, DeleteConversation
<1>11. ASSUME NEW r \in Requests, RemoveFiles(r) PROVE TypeOK'
  BY <1>11 DEF TypeOK, RemoveFiles
<1>12. CASE Crash
  BY <1>12 DEF TypeOK, Crash, Stages, Over
<1>13. CASE UNCHANGED vars
  BY <1>13 DEF TypeOK, vars
<1> QED
  BY <1>1, <1>2, <1>3, <1>4, <1>5, <1>6, <1>7, <1>8, <1>9, <1>10, <1>12, <1>13, <1>11
     DEF Next, Handler

\* TypeOK: the variables keep their types, and no answer outgrows what was streamed,
\* for any number of requests, conversations and tokens.
THEOREM TypeCorrect == Spec => []TypeOK
  BY TypeInit, TypeStep, PTL DEF Spec

-----------------------------------------------------------------------------
(* The inductive invariant.                                                *)

LEMMA KnownInit == Init => IInv
<1> SUFFICES ASSUME Init PROVE \A r \in Requests : Known(r)
  BY TypeInit DEF IInv
<1> QED
  BY DEF Init, Known, Unprepared, Unsettled, Catching, Over, NoReply

\* A step of the handler of r leaves what the other handlers know alone.
OnlyAt(r) ==
    \A q \in Requests \ {r} :
        pc'[q] = pc[q] /\ reply'[q] = reply[q] /\ aborted'[q] = aborted[q] /\ faults'[q] = faults[q]

LEMMA Elsewhere ==
  ASSUME NEW r \in Requests, \A q \in Requests : Known(q), OnlyAt(r), Known(r)'
  PROVE  \A q \in Requests : Known(q)'
  BY DEF Known, OnlyAt

\* What a write can do to the row: nothing, or what was asked; a write whose outcome
\* is not "ok" is remembered unless the row could not be written anyway.
LEMMA WriteEffect ==
  ASSUME TypeOK, NEW r \in Requests, NEW outcome \in Outcomes, NEW possible, NEW row,
         WriteReply(r, outcome, possible, row)
  PROVE  /\ \A q \in Requests \ {r} : reply'[q] = reply[q] /\ faults'[q] = faults[q]
         /\ reply'[r] = IF outcome = "refused" THEN reply[r] ELSE row
         /\ outcome = "refused" /\ possible => faults'[r] # {}
         /\ outcome = "refused" /\ ~possible => faults'[r] = faults[r]
         /\ outcome # "refused" => possible
         /\ outcome = "unacknowledged" => "unacknowledged" \in faults'[r]
         /\ outcome = "ok" => faults'[r] = faults[r]
         /\ faults[r] \subseteq faults'[r]
  BY DEF TypeOK, WriteReply, Outcomes

LEMMA GoEffect ==
  ASSUME TypeOK, NEW r \in Requests, NEW stage, GoTo(r, stage)
  PROVE  /\ \A q \in Requests \ {r} : pc'[q] = pc[q]
         /\ pc'[r] = stage
  BY DEF TypeOK, GoTo

USE DEF IInv

LEMMA KnownStep == IInv /\ [Next]_vars => IInv'
<1> SUFFICES ASSUME IInv, [Next]_vars
             PROVE  \A q \in Requests : Known(q)'
  BY TypeStep
<1> USE DEF Unprepared, Unsettled, Catching, Over
<1>1. ASSUME NEW r \in Requests, Accept(r) PROVE \A q \in Requests : Known(q)'
  <2>1. OnlyAt(r)
    BY <1>1, GoEffect DEF Accept, OnlyAt
  <2>2. Known(r)'
    BY <1>1, GoEffect DEF Accept, Known, NoReply
  <2> QED
    BY <2>1, <2>2, Elsewhere
<1>2. ASSUME NEW r \in Requests, StoreQuestion(r) PROVE \A q \in Requests : Known(q)'
  <2>1. PICK stage \in {"replying", "done"} : GoTo(r, stage)
    BY <1>2 DEF StoreQuestion, CatchUnprepared
  <2>2. OnlyAt(r)
    BY <1>2, <2>1, GoEffect DEF StoreQuestion, OnlyAt
  <2>3. Known(r)'
    BY <1>2, <2>1, GoEffect DEF StoreQuestion, Known, NoReply
  <2> QED
    BY <2>2, <2>3, Elsewhere
<1>3. ASSUME NEW r \in Requests, CreateReply(r) PROVE \A q \in Requests : Known(q)'
  <2>1. PICK outcome \in Outcomes :
          /\ WriteReply(r, outcome, stored[r] # {}, PendingReply)
          /\ GoTo(r, IF outcome = "ok" THEN "attaching" ELSE "done")
    BY <1>3 DEF CreateReply, CatchUnprepared
  <2>2. OnlyAt(r)
    BY <1>3, <2>1, GoEffect, WriteEffect DEF CreateReply, OnlyAt
  <2>3. Known(r)'
    <3>1. reply[r] = NoReply /\ faults[r] = {}
      BY <1>3 DEF CreateReply, Known
    <3> QED
      BY <1>3, <2>1, <3>1, GoEffect, WriteEffect
         DEF CreateReply, Known, NoReply, PendingReply, Outcomes
  <2> QED
    BY <2>2, <2>3, Elsewhere
<1>4. ASSUME NEW r \in Requests, AttachFiles(r) PROVE \A q \in Requests : Known(q)'
  <2>1. PICK stage \in {"extracting", CatchStage(r)} : GoTo(r, stage)
    BY <1>4 DEF AttachFiles, AttachFailed
  <2>2. OnlyAt(r)
    BY <1>4, <2>1, GoEffect DEF AttachFiles, OnlyAt
  <2>3. Known(r)'
    BY <1>4, <2>1, GoEffect DEF AttachFiles, Known, CatchStage
  <2> QED
    BY <2>2, <2>3, Elsewhere
<1>5. ASSUME NEW r \in Requests, OpenStream(r) PROVE \A q \in Requests : Known(q)'
  <2>1. PICK stage \in {"streaming", CatchStage(r), AfterStream(r)} : GoTo(r, stage)
    BY <1>5 DEF OpenStream
  <2>2. OnlyAt(r)
    BY <1>5, <2>1, GoEffect DEF OpenStream, OnlyAt
  <2>3. Known(r)'
    BY <1>5, <2>1, GoEffect DEF OpenStream, Known, CatchStage, AfterStream
  <2> QED
    BY <2>2, <2>3, Elsewhere
<1>6. ASSUME NEW r \in Requests, Token(r) \/ StreamEnds(r) \/ StreamFails(r)
      PROVE  \A q \in Requests : Known(q)'
  <2>1. CASE UNCHANGED pc
    BY <1>6, <2>1 DEF Token, StreamEnds, StreamFails, Known
  <2>2. CASE ~UNCHANGED pc
    <3>1. PICK stage \in {CatchStage(r), AfterStream(r)} : GoTo(r, stage)
      BY <1>6, <2>2 DEF Token, StreamEnds, StreamFails, LeaveStream
    <3>2. pc[r] = "streaming" /\ UNCHANGED <<reply, aborted, faults>>
      BY <1>6 DEF Token, StreamEnds, StreamFails
    <3>3. OnlyAt(r)
      BY <3>1, <3>2, GoEffect DEF OnlyAt
    <3>4. Known(r)'
      BY <3>1, <3>2, GoEffect DEF Known, CatchStage, AfterStream
    <3> QED
      BY <3>3, <3>4, Elsewhere
  <2> QED
    BY <2>1, <2>2
<1>7. ASSUME NEW r \in Requests, TimeoutFires(r) PROVE \A q \in Requests : Known(q)'
  BY <1>7 DEF TimeoutFires, Known
<1>8. ASSUME NEW r \in Requests, ClientCloses(r) PROVE \A q \in Requests : Known(q)'
  <2>1. OnlyAt(r)
    BY <1>8 DEF TypeOK, ClientCloses, OnlyAt
  <2>2. Known(r)'
    BY <1>8 DEF TypeOK, ClientCloses, Listening, Known
  <2> QED
    BY <2>1, <2>2, Elsewhere
<1>9. ASSUME NEW r \in Requests, SaveStop(r) PROVE \A q \in Requests : Known(q)'
  <2>1. PICK outcome \in Outcomes :
          /\ WriteReply(r, outcome, Exists(r), Success(r, TRUE))
          /\ GoTo(r, IF outcome = "ok" THEN "done" ELSE CatchStage(r))
    BY <1>9 DEF SaveStop, AfterStop
  <2>2. OnlyAt(r)
    BY <1>9, <2>1, GoEffect, WriteEffect DEF SaveStop, OnlyAt
  <2>3. Known(r)'
    BY <1>9, <2>1, GoEffect, WriteEffect
       DEF SaveStop, Known, CatchStage, Success, Exists, Outcomes
  <2> QED
    BY <2>2, <2>3, Elsewhere
<1>10. ASSUME NEW r \in Requests, SaveAnswer(r) PROVE \A q \in Requests : Known(q)'
  <2>1. PICK outcome \in Outcomes :
          /\ WriteReply(r, outcome, Exists(r), Success(r, FALSE))
          /\ GoTo(r, IF outcome = "ok" THEN "done" ELSE CatchStage(r))
    BY <1>10 DEF SaveAnswer, AnswerSaved, AfterAnswer
  <2>2. OnlyAt(r)
    BY <1>10, <2>1, GoEffect, WriteEffect DEF SaveAnswer, OnlyAt
  <2>3. Known(r)'
    BY <1>10, <2>1, GoEffect, WriteEffect
       DEF SaveAnswer, Known, CatchStage, Success, Exists, Outcomes
  <2> QED
    BY <2>2, <2>3, Elsewhere
<1>11. ASSUME NEW r \in Requests, SaveFailure(r) PROVE \A q \in Requests : Known(q)'
  <2>1. PICK outcome \in Outcomes : WriteReply(r, outcome, Exists(r), Failure(r))
    BY <1>11 DEF SaveFailure
  <2>2. GoTo(r, "done")
    BY <1>11 DEF SaveFailure
  <2>3. OnlyAt(r)
    BY <1>11, <2>1, <2>2, GoEffect, WriteEffect DEF SaveFailure, OnlyAt
  <2>4. Known(r)'
    <3>1. pc'[r] = "done" /\ aborted'[r] = aborted[r]
      BY <1>11, <2>2, GoEffect DEF SaveFailure
    <3>2. ~aborted[r] /\ ~reply[r].stopped /\ reply[r].status # "FAILED"
      BY <1>11 DEF SaveFailure, Known
    <3>3. CASE outcome = "refused"
      <4>1. reply'[r] = reply[r] /\ (Exists(r) => faults'[r] # {})
        BY <2>1, <3>3, WriteEffect
      <4> QED
        BY <3>1, <3>2, <4>1 DEF Known, Exists
    <3>4. CASE outcome # "refused"
      <4>1. reply'[r] = Failure(r)
        BY <2>1, <3>4, WriteEffect
      <4> QED
        BY <3>1, <3>2, <4>1 DEF Known, Failure
    <3> QED
      BY <3>3, <3>4
  <2> QED
    BY <2>3, <2>4, Elsewhere
<1>12. ASSUME NEW r \in Requests, RescueStop(r) PROVE \A q \in Requests : Known(q)'
  <2>1. PICK outcome \in Outcomes : WriteReply(r, outcome, Exists(r), Success(r, TRUE))
    BY <1>12 DEF RescueStop
  <2>2. GoTo(r, "done")
    BY <1>12 DEF RescueStop
  <2>3. OnlyAt(r)
    BY <1>12, <2>1, <2>2, GoEffect, WriteEffect DEF RescueStop, OnlyAt
  <2>4. Known(r)'
    <3>1. pc'[r] = "done" /\ aborted'[r] = aborted[r]
      BY <1>12, <2>2, GoEffect DEF RescueStop
    <3>2. aborted[r] /\ reply[r].status # "FAILED"
      BY <1>12 DEF RescueStop, Known
    <3>3. CASE outcome = "refused"
      <4>1. reply'[r] = reply[r] /\ (Exists(r) => faults'[r] # {})
        BY <2>1, <3>3, WriteEffect
      <4> QED
        BY <3>1, <3>2, <4>1 DEF Known, Exists
    <3>4. CASE outcome # "refused"
      <4>1. reply'[r] = Success(r, TRUE)
        BY <2>1, <3>4, WriteEffect
      <4> QED
        BY <3>1, <3>2, <4>1 DEF Known, Success
    <3> QED
      BY <3>3, <3>4
  <2> QED
    BY <2>3, <2>4, Elsewhere
<1>13. ASSUME NEW c \in Conversations, DeleteConversation(c)
       PROVE  \A q \in Requests : Known(q)'
  <2> TAKE q \in Requests
  <2>1. CASE UNCHANGED reply[q]
    BY <1>13, <2>1 DEF DeleteConversation, Known
  <2>2. CASE reply'[q] = [reply[q] EXCEPT !.status = "removed"] /\ Exists(q)
    <3>1. reply'[q].status = "removed" /\ reply'[q].stopped = reply[q].stopped
      BY <2>2 DEF TypeOK, Replies
    <3>2. reply[q] # NoReply
      BY <2>2 DEF Exists, NoReply
    <3> QED
      BY <1>13, <3>1, <3>2 DEF DeleteConversation, Known
  <2> QED
    BY <1>13, <2>1, <2>2 DEF DeleteConversation
<1>14. ASSUME NEW r \in Requests, RemoveFiles(r)
       PROVE  \A q \in Requests : Known(q)'
  BY <1>14 DEF RemoveFiles, Known
<1>15. CASE Crash
  BY <1>15 DEF Crash, Known, InFlight, Listening, Saving
<1>16. CASE UNCHANGED vars
  BY <1>16 DEF vars, Known
<1> QED
  BY <1>1, <1>2, <1>3, <1>4, <1>5, <1>6, <1>7, <1>8, <1>9, <1>10, <1>11, <1>12,
     <1>13, <1>15, <1>16, <1>14 DEF Next, Handler

\* The stages of the handlers and the rows they own agree as Known says, at all times.
THEOREM Inductive == Spec => []IInv
  BY KnownInit, KnownStep, PTL DEF Spec

-----------------------------------------------------------------------------
(* The properties.                                                         *)

\* StopWins: a client that stopped its request never finds a failed answer.
THEOREM StopAlwaysWins == Spec => []StopWins
<1>1. IInv => StopWins
  BY DEF StopWins, Known
<1> QED
  BY <1>1, Inductive, PTL

\* PendingHasOwner: a row that stays pending has a handler that will settle it, unless
\* the process died or a write of that row went wrong.
THEOREM PendingIsOwned == Spec => []PendingHasOwner
<1>1. IInv => PendingHasOwner
  BY DEF TypeOK, PendingHasOwner, Known, Unprepared, Over, Stages, NoReply
<1> QED
  BY <1>1, Inductive, PTL

-----------------------------------------------------------------------------
(* What the client was told, and what it may rely on.                      *)

\* The response at each stage, and what the row holds after it: tokens are pushed only
\* while no save was tried.
Told(r) ==
    /\ pc[r] \in Unprepared \cup {"attaching"} => said[r] = "nothing"
    /\ pc[r] \in {"extracting", "streaming", "stopping", "finishing"} => said[r] = "ready"
    /\ pc[r] \in Catching => said[r] \in {"nothing", "ready"}
    /\ said[r] \in {"done", "error"} => pc[r] = "done"
    /\ said[r] = "done" =>
          /\ reply[r].status \in {"SUCCESS", "removed"}
          /\ ~reply[r].stopped
          /\ reply[r].content = chunks[r]
    /\ said[r] = "error" /\ reply[r].status = "SUCCESS" => "unacknowledged" \in faults[r]
    /\ reply[r].stopped => reply[r].content = chunks[r]

\* What is stored of a question that was announced: its files, or that they were removed.
Promised(r) ==
    IF r \in WithFiles THEN {{"question", "files"}, {"question", "removedFiles"}} ELSE {{"question"}}

\* While the conversation lives, what a handler has stored stays.
Held(r) ==
    ConversationOf[r] \in live =>
        /\ pc[r] \in {"replying", "attaching"} => stored[r] = {"question"}
        /\ pc[r] = "attaching" => Exists(r)
        /\ said[r] \in {"ready", "done", "error"} => Exists(r) /\ stored[r] \in Promised(r)

TInv == IInv /\ \A r \in Requests : Told(r) /\ Held(r)

\* A step of the handler of r leaves all that concerns the others alone.
Alone(r) ==
    /\ \A q \in Requests \ {r} :
          /\ pc'[q] = pc[q] /\ reply'[q] = reply[q] /\ stored'[q] = stored[q]
          /\ chunks'[q] = chunks[q] /\ said'[q] = said[q] /\ faults'[q] = faults[q]
    /\ live' = live

LEMMA TellElsewhere ==
  ASSUME NEW r \in Requests, \A q \in Requests : Told(q) /\ Held(q), Alone(r),
         Told(r)', Held(r)'
  PROVE  \A q \in Requests : Told(q)' /\ Held(q)'
<1>1. ASSUME NEW q \in Requests \ {r} PROVE Told(q)' /\ Held(q)'
  BY DEF Alone, Told, Held, Exists, Promised
<1> QED
  BY <1>1

LEMMA TellInit == Init => TInv
<1> SUFFICES ASSUME Init PROVE \A r \in Requests : Told(r) /\ Held(r)
  BY KnownInit DEF TInv
<1> QED
  BY DEF Init, Told, Held, NoReply, Unprepared, Catching

\* The fields of the rows that are written.
LEMMA RowFields ==
  ASSUME NEW r \in Requests
  PROVE  /\ \A stopped \in BOOLEAN :
              /\ Success(r, stopped).status = "SUCCESS"
              /\ Success(r, stopped).stopped = stopped
              /\ Success(r, stopped).content = chunks[r]
         /\ Failure(r).status = "FAILED" /\ Failure(r).stopped = FALSE
         /\ PendingReply.status = "PENDING" /\ PendingReply.stopped = FALSE
  BY DEF Success, Failure, PendingReply

LEMMA TellStep == TInv /\ [Next]_vars => TInv'
<1> SUFFICES ASSUME TInv, [Next]_vars PROVE \A q \in Requests : Told(q)' /\ Held(q)'
  BY KnownStep DEF TInv
<1>i. IInv /\ TypeOK /\ \A q \in Requests : Told(q) /\ Held(q) /\ Known(q)
  BY DEF TInv
<1> USE DEF Unprepared, Unsettled, Catching, Over
<1>1. ASSUME NEW r \in Requests, Accept(r) PROVE \A q \in Requests : Told(q)' /\ Held(q)'
  <2>1. Alone(r) /\ pc[r] = "idle" /\ pc'[r] = "preparing"
    BY <1>1, <1>i, GoEffect DEF Accept, Alone
  <2>2. Told(r)' /\ Held(r)'
    BY <1>1, <1>i, <2>1 DEF Accept, Told, Held, Exists, Promised
  <2> QED
    BY <1>i, <2>1, <2>2, TellElsewhere
<1>2. ASSUME NEW r \in Requests, StoreQuestion(r)
      PROVE  \A q \in Requests : Told(q)' /\ Held(q)'
  <2>1. PICK outcome \in Outcomes :
          /\ stored' = IF outcome = "refused"
                       THEN stored ELSE [stored EXCEPT ![r] = {"question"}]
          /\ IF outcome = "ok"
             THEN GoTo(r, "replying") /\ UNCHANGED said
             ELSE CatchUnprepared(r)
    BY <1>2 DEF StoreQuestion
  <2>2. Alone(r) /\ pc[r] = "preparing"
    BY <1>2, <1>i, <2>1, GoEffect DEF StoreQuestion, CatchUnprepared, Alone, TypeOK
  <2>3. /\ outcome = "ok" => pc'[r] = "replying" /\ stored'[r] = {"question"} /\ said'[r] = said[r]
        /\ outcome # "ok" => pc'[r] = "done" /\ said'[r] \in {said[r], "httpError"}
    BY <1>i, <2>1, GoEffect DEF CatchUnprepared, TypeOK
  <2>4. Told(r)' /\ Held(r)'
    BY <1>2, <1>i, <2>2, <2>3 DEF StoreQuestion, Told, Held, Exists, Promised
  <2> QED
    BY <1>i, <2>2, <2>4, TellElsewhere
<1>3. ASSUME NEW r \in Requests, CreateReply(r)
      PROVE  \A q \in Requests : Told(q)' /\ Held(q)'
  <2>1. PICK outcome \in Outcomes :
          /\ WriteReply(r, outcome, stored[r] # {}, PendingReply)
          /\ IF outcome = "ok"
             THEN GoTo(r, "attaching") /\ UNCHANGED said
             ELSE CatchUnprepared(r)
    BY <1>3 DEF CreateReply
  <2>2. Alone(r) /\ pc[r] = "replying" /\ UNCHANGED <<stored, chunks, live>>
    BY <1>3, <1>i, <2>1, GoEffect, WriteEffect DEF CreateReply, CatchUnprepared, Alone, TypeOK
  <2>3. /\ outcome = "ok" => pc'[r] = "attaching" /\ said'[r] = said[r]
        /\ outcome # "ok" => pc'[r] = "done" /\ said'[r] \in {said[r], "httpError"}
    BY <1>i, <2>1, GoEffect DEF CatchUnprepared, TypeOK
  <2>4. /\ reply'[r] = IF outcome = "refused" THEN reply[r] ELSE PendingReply
        /\ reply[r] = NoReply /\ said[r] = "nothing"
    BY <1>i, <2>1, <2>2, WriteEffect DEF Known, Told
  <2>5. ~reply'[r].stopped
    <3>1. NoReply.stopped = FALSE /\ PendingReply.stopped = FALSE
      BY RowFields DEF NoReply
    <3>2. reply'[r] \in {NoReply, PendingReply}
      BY <2>4
    <3> QED
      BY <3>1, <3>2
  <2>6. Told(r)'
    BY <2>2, <2>3, <2>4, <2>5 DEF Told
  <2>7. Held(r)'
    BY <1>i, <2>2, <2>3, <2>4, RowFields DEF Held, Exists
  <2> QED
    BY <1>i, <2>2, <2>6, <2>7, TellElsewhere
<1>4. ASSUME NEW r \in Requests, AttachFiles(r)
      PROVE  \A q \in Requests : Told(q)' /\ Held(q)'
  <2>1. PICK outcome \in Outcomes :
          /\ r \notin WithFiles => outcome = "ok"
          /\ stored' = IF outcome = "refused" \/ r \notin WithFiles
                       THEN stored ELSE [stored EXCEPT ![r] = @ \cup {"files"}]
          /\ IF outcome = "ok"
             THEN GoTo(r, "extracting") /\ said' = [said EXCEPT ![r] = "ready"]
             ELSE AttachFailed(r)
    BY <1>4 DEF AttachFiles
  <2>2. /\ Alone(r) /\ pc[r] = "attaching" /\ said[r] = "nothing"
        /\ UNCHANGED <<reply, chunks, live, faults>>
    BY <1>4, <1>i, <2>1, GoEffect DEF AttachFiles, AttachFailed, Alone, TypeOK, Told
  <2>3. /\ outcome = "ok" => pc'[r] = "extracting" /\ said'[r] = "ready"
        /\ outcome # "ok" => pc'[r] \in {"failing", "rescuing"} /\ said'[r] = "nothing"
    BY <1>i, <2>1, <2>2, GoEffect DEF AttachFailed, CatchStage, TypeOK
  <2>4. ConversationOf[r] \in live /\ outcome = "ok" => stored'[r] \in Promised(r)
    <3>1. ConversationOf[r] \in live => stored[r] = {"question"}
      BY <1>i, <2>2 DEF Held
    <3>2. outcome = "ok" => stored'[r] = IF r \in WithFiles THEN stored[r] \cup {"files"} ELSE stored[r]
      BY <1>i, <2>1 DEF TypeOK
    <3> QED
      BY <3>1, <3>2 DEF Promised
  <2>5. Told(r)'
    BY <1>i, <2>2, <2>3 DEF Told
  <2>6. Held(r)'
    BY <1>i, <2>2, <2>3, <2>4 DEF Held, Exists, Promised
  <2> QED
    BY <1>i, <2>2, <2>5, <2>6, TellElsewhere
<1>5. ASSUME NEW r \in Requests,
             OpenStream(r) \/ Token(r) \/ StreamEnds(r) \/ StreamFails(r)
      PROVE  \A q \in Requests : Told(q)' /\ Held(q)'
  <2>1. /\ Alone(r) /\ pc[r] \in {"extracting", "streaming"}
        /\ pc'[r] \in {"streaming", "stopping", "finishing", "failing", "rescuing"}
        /\ UNCHANGED <<reply, stored, live, said, faults>>
    BY <1>5, <1>i, GoEffect DEF OpenStream, Token, StreamEnds, StreamFails, LeaveStream,
                                CatchStage, AfterStream, Alone, TypeOK
  <2>2. said[r] = "ready" /\ ~reply[r].stopped
    BY <1>i, <2>1 DEF Told, Known
  <2>3. Told(r)' /\ Held(r)'
    BY <1>i, <2>1, <2>2 DEF Told, Held, Exists, Promised
  <2> QED
    BY <1>i, <2>1, <2>3, TellElsewhere
<1>6. ASSUME NEW r \in Requests, TimeoutFires(r) \/ ClientCloses(r)
      PROVE  \A q \in Requests : Told(q)' /\ Held(q)'
  BY <1>6, <1>i DEF TimeoutFires, ClientCloses, Told, Held, Exists, Promised
\* A save of any kind: the row is what it was, or the row the save writes.
<1>7. ASSUME NEW r \in Requests, NEW outcome \in Outcomes, NEW row \in Replies,
             WriteReply(r, outcome, Exists(r), row), row.status \in {"SUCCESS", "FAILED"},
             row.stopped => row.content = chunks[r],
             NEW stage \in {"failing", "rescuing", "done"}, GoTo(r, stage),
             UNCHANGED <<stored, live, chunks>>,
             said[r] \in {"nothing", "ready"},
             \/ UNCHANGED said
             \/ /\ outcome = "ok" /\ stage = "done" /\ row.status = "SUCCESS" /\ ~row.stopped
                /\ row.content = chunks[r]
                /\ said[r] = "ready" /\ said' = [said EXCEPT ![r] = "done"]
             \/ /\ stage = "done" /\ row.status = "FAILED"
                /\ reply[r].status = "SUCCESS" => "unacknowledged" \in faults[r]
                /\ said' = [said EXCEPT ![r] = IF @ = "nothing" THEN "httpError" ELSE "error"]
      PROVE  \A q \in Requests : Told(q)' /\ Held(q)'
  <2>1. /\ \A q \in Requests \ {r} : reply'[q] = reply[q] /\ faults'[q] = faults[q]
        /\ reply'[r] = IF outcome = "refused" THEN reply[r] ELSE row
        /\ faults[r] \subseteq faults'[r]
        /\ pc'[r] = stage /\ \A q \in Requests \ {r} : pc'[q] = pc[q]
    BY <1>7, <1>i, WriteEffect, GoEffect
  <2>2. Alone(r)
    BY <1>7, <1>i, <2>1 DEF Alone, TypeOK
  <2>3. /\ said'[r] \in {said[r], "done", "error", "httpError"}
        /\ said'[r] \in {"done", "error"} => said[r] = "ready"
    BY <1>7, <1>i DEF TypeOK
  <2>4. Told(r)'
    <3>1. reply'[r].stopped => reply'[r].content = chunks'[r]
      BY <1>7, <1>i, <2>1 DEF Told
    <3>2. CASE UNCHANGED said
      BY <1>7, <2>1, <3>1, <3>2 DEF Told
    <3>3. CASE /\ outcome = "ok" /\ stage = "done" /\ row.status = "SUCCESS" /\ ~row.stopped
               /\ row.content = chunks[r] /\ said' = [said EXCEPT ![r] = "done"]
      <4>1. said'[r] = "done"
        BY <1>i, <3>3 DEF TypeOK
      <4> QED
        BY <1>7, <2>1, <3>1, <3>3, <4>1 DEF Told
    <3>4. CASE /\ stage = "done" /\ row.status = "FAILED"
               /\ reply[r].status = "SUCCESS" => "unacknowledged" \in faults[r]
               /\ said' = [said EXCEPT ![r] = IF @ = "nothing" THEN "httpError" ELSE "error"]
      <4>1. said'[r] \in {"error", "httpError"}
        BY <1>i, <3>4 DEF TypeOK
      <4>2. reply'[r].status = "SUCCESS" => "unacknowledged" \in faults'[r]
        BY <2>1, <3>4
      <4> QED
        BY <2>1, <3>1, <3>4, <4>1, <4>2 DEF Told
    <3> QED
      BY <1>7, <3>2, <3>3, <3>4
  <2>5. Held(r)'
    BY <1>7, <1>i, <2>1, <2>3 DEF Held, Exists, Promised
  <2> QED
    BY <1>i, <2>2, <2>4, <2>5, TellElsewhere
<1>8. ASSUME NEW r \in Requests, SaveStop(r) \/ RescueStop(r)
      PROVE  \A q \in Requests : Told(q)' /\ Held(q)'
  <2>1. PICK outcome \in Outcomes, stage \in {"failing", "rescuing", "done"} :
          WriteReply(r, outcome, Exists(r), Success(r, TRUE)) /\ GoTo(r, stage)
    BY <1>8 DEF SaveStop, RescueStop, CatchStage, AfterStop
  <2>2. UNCHANGED <<stored, live, chunks, said>> /\ said[r] \in {"nothing", "ready"}
    BY <1>8, <1>i DEF SaveStop, RescueStop, Told
  <2>3. Success(r, TRUE) \in Replies
    BY <1>i, RowTypes
  <2> QED
    BY <1>7, <2>1, <2>2, <2>3, RowFields
<1>9. ASSUME NEW r \in Requests, SaveAnswer(r)
      PROVE  \A q \in Requests : Told(q)' /\ Held(q)'
  <2>1. PICK outcome \in Outcomes :
          /\ WriteReply(r, outcome, Exists(r), Success(r, FALSE))
          /\ IF outcome = "ok"
             THEN GoTo(r, "done") /\ said' = [said EXCEPT ![r] = "done"]
             ELSE GoTo(r, CatchStage(r)) /\ UNCHANGED said
    BY <1>9 DEF SaveAnswer, AnswerSaved, AfterAnswer
  <2>2. UNCHANGED <<stored, live, chunks>> /\ said[r] = "ready"
    BY <1>9, <1>i DEF SaveAnswer, Told
  <2>3. Success(r, FALSE) \in Replies
    BY <1>i, RowTypes
  <2>4. PICK stage \in {"failing", "rescuing", "done"} :
          /\ GoTo(r, stage)
          /\ \/ UNCHANGED said
             \/ outcome = "ok" /\ stage = "done" /\ said' = [said EXCEPT ![r] = "done"]
    BY <2>1 DEF CatchStage
  <2> QED
    BY <1>7, <2>1, <2>2, <2>3, <2>4, RowFields
<1>10. ASSUME NEW r \in Requests, SaveFailure(r)
       PROVE  \A q \in Requests : Told(q)' /\ Held(q)'
  <2>1. PICK outcome \in Outcomes : WriteReply(r, outcome, Exists(r), Failure(r))
    BY <1>10 DEF SaveFailure
  <2>2. /\ UNCHANGED <<stored, live, chunks>> /\ said[r] \in {"nothing", "ready"}
        /\ GoTo(r, "done")
        /\ said' = [said EXCEPT ![r] = IF @ = "nothing" THEN "httpError" ELSE "error"]
        /\ reply[r].status = "SUCCESS" => "unacknowledged" \in faults[r]
    BY <1>10, <1>i DEF SaveFailure, Told, Known
  <2>3. Failure(r) \in Replies
    BY <1>i, RowTypes
  <2> QED
    BY <1>7, <2>1, <2>2, <2>3, RowFields
<1>11. ASSUME NEW c \in Conversations, DeleteConversation(c)
       PROVE  \A q \in Requests : Told(q)' /\ Held(q)'
  <2> TAKE q \in Requests
  <2>1. /\ UNCHANGED <<pc, chunks, said, faults>> /\ live' = live \ {c}
        /\ ConversationOf[q] # c => reply'[q] = reply[q] /\ stored'[q] = stored[q]
    BY <1>11 DEF DeleteConversation
  <2>2. /\ reply'[q].status \in {reply[q].status, "removed"}
        /\ reply'[q].stopped = reply[q].stopped
        /\ reply'[q].content = reply[q].content
    BY <1>11, <1>i DEF DeleteConversation, TypeOK, Replies
  <2>3. Told(q)'
    BY <1>i, <2>1, <2>2 DEF Told
  <2>4. Held(q)'
    BY <1>i, <2>1 DEF Held, Exists, Promised
  <2> QED
    BY <2>3, <2>4
<1>12. ASSUME NEW r \in Requests, RemoveFiles(r)
       PROVE  \A q \in Requests : Told(q)' /\ Held(q)'
  <2>1. /\ Alone(r) /\ "files" \in stored[r]
        /\ UNCHANGED <<pc, reply, live, chunks, aborted, timer, said, faults>>
        /\ stored'[r] = (stored[r] \ {"files"}) \cup {"removedFiles"}
    BY <1>12, <1>i DEF RemoveFiles, Alone, TypeOK
  <2>2. Told(r)'
    BY <1>i, <2>1 DEF Told
  <2>3. stored[r] \in Promised(r) => stored'[r] \in Promised(r)
    BY <2>1 DEF Promised
  <2>4. Held(r)'
    BY <1>i, <2>1, <2>3 DEF Held, Exists, Promised
  <2> QED
    BY <1>i, <2>1, <2>2, <2>4, TellElsewhere
<1>13. CASE Crash
  <2> TAKE q \in Requests
  <2>1. UNCHANGED <<reply, stored, live, chunks, said, faults>>
    BY <1>13 DEF Crash
  <2>2. \/ pc'[q] = pc[q]
        \/ pc'[q] = "lost" /\ said[q] \notin {"done", "error"}
    BY <1>13, <1>i DEF Crash, Told, InFlight, Listening, Saving
  <2> QED
    BY <1>i, <2>1, <2>2 DEF Told, Held, Exists, Promised
<1>14. CASE UNCHANGED vars
  BY <1>14, <1>i DEF vars, Told, Held, Exists, Promised
<1> QED
  BY <1>1, <1>2, <1>3, <1>4, <1>5, <1>6, <1>8, <1>9, <1>10, <1>11, <1>13, <1>14, <1>12
     DEF Next, Handler

LEMMA TellAlways == Spec => []TInv
  BY TellInit, TellStep, PTL DEF Spec

\* ToldWhatIsStored: the last event of the response agrees with the row.
THEOREM ToldTheTruth == Spec => []ToldWhatIsStored
<1>1. TInv => ToldWhatIsStored
  BY DEF TInv, ToldWhatIsStored, Told, Known
<1> QED
  BY <1>1, TellAlways, PTL

\* ReadyIsDurable: after 'ready' the question, its files and the row are there for as long
\* as the conversation is.
THEOREM ReadyStays == Spec => []ReadyIsDurable
<1>1. TInv => ReadyIsDurable
  BY DEF TInv, ReadyIsDurable, Held, Promised
<1> QED
  BY <1>1, TellAlways, PTL

-----------------------------------------------------------------------------
(* How rows change, and the life of a message.                             *)

\* A save may replace the row of r: a pending one, or an answer whose save the handler
\* was not told of, which it repeats or turns into a failure.
Settling(r, row) ==
    /\ row \in Replies /\ row.status \in {"SUCCESS", "FAILED"}
    /\ \/ reply[r].status = "PENDING"
       \/ /\ reply[r].status = "SUCCESS" /\ "unacknowledged" \in faults[r]
          /\ row.stopped = reply[r].stopped
          /\ row.status = "FAILED" => ~reply[r].stopped

\* The ways a step changes a row.
Written ==
    \/ \E r \in Requests :
          \/ reply[r] = NoReply /\ reply' = [reply EXCEPT ![r] = PendingReply]
          \/ \E row \in Replies : Settling(r, row) /\ reply' = [reply EXCEPT ![r] = row]
    \/ \E c \in Conversations : DeleteConversation(c)
    \/ UNCHANGED reply

LEMMA StepsWrite == IInv /\ [Next]_vars => Written
<1> SUFFICES ASSUME IInv, [Next]_vars PROVE Written
  OBVIOUS
<1>1. ASSUME NEW r \in Requests, CreateReply(r) PROVE Written
  BY <1>1 DEF CreateReply, WriteReply, Written, Known, Unprepared
<1>2. ASSUME NEW r \in Requests, NEW outcome \in Outcomes, NEW row,
             WriteReply(r, outcome, Exists(r), row), Exists(r) => Settling(r, row)
      PROVE  Written
  BY <1>2 DEF WriteReply, Written, Settling
<1>3. ASSUME NEW r \in Requests, SaveStop(r) PROVE Written
  <2>1. Exists(r) => Settling(r, Success(r, TRUE))
    BY <1>3, RowTypes DEF SaveStop, Known, Unsettled, Exists, Settling, Success
  <2> QED
    BY <1>2, <1>3, <2>1 DEF SaveStop
<1>4. ASSUME NEW r \in Requests, SaveAnswer(r) PROVE Written
  <2>1. Exists(r) => Settling(r, Success(r, FALSE))
    BY <1>4, RowTypes DEF SaveAnswer, Known, Unsettled, Exists, Settling, Success
  <2> QED
    BY <1>2, <1>4, <2>1 DEF SaveAnswer
<1>5. ASSUME NEW r \in Requests, SaveFailure(r) PROVE Written
  <2>1. ~reply[r].stopped
    BY <1>5 DEF SaveFailure, Known
  <2>2. Failure(r).status = "FAILED" /\ Failure(r).stopped = FALSE
    BY DEF Failure
  <2>3. reply[r] \in Replies
    BY DEF TypeOK
  <2>4. Exists(r) => Settling(r, Failure(r))
    BY <1>5, <2>1, <2>2, <2>3, RowTypes
       DEF SaveFailure, Known, Catching, Exists, Settling, Replies
  <2> QED
    BY <1>2, <1>5, <2>4 DEF SaveFailure
<1>6. ASSUME NEW r \in Requests, RescueStop(r) PROVE Written
  <2>1. Success(r, TRUE).status = "SUCCESS" /\ Success(r, TRUE).stopped = TRUE
    BY DEF Success
  <2>2. reply[r] \in Replies
    BY DEF TypeOK
  <2>3. Exists(r) => Settling(r, Success(r, TRUE))
    BY <1>6, <2>1, <2>2, RowTypes
       DEF RescueStop, Known, Catching, Exists, Settling, Replies
  <2> QED
    BY <1>2, <1>6, <2>3 DEF RescueStop
<1>7. ASSUME UNCHANGED reply PROVE Written
  BY <1>7 DEF Written
<1>8. ASSUME NEW c \in Conversations, DeleteConversation(c) PROVE Written
  BY <1>8 DEF Written
<1> QED
  BY <1>1, <1>3, <1>4, <1>5, <1>6, <1>7, <1>8
     DEF Next, Handler, Accept, StoreQuestion, AttachFiles, OpenStream, Token,
         StreamEnds, StreamFails, TimeoutFires, ClientCloses, RemoveFiles, Crash, vars

\* SettledOnce: a settled row is written again only after a save whose acknowledgement
\* was lost.
THEOREM RowsSettleOnce == Spec => SettledOnce
<1>1. IInv /\ [Next]_vars =>
        [\A r \in Requests :
            /\ reply[r].status \in {"SUCCESS", "FAILED"}
            /\ Exists(r)'
            /\ reply'[r] # reply[r]
            => "unacknowledged" \in faults[r]]_vars
  <2> SUFFICES ASSUME IInv, [Next]_vars, NEW r \in Requests,
                      reply[r].status \in {"SUCCESS", "FAILED"}, Exists(r)',
                      reply'[r] # reply[r]
               PROVE  "unacknowledged" \in faults[r]
    OBVIOUS
  <2>1. ASSUME NEW q \in Requests, reply[q] = NoReply,
               reply' = [reply EXCEPT ![q] = PendingReply]
        PROVE  FALSE
    BY <2>1 DEF TypeOK, NoReply
  <2>2. ASSUME NEW q \in Requests, NEW row \in Replies, Settling(q, row),
               reply' = [reply EXCEPT ![q] = row]
        PROVE  "unacknowledged" \in faults[r]
    BY <2>2 DEF TypeOK, Settling
  <2>3. ASSUME NEW c \in Conversations, DeleteConversation(c) PROVE FALSE
    <3>1. reply'[r] = [reply[r] EXCEPT !.status = "removed"]
      BY <2>3 DEF DeleteConversation
    <3>2. reply'[r].status = "removed"
      BY <3>1 DEF TypeOK, Replies
    <3> QED
      BY <3>2 DEF Exists
  <2> QED
    BY <2>1, <2>2, <2>3, StepsWrite DEF Written
<1> QED
  BY <1>1, Inductive, PTL DEF Spec, SettledOnce

-----------------------------------------------------------------------------
(* MessageStream implements MessageLifecycle.                              *)

Lives == [r \in Requests |-> Phase(reply[r])]

\* The life of a row that is replaced moves on; no other row's does.
LEMMA Moves ==
  ASSUME TypeOK, NEW r \in Requests, NEW row \in Replies,
         reply' = [reply EXCEPT ![r] = row]
  PROVE  Lives' = [Lives EXCEPT ![r] = Phase(row)]
  BY DEF TypeOK, Lives

LEMMA LifecycleInit == Init => Lifecycle!Init
  BY DEF Init, Lifecycle!Init, Phase, NoReply

LEMMA LifecycleStep == IInv /\ [Next]_vars => [Lifecycle!Next]_Lives
<1> SUFFICES ASSUME IInv, [Next]_vars PROVE Lifecycle!Next \/ UNCHANGED Lives
  OBVIOUS
<1>1. ASSUME NEW r \in Requests, reply[r] = NoReply,
             reply' = [reply EXCEPT ![r] = PendingReply]
      PROVE  Lifecycle!Next
  <2>1. Lives' = [Lives EXCEPT ![r] = "pending"]
    BY <1>1, Moves, RowTypes DEF Phase, PendingReply
  <2>2. Lives[r] = "absent"
    BY <1>1 DEF Lives, Phase, NoReply
  <2>3. Lifecycle!Create(r)
    BY <2>1, <2>2 DEF Lives, Lifecycle!Create, Lifecycle!Move
  <2> QED
    BY <2>3 DEF Lifecycle!Next
<1>2. ASSUME NEW r \in Requests, NEW row \in Replies, Settling(r, row),
             reply' = [reply EXCEPT ![r] = row]
      PROVE  Lifecycle!Next \/ UNCHANGED Lives
  <2>1. Lives' = [Lives EXCEPT ![r] = Phase(row)]
    BY <1>2, Moves
  <2>2. row.stopped \in BOOLEAN /\ reply[r].stopped \in BOOLEAN
    BY <1>2 DEF TypeOK, Replies
  <2>3. Phase(row) \in Lifecycle!Settled
    BY <1>2, <2>2 DEF Settling, Phase, Lifecycle!Settled
  <2>4. CASE reply[r].status = "PENDING"
    <3>1. Lives[r] = "pending"
      BY <2>4 DEF Lives, Phase
    <3>2. Lifecycle!Settle(r)
      BY <2>1, <2>3, <3>1 DEF Lives, Lifecycle!Settle, Lifecycle!Move
    <3> QED
      BY <3>2 DEF Lifecycle!Next
  <2>5. CASE reply[r].status = "SUCCESS" /\ row.status = "SUCCESS"
    <3>1. Phase(row) = Lives[r]
      BY <1>2, <2>5 DEF Settling, Lives, Phase
    <3> QED
      BY <2>1, <3>1 DEF Lives
  <2>6. CASE reply[r].status = "SUCCESS" /\ row.status = "FAILED"
    <3>1. Lives[r] = "answered" /\ Phase(row) = "failed"
      BY <1>2, <2>6 DEF Settling, Lives, Phase
    <3>2. Lifecycle!Overrule(r)
      BY <2>1, <3>1 DEF Lives, Lifecycle!Overrule, Lifecycle!Move
    <3> QED
      BY <3>2 DEF Lifecycle!Next
  <2> QED
    BY <1>2, <2>4, <2>5, <2>6 DEF Settling
<1>3. ASSUME NEW c \in Conversations, DeleteConversation(c) PROVE Lifecycle!Next
  <2> DEFINE M == {r \in Requests : ConversationOf[r] = c /\ Exists(r)}
  <2>1. ASSUME NEW r \in M PROVE Lives'[r] = "removed" /\ Lives[r] # "absent"
    <3>1. reply'[r].status = "removed"
      BY <1>3 DEF DeleteConversation, TypeOK, Replies
    <3> QED
      BY <3>1 DEF Lives, Phase, Exists
  <2>2. ASSUME NEW r \in Requests \ M PROVE Lives'[r] = Lives[r]
    BY <1>3 DEF DeleteConversation, Lives
  <2>3. Lives' = [r \in Requests |->
                    IF r \in M /\ Lives[r] # "absent" THEN "removed" ELSE Lives[r]]
    BY <2>1, <2>2 DEF Lives
  <2>4. Lifecycle!Remove(M)
    BY <2>3 DEF Lives, Lifecycle!Remove
  <2> QED
    BY <2>4 DEF Lifecycle!Next
<1>4. ASSUME UNCHANGED reply PROVE UNCHANGED Lives
  BY <1>4 DEF Lives
<1> QED
  BY <1>1, <1>2, <1>3, <1>4, StepsWrite DEF Written

\* LifecycleSpec: every behaviour of the handlers, the database, the client and the
\* crashes is one that MessageLifecycle allows.
THEOREM Implements == Spec => LifecycleSpec
<1>1. IInv /\ [Next]_vars => [Lifecycle!Next]_([r \in Requests |-> Phase(reply[r])])
  BY LifecycleStep DEF Lives
<1> QED
  BY <1>1, LifecycleInit, Inductive, PTL DEF Spec, LifecycleSpec, Lifecycle!Spec

=============================================================================
