--------------------------- MODULE MessageStream ---------------------------
(***************************************************************************)
(* One POST /conversations/:id/messages per element of Requests: the       *)
(* handler sendMessageStream of controllers/message.controller.ts with     *)
(* every call it awaits, the generator AiService.stream with its timeout,  *)
(* the provider behind it, the client that may close the connection, the   *)
(* database that may refuse a transaction or lose its acknowledgement, the *)
(* deletion of the conversation, the removal of attached files by their    *)
(* owner, and the crash of the server process.                             *)
(*                                                                         *)
(* A step is what runs between two awaits.  Text is abstracted to the      *)
(* number of tokens it is made of; the order of tokens is that of their    *)
(* arrival, because one handler appends them.                              *)
(***************************************************************************)
EXTENDS Integers

CONSTANTS
    Requests,        \* the requests; each creates at most one assistant message
    Conversations,   \* the conversations they are sent to
    ConversationOf,  \* the conversation a request names in its path
    WithFiles,       \* the requests that carry uploaded files
    MaxTokens        \* bound: tokens a provider yields for one answer

ASSUME StreamAssumption ==
    /\ ConversationOf \in [Requests -> Conversations]
    /\ WithFiles \subseteq Requests
    /\ MaxTokens \in Nat

VARIABLES
    pc,        \* pc[r]: the await the handler of r stands at
    reply,     \* reply[r]: the assistant row r created, in the database
    stored,    \* stored[r]: which of the user message and its files are stored, or were removed
    live,      \* the conversations that exist
    chunks,    \* chunks[r]: tokens the handler has pushed (and sent to the client)
    aborted,   \* aborted[r]: abortController.signal.aborted
    timer,     \* timer[r]: the timeout of AiService.stream
    said,      \* said[r]: the last thing the response told the client
    faults     \* history: outcomes of writes of reply[r] that went wrong

vars == <<pc, reply, stored, live, chunks, aborted, timer, said, faults>>

-----------------------------------------------------------------------------
(* The stages of a handler.  While the 'close' listener is attached the    *)
(* handler is Listening; it detaches on leaving the stream and on entering *)
(* the catch block.                                                        *)

Listening == {"preparing", "replying", "attaching", "extracting", "streaming"}

Saving == {"stopping", "finishing", "failing", "rescuing"}

InFlight == Listening \cup Saving

Over == {"done", "lost"}

Stages == {"idle"} \cup InFlight \cup Over

ErrorText == -1      \* the content that is the error message and no token

NoReply == [status |-> "absent", stopped |-> FALSE, content |-> 0]

\* createMessage: the assistant row starts empty and PENDING.
PendingReply == [status |-> "PENDING", stopped |-> FALSE, content |-> 0]

Replies == [status  : {"absent", "PENDING", "SUCCESS", "FAILED", "removed"},
            stopped : BOOLEAN,
            content : ErrorText .. MaxTokens]

Exists(r) == reply[r].status \in {"PENDING", "SUCCESS", "FAILED"}

Init ==
    /\ pc = [r \in Requests |-> "idle"]
    /\ reply = [r \in Requests |-> NoReply]
    /\ stored = [r \in Requests |-> {}]
    /\ live = Conversations
    /\ chunks = [r \in Requests |-> 0]
    /\ aborted = [r \in Requests |-> FALSE]
    /\ timer = [r \in Requests |-> "off"]
    /\ said = [r \in Requests |-> "nothing"]
    /\ faults = [r \in Requests |-> {}]

-----------------------------------------------------------------------------
(* The database.  A transaction commits and is acknowledged, is refused, or *)
(* commits while its acknowledgement is lost; the handler cannot tell the   *)
(* last two apart.                                                          *)

Outcomes == {"ok", "refused", "unacknowledged"}

GoTo(r, stage) == pc' = [pc EXCEPT ![r] = stage]

\* Write of the row of r; a row that cannot be written is an ordinary refusal.
WriteReply(r, outcome, possible, row) ==
    /\ outcome # "refused" => possible
    /\ reply' = IF outcome = "refused" THEN reply ELSE [reply EXCEPT ![r] = row]
    /\ faults' = IF outcome = "ok" \/ ~possible
                 THEN faults
                 ELSE [faults EXCEPT ![r] = @ \cup {outcome}]

-----------------------------------------------------------------------------
(* The catch block, once its listener is detached.  The definitions named  *)
(* ...Mutant are faulty variants of the operator that follows them; no     *)
(* specification uses them.                                                *)

\* pendingAssistantMessageId is not known yet, and no header was sent.
CatchUnprepared(r) ==
    /\ GoTo(r, "done")
    /\ said' = IF aborted[r] THEN said ELSE [said EXCEPT ![r] = "httpError"]

CatchStageMutant(r) == "failing"

\* A client that already stopped the stream keeps its stop, whatever failed since.
CatchStage(r) == IF aborted[r] THEN "rescuing" ELSE "failing"

-----------------------------------------------------------------------------
(* Before the stream.                                                      *)

\* The request is accepted: the listener for 'close' is attached.
Accept(r) ==
    /\ pc[r] = "idle"
    /\ GoTo(r, "preparing")
    /\ UNCHANGED <<reply, stored, live, chunks, aborted, timer, said, faults>>

\* The checks of prepareMessageStream and the transaction of the user message.
\* The checks only refuse, and a conversation deleted after them refuses the row.
\* A retry finds its question stored instead of storing one.
StoreQuestion(r) ==
    /\ pc[r] = "preparing"
    /\ \E outcome \in Outcomes :
          /\ outcome # "refused" => ConversationOf[r] \in live
          /\ stored' = IF outcome = "refused"
                       THEN stored
                       ELSE [stored EXCEPT ![r] = {"question"}]
          /\ IF outcome = "ok"
             THEN GoTo(r, "replying") /\ UNCHANGED said
             ELSE CatchUnprepared(r)
    /\ UNCHANGED <<reply, live, chunks, aborted, timer, faults>>

\* A second transaction creates the assistant row under the user message.
CreateReply(r) ==
    /\ pc[r] = "replying"
    /\ \E outcome \in Outcomes :
          /\ WriteReply(r, outcome, stored[r] # {}, PendingReply)
          /\ IF outcome = "ok"
             THEN GoTo(r, "attaching") /\ UNCHANGED said
             ELSE CatchUnprepared(r)
    /\ UNCHANGED <<stored, live, chunks, aborted, timer>>

AttachFailedMutant(r) ==
    /\ GoTo(r, "extracting")
    /\ said' = [said EXCEPT ![r] = "ready"]

AttachFailed(r) ==
    /\ GoTo(r, CatchStage(r))
    /\ UNCHANGED said

\* saveMessageAttachments, then the headers and the 'ready' event.  Without files
\* nothing is written, so nothing can fail.
AttachFiles(r) ==
    /\ pc[r] = "attaching"
    /\ \E outcome \in Outcomes :
          /\ r \in WithFiles => (outcome # "refused" => stored[r] # {})
          /\ r \notin WithFiles => outcome = "ok"
          /\ stored' = IF outcome = "refused" \/ r \notin WithFiles
                       THEN stored
                       ELSE [stored EXCEPT ![r] = @ \cup {"files"}]
          /\ IF outcome = "ok"
             THEN GoTo(r, "extracting") /\ said' = [said EXCEPT ![r] = "ready"]
             ELSE AttachFailed(r)
    /\ UNCHANGED <<reply, live, chunks, aborted, timer, faults>>

AfterStreamMutant(r) == IF aborted[r] THEN "done" ELSE "finishing"

\* What the handler goes on to save once the stream loop is left without an error.
AfterStream(r) == IF aborted[r] THEN "stopping" ELSE "finishing"

ArmedMutant == "off"

\* setTimeout of AiService.stream.
Armed == "armed"

\* processFilesFromUrls ends, the question is built and the stream is opened.  An
\* abort seen when it opens ends it at once; a missing file or provider throws.
OpenStream(r) ==
    /\ pc[r] = "extracting"
    /\ \/ /\ aborted[r]
          /\ GoTo(r, AfterStream(r))
          /\ UNCHANGED timer
       \/ /\ ~aborted[r]
          /\ GoTo(r, "streaming")
          /\ timer' = [timer EXCEPT ![r] = Armed]
       \/ /\ GoTo(r, CatchStage(r))
          /\ UNCHANGED timer
    /\ UNCHANGED <<reply, stored, live, chunks, aborted, said, faults>>

-----------------------------------------------------------------------------
(* The stream: the provider, the timeout and the client.                   *)

\* The signal given to the provider is aborted by the client or by the timeout.
SignalAborted(r) == aborted[r] \/ timer[r] = "fired"

\* The finally block of AiService.stream clears the timeout.
LeaveStream(r, stage) ==
    /\ GoTo(r, stage)
    /\ timer' = [timer EXCEPT ![r] = "off"]

PushedMutant(n) == n + 2

Pushed(n) == n + 1

\* A token reaches the loop.  A token that arrives after the client closed is
\* dropped and breaks the loop; one buffered before the timeout is still sent.
Token(r) ==
    /\ pc[r] = "streaming"
    /\ chunks[r] < MaxTokens
    /\ \/ /\ aborted[r]
          /\ LeaveStream(r, AfterStream(r))
          /\ UNCHANGED chunks
       \/ /\ ~aborted[r]
          /\ chunks' = [chunks EXCEPT ![r] = Pushed(@)]
          /\ UNCHANGED <<pc, timer>>
    /\ UNCHANGED <<reply, stored, live, aborted, said, faults>>

\* The provider's generator returns: the answer is complete, its body ended early,
\* or its signal was aborted.  After the timeout this is AI_TIMEOUT, which a client
\* that closed meanwhile turns into its stop.
StreamEnds(r) ==
    /\ pc[r] = "streaming"
    /\ LeaveStream(r, IF timer[r] = "fired" THEN CatchStage(r) ELSE AfterStream(r))
    /\ UNCHANGED <<reply, stored, live, chunks, aborted, said, faults>>

\* A provider whose signal is aborted returns instead of throwing.
StreamFails(r) ==
    /\ pc[r] = "streaming"
    /\ ~SignalAborted(r)
    /\ LeaveStream(r, CatchStage(r))
    /\ UNCHANGED <<reply, stored, live, chunks, aborted, said, faults>>

TimeoutFires(r) ==
    /\ timer[r] = "armed"
    /\ timer' = [timer EXCEPT ![r] = "fired"]
    /\ UNCHANGED <<pc, reply, stored, live, chunks, aborted, said, faults>>

\* The client goes away while its 'close' event is listened to.
ClientCloses(r) ==
    /\ pc[r] \in Listening
    /\ ~aborted[r]
    /\ aborted' = [aborted EXCEPT ![r] = TRUE]
    /\ UNCHANGED <<pc, reply, stored, live, chunks, timer, said, faults>>

-----------------------------------------------------------------------------
(* Saving the outcome.                                                     *)

Success(r, stopped) ==
    [status |-> "SUCCESS", stopped |-> stopped, content |-> chunks[r]]

\* getFailedAssistantContent: the partial answer, or the error message.
Failure(r) ==
    [status |-> "FAILED", stopped |-> FALSE,
     content |-> IF chunks[r] > 0 THEN chunks[r] ELSE ErrorText]

AfterStopMutant == "finishing"

\* Once the stop is stored the handler ends the response and returns.
AfterStop == "done"

SaveStop(r) ==
    /\ pc[r] = "stopping"
    /\ \E outcome \in Outcomes :
          /\ WriteReply(r, outcome, Exists(r), Success(r, TRUE))
          /\ GoTo(r, IF outcome = "ok" THEN AfterStop ELSE CatchStage(r))
    /\ UNCHANGED <<stored, live, chunks, aborted, timer, said>>

AnswerSavedMutant(outcome) == TRUE

\* The 'done' event is written only after an acknowledged save.
AnswerSaved(outcome) == outcome = "ok"

AfterAnswerMutant(r) == "failing"

AfterAnswer(r) == "done"

SaveAnswer(r) ==
    /\ pc[r] = "finishing"
    /\ \E outcome \in Outcomes :
          /\ WriteReply(r, outcome, Exists(r), Success(r, FALSE))
          /\ IF AnswerSaved(outcome)
             THEN GoTo(r, AfterAnswer(r)) /\ said' = [said EXCEPT ![r] = "done"]
             ELSE GoTo(r, CatchStage(r)) /\ UNCHANGED said
    /\ UNCHANGED <<stored, live, chunks, aborted, timer>>

\* The catch block of a request whose client is still there: whatever the outcome
\* of the save, the client is told of the error.
SaveFailure(r) ==
    /\ pc[r] = "failing"
    /\ \E outcome \in Outcomes : WriteReply(r, outcome, Exists(r), Failure(r))
    /\ GoTo(r, "done")
    /\ said' = [said EXCEPT ![r] = IF @ = "nothing" THEN "httpError" ELSE "error"]
    /\ UNCHANGED <<stored, live, chunks, aborted, timer>>

\* The catch block of a request whose client stopped: nobody is told anything.
RescueStop(r) ==
    /\ pc[r] = "rescuing"
    /\ \E outcome \in Outcomes : WriteReply(r, outcome, Exists(r), Success(r, TRUE))
    /\ GoTo(r, "done")
    /\ UNCHANGED <<stored, live, chunks, aborted, timer, said>>

-----------------------------------------------------------------------------
(* What happens around the handlers.                                       *)

\* The owner deletes a conversation; messages and attachments go with it.
DeleteConversation(c) ==
    /\ c \in live
    /\ live' = live \ {c}
    /\ reply' = [r \in Requests |->
                    IF ConversationOf[r] = c /\ Exists(r)
                    THEN [reply[r] EXCEPT !.status = "removed"] ELSE reply[r]]
    /\ stored' = [r \in Requests |-> IF ConversationOf[r] = c THEN {} ELSE stored[r]]
    /\ UNCHANGED <<pc, chunks, aborted, timer, said, faults>>

\* deleteUserAttachments: the rows of the files go while the message stays.
RemoveFiles(r) ==
    /\ "files" \in stored[r]
    /\ stored' = [stored EXCEPT ![r] = (@ \ {"files"}) \cup {"removedFiles"}]
    /\ UNCHANGED <<pc, reply, live, chunks, aborted, timer, said, faults>>

\* The process dies, or is killed ten seconds into a shutdown: every handler is gone
\* and the database keeps what it has.  Starting again repairs nothing.
Crash ==
    /\ \E r \in Requests : pc[r] \in InFlight
    /\ pc' = [r \in Requests |-> IF pc[r] \in InFlight THEN "lost" ELSE pc[r]]
    /\ timer' = [r \in Requests |-> "off"]
    /\ UNCHANGED <<reply, stored, live, chunks, aborted, said, faults>>

\* The steps the event loop is bound to take: database calls return.
Handler(r) ==
    \/ StoreQuestion(r) \/ CreateReply(r) \/ AttachFiles(r)
    \/ SaveStop(r) \/ SaveAnswer(r) \/ SaveFailure(r) \/ RescueStop(r)

Next ==
    \/ \E r \in Requests :
          \/ Accept(r) \/ Handler(r) \/ OpenStream(r)
          \/ Token(r) \/ StreamEnds(r) \/ StreamFails(r)
          \/ TimeoutFires(r) \/ ClientCloses(r) \/ RemoveFiles(r)
    \/ \E c \in Conversations : DeleteConversation(c)
    \/ Crash

\* Nothing bounds the extraction of files or a silent provider, so neither is fair.
\* A timer fires, and a provider whose signal is aborted returns.
Fairness ==
    \A r \in Requests :
        /\ WF_vars(Handler(r))
        /\ WF_vars(TimeoutFires(r))
        /\ WF_vars(SignalAborted(r) /\ StreamEnds(r))

Spec == Init /\ [][Next]_vars

FairSpec == Spec /\ Fairness

-----------------------------------------------------------------------------
(* Properties.                                                             *)

\* Every variable has its type; an answer never holds more than was streamed.
TypeOK ==
    /\ pc \in [Requests -> Stages]
    /\ reply \in [Requests -> Replies]
    /\ stored \in [Requests -> SUBSET {"question", "files", "removedFiles"}]
    /\ live \subseteq Conversations
    /\ chunks \in [Requests -> 0 .. MaxTokens]
    /\ aborted \in [Requests -> BOOLEAN]
    /\ timer \in [Requests -> {"off", "armed", "fired"}]
    /\ said \in [Requests -> {"nothing", "ready", "done", "error", "httpError"}]
    /\ faults \in [Requests -> SUBSET {"refused", "unacknowledged"}]

\* A client that stopped the request while it was listened to never finds a failed
\* answer: not after an extraction error, a provider error or a timeout that came
\* after the abort (the comment above the catch block's first test), nor after a
\* stop whose first save failed.
StopWins == \A r \in Requests : aborted[r] => reply[r].status # "FAILED"

\* What the client was told last agrees with what is stored.  After 'done' the row
\* is the whole streamed answer; after 'error' it is an answer only if the database
\* lost an acknowledgement; a row marked stopped is one whose client stopped.
ToldWhatIsStored ==
    \A r \in Requests :
        /\ said[r] = "done" =>
              /\ reply[r].status \in {"SUCCESS", "removed"}
              /\ ~reply[r].stopped
              /\ reply[r].content = chunks[r]
        /\ said[r] = "error" /\ reply[r].status = "SUCCESS" =>
              "unacknowledged" \in faults[r]
        /\ reply[r].stopped => aborted[r] /\ reply[r].content = chunks[r]

\* A row that stays PENDING has a handler that will settle it, unless the process
\* died or a write of that very row went wrong: the only ways the code leaves a
\* message pending for ever.
PendingHasOwner ==
    \A r \in Requests :
        reply[r].status = "PENDING" =>
            pc[r] \in InFlight \/ pc[r] = "lost" \/ faults[r] # {}

\* Once the client has read 'ready', its question and the assistant row are in the
\* database for as long as the conversation is, and so are the files it uploaded unless
\* their owner has removed them: a later failure of extraction, provider or save loses
\* none of them (the comment above saveMessageAttachments).
ReadyIsDurable ==
    \A r \in Requests :
        said[r] \in {"ready", "done", "error"} /\ ConversationOf[r] \in live =>
            /\ Exists(r)
            /\ "question" \in stored[r]
            /\ r \in WithFiles => stored[r] \cap {"files", "removedFiles"} # {}

\* A settled row is written again only by a handler that could not know that its
\* first save had committed.
SettledOnce ==
    [][\A r \in Requests :
          /\ reply[r].status \in {"SUCCESS", "FAILED"}
          /\ Exists(r)'
          /\ reply'[r] # reply[r]
          => "unacknowledged" \in faults[r]]_vars

\* Once the stream is open the row leaves PENDING, however silent the provider is
\* and whenever the client goes: the timeout of AiService.stream sees to it.
StreamSettles ==
    \A r \in Requests :
        pc[r] = "streaming" ~>
            \/ reply[r].status # "PENDING"
            \/ pc[r] = "lost"
            \/ faults[r] # {}

\* Where a row is in the life MessageLifecycle describes.
Phase(row) ==
    CASE row.status = "PENDING" -> "pending"
      [] row.status = "FAILED"  -> "failed"
      [] row.status = "SUCCESS" -> IF row.stopped THEN "stopped" ELSE "answered"
      [] OTHER                  -> row.status

Lifecycle == INSTANCE MessageLifecycle WITH
    Messages <- Requests,
    state    <- [r \in Requests |-> Phase(reply[r])]

\* The rows of the handlers live as MessageLifecycle says.
LifecycleSpec == Lifecycle!Spec

=============================================================================
