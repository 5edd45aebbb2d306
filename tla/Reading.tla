------------------------------ MODULE Reading ------------------------------
(***************************************************************************)
(* What a client is shown: a list, page by page (Pages), or an answer of   *)
(* the model, as its tokens arrive (EventStream), as the message stores it *)
(* and as a document it is exported to (DocxExport).  A client reads one   *)
(* of the two; the export of a message runs beside the request that        *)
(* streams it, and the conversation may be deleted meanwhile.              *)
(***************************************************************************)
EXTENDS DocxExport

CONSTANTS
    Listings, Ids, Limit, MaxTime, MaxChanges,   \* of Pages
    Tokens, Bodies,                              \* of EventStream; an empty body is one of Bodies
    Text                                         \* Text[t]: what the token t reads

VARIABLES
    view,          \* "list" or "answer"
    listing, table, walk, changes, shown, steady, moved, fallen, lost, shifted,
    blocks, body, buffer, step, yielded,
    present,       \* whether the conversation is there, and its messages with it
    status,        \* the status of the answer's row
    content,       \* its content
    export         \* the request for a document: the message it asks for, its await, what it holds

Lists == INSTANCE Pages
Events == INSTANCE EventStream

ASSUME ReadingAssumption ==
    /\ Lists!PagesAssumption
    /\ Events!EventsAssumption
    /\ <<>> \in Bodies
    /\ Text \in [Tokens -> Seq(STRING)]

listVars == <<listing, table, walk, changes, shown, steady, moved, fallen, lost, shifted>>
eventVars == <<blocks, body, buffer, step, yielded>>
messageVars == <<present, status, content, export>>
vars == <<view, listVars, eventVars, messageVars>>

NoExport == [of |-> "none", step |-> "idle", text |-> <<>>, status |-> "PENDING"]

Init ==
    /\ view \in {"list", "answer"}
    /\ Lists!Init
    /\ Events!Init
    /\ IF view = "list" THEN blocks = <<>> ELSE listing = (CHOOSE any \in Listings : TRUE) /\ table = {}
    /\ present = TRUE
    /\ status = "PENDING"
    /\ content = <<>>
    /\ export = NoExport

Walk ==
    /\ view = "list"
    /\ Lists!Next
    /\ UNCHANGED <<view, eventVars, messageVars>>

-----------------------------------------------------------------------------
(* An answer, from its tokens to its document.                             *)

Stream ==
    /\ view = "answer"
    /\ Events!Next
    /\ UNCHANGED <<view, listVars, messageVars>>

TextOf(tokens) == FlattenSeq([i \in DOMAIN tokens |-> Text[tokens[i]]])

ErrorText == <<"error">>

\* trim() of a text whose only blanks are line feeds.
Trimmed(text) ==
    LET kept == {i \in DOMAIN text : text[i] # NewLine}
    IN  IF kept = {} THEN <<>> ELSE SubSeq(text, Min(kept), Max(kept))

\* getFailedAssistantContent: what has come, or the error if that is blank.
FailedText == IF Trimmed(TextOf(yielded)) = <<>> THEN ErrorText ELSE Trimmed(TextOf(yielded))

\* The stream came through or was stopped.
SaveAnswer ==
    /\ view = "answer"
    /\ step \in {"done", "broken"}
    /\ present /\ status = "PENDING"
    /\ status' = "SUCCESS"
    /\ content' = TextOf(yielded)
    /\ UNCHANGED <<view, listVars, eventVars, present, export>>

\* The catch block, after an error of the stream, or after a save of the whole answer that was
\* refused or whose acknowledgement was lost.
SaveFailure ==
    /\ view = "answer"
    /\ step \in {"done", "broken"}
    /\ present
    /\ status = "PENDING" \/ (status = "SUCCESS" /\ step = "done")
    /\ status' = "FAILED"
    /\ content' = FailedText
    /\ UNCHANGED <<view, listVars, eventVars, present, export>>

DeleteConversation ==
    /\ view = "answer"
    /\ present
    /\ present' = FALSE
    /\ UNCHANGED <<view, listVars, eventVars, status, content, export>>

\* exportMessageDocx of the answer, or of the question above it.
Ask ==
    /\ view = "answer"
    /\ export = NoExport
    /\ \E of \in {"answer", "question"} : export' = [NoExport EXCEPT !.of = of, !.step = "finding"]
    /\ UNCHANGED <<view, listVars, eventVars, present, status, content>>

\* The query for the message, whatever its status.
FindMessage ==
    /\ export.step = "finding"
    /\ export' = IF present
                 THEN [export EXCEPT !.step = "checking", !.text = content, !.status = status]
                 ELSE [export EXCEPT !.step = "refused"]
    /\ UNCHANGED <<view, listVars, eventVars, present, status, content>>

\* The query for the conversation; only answers are exported.
FindConversation ==
    /\ export.step = "checking"
    /\ export' = [export EXCEPT !.step = IF present /\ export.of = "answer" THEN "done" ELSE "refused"]
    /\ UNCHANGED <<view, listVars, eventVars, present, status, content>>

Next ==
    \/ Walk
    \/ Stream \/ SaveAnswer \/ SaveFailure \/ DeleteConversation
    \/ Ask \/ FindMessage \/ FindConversation

Spec == Init /\ [][Next]_vars

-----------------------------------------------------------------------------

(* Of the list a client walks through: Pages says what these promise       *)
(* (conversation.repository.ts:97-149, attachment.repository.ts:35-68,     *)
(* user.repository.ts:157-165, group.repository.ts:122-152 and 184-192).   *)
RepeatsNeedAMove == Lists!RepeatsNeedAMove

(* A walk that is through has shown every row that was there throughout    *)
(* (pagination.util.ts:64-96), as Pages says.                              *)
SteadyRowsAreShown == Lists!SteadyRowsAreShown

(* The tokens of an answer do not depend on how the network cuts it        *)
(* (services/ai/flowise.provider.ts:70-141), as EventStream says.          *)
TokensAreTheStream == Events!TokensAreTheStream

(* The document of an answer reads every word the model sent, in order,    *)
(* however the tokens cut marks and lines, and of a stream that broke off  *)
(* the words that came; the error alone if the answer failed without any;  *)
(* nothing before the answer was saved (message.controller.ts:136-142,     *)
(* 185-189, 262-266, message.service.ts:248-364).                          *)
DocumentIsTheAnswer ==
    export.step = "done" =>
        LET read == Words(Content(Document(export.text)))
            came == Words(TextOf(IF step = "done" THEN Events!Sent ELSE yielded))
        IN  \/ export.status = "PENDING" /\ read = <<>>
            \/ export.status # "PENDING" /\ read = came
            \/ export.status = "FAILED" /\ came = <<>> /\ read = ErrorText

=============================================================================
