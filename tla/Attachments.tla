---------------------------- MODULE Attachments ----------------------------
(***************************************************************************)
(* The attachments of one user: rows of conversation_attachments, and the  *)
(* stored assets their addresses lead to.  A message attaches uploaded     *)
(* files and reads their text; a client takes back an upload it did not    *)
(* send (deleteTemporaryUpload) or deletes attachments it sent             *)
(* (deleteUserAttachments); a conversation takes its rows with it.  Rows   *)
(* and assets live in different systems, and no transaction spans both.    *)
(*                                                                         *)
(* A step is one awaited call: a query, the deletion or the reading of one *)
(* asset.  The two attempts to fetch a file are one step, since either the *)
(* second finds what the first did not or the request fails.  Content is   *)
(* the upload it came from; sizes, the limit of characters and what the    *)
(* parsers do are a choice between success and failure.                    *)
(***************************************************************************)
EXTENDS StoredFiles

CONSTANTS
    Uploads,         \* the files that may be uploaded
    Messages,        \* the lists of files that messages are sent with
    Conversations,   \* the conversations of the user
    Requests,        \* the requests that may be under way together
    Serves,          \* Serves[r]: what the request r may be, of "send", "discard", "remove"
    MaxRows          \* how many rows are ever created

ASSUME AttachmentsAssumption ==
    /\ MaxRows \in Nat
    /\ Messages \subseteq Seq(Uploads)
    /\ \A u, v \in Uploads : u.id = v.id => u = v

VARIABLES
    assets,          \* what both stores hold
    uploaded,        \* the uploads whose address the client has
    rows,            \* the rows: an id, the upload whose address it has, its conversation
    nextId,          \* ids are given out in order and never again
    conversations,   \* the conversations that exist
    task,            \* task[r]: the request and the await it stands at
    erased,          \* history: the uploads the stores deleted, by their own account
    excused          \* history: ids of rows that lost their asset for a known reason

vars == <<assets, uploaded, rows, nextId, conversations, task, erased, excused>>

Ids == 1..MaxRows

Idle == [op |-> "none", step |-> "idle"]

Init ==
    /\ assets = {}
    /\ uploaded = {}
    /\ rows = {}
    /\ nextId = 1
    /\ conversations = Conversations
    /\ task = [r \in Requests |-> Idle]
    /\ erased = {}
    /\ excused = {}

Busy == {r \in Requests : task[r].op # "none"}

At(r, op, step) == task[r].op = op /\ task[r].step = step

Ends(r) == task' = [task EXCEPT ![r] = Idle]

RowsOf(u) == {row \in rows : row.file = u}

IdsOf(some) == {row.id : row \in some}

Stored(u) == AssetOf(u) \in assets

-----------------------------------------------------------------------------
(* Uploading, and sending a message with files.                            *)

\* The end of completeUpload, which ChunkedUpload opens up.
Upload(u) ==
    /\ u \notin uploaded
    /\ uploaded' = uploaded \cup {u}
    /\ assets' = assets \cup {AssetOf(u)}
    /\ UNCHANGED <<rows, nextId, conversations, task, erased, excused>>

\* prepareMessageStream has stored the message; saveMessageAttachments comes next.
Send(r, files, c) ==
    /\ "send" \in Serves[r]
    /\ task[r] = Idle
    /\ c \in conversations
    /\ ToSet(files) \subseteq uploaded
    /\ task' = [task EXCEPT ![r] =
                   [op |-> "send", step |-> "attaching", files |-> files, of |-> c,
                    documents |-> [i \in DOMAIN files |-> "unread"]]]
    /\ UNCHANGED <<assets, uploaded, rows, nextId, conversations, erased, excused>>

NewRows(files, c) ==
    {[id |-> nextId + i - 1, file |-> files[i], of |-> c] : i \in DOMAIN files}

\* One insert of all rows; it refuses rows of a message that is gone, nobody asks whether
\* the assets are still there, and the acknowledgement may be lost.
AttachFiles(r) ==
    /\ At(r, "send", "attaching")
    /\ task[r].of \in conversations
    /\ LET new == NewRows(task[r].files, task[r].of) IN
       /\ IdsOf(new) \subseteq Ids
       /\ rows' = rows \cup new
       /\ nextId' = nextId + Len(task[r].files)
       /\ excused' = excused \cup {row.id : row \in {n \in new : ~Stored(n.file)}}
    /\ \/ task' = [task EXCEPT ![r].step = "reading"]
       \/ Ends(r)
    /\ UNCHANGED <<assets, uploaded, conversations, erased>>

PlaceMutant(r, i) == Cardinality({j \in DOMAIN task[r].files : task[r].documents[j] # "unread"}) + 1

\* Promise.all keeps each result in the place of its file.
Place(r, i) == i

\* processFilesFromUrls reads the files beside each other.
ReadFile(r, i) ==
    /\ At(r, "send", "reading")
    /\ i \in DOMAIN task[r].files
    /\ task[r].documents[i] = "unread"
    /\ \E v \in Uploads :
          /\ AssetOf(v) \in Readable(UrlOf(task[r].files[i])) \cap assets
          /\ task' = [task EXCEPT ![r].documents[Place(r, i)] = v.id]
    /\ UNCHANGED <<assets, uploaded, rows, nextId, conversations, erased, excused>>

AllRead(r) == \A i \in DOMAIN task[r].files : task[r].documents[i] # "unread"

\* The texts are extracted once all files are read, and the model is asked.
ExtractText(r) ==
    /\ At(r, "send", "reading")
    /\ AllRead(r)
    /\ \A i \in DOMAIN task[r].files : Parser(task[r].files[i]) # "none"
    /\ task' = [task EXCEPT ![r].step = "streaming"]
    /\ UNCHANGED <<assets, uploaded, rows, nextId, conversations, erased, excused>>

\* A file is missing or too large, and Promise.all rejects with the first error; reads
\* that are still under way are of no use any more.  The rows stay.
ReadFails(r) ==
    /\ At(r, "send", "reading")
    /\ ~AllRead(r)
    /\ Ends(r)
    /\ UNCHANGED <<assets, uploaded, rows, nextId, conversations, erased, excused>>

\* A parser is missing or throws, or a text is too long.
ExtractFails(r) ==
    /\ At(r, "send", "reading")
    /\ AllRead(r)
    /\ Ends(r)
    /\ UNCHANGED <<assets, uploaded, rows, nextId, conversations, erased, excused>>

\* The insert is refused, or the stream is over.
SendEnds(r) ==
    /\ At(r, "send", "attaching") \/ At(r, "send", "streaming")
    /\ Ends(r)
    /\ UNCHANGED <<assets, uploaded, rows, nextId, conversations, erased, excused>>

-----------------------------------------------------------------------------
(* Deleting.                                                               *)

Discard(r, u) ==
    /\ "discard" \in Serves[r]
    /\ task[r] = Idle
    /\ u \in uploaded
    /\ task' = [task EXCEPT ![r] = [op |-> "discard", step |-> "checking", file |-> u]]
    /\ UNCHANGED <<assets, uploaded, rows, nextId, conversations, erased, excused>>

IsSavedMutant(u) == FALSE

\* existsByUrlAndUserId.
IsSaved(u) == \E row \in rows : row.file = u

\* An upload that a message holds is left alone.
CheckDiscard(r) ==
    /\ At(r, "discard", "checking")
    /\ IF IsSaved(task[r].file)
       THEN Ends(r)
       ELSE task' = [task EXCEPT ![r] =
                        [op |-> "discard", step |-> "erasing", doomed |-> {task[r].file},
                         listed |-> {}, seen |-> nextId]]
    /\ UNCHANGED <<assets, uploaded, rows, nextId, conversations, erased, excused>>

DeleteAttachments(r, ids) ==
    /\ "remove" \in Serves[r]
    /\ task[r] = Idle
    /\ task' = [task EXCEPT ![r] = [op |-> "remove", step |-> "finding", ids |-> ids]]
    /\ UNCHANGED <<assets, uploaded, rows, nextId, conversations, erased, excused>>

\* findManyByIdsAndUserId; ids it does not find are reported and forgotten.
FindRows(r) ==
    /\ At(r, "remove", "finding")
    /\ LET found == {row \in rows : row.id \in task[r].ids} IN
       task' = [task EXCEPT ![r] =
                   [op |-> "remove", step |-> IF found = {} THEN "deleting" ELSE "erasing",
                    doomed |-> {row.file : row \in found}, listed |-> found, seen |-> nextId]]
    /\ UNCHANGED <<assets, uploaded, rows, nextId, conversations, erased, excused>>

\* Rows that a deletion cannot know: created after it looked, or, for a removal, another
\* row of the same address, which it does not look for.
Unknown(r, u) ==
    {row.id : row \in {x \in RowsOf(u) : x.id >= task[r].seen \/ (task[r].op = "remove" /\ x \notin task[r].listed)}}

\* What is left to do once an asset of the request is dealt with.
Erase(r, u) ==
    LET left == task[r].doomed \ {u} IN
    IF left # {} \/ task[r].op = "remove"
    THEN task' = [task EXCEPT ![r].doomed = left, ![r].step = IF left = {} THEN "deleting" ELSE "erasing"]
    ELSE Ends(r)

\* deleteStoredAsset asks both stores; a missing asset is no error.
EraseAsset(r, u) ==
    /\ task[r].step = "erasing"
    /\ u \in task[r].doomed
    /\ assets' = assets \ Erased(UrlOf(u))
    /\ excused' = excused \cup Unknown(r, u)
    /\ Erase(r, u)
    /\ erased' = erased \cup {u}
    /\ UNCHANGED <<uploaded, rows, nextId, conversations>>

\* A store fails: the error is logged, and the request goes on as if it had not.
EraseFails(r, u) ==
    /\ task[r].step = "erasing"
    /\ u \in task[r].doomed
    /\ Erase(r, u)
    /\ UNCHANGED <<assets, uploaded, rows, nextId, conversations, erased, excused>>

\* deleteManyByIdsAndUserId.
GoneWith(r) == task[r].listed

DeleteRows(r) ==
    /\ At(r, "remove", "deleting")
    /\ rows' = rows \ GoneWith(r)
    /\ excused' = excused \ IdsOf(GoneWith(r))
    /\ Ends(r)
    /\ UNCHANGED <<assets, uploaded, nextId, conversations, erased>>

\* The query throws: the assets are gone and the rows are not.
DeleteFails(r) ==
    /\ task[r].op = "remove"
    /\ task[r].step \in {"finding", "deleting"}
    /\ excused' = IF task[r].step = "deleting"
                  THEN excused \cup (IdsOf(task[r].listed) \cap IdsOf(rows))
                  ELSE excused
    /\ Ends(r)
    /\ UNCHANGED <<assets, uploaded, rows, nextId, conversations, erased>>

\* existsByUrlAndUserId throws.
CheckFails(r) ==
    /\ At(r, "discard", "checking")
    /\ Ends(r)
    /\ UNCHANGED <<assets, uploaded, rows, nextId, conversations, erased, excused>>

\* The cascade of the schema takes messages and rows; the assets stay.
DeleteConversation(c) ==
    /\ c \in conversations
    /\ conversations' = conversations \ {c}
    /\ rows' = {row \in rows : row.of # c}
    /\ excused' = excused \cap IdsOf(rows')
    /\ UNCHANGED <<assets, uploaded, nextId, task, erased>>

-----------------------------------------------------------------------------

\* The rows a removal under way is about to delete.
Going(r) == IF task[r].op = "remove" /\ task[r].step \in {"erasing", "deleting"} THEN task[r].listed ELSE {}

\* The process ends.  Removals of the requests in torn are broken off between asset and row.
CutOff(torn) ==
    /\ task' = [r \in Requests |-> Idle]
    /\ excused' = excused \cup (IdsOf(UNION {Going(r) : r \in torn}) \cap IdsOf(rows))
    /\ UNCHANGED <<assets, uploaded, rows, nextId, conversations, erased>>

Begin(r) ==
    \/ \E files \in Messages, c \in Conversations : Send(r, files, c)
    \/ \E u \in Uploads : Discard(r, u)
    \/ \E ids \in SUBSET (1..(nextId - 1)) \ {{}} : DeleteAttachments(r, ids)

Goes(r) ==
    \/ AttachFiles(r) \/ ExtractText(r)
    \/ \E i \in Ids : ReadFile(r, i)
    \/ CheckDiscard(r) \/ FindRows(r) \/ DeleteRows(r)
    \/ \E u \in Uploads : EraseAsset(r, u) \/ EraseFails(r, u)
    \/ ReadFails(r) \/ ExtractFails(r) \/ SendEnds(r) \/ DeleteFails(r) \/ CheckFails(r)

Elsewhere ==
    \/ \E u \in Uploads : Upload(u)
    \/ \E c \in Conversations : DeleteConversation(c)

Next ==
    \/ \E r \in Requests : Begin(r) \/ Goes(r)
    \/ Elsewhere
    \/ CutOff(Requests)

Spec == Init /\ [][Next]_vars

-----------------------------------------------------------------------------

Tasks ==
    {Idle}
    \cup [op : {"send"}, step : {"attaching", "reading", "streaming"},
          files : Messages, of : Conversations, documents : Seq({"unread"} \cup {u.id : u \in Uploads})]
    \cup [op : {"discard"}, step : {"checking"}, file : Uploads]
    \cup [op : {"remove"}, step : {"finding"}, ids : SUBSET Ids]
    \cup [op : {"discard", "remove"}, step : {"erasing", "deleting"}, doomed : SUBSET Uploads,
          listed : SUBSET [id : Ids, file : Uploads, of : Conversations], seen : 1..(MaxRows + 1)]

TypeOK ==
    /\ assets \subseteq {AssetOf(u) : u \in Uploads}
    /\ uploaded \subseteq Uploads
    /\ rows \subseteq [id : Ids, file : Uploads, of : Conversations]
    /\ nextId \in 1..(MaxRows + 1)
    /\ conversations \subseteq Conversations
    /\ task \in [Requests -> Tasks]
    /\ erased \subseteq uploaded
    /\ excused \subseteq Ids

(* A row whose asset is gone is about to be deleted, or the deletion could *)
(* not know of it: it was attached after a client took the upload back, it *)
(* shares the address with a removed row, or the removal was broken off by *)
(* an error or by the end of the process (attachment.service.ts:52-89).    *)
DanglingHasCause ==
    \A row \in rows : Stored(row.file) \/ row.id \in excused \/ \E r \in Requests : row \in Going(r)

(* A deletion that meets no error finds the asset from its address, and    *)
(* the asset never comes back (local-storage.service.ts:49-60,             *)
(* cloudinary.service.ts:23-38 and 91-129).                                *)
ErasedIsGone == \A u \in erased : ~Stored(u)

(* The model is asked only with a text for every file of the message, each *)
(* the text of that file and in its place (file.service.ts:55-88).         *)
DocumentsAreTheFiles ==
    \A r \in Requests :
        At(r, "send", "streaming") => \A i \in DOMAIN task[r].files : task[r].documents[i] = task[r].files[i].id

=============================================================================
