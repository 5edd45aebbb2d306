--------------------------- MODULE ChunkedUpload ---------------------------
(***************************************************************************)
(* One upload session of services/chunked-upload.service.ts and every      *)
(* request that names it: uploadChunk, completeUpload and cancelUpload run  *)
(* concurrently over a session record and a lock in Redis, a temporary      *)
(* directory on disk, and the two stores of the storage manager.  A step is *)
(* one awaited call.  A handler works on its own copy of the session, which *)
(* it read once.                                                            *)
(*                                                                          *)
(* The content of a chunk is its index: whoever sends chunk i sends the     *)
(* same bytes.  A chunk's file is written in more than one piece, here two:  *)
(* with both it is whole, with the tail alone it has the right size and a    *)
(* hole.  An assembled file is the set of chunks that were written at their *)
(* place and its size in chunks; a chunk below the size that was never      *)
(* written is a hole.  A file goes by the name of the request that created  *)
(* it, and keeps it when it is renamed or unlinked.                         *)
(***************************************************************************)
EXTENDS Integers, FiniteSets

CONSTANTS
    NumChunks,       \* totalChunks of the session
    Uploaders,       \* uploadChunk requests
    ChunkOf,         \* the chunk each of them sends
    Completers,      \* completeUpload requests
    Cancellers,      \* cancelUpload requests
    NoOne            \* no process

Chunks == 0 .. NumChunks - 1

Handlers == Uploaders \cup Completers \cup Cancellers

ASSUME UploadAssumption ==
    /\ NumChunks \in Nat \ {0}
    /\ ChunkOf \in [Uploaders -> Chunks]
    /\ NoOne \notin Handlers
    /\ IsFiniteSet(Completers)
    /\ Uploaders \cap Completers = {}
    /\ Uploaders \cap Cancellers = {}
    /\ Completers \cap Cancellers = {}

VARIABLES
    pc,        \* pc[p]: the call handler p awaits next
    frame,     \* frame[p]: its locals: the uploadedChunks it read and, for a completer,
               \* the file it has open, the index of the chunk it copies next and
               \* where in the file that will go
    result,    \* result[p]: what the client of p was answered
    session,   \* Redis: the session record
    lock,      \* Redis: the completer whose lock is held
    expired,   \* whether expiresAt of the session has passed
    dir,       \* disk: whether the session's directory exists
    temp,      \* disk: temp[i]: the file at the temporary name of chunk i
    part,      \* disk: part[i]: the file at the name of chunk i
    opened,    \* disk: opened[u]: the chunk file uploader u writes to
    chunk,     \* disk: the pieces in each chunk file
    path,      \* disk: the file at assembled.tmp
    file,      \* disk: the content of each such file
    asset,     \* Cloudinary: the asset of this upload
    local,     \* local[c]: the file completer c moved into the local store
    troubled,  \* history: completers that met an I/O error or a crash
    overrun,   \* history: completers whose lock expired before they were over
    clashed    \* history: chunks two uploaders wrote at the same time

redis == <<session, lock, expired>>
chunkFiles == <<temp, part, opened, chunk>>
disk  == <<dir, chunkFiles, path, file>>
store == <<asset, local>>
history == <<troubled, overrun, clashed>>
vars  == <<pc, frame, result, redis, disk, store, history>>

-----------------------------------------------------------------------------
NoSession == [status |-> "none", chunks |-> {}]

Sessions == [status : {"none", "INITIALIZED", "UPLOADING", "ASSEMBLING", "STORING",
                       "COMPLETED", "CANCELLED", "FAILED"},
             chunks : SUBSET Chunks]

EmptyFile == [written |-> {}, size |-> 0]

Files == [written : SUBSET Chunks, size : 0 .. NumChunks]

Pieces == {"head", "tail"}

NoFrame == [chunks |-> {}, handle |-> NoOne, index |-> 0, at |-> 0]

Frames ==
    {f \in [chunks : SUBSET Chunks, handle : Completers \cup {NoOne},
            index : 0 .. NumChunks, at : 0 .. NumChunks] : f.at <= f.index}

NoAsset == [written |-> {}, size |-> -1]

Stages == {"idle", "reading", "making", "creating", "heading", "tailing", "renaming",
           "saving", "marking", "removing", "opening", "copying", "measuring",
           "announcing", "sending", "moving", "completing", "cleaning", "deleting",
           "failing", "returning", "throwing", "cancelling", "expiring", "forgetting",
           "over"}

\* initializeUpload made the directory and the record before any client knew the id.
Init ==
    /\ pc = [p \in Handlers |-> "idle"]
    /\ frame = [p \in Handlers |-> NoFrame]
    /\ result = [p \in Handlers |-> "none"]
    /\ session = [status |-> "INITIALIZED", chunks |-> {}]
    /\ lock = NoOne
    /\ expired = FALSE
    /\ dir = TRUE
    /\ temp = [i \in Chunks |-> NoOne]
    /\ part = [i \in Chunks |-> NoOne]
    /\ opened = [u \in Uploaders |-> NoOne]
    /\ chunk = [u \in Uploaders |-> {}]
    /\ path = NoOne
    /\ file = [c \in Completers |-> EmptyFile]
    /\ asset = NoAsset
    /\ local = [c \in Completers |-> NoOne]
    /\ troubled = {}
    /\ overrun = {}
    /\ clashed = {}

-----------------------------------------------------------------------------
GoWith(p, stage, locals) ==
    /\ pc' = [pc EXCEPT ![p] = stage]
    /\ frame' = [frame EXCEPT ![p] = locals]
    /\ UNCHANGED result

Go(p, stage) == GoWith(p, stage, frame[p])

\* The handler is over and its locals are gone.
Answer(p, r) ==
    /\ pc' = [pc EXCEPT ![p] = "over"]
    /\ frame' = [frame EXCEPT ![p] = NoFrame]
    /\ result' = [result EXCEPT ![p] = r]

\* saveSession writes the whole record: the handler's status and its own list.
Save(status, chunks) ==
    /\ session' = [status |-> status, chunks |-> chunks]
    /\ UNCHANGED <<lock, expired, disk, store, history>>

Mark(p, from, status, to) ==
    /\ pc[p] = from
    /\ Save(status, frame[p].chunks)
    /\ Go(p, to)

Unwritable == {"ASSEMBLING", "STORING", "COMPLETED", "CANCELLED"}

\* getOwnedSession refuses a request without a session and cleans up an expired one.
ReadRefused(p) ==
    \/ session = NoSession /\ Answer(p, "error")
    \/ session # NoSession /\ expired /\ Go(p, "expiring")

\* What a handler that got its session keeps of it.
ReadFrame == [NoFrame EXCEPT !.chunks = session.chunks]

-----------------------------------------------------------------------------
(* uploadChunk.  The definitions named ...Mutant are faulty variants of the *)
(* operator that follows them; no specification uses them.                  *)

\* The session is read, and refused when it no longer takes chunks.
ReceiveChunk(u) ==
    /\ pc[u] = "idle"
    /\ \/ ReadRefused(u)
       \/ /\ session # NoSession /\ ~expired
          /\ IF session.status \in Unwritable
             THEN Answer(u, "error")
             ELSE GoWith(u, "making", ReadFrame)
    /\ UNCHANGED <<redis, disk, store, history>>

MakeDirectory(u) ==
    /\ pc[u] = "making"
    /\ dir' = TRUE
    /\ Go(u, "creating")
    /\ UNCHANGED <<chunkFiles, path, file, redis, store, history>>

Writing(u) == pc[u] \in {"heading", "tailing", "renaming"}

\* Opening the temporary name creates a file there, or truncates the one of an upload
\* of the same chunk.
OpenTemp(u) ==
    LET i == ChunkOf[u]
        target == IF temp[i] = NoOne THEN u ELSE temp[i]
    IN  /\ pc[u] = "creating"
        /\ IF dir
           THEN /\ temp' = [temp EXCEPT ![i] = target]
                /\ opened' = [opened EXCEPT ![u] = target]
                /\ chunk' = [chunk EXCEPT ![target] = {}]
                /\ clashed' = IF \E v \in Uploaders : ChunkOf[v] = i /\ Writing(v)
                              THEN clashed \cup {i} ELSE clashed
                /\ Go(u, "heading")
           ELSE Answer(u, "error") /\ UNCHANGED <<temp, opened, chunk, clashed>>
        /\ UNCHANGED <<dir, part, path, file, redis, store, troubled, overrun>>

WritePiece(u, from, piece, to) ==
    /\ pc[u] = from
    /\ chunk' = [chunk EXCEPT ![opened[u]] = @ \cup {piece}]
    /\ Go(u, to)
    /\ UNCHANGED <<dir, temp, part, opened, path, file, redis, store, history>>

WriteTemp(u) ==
    \/ WritePiece(u, "heading", "head", "tailing")
    \/ WritePiece(u, "tailing", "tail", "renaming")

\* Whatever file is at the temporary name by now becomes the chunk.
RenameTemp(u) ==
    LET i == ChunkOf[u]
    IN  /\ pc[u] = "renaming"
        /\ IF temp[i] # NoOne
           THEN /\ part' = [part EXCEPT ![i] = temp[i]]
                /\ temp' = [temp EXCEPT ![i] = NoOne]
                /\ Go(u, "saving")
           ELSE Answer(u, "error") /\ UNCHANGED <<part, temp>>
        /\ UNCHANGED <<dir, opened, chunk, path, file, redis, store, history>>

AddedOneBasedMutant(u) == {ChunkOf[u] + 1}

AddedInOrderMutant(u) == 0 .. ChunkOf[u]

Added(u) == {ChunkOf[u]}

\* The record saved is the copy read before the write, with this chunk added.
RecordChunk(u) ==
    /\ pc[u] = "saving"
    /\ Save("UPLOADING", frame[u].chunks \cup Added(u))
    /\ Answer(u, "ok")

-----------------------------------------------------------------------------
(* completeUpload.                                                          *)

AcquireMutant(c) == lock' = c /\ Go(c, "reading") /\ UNCHANGED troubled

\* SET NX: the lock is taken, found taken, or taken by a call that then fails.
Acquire(c) ==
    \/ lock = NoOne /\ lock' = c /\ Go(c, "reading") /\ UNCHANGED troubled
    \/ lock # NoOne /\ Answer(c, "error") /\ UNCHANGED <<lock, troubled>>
    \/ /\ lock = NoOne /\ lock' = c /\ Answer(c, "error")
       /\ troubled' = troubled \cup {c}

StartCompletion(c) ==
    /\ pc[c] = "idle"
    /\ Acquire(c)
    /\ UNCHANGED <<session, expired, disk, store, overrun, clashed>>

\* The session is read before the try block: a refusal here leaves the lock to its
\* expiry.  Missing chunks are an error inside it.
ReadForCompletion(c) ==
    /\ pc[c] = "reading"
    /\ \/ ReadRefused(c)
       \/ /\ session # NoSession /\ ~expired
          /\ GoWith(c, IF session.chunks = Chunks THEN "marking" ELSE "failing", ReadFrame)
    /\ UNCHANGED <<redis, disk, store, history>>

MarkAssembling(c) == Mark(c, "marking", "ASSEMBLING", "removing")

RemoveOldAssembly(c) ==
    /\ pc[c] = "removing"
    /\ path' = NoOne
    /\ Go(c, "opening")
    /\ UNCHANGED <<redis, dir, chunkFiles, file, store, history>>

\* open(..., 'w') creates assembled.tmp or truncates the one another completer made.
OpenAssembly(c) ==
    /\ pc[c] = "opening"
    /\ IF dir
       THEN LET target == IF path = NoOne THEN c ELSE path
            IN  /\ path' = target
                /\ file' = [file EXCEPT ![target] = EmptyFile]
                /\ GoWith(c, "copying", [frame[c] EXCEPT !.handle = target])
       ELSE Go(c, "failing") /\ UNCHANGED <<path, file>>
    /\ UNCHANGED <<redis, dir, chunkFiles, store, history>>

Present == {i \in Chunks : part[i] # NoOne}

\* A chunk lands after those the completer has written; if it is short, all that follow
\* land too early.  How short it is does not matter, so it adds nothing here.
Appended(f, i, at, pieces) ==
    IF "tail" \in pieces
    THEN [written |-> IF at = i /\ pieces = Pieces THEN f.written \cup {i}
                      ELSE f.written \ {at},
          size    |-> IF f.size > at THEN f.size ELSE at + 1]
    ELSE f

\* One chunk is read and written where the handle of this completer stands, which may
\* be in a file that is no longer at assembled.tmp.
CopyChunk(c) ==
    LET i  == frame[c].index
        at == frame[c].at
        pieces == chunk[part[i]]
    IN  /\ pc[c] = "copying"
        /\ IF i \in Present
           THEN /\ file' = [file EXCEPT ![frame[c].handle] = Appended(@, i, at, pieces)]
                /\ GoWith(c, IF i + 1 = NumChunks THEN "measuring" ELSE "copying",
                             [frame[c] EXCEPT !.index = i + 1,
                                 !.at = IF "tail" \in pieces THEN at + 1 ELSE at])
           ELSE Go(c, "failing") /\ UNCHANGED file
        /\ UNCHANGED <<redis, dir, chunkFiles, path, store, history>>

MeasuredMutant(c) == path # NoOne

\* stat of assembled.tmp finds a file of the announced size.
Measured(c) == path # NoOne /\ file[path].size = NumChunks

MeasureAssembly(c) ==
    /\ pc[c] = "measuring"
    /\ Go(c, IF Measured(c) THEN "announcing" ELSE "failing")
    /\ UNCHANGED <<redis, disk, store, history>>

MarkStoring(c) == Mark(c, "announcing", "STORING", "sending")

\* The upload to Cloudinary, under a name made of the upload's id and never
\* overwritten.  It succeeds; it is refused for good; it fails in a way that sends
\* the storage manager to the local store, perhaps after the asset was made.
SendToCloudinary(c) ==
    /\ pc[c] = "sending"
    /\ \/ /\ path # NoOne
          /\ asset' = IF asset = NoAsset THEN file[path] ELSE asset
          /\ \/ Go(c, "completing") /\ UNCHANGED troubled
             \/ Go(c, "moving") /\ troubled' = troubled \cup {c}
       \/ \E next \in {"moving", "failing"} : Go(c, next) /\ UNCHANGED <<asset, troubled>>
    /\ UNCHANGED <<redis, disk, local, overrun, clashed>>

\* The local store renames assembled.tmp to a name of its own.
MoveToLocalStore(c) ==
    /\ pc[c] = "moving"
    /\ IF path # NoOne
       THEN local' = [local EXCEPT ![c] = path] /\ path' = NoOne /\ Go(c, "completing")
       ELSE Go(c, "failing") /\ UNCHANGED <<local, path>>
    /\ UNCHANGED <<redis, dir, chunkFiles, file, asset, history>>

MarkCompleted(c) == Mark(c, "completing", "COMPLETED", "cleaning")

\* The catch block: the session can be written to again, and the error is rethrown.
MarkFailed(c) == Mark(c, "failing", "FAILED", "throwing")

\* The finally block deletes the lock key, whoever holds it.
Unlock(c) ==
    /\ pc[c] \in {"returning", "throwing"}
    /\ lock' = NoOne
    /\ Answer(c, IF pc[c] = "returning" THEN "ok" ELSE "error")
    /\ UNCHANGED <<session, expired, disk, store, history>>

-----------------------------------------------------------------------------
(* cancelUpload, which takes no lock, and the clean-up it shares with a      *)
(* completion and with the reader of an expired session.                     *)

StartCancel(x) ==
    /\ pc[x] = "idle"
    /\ IF session = NoSession
       THEN Answer(x, "ok")
       ELSE GoWith(x, "cancelling", ReadFrame)
    /\ UNCHANGED <<redis, disk, store, history>>

MarkCancelled(x) == Mark(x, "cancelling", "CANCELLED", "cleaning")

\* rm -r of the session's directory; a missing one is no error.
RemoveFiles ==
    /\ dir' = FALSE
    /\ temp' = [i \in Chunks |-> NoOne]
    /\ part' = [i \in Chunks |-> NoOne]
    /\ path' = NoOne
    /\ UNCHANGED <<opened, chunk, file, redis, store, history>>

Clean(p) == pc[p] = "cleaning" /\ RemoveFiles /\ Go(p, "deleting")

DeletedMutant(p) == p \in Cancellers \/ session # NoSession

\* Deleting a key that is gone already is no error.
Deleted(p) == TRUE

DeleteSession(p) ==
    /\ pc[p] = "deleting"
    /\ session' = NoSession
    /\ CASE ~Deleted(p)      -> Go(p, "failing")
         [] p \in Cancellers -> Answer(p, "ok")
         [] OTHER            -> Go(p, "returning")
    /\ UNCHANGED <<lock, expired, disk, store, history>>

CleanExpired(p) == pc[p] = "expiring" /\ RemoveFiles /\ Go(p, "forgetting")

\* The request is refused; a completer leaves its lock behind.
ForgetExpired(p) ==
    /\ pc[p] = "forgetting"
    /\ session' = NoSession
    /\ Answer(p, "error")
    /\ UNCHANGED <<lock, expired, disk, store, history>>

-----------------------------------------------------------------------------
(* What happens around the handlers.                                       *)

\* The stages inside the try block of completeUpload.
Trying == {"marking", "removing", "opening", "copying", "measuring", "announcing",
           "sending", "moving", "completing", "cleaning", "deleting"}

\* The call p awaits throws.  A completion inside its try block goes to the catch
\* block; the errors of a few clean-up calls are swallowed; any other ends the request.
CallFails(p) ==
    /\ pc[p] \notin {"idle", "over"}
    /\ troubled' = troubled \cup ({p} \cap Completers)
    /\ CASE pc[p] = "cancelling" -> Go(p, "cleaning")
         [] pc[p] = "expiring"   -> Go(p, "forgetting")
         [] pc[p] = "failing"    -> Go(p, "throwing")
         [] pc[p] = "returning"  -> Answer(p, "ok")
         [] p \in Completers /\ pc[p] \in Trying -> Go(p, "failing")
         [] OTHER                -> Answer(p, "error")
    /\ UNCHANGED <<redis, disk, store, overrun, clashed>>

\* The process dies with its handlers; Redis and the disk keep what they have.
Crash ==
    /\ \E p \in Handlers : pc[p] \notin {"idle", "over"}
    /\ LET dead == {p \in Handlers : pc[p] \notin {"idle", "over"}}
       IN  /\ pc' = [p \in Handlers |-> IF p \in dead THEN "over" ELSE pc[p]]
           /\ frame' = [p \in Handlers |-> NoFrame]
           /\ result' = [p \in Handlers |-> IF p \in dead THEN "error" ELSE result[p]]
           /\ troubled' = troubled \cup (dead \cap Completers)
    /\ UNCHANGED <<redis, disk, store, overrun, clashed>>

NoExpiryMutant == FALSE /\ UNCHANGED vars

Completing(c) == pc[c] \notin {"idle", "over"}

\* SET EX: the lock lives for COMPLETE_LOCK_TTL_SECONDS of the clock, and no call of a
\* completion is bounded by them: it may expire under a holder that still works.
LockExpires ==
    /\ lock # NoOne
    /\ lock' = NoOne
    /\ overrun' = overrun \cup {c \in {lock} : Completing(c)}
    /\ UNCHANGED <<pc, frame, result, session, expired, disk, store, troubled, clashed>>

\* Six hours have passed since the session was initialized.
SessionExpires ==
    /\ ~expired
    /\ expired' = TRUE
    /\ UNCHANGED <<pc, frame, result, session, lock, disk, store, history>>

UploaderStep(u) ==
    \/ ReceiveChunk(u) \/ MakeDirectory(u) \/ OpenTemp(u) \/ WriteTemp(u)
    \/ RenameTemp(u) \/ RecordChunk(u)

CompleterStep(c) ==
    \/ StartCompletion(c) \/ ReadForCompletion(c) \/ MarkAssembling(c)
    \/ RemoveOldAssembly(c) \/ OpenAssembly(c) \/ CopyChunk(c) \/ MeasureAssembly(c)
    \/ MarkStoring(c) \/ SendToCloudinary(c) \/ MoveToLocalStore(c)
    \/ MarkCompleted(c) \/ MarkFailed(c) \/ Unlock(c)

CleanUpStep(p) == Clean(p) \/ DeleteSession(p) \/ CleanExpired(p) \/ ForgetExpired(p)

Next ==
    \/ \E u \in Uploaders : UploaderStep(u)
    \/ \E c \in Completers : CompleterStep(c)
    \/ \E x \in Cancellers : StartCancel(x) \/ MarkCancelled(x)
    \/ \E p \in Handlers : CleanUpStep(p) \/ CallFails(p)
    \/ Crash
    \/ LockExpires
    \/ SessionExpires

LeftBehind == lock # NoOne /\ pc[lock] = "over"

\* Every call a completion awaits returns or throws, and Redis expires a lock whose
\* holder is over.
Fairness ==
    /\ \A c \in Completers :
          WF_vars(pc[c] # "idle" /\ (CompleterStep(c) \/ CleanUpStep(c) \/ CallFails(c)))
    /\ WF_vars(LeftBehind /\ LockExpires)

Spec == Init /\ [][Next]_vars

FairSpec == Spec /\ Fairness

-----------------------------------------------------------------------------
(* Properties.                                                             *)

\* Every variable has its type.
TypeOK ==
    /\ pc \in [Handlers -> Stages]
    /\ frame \in [Handlers -> Frames]
    /\ result \in [Handlers -> {"none", "ok", "error"}]
    /\ session \in Sessions
    /\ lock \in Completers \cup {NoOne}
    /\ expired \in BOOLEAN
    /\ dir \in BOOLEAN
    /\ temp \in [Chunks -> Uploaders \cup {NoOne}]
    /\ part \in [Chunks -> Uploaders \cup {NoOne}]
    /\ opened \in [Uploaders -> Uploaders \cup {NoOne}]
    /\ chunk \in [Uploaders -> SUBSET Pieces]
    /\ path \in Completers \cup {NoOne}
    /\ file \in [Completers -> Files]
    /\ asset \in Files \cup {NoAsset}
    /\ local \in [Completers -> Completers \cup {NoOne}]
    /\ troubled \subseteq Completers
    /\ overrun \subseteq Completers
    /\ clashed \subseteq Chunks

\* Completions of one upload exclude each other ('Upload completion is already in
\* progress'), except that a lock that expires under its holder lets in one more: one at
\* most, although the late one frees the lock of the next when it ends, that one the lock
\* of the one after it, and so on (redis.service.ts:43-48, chunked-upload.service.ts:176-178).
CompletersExclude ==
    Cardinality({c \in Completers : Completing(c)}) <= 1 + Cardinality(overrun)

\* The file a completer gave its client the address of.
Given(c) == IF local[c] # NoOne THEN file[local[c]] ELSE asset

\* The file has the size of the session, and every chunk no two uploads wrote at the
\* same time is at its place.
Sound(f) == Chunks \ clashed \subseteq f.written /\ f.size = NumChunks

\* As long as no lock expired under its holder, no file that is short is ever stored,
\* nor one with a hole where a chunk was not torn by two uploads of it, and a client
\* told 'Upload completed' has such a file; whatever chunks, retries, cancellations,
\* session expiries and crashes come meanwhile.
StoredIsWhole ==
    overrun = {} =>
        /\ asset # NoAsset => Sound(asset)
        /\ \A c \in Completers :
              /\ local[c] # NoOne => Sound(file[local[c]])
              /\ result[c] = "ok" => Sound(Given(c))

\* A file is stored without any client being told so only if a call of a completion
\* failed or its process died: concurrent requests alone leave no orphan.
StoredIsReported ==
    (asset # NoAsset \/ \E c \in Completers : local[c] # NoOne)
    /\ (\A c \in Completers : ~Completing(c))
    => \/ \E c \in Completers : result[c] = "ok"
       \/ troubled \cap Completers # {}

\* The directory may have been removed: by a cancellation, by the reader of an expired
\* session, or by a completion that stored its file.
MayBeCleaned ==
    \/ expired
    \/ \E x \in Cancellers : pc[x] # "idle"
    \/ asset # NoAsset
    \/ \E c \in Completers : local[c] # NoOne

\* The chunks a session lists are on disk, so that a completion that passed its check
\* fails on no missing chunk; failed completions and crashes before change nothing.
ListedIsOnDisk == MayBeCleaned \/ session.chunks \subseteq Present

\* A chunk whose client was told 'Chunk uploaded' is listed in the session.
AcknowledgedIsListed ==
    \A u \in Uploaders :
        result[u] = "ok" => MayBeCleaned \/ ChunkOf[u] \in session.chunks

\* The lock never blocks an upload for good, even when its holder leaves it behind.
LockIsFreed == lock # NoOne ~> lock = NoOne

=============================================================================
