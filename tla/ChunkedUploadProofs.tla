------------------------ MODULE ChunkedUploadProofs ------------------------
(***************************************************************************)
(* What is proved of ChunkedUpload, for any number of chunks and requests. *)
(* No theorem assumes anything of the time a completion takes.              *)
(*                                                                          *)
(* A chunk that no two uploads wrote at the same time is whole once it has  *)
(* its name (WholeUnlessClashed): its only writer is the one whose file is  *)
(* at the temporary name.                                                   *)
(*                                                                          *)
(* Until a lock has expired under its holder, the completion under way      *)
(* holds the lock (LockHeld), hence it is alone.  The file it has open is   *)
(* in no store and, unless a short chunk made it stand behind the one it    *)
(* copies next, holds the chunks before that one (Assembled); so a file     *)
(* that is found to have the size of the session is sound.                  *)
(* A stored file stays so because whoever opens assembled.tmp truncates a   *)
(* file of its own or the one still at that path, and a stored one has left *)
(* it (PathIsOpened, LocalIsSound).                                         *)
(*                                                                          *)
(* A lock that expires under its holder makes that one late.  A late        *)
(* completion that ends may free the lock of another, which is late then in *)
(* its place; so there are never more late ones than locks have expired     *)
(* under their holders (LInv).                                              *)
(*                                                                          *)
(* Two invariants have nothing to do with the lock.  Whoever stores a file  *)
(* is on a path that ends in the answer 'ok' unless it meets an error       *)
(* (TellsOrFails).  What any handler has read of the session's list, which  *)
(* is what it may write back, is on disk (ReadIsOnDisk) until one of those  *)
(* that may remove the directory is on its way (Removers).                  *)
(***************************************************************************)
EXTENDS ChunkedUpload, FiniteSetTheorems, TLAPS

\* The completion has not opened assembled.tmp.
Early == {"idle", "reading", "marking", "removing", "opening"}

\* It has copied every chunk, and its file is stored.
Filled == {"measuring", "announcing", "sending", "moving"}
Measures == {"announcing", "sending", "moving"}
Kept == {"completing", "cleaning", "deleting", "returning"}

\* A completion under way holds the lock.
LockHeld == \A c \in Completers : Completing(c) => lock = c

\* A file holds what was copied of the chunks before index, up to where the handle stands.
Holds(f, at, index) ==
    /\ f.size = at
    /\ at = index => (0 .. index - 1) \ clashed \subseteq f.written

\* A completion copies from the first chunk on, into a file that holds the chunks before
\* the next one and that nobody has stored; then the file is sound if it has the size
\* of the session.  At assembled.tmp is that file or none.
Assembled ==
    \A c \in Completers :
        /\ pc[c] \in {"marking", "removing", "opening"} =>
              frame[c].index = 0 /\ frame[c].at = 0
        /\ pc[c] = "copying" =>
              /\ frame[c].index < NumChunks
              /\ Holds(file[frame[c].handle], frame[c].at, frame[c].index)
              /\ \A d \in Completers : local[d] # frame[c].handle
        /\ pc[c] = "measuring" =>
              (file[frame[c].handle].size = NumChunks => Sound(file[frame[c].handle]))
        /\ pc[c] \in Measures => Sound(file[frame[c].handle])
        /\ pc[c] \in Filled \cup {"copying"} =>
              /\ frame[c].handle \in Completers
              /\ path \in {NoOne, frame[c].handle}

\* The file at assembled.tmp is of a completion that has opened it.
PathIsOpened == path # NoOne => pc[path] \notin Early

\* A file in the local store is sound, left assembled.tmp and is opened by nobody again.
LocalIsSound ==
    \A c \in Completers :
        local[c] # NoOne =>
            /\ Sound(file[local[c]])
            /\ path # local[c]
            /\ pc[local[c]] \notin Early

AssetIsSound == asset # NoAsset => Sound(asset)

\* Whoever is told of success, or about to be, has stored a file.
KeptSomewhere ==
    \A c \in Completers :
        pc[c] \in Kept \/ result[c] = "ok" => asset # NoAsset \/ local[c] # NoOne

\* A completion makes none of the calls of a cancellation.
Roles == \A c \in Completers : pc[c] # "cancelling"

\* What holds until a lock has expired under its holder.
Core ==
    /\ Roles
    /\ LockHeld
    /\ Assembled
    /\ PathIsOpened
    /\ LocalIsSound
    /\ AssetIsSound
    /\ KeptSomewhere

\* The uploader has opened a chunk file, perhaps some time ago.
Started(u) == pc[u] \notin {"idle", "making", "creating"}

\* A chunk file belongs to one chunk and was created by an uploader of it.
Owned ==
    /\ \A i \in Chunks : \A n \in {temp[i], part[i]} \ {NoOne} :
          ChunkOf[n] = i /\ Started(n)
    /\ \A u \in Uploaders :
          opened[u] # NoOne => ChunkOf[opened[u]] = ChunkOf[u] /\ Started(opened[u])
    /\ \A u \in Uploaders : Writing(u) => opened[u] # NoOne

\* A chunk no two uploads wrote at the same time has one writer at most, whose file is at
\* the temporary name or at none, and is whole once it has its name.
WholeUnlessClashed ==
    \A i \in Chunks \ clashed :
        /\ \A u, v \in Uploaders :
              Writing(u) /\ Writing(v) /\ ChunkOf[u] = i /\ ChunkOf[v] = i => u = v
        /\ part[i] # NoOne => chunk[part[i]] = Pieces /\ part[i] # temp[i]
        /\ \A u \in Uploaders :
              Writing(u) /\ ChunkOf[u] = i =>
                  /\ opened[u] # part[i]
                  /\ temp[i] \in {NoOne, opened[u]}
                  /\ pc[u] = "tailing" => "head" \in chunk[opened[u]]
                  /\ pc[u] = "renaming" => chunk[opened[u]] = Pieces

IInv ==
    /\ TypeOK
    /\ Owned
    /\ WholeUnlessClashed
    /\ overrun = {} => Core

-----------------------------------------------------------------------------
(* Type correctness.                                                       *)

USE UploadAssumption DEF UploadAssumption, Handlers, chunkFiles, history

\* The variables of the handlers, and the others, have their types.
HandlersOK ==
    /\ pc \in [Handlers -> Stages]
    /\ frame \in [Handlers -> Frames]
    /\ result \in [Handlers -> {"none", "ok", "error"}]

RedisOK ==
    /\ session \in Sessions
    /\ lock \in Completers \cup {NoOne}
    /\ expired \in BOOLEAN

DiskOK ==
    /\ dir \in BOOLEAN
    /\ temp \in [Chunks -> Uploaders \cup {NoOne}]
    /\ part \in [Chunks -> Uploaders \cup {NoOne}]
    /\ opened \in [Uploaders -> Uploaders \cup {NoOne}]
    /\ chunk \in [Uploaders -> SUBSET Pieces]
    /\ path \in Completers \cup {NoOne}
    /\ file \in [Completers -> Files]

StoreOK ==
    /\ asset \in Files \cup {NoAsset}
    /\ local \in [Completers -> Completers \cup {NoOne}]
    /\ troubled \subseteq Completers
    /\ overrun \subseteq Completers
    /\ clashed \subseteq Chunks

LEMMA TypeSplit ==
  /\ TypeOK <=> HandlersOK /\ RedisOK /\ DiskOK /\ StoreOK
  /\ TypeOK' <=> HandlersOK' /\ RedisOK' /\ DiskOK' /\ StoreOK'
  BY DEF TypeOK, HandlersOK, RedisOK, DiskOK, StoreOK

LEMMA NoFrameType == NoFrame \in Frames
  BY DEF NoFrame, Frames

LEMMA ReadFrameType == RedisOK => ReadFrame \in Frames
  BY DEF ReadFrame, NoFrame, Frames, RedisOK, Sessions

\* A completer that has copied the chunk before index, and stands at at.
LEMMA MovedType ==
  ASSUME NEW g \in Frames, NEW index \in 0 .. NumChunks, NEW at \in 0 .. NumChunks,
         at <= index
  PROVE  [g EXCEPT !.index = index, !.at = at] \in Frames
  BY DEF Frames

\* A handler that goes on or answers keeps the types of pc, frame and result.
LEMMA GoType ==
  ASSUME HandlersOK, NEW p \in Handlers
  PROVE  /\ \A stage \in Stages : \A locals \in Frames :
              GoWith(p, stage, locals) => HandlersOK'
         /\ \A stage \in Stages : Go(p, stage) => HandlersOK'
         /\ \A r \in {"ok", "error"} : Answer(p, r) => HandlersOK'
<1>1. \A stage \in Stages : \A locals \in Frames : GoWith(p, stage, locals) => HandlersOK'
  BY DEF HandlersOK, GoWith
<1>2. frame[p] \in Frames
  BY DEF HandlersOK
<1>3. "over" \in Stages
  BY DEF Stages
<1>4. \A stage \in Stages : Go(p, stage) => HandlersOK'
  BY <1>1, <1>2 DEF Go
<1>5. \A r \in {"ok", "error"} : Answer(p, r) => HandlersOK'
  BY <1>3, NoFrameType DEF Answer, HandlersOK
<1> QED
  BY <1>1, <1>4, <1>5

\* A status saved with chunks of the upload makes a session.
LEMMA SaveType ==
  ASSUME TypeOK, NEW chunks \in SUBSET Chunks,
         NEW status \in {"UPLOADING", "ASSEMBLING", "STORING", "COMPLETED", "CANCELLED",
                         "FAILED"},
         Save(status, chunks)
  PROVE  RedisOK' /\ DiskOK' /\ StoreOK'
  BY DEF TypeOK, Save, Sessions, RedisOK, DiskOK, StoreOK, disk, store

LEMMA MarkType ==
  ASSUME TypeOK, NEW p \in Handlers, NEW from, NEW to \in Stages,
         NEW status \in {"UPLOADING", "ASSEMBLING", "STORING", "COMPLETED", "CANCELLED",
                         "FAILED"},
         Mark(p, from, status, to)
  PROVE  TypeOK'
<1>1. frame[p].chunks \in SUBSET Chunks
  BY DEF TypeOK, Frames
<1>2. RedisOK' /\ DiskOK' /\ StoreOK'
  BY <1>1, SaveType DEF Mark
<1> QED
  BY <1>2, GoType, TypeSplit DEF Mark

LEMMA RefusedType ==
  ASSUME HandlersOK, NEW p \in Handlers, ReadRefused(p)
  PROVE  HandlersOK'
  BY GoType DEF ReadRefused, Stages

LEMMA RemoveType ==
  ASSUME TypeOK, RemoveFiles
  PROVE  RedisOK' /\ DiskOK' /\ StoreOK'
  BY DEF TypeOK, RemoveFiles, RedisOK, DiskOK, StoreOK, redis, store

LEMMA TypeInit == Init => TypeOK
<1> SUFFICES ASSUME Init PROVE TypeOK
  OBVIOUS
<1>1. HandlersOK
  BY NoFrameType DEF Init, HandlersOK, Stages
<1>2. EmptyFile \in Files
  BY DEF EmptyFile, Files
<1>3. RedisOK /\ DiskOK /\ StoreOK
  BY <1>2 DEF Init, RedisOK, DiskOK, StoreOK, Sessions
<1> QED
  BY <1>1, <1>3, TypeSplit

\* A request that uploads a chunk or cancels the upload.
LEMMA OthersType ==
  ASSUME TypeOK
  PROVE  /\ \A u \in Uploaders : UploaderStep(u) => TypeOK'
         /\ \A x \in Cancellers : StartCancel(x) \/ MarkCancelled(x) => TypeOK'
<1> USE TypeSplit
<1>t. HandlersOK /\ RedisOK /\ DiskOK /\ StoreOK
  OBVIOUS
<1>1. ASSUME NEW u \in Uploaders, ReceiveChunk(u) PROVE TypeOK'
  <2>1. HandlersOK'
    BY <1>1, <1>t, GoType, RefusedType, ReadFrameType DEF ReceiveChunk, Stages
  <2> QED
    BY <1>1, <1>t, <2>1 DEF ReceiveChunk, redis, disk, store, RedisOK, DiskOK, StoreOK
<1>2. ASSUME NEW u \in Uploaders, MakeDirectory(u) PROVE TypeOK'
  <2>1. HandlersOK'
    BY <1>2, <1>t, GoType DEF MakeDirectory, Stages
  <2> QED
    BY <1>2, <1>t, <2>1 DEF MakeDirectory, redis, store, RedisOK, DiskOK, StoreOK
<1>6. ASSUME NEW u \in Uploaders, OpenTemp(u) PROVE TypeOK'
  <2> DEFINE i == ChunkOf[u]
             target == IF temp[i] = NoOne THEN u ELSE temp[i]
  <2>1. HandlersOK'
    BY <1>6, <1>t, GoType DEF OpenTemp, Stages
  <2>2. i \in Chunks /\ target \in Uploaders
    BY <1>t DEF DiskOK
  <2>3. /\ temp' = temp \/ temp' = [temp EXCEPT ![i] = target]
        /\ opened' = opened \/ opened' = [opened EXCEPT ![u] = target]
        /\ chunk' = chunk \/ chunk' = [chunk EXCEPT ![target] = {}]
        /\ clashed' \in {clashed, clashed \cup {i}}
        /\ UNCHANGED <<dir, part, path, file, redis, store, troubled, overrun>>
    BY <1>6 DEF OpenTemp
  <2>4. DiskOK' /\ StoreOK'
    BY <1>t, <2>2, <2>3 DEF DiskOK, StoreOK, store
  <2> QED
    BY <1>t, <2>1, <2>3, <2>4 DEF redis, RedisOK
<1>7. ASSUME NEW u \in Uploaders, WriteTemp(u) PROVE TypeOK'
  <2>1. HandlersOK'
    BY <1>7, <1>t, GoType DEF WriteTemp, WritePiece, Stages
  <2>2. PICK piece \in Pieces : chunk' = [chunk EXCEPT ![opened[u]] = @ \cup {piece}]
    BY <1>7 DEF WriteTemp, WritePiece, Pieces
  <2>3. chunk' \in [Uploaders -> SUBSET Pieces]
    BY <1>t, <2>2 DEF DiskOK
  <2>4. UNCHANGED <<dir, temp, part, opened, path, file, redis, store, history>>
    BY <1>7 DEF WriteTemp, WritePiece
  <2> QED
    BY <1>t, <2>1, <2>3, <2>4 DEF redis, store, RedisOK, DiskOK, StoreOK
<1>8. ASSUME NEW u \in Uploaders, RenameTemp(u) PROVE TypeOK'
  <2>1. HandlersOK'
    BY <1>8, <1>t, GoType DEF RenameTemp, Stages
  <2>2. ChunkOf[u] \in Chunks
    OBVIOUS
  <2> QED
    BY <1>8, <1>t, <2>1, <2>2 DEF RenameTemp, redis, store, RedisOK, DiskOK, StoreOK
<1>3. ASSUME NEW u \in Uploaders, RecordChunk(u) PROVE TypeOK'
  <2>1. HandlersOK'
    BY <1>3, <1>t, GoType DEF RecordChunk
  <2>2. frame[u].chunks \cup Added(u) \in SUBSET Chunks
    BY <1>t DEF HandlersOK, Frames, Added
  <2>3. RedisOK' /\ DiskOK' /\ StoreOK'
    BY <1>3, <2>2, SaveType DEF RecordChunk
  <2> QED
    BY <2>1, <2>3
<1>4. ASSUME NEW x \in Cancellers, StartCancel(x) PROVE TypeOK'
  <2>1. HandlersOK'
    BY <1>4, <1>t, GoType, ReadFrameType DEF StartCancel, Stages
  <2> QED
    BY <1>4, <1>t, <2>1 DEF StartCancel, redis, disk, store, RedisOK, DiskOK, StoreOK
<1>5. ASSUME NEW x \in Cancellers, MarkCancelled(x) PROVE TypeOK'
  BY <1>5, MarkType DEF MarkCancelled, Stages
<1> QED
  BY <1>1, <1>2, <1>3, <1>4, <1>5, <1>6, <1>7, <1>8 DEF UploaderStep

LEMMA CompleterType ==
  ASSUME TypeOK, NEW c \in Completers, CompleterStep(c)
  PROVE  TypeOK'
<1> USE TypeSplit
<1>t. HandlersOK /\ RedisOK /\ DiskOK /\ StoreOK
  OBVIOUS
<1>1. CASE StartCompletion(c)
  <2>1. HandlersOK'
    BY <1>1, <1>t, GoType DEF StartCompletion, Acquire, Stages
  <2> QED
    BY <1>1, <1>t, <2>1 DEF StartCompletion, Acquire, disk, store, RedisOK, DiskOK, StoreOK
<1>2. CASE ReadForCompletion(c)
  <2>1. HandlersOK'
    BY <1>2, <1>t, GoType, RefusedType, ReadFrameType DEF ReadForCompletion, Stages
  <2> QED
    BY <1>2, <1>t, <2>1 DEF ReadForCompletion, redis, disk, store, RedisOK, DiskOK, StoreOK
<1>3. CASE MarkAssembling(c) \/ MarkStoring(c) \/ MarkCompleted(c) \/ MarkFailed(c)
  BY <1>3, MarkType DEF MarkAssembling, MarkStoring, MarkCompleted, MarkFailed, Stages
<1>4. CASE RemoveOldAssembly(c)
  <2>1. HandlersOK'
    BY <1>4, <1>t, GoType DEF RemoveOldAssembly, Stages
  <2> QED
    BY <1>4, <1>t, <2>1 DEF RemoveOldAssembly, redis, store, RedisOK, DiskOK, StoreOK
<1>5. CASE OpenAssembly(c)
  <2> DEFINE target == IF path = NoOne THEN c ELSE path
  <2>1. target \in Completers /\ EmptyFile \in Files
    BY <1>t DEF DiskOK, EmptyFile, Files
  <2>2. [frame[c] EXCEPT !.handle = target] \in Frames
    BY <1>t, <2>1 DEF HandlersOK, Frames
  <2>3. HandlersOK'
    BY <1>5, <1>t, <2>2, GoType DEF OpenAssembly, Stages
  <2>4. DiskOK'
    BY <1>5, <1>t, <2>1 DEF OpenAssembly, DiskOK
  <2> QED
    BY <1>5, <1>t, <2>3, <2>4 DEF OpenAssembly, redis, store, RedisOK, StoreOK
<1>6. CASE CopyChunk(c)
  <2> DEFINE i == frame[c].index
             at == frame[c].at
             f == frame[c].handle
             pieces == chunk[part[i]]
             next == IF "tail" \in pieces THEN at + 1 ELSE at
             moved == [frame[c] EXCEPT !.index = i + 1, !.at = next]
  <2>1. CASE i \notin Present
    BY <1>6, <2>1, <1>t, GoType
       DEF CopyChunk, Stages, DiskOK, RedisOK, StoreOK, redis, store
  <2>2. CASE i \in Present
    <3>0. i \in Chunks /\ at \in Nat /\ at <= i
      BY <2>2, <1>t DEF Present, HandlersOK, Frames
    <3>1. i \in 0 .. NumChunks - 1 /\ i + 1 \in 0 .. NumChunks /\ at + 1 \in 0 .. NumChunks
      <4> HIDE DEF i, at
      <4> QED BY <3>0 DEF Chunks
    <3>n. next \in 0 .. NumChunks /\ next <= i + 1
      <4> HIDE DEF i, at, pieces
      <4> QED BY <3>0, <3>1
    <3>2. moved \in Frames
      <4>1. frame[c] \in Frames
        BY <1>t DEF HandlersOK
      <4> HIDE DEF next, i
      <4> QED
        BY <3>1, <3>n, <4>1, MovedType
    <3>3. HandlersOK'
      <4>1. \E stage \in Stages : GoWith(c, stage, moved)
        BY <1>6, <2>2 DEF CopyChunk, Stages
      <4> HIDE DEF moved
      <4> QED BY <3>2, <4>1, <1>t, GoType
    <3>4. \A g \in Files : Appended(g, i, at, pieces) \in Files
      <4> HIDE DEF i, at, pieces
      <4> QED BY <3>0, <3>1 DEF Appended, Files, Chunks
    <3>5. file' = [file EXCEPT ![f] = Appended(@, i, at, pieces)]
      BY <1>6, <2>2 DEF CopyChunk
    <3>6. file' \in [Completers -> Files]
      <4> HIDE DEF i, at, pieces, f
      <4> QED BY <3>4, <3>5, <1>t DEF DiskOK
    <3> QED
      BY <1>6, <3>3, <3>6, <1>t DEF CopyChunk, DiskOK, RedisOK, StoreOK, redis, store
  <2> QED
    BY <2>1, <2>2
<1>7. CASE MeasureAssembly(c)
  <2>1. HandlersOK'
    BY <1>7, <1>t, GoType DEF MeasureAssembly, Stages
  <2> QED
    BY <1>7, <1>t, <2>1 DEF MeasureAssembly, redis, disk, store, RedisOK, DiskOK, StoreOK
<1>8. CASE SendToCloudinary(c)
  <2>1. HandlersOK'
    BY <1>8, <1>t, GoType DEF SendToCloudinary, Stages
  <2>2. StoreOK'
    BY <1>8, <1>t DEF SendToCloudinary, StoreOK, DiskOK
  <2> QED
    BY <1>8, <1>t, <2>1, <2>2 DEF SendToCloudinary, redis, disk, RedisOK, DiskOK
<1>9. CASE MoveToLocalStore(c)
  <2>1. HandlersOK'
    BY <1>9, <1>t, GoType DEF MoveToLocalStore, Stages
  <2> QED
    BY <1>9, <1>t, <2>1 DEF MoveToLocalStore, redis, RedisOK, DiskOK, StoreOK
<1>10. CASE Unlock(c)
  <2>1. HandlersOK'
    BY <1>10, <1>t, GoType DEF Unlock
  <2> QED
    BY <1>10, <1>t, <2>1 DEF Unlock, disk, store, RedisOK, DiskOK, StoreOK
<1> QED
  BY <1>1, <1>2, <1>3, <1>4, <1>5, <1>6, <1>7, <1>8, <1>9, <1>10 DEF CompleterStep

LEMMA SharedType ==
  ASSUME TypeOK, NEW p \in Handlers, CleanUpStep(p) \/ CallFails(p)
  PROVE  TypeOK'
<1> USE TypeSplit
<1>t. HandlersOK /\ RedisOK /\ DiskOK /\ StoreOK
  OBVIOUS
<1>1. CASE Clean(p) \/ CleanExpired(p)
  BY <1>1, <1>t, GoType, RemoveType DEF Clean, CleanExpired, Stages
<1>2. CASE DeleteSession(p) \/ ForgetExpired(p)
  <2>1. HandlersOK'
    BY <1>2, <1>t, GoType DEF DeleteSession, ForgetExpired, Stages
  <2>2. NoSession \in Sessions
    BY DEF NoSession, Sessions
  <2> QED
    BY <1>2, <1>t, <2>1, <2>2
       DEF DeleteSession, ForgetExpired, disk, store, RedisOK, DiskOK, StoreOK
<1>3. CASE CallFails(p)
  <2>1. HandlersOK'
    BY <1>3, <1>t, GoType DEF CallFails, Stages
  <2> QED
    BY <1>3, <1>t, <2>1 DEF CallFails, redis, disk, store, RedisOK, DiskOK, StoreOK
<1> QED
  BY <1>1, <1>2, <1>3 DEF CleanUpStep

LEMMA TypeStep == TypeOK /\ [Next]_vars => TypeOK'
<1> SUFFICES ASSUME TypeOK, [Next]_vars PROVE TypeOK'
  OBVIOUS
<1>1. CASE Crash
  <2>1. HandlersOK'
    BY <1>1, TypeSplit, NoFrameType DEF Crash, HandlersOK, Stages
  <2> QED
    BY <1>1, <2>1, TypeSplit DEF Crash, redis, disk, store, RedisOK, DiskOK, StoreOK
<1>2. CASE LockExpires \/ SessionExpires
  BY <1>2 DEF LockExpires, SessionExpires, disk, store, TypeOK
<1>3. CASE UNCHANGED vars
  BY <1>3 DEF vars, redis, disk, store, TypeOK
<1> QED
  BY <1>1, <1>2, <1>3, OthersType, CompleterType, SharedType DEF Next

\* Every variable of an upload has its type at all times, also when a completion
\* outlives its lock.
THEOREM TypeCorrect == Spec => []TypeOK
  BY TypeInit, TypeStep, PTL DEF Spec

-----------------------------------------------------------------------------
(* The chunk files.                                                        *)

\* A step of no handler other than p.
Moves(p) ==
    \A q \in Handlers \ {p} :
        pc'[q] = pc[q] /\ frame'[q] = frame[q] /\ result'[q] = result[q]

LEMMA GoMoves ==
  ASSUME TypeOK, NEW p \in Handlers
  PROVE  /\ \A stage, locals :
              GoWith(p, stage, locals) =>
                /\ Moves(p)
                /\ pc'[p] = stage /\ frame'[p] = locals /\ result'[p] = result[p]
         /\ \A stage :
              Go(p, stage) =>
                /\ Moves(p)
                /\ pc'[p] = stage /\ frame'[p] = frame[p] /\ result'[p] = result[p]
         /\ \A r :
              Answer(p, r) =>
                /\ Moves(p)
                /\ pc'[p] = "over" /\ frame'[p] = NoFrame /\ result'[p] = r
  BY DEF TypeOK, GoWith, Go, Answer, Moves

\* Stages before an uploader has opened a file, and those in which it writes one.
Before == {"idle", "making", "creating"}
Amid == {"heading", "tailing", "renaming"}

\* No uploader goes back before its file, and none comes to write one or goes on with it.
NoneWrites ==
    \A u \in Uploaders :
        /\ pc[u] \notin Before => pc'[u] \notin Before
        /\ pc'[u] \in Amid => pc'[u] = pc[u]

LEMMA GoWrites ==
  ASSUME TypeOK, NEW p \in Handlers
  PROVE  /\ p \notin Uploaders =>
              /\ \A stage, locals : GoWith(p, stage, locals) => NoneWrites
              /\ \A stage : Go(p, stage) => NoneWrites
         /\ \A stage, locals :
              /\ stage \notin Before \cup Amid \/ (pc[p] \in Before /\ stage \notin Amid)
              /\ GoWith(p, stage, locals)
              => NoneWrites
         /\ \A stage :
              /\ stage \notin Before \cup Amid \/ (pc[p] \in Before /\ stage \notin Amid)
              /\ Go(p, stage)
              => NoneWrites
         /\ \A r : Answer(p, r) => NoneWrites
  BY GoMoves DEF Moves, NoneWrites, Before, Amid

ChunkInv == Owned /\ WholeUnlessClashed

\* The disk stays as it is, or the directory is removed.
LEMMA QuietChunks ==
  ASSUME TypeOK, ChunkInv, NoneWrites, UNCHANGED <<opened, chunk, clashed>>,
         UNCHANGED <<temp, part>> \/ \A i \in Chunks : temp'[i] = NoOne /\ part'[i] = NoOne
  PROVE  ChunkInv'
<1>1. /\ \A u \in Uploaders : Started(u) => Started(u)'
      /\ \A u \in Uploaders : Writing(u)' => Writing(u) /\ pc'[u] = pc[u]
  BY DEF NoneWrites, Started, Writing, Before, Amid
<1>2. Owned'
  BY <1>1 DEF ChunkInv, Owned, TypeOK
<1>3. WholeUnlessClashed'
  <2>1. \A i \in Chunks : temp'[i] \in {temp[i], NoOne} /\ part'[i] \in {part[i], NoOne}
    OBVIOUS
  <2>2. \A i \in Chunks : part'[i] # NoOne => part'[i] = part[i] /\ temp'[i] = temp[i]
    OBVIOUS
  <2>3. \A u \in Uploaders : Writing(u) => opened[u] # NoOne
    BY DEF ChunkInv, Owned
  <2> QED
    BY <1>1, <2>1, <2>2, <2>3 DEF ChunkInv, WholeUnlessClashed
<1> QED
  BY <1>2, <1>3 DEF ChunkInv

LEMMA OpenTempChunks ==
  ASSUME TypeOK, ChunkInv, NEW u \in Uploaders, OpenTemp(u)
  PROVE  ChunkInv'
<1> DEFINE i == ChunkOf[u]
           target == IF temp[i] = NoOne THEN u ELSE temp[i]
<1>1. CASE ~dir
  BY <1>1, GoWrites, QuietChunks DEF OpenTemp, TypeOK
<1>2. CASE dir
  <2>1. /\ pc[u] = "creating"
        /\ temp' = [temp EXCEPT ![i] = target]
        /\ opened' = [opened EXCEPT ![u] = target]
        /\ chunk' = [chunk EXCEPT ![target] = {}]
        /\ clashed' = IF \E v \in Uploaders : ChunkOf[v] = i /\ Writing(v)
                      THEN clashed \cup {i} ELSE clashed
        /\ part' = part
        /\ pc' = [pc EXCEPT ![u] = "heading"]
    BY <1>2 DEF OpenTemp, Go, GoWith
  <2>2. i \in Chunks /\ target \in Uploaders /\ ChunkOf[target] = i
    BY DEF ChunkInv, Owned, TypeOK
  <2>3. /\ \A v \in Uploaders \ {u} : pc'[v] = pc[v]
        /\ pc'[u] = "heading"
    BY <2>1 DEF TypeOK
  <2>4. /\ ~Started(u) /\ ~Writing(u)
        /\ \A v \in Uploaders \ {u} :
              (Started(v)' <=> Started(v)) /\ (Writing(v)' <=> Writing(v))
        /\ Started(u)' /\ Writing(u)'
    BY <2>1, <2>3 DEF Started, Writing
  <2>5. pc'[target] \notin Before
    <3>1. temp[i] # NoOne => Started(temp[i]) /\ temp[i] \in Uploaders
      BY <2>2 DEF ChunkInv, Owned, TypeOK
    <3>2. CASE temp[i] = NoOne
      BY <2>3, <3>2 DEF Before
    <3>3. CASE temp[i] # NoOne
      <4>1. temp[i] # u
        BY <2>4, <3>1, <3>3
      <4> QED
        BY <2>3, <3>1, <3>3, <4>1 DEF Started, Before
    <3> QED
      BY <3>2, <3>3
  <2>6. /\ temp'[i] = target /\ \A j \in Chunks \ {i} : temp'[j] = temp[j]
        /\ opened'[u] = target /\ \A v \in Uploaders \ {u} : opened'[v] = opened[v]
        /\ chunk'[target] = {} /\ \A n \in Uploaders \ {target} : chunk'[n] = chunk[n]
    BY <2>1, <2>2 DEF TypeOK
  <2>7. \A n \in Uploaders : Started(n) => Started(n)'
    BY <2>4
  <2>8. Owned'
    <3>1. ASSUME NEW j \in Chunks, NEW n \in {temp'[j], part'[j]} \ {NoOne}
          PROVE  ChunkOf[n] = j /\ Started(n)'
      <4>1. CASE n = target /\ j = i
        BY <2>2, <2>5, <4>1 DEF Started, Before
      <4>2. CASE n \in {temp[j], part[j]}
        BY <2>7, <3>1, <4>2 DEF ChunkInv, Owned, TypeOK
      <4> QED
        BY <2>1, <2>6, <3>1, <4>1, <4>2
    <3>2. ASSUME NEW v \in Uploaders, opened'[v] # NoOne
          PROVE  ChunkOf[opened'[v]] = ChunkOf[v] /\ pc'[opened'[v]] \notin Before
      <4>1. CASE v = u
        BY <2>2, <2>5, <2>6, <4>1 DEF Started, Before
      <4>2. CASE v # u
        <5>1. opened'[v] = opened[v] /\ opened[v] \in Uploaders
          BY <2>6, <3>2, <4>2 DEF TypeOK
        <5>2. ChunkOf[opened[v]] = ChunkOf[v] /\ Started(opened[v])
          BY <3>2, <5>1 DEF ChunkInv, Owned
        <5>3. pc'[opened'[v]] = pc[opened[v]] \/ opened[v] = u
          BY <2>3, <5>1
        <5> QED
          BY <2>4, <5>1, <5>2, <5>3 DEF Started, Before
      <4> QED
        BY <4>1, <4>2
    <3>3. ASSUME NEW v \in Uploaders, Writing(v)' PROVE opened'[v] # NoOne
      BY <2>2, <2>4, <2>6, <3>3 DEF ChunkInv, Owned
    <3> QED
      BY <3>1, <3>2, <3>3 DEF Owned, Started, Before
  <2>9. WholeUnlessClashed'
    <3> SUFFICES ASSUME NEW j \in Chunks \ clashed'
                 PROVE  /\ \A v, w \in Uploaders :
                              Writing(v)' /\ Writing(w)' /\ ChunkOf[v] = j /\ ChunkOf[w] = j
                              => v = w
                        /\ part[j] # NoOne => chunk'[part[j]] = Pieces /\ part[j] # temp'[j]
                        /\ \A v \in Uploaders :
                              Writing(v)' /\ ChunkOf[v] = j =>
                                  /\ opened'[v] # part[j]
                                  /\ temp'[j] \in {NoOne, opened'[v]}
                                  /\ pc'[v] = "tailing" => "head" \in chunk'[opened'[v]]
                                  /\ pc'[v] = "renaming" => chunk'[opened'[v]] = Pieces
      BY <2>1 DEF WholeUnlessClashed
    <3>1. j \in Chunks /\ j \notin clashed
      BY <2>1
    <3>2. part[j] # NoOne => part[j] \in Uploaders /\ ChunkOf[part[j]] = j /\ Started(part[j])
      BY <3>1 DEF ChunkInv, Owned, TypeOK
    <3>3. CASE j = i
      <4>1. \A v \in Uploaders : ChunkOf[v] = i => ~Writing(v)
        BY <2>1, <2>2, <3>3
      <4>2. part[i] # target
        BY <2>2, <2>4, <3>1, <3>2, <3>3 DEF ChunkInv, WholeUnlessClashed
      <4>3. part[i] # NoOne => chunk[part[i]] = Pieces
        BY <3>1, <3>3 DEF ChunkInv, WholeUnlessClashed
      <4> QED
        BY <2>2, <2>3, <2>4, <2>6, <3>2, <3>3, <4>1, <4>2, <4>3
    <3>4. CASE j # i
      <4>1. part[j] # NoOne => part[j] # target
        BY <2>2, <3>2, <3>4
      <4>2. ASSUME NEW v \in Uploaders, Writing(v)', ChunkOf[v] = j
            PROVE  /\ v # u /\ Writing(v) /\ opened'[v] = opened[v] /\ pc'[v] = pc[v]
                   /\ opened[v] \in Uploaders /\ opened[v] # target
        <5>1. v # u /\ Writing(v) /\ opened'[v] = opened[v] /\ pc'[v] = pc[v]
          BY <2>3, <2>4, <2>6, <3>4, <4>2
        <5>2. opened[v] \in Uploaders /\ ChunkOf[opened[v]] = j
          BY <4>2, <5>1 DEF ChunkInv, Owned, TypeOK
        <5> QED
          BY <2>2, <3>4, <5>1, <5>2
      <4> QED
        BY <2>6, <3>1, <3>2, <3>4, <4>1, <4>2 DEF ChunkInv, WholeUnlessClashed
    <3> QED
      BY <3>3, <3>4
  <2> QED
    BY <2>8, <2>9 DEF ChunkInv
<1> QED
  BY <1>1, <1>2 DEF TypeOK

LEMMA WriteTempChunks ==
  ASSUME TypeOK, ChunkInv, NEW u \in Uploaders, WriteTemp(u)
  PROVE  ChunkInv'
<1> DEFINE n == opened[u]
<1>1. PICK piece \in Pieces, to \in {"tailing", "renaming"} :
        /\ chunk' = [chunk EXCEPT ![n] = @ \cup {piece}]
        /\ pc' = [pc EXCEPT ![u] = to]
        /\ <<pc[u], piece, to>> \in {<<"heading", "head", "tailing">>,
                                    <<"tailing", "tail", "renaming">>}
        /\ UNCHANGED <<temp, part, opened, clashed>>
  BY DEF WriteTemp, WritePiece, Go, GoWith, Pieces
<1>2. n \in Uploaders /\ ChunkOf[n] = ChunkOf[u] /\ Writing(u) /\ Started(u)
  BY <1>1 DEF ChunkInv, Owned, Writing, Started, TypeOK
<1>3. /\ pc'[u] = to /\ \A v \in Uploaders \ {u} : pc'[v] = pc[v]
      /\ chunk'[n] = chunk[n] \cup {piece}
      /\ \A m \in Uploaders \ {n} : chunk'[m] = chunk[m]
  BY <1>1, <1>2 DEF TypeOK
<1>4. \A v \in Uploaders : (Writing(v)' <=> Writing(v)) /\ (Started(v)' <=> Started(v))
  BY <1>1, <1>2, <1>3 DEF Writing, Started
<1>5. Owned'
  BY <1>1, <1>4 DEF ChunkInv, Owned, TypeOK
<1>6. WholeUnlessClashed'
  <2> SUFFICES ASSUME NEW j \in Chunks \ clashed
               PROVE  /\ \A v, w \in Uploaders :
                            Writing(v) /\ Writing(w) /\ ChunkOf[v] = j /\ ChunkOf[w] = j
                            => v = w
                      /\ part[j] # NoOne => chunk'[part[j]] = Pieces /\ part[j] # temp[j]
                      /\ \A v \in Uploaders :
                            Writing(v) /\ ChunkOf[v] = j =>
                                /\ opened[v] # part[j]
                                /\ temp[j] \in {NoOne, opened[v]}
                                /\ pc'[v] = "tailing" => "head" \in chunk'[opened[v]]
                                /\ pc'[v] = "renaming" => chunk'[opened[v]] = Pieces
    BY <1>1, <1>4 DEF WholeUnlessClashed
  <2>1. part[j] # NoOne => part[j] \in Uploaders /\ ChunkOf[part[j]] = j
    BY DEF ChunkInv, Owned, TypeOK
  <2>2. ASSUME NEW v \in Uploaders, Writing(v)
        PROVE  opened[v] \in Uploaders /\ ChunkOf[opened[v]] = ChunkOf[v]
    BY <2>2 DEF ChunkInv, Owned, TypeOK
  <2>3. part[j] # NoOne => chunk'[part[j]] = Pieces
    <3>1. part[j] # NoOne => part[j] # n
      BY <1>2, <2>1 DEF ChunkInv, WholeUnlessClashed
    <3> QED
      BY <1>3, <2>1, <3>1 DEF ChunkInv, WholeUnlessClashed
  <2>4. ASSUME NEW v \in Uploaders, Writing(v), ChunkOf[v] = j
        PROVE  /\ pc'[v] = "tailing" => "head" \in chunk'[opened[v]]
               /\ pc'[v] = "renaming" => chunk'[opened[v]] = Pieces
    <3>1. CASE v = u
      <4>1. pc[u] = "tailing" => "head" \in chunk[n]
        BY <2>4, <3>1 DEF ChunkInv, WholeUnlessClashed
      <4>2. chunk[n] \subseteq Pieces
        BY <1>2 DEF TypeOK
      <4> QED
        BY <1>1, <1>3, <3>1, <4>1, <4>2 DEF Pieces
    <3>2. CASE v # u
      <4>1. ChunkOf[u] # j
        BY <1>2, <2>4, <3>2 DEF ChunkInv, WholeUnlessClashed
      <4>2. opened[v] # n /\ opened[v] \in Uploaders
        BY <1>2, <2>2, <2>4, <4>1
      <4> QED
        BY <1>3, <2>4, <3>2, <4>2 DEF ChunkInv, WholeUnlessClashed
    <3> QED
      BY <3>1, <3>2
  <2> QED
    BY <2>3, <2>4 DEF ChunkInv, WholeUnlessClashed
<1> QED
  BY <1>5, <1>6 DEF ChunkInv

LEMMA RenameTempChunks ==
  ASSUME TypeOK, ChunkInv, NEW u \in Uploaders, RenameTemp(u)
  PROVE  ChunkInv'
<1> DEFINE i == ChunkOf[u]
<1>1. CASE temp[i] = NoOne
  BY <1>1, GoWrites, QuietChunks DEF RenameTemp
<1>2. CASE temp[i] # NoOne
  <2>1. /\ pc[u] = "renaming"
        /\ part' = [part EXCEPT ![i] = temp[i]]
        /\ temp' = [temp EXCEPT ![i] = NoOne]
        /\ Go(u, "saving")
        /\ UNCHANGED <<opened, chunk, clashed>>
    BY <1>2 DEF RenameTemp
  <2>2. NoneWrites
    BY <2>1, GoWrites DEF Before, Amid
  <2>3. /\ \A v \in Uploaders : Started(v) => Started(v)'
        /\ \A v \in Uploaders : Writing(v)' => v # u /\ Writing(v) /\ pc'[v] = pc[v]
    BY <2>1, <2>2, GoMoves DEF NoneWrites, Started, Writing, Before, Amid
  <2>4. /\ i \in Chunks /\ part'[i] = temp[i] /\ temp'[i] = NoOne
        /\ \A j \in Chunks \ {i} : part'[j] = part[j] /\ temp'[j] = temp[j]
    BY <2>1 DEF TypeOK
  <2>5. Owned'
    BY <2>1, <2>3, <2>4 DEF ChunkInv, Owned, TypeOK
  <2>6. i \notin clashed =>
          /\ chunk[temp[i]] = Pieces
          /\ \A v \in Uploaders : Writing(v) /\ ChunkOf[v] = i => v = u
    BY <1>2, <2>1, <2>4 DEF ChunkInv, WholeUnlessClashed, Writing
  <2>7. WholeUnlessClashed'
    BY <1>2, <2>1, <2>3, <2>4, <2>6 DEF ChunkInv, WholeUnlessClashed
  <2> QED
    BY <2>5, <2>7 DEF ChunkInv
<1> QED
  BY <1>1, <1>2

\* Every other step leaves the chunk files alone or removes them all.
LEMMA ChunkStep ==
  ASSUME TypeOK, ChunkInv, [Next]_vars
  PROVE  ChunkInv'
<1>1. ASSUME NEW u \in Uploaders, ReceiveChunk(u) \/ MakeDirectory(u) \/ RecordChunk(u)
      PROVE  ChunkInv'
  <2>1. NoneWrites
    BY <1>1, GoWrites DEF ReceiveChunk, ReadRefused, MakeDirectory, RecordChunk, Before, Amid
  <2>2. UNCHANGED <<temp, part, opened, chunk, clashed>>
    BY <1>1 DEF ReceiveChunk, MakeDirectory, RecordChunk, Save, disk
  <2> QED
    BY <2>1, <2>2, QuietChunks
<1>2. ASSUME NEW x \in Cancellers, StartCancel(x) \/ MarkCancelled(x)
      PROVE  ChunkInv'
  <2>1. NoneWrites
    BY <1>2, GoWrites DEF StartCancel, MarkCancelled, Mark
  <2>2. UNCHANGED <<temp, part, opened, chunk, clashed>>
    BY <1>2 DEF StartCancel, MarkCancelled, Mark, Save, disk
  <2> QED
    BY <2>1, <2>2, QuietChunks
<1>3. ASSUME NEW c \in Completers, CompleterStep(c)
      PROVE  ChunkInv'
  <2>1. NoneWrites
    <3>1. c \notin Uploaders
      OBVIOUS
    <3>2. \/ \E stage, locals : GoWith(c, stage, locals)
          \/ \E stage : Go(c, stage)
          \/ \E r : Answer(c, r)
      BY <1>3 DEF CompleterStep, StartCompletion, Acquire, ReadForCompletion, ReadRefused,
                  MarkAssembling, RemoveOldAssembly, OpenAssembly, CopyChunk, MeasureAssembly,
                  MarkStoring, SendToCloudinary, MoveToLocalStore, MarkCompleted, MarkFailed,
                  Mark, Unlock
    <3> QED
      BY <3>1, <3>2, GoWrites
  <2>2. UNCHANGED <<temp, part, opened, chunk, clashed>>
    BY <1>3 DEF CompleterStep, StartCompletion, ReadForCompletion, MarkAssembling,
                RemoveOldAssembly, OpenAssembly, CopyChunk, MeasureAssembly, MarkStoring,
                SendToCloudinary, MoveToLocalStore, MarkCompleted, MarkFailed, Mark, Save,
                Unlock, disk
  <2> QED
    BY <2>1, <2>2, QuietChunks
<1>4. ASSUME NEW p \in Handlers, CleanUpStep(p) \/ CallFails(p)
      PROVE  ChunkInv'
  <2>1. NoneWrites
    <3>1. \/ \E stage \in {"deleting", "failing", "returning", "forgetting", "cleaning",
                           "throwing"} : Go(p, stage)
          \/ \E r : Answer(p, r)
      BY <1>4 DEF CleanUpStep, Clean, DeleteSession, CleanExpired, ForgetExpired, CallFails
    <3> QED
      BY <3>1, GoWrites DEF Before, Amid
  <2>2. /\ UNCHANGED <<opened, chunk, clashed>>
        /\ UNCHANGED <<temp, part>> \/ \A i \in Chunks : temp'[i] = NoOne /\ part'[i] = NoOne
    BY <1>4 DEF CleanUpStep, Clean, DeleteSession, CleanExpired, ForgetExpired, CallFails,
                RemoveFiles, disk
  <2> QED
    BY <2>1, <2>2, QuietChunks
<1>5. CASE Crash
  <2>1. NoneWrites
    BY <1>5 DEF Crash, NoneWrites, Before, Amid
  <2>2. UNCHANGED <<temp, part, opened, chunk, clashed>>
    BY <1>5 DEF Crash, disk
  <2> QED
    BY <2>1, <2>2, QuietChunks
<1>6. CASE LockExpires \/ SessionExpires \/ UNCHANGED vars
  <2>1. UNCHANGED <<pc, temp, part, opened, chunk, clashed>>
    BY <1>6 DEF LockExpires, SessionExpires, vars, disk
  <2>2. NoneWrites
    BY <2>1 DEF NoneWrites
  <2> QED
    BY <2>1, <2>2, QuietChunks
<1> QED
  BY <1>1, <1>2, <1>3, <1>4, <1>5, <1>6, OpenTempChunks, WriteTempChunks, RenameTempChunks
     DEF Next, UploaderStep

LEMMA ChunkInit == Init => ChunkInv
<1> SUFFICES ASSUME Init PROVE ChunkInv
  OBVIOUS
<1>1. /\ \A i \in Chunks : temp[i] = NoOne /\ part[i] = NoOne
      /\ \A u \in Uploaders : opened[u] = NoOne /\ pc[u] = "idle"
  BY DEF Init
<1> QED
  BY <1>1 DEF ChunkInv, Owned, WholeUnlessClashed, Writing

-----------------------------------------------------------------------------
(* Exclusion and the files.                                                *)

\* A step of no completion other than c.
Only(c) ==
    \A d \in Completers \ {c} :
        pc'[d] = pc[d] /\ frame'[d] = frame[d] /\ result'[d] = result[d]

\* A step that makes no file; it may unlink the one at assembled.tmp.
MakesNoFile ==
    /\ UNCHANGED <<file, asset, local>>
    /\ path' \in {NoOne, path}
    /\ clashed \subseteq clashed'

LEMMA CoreInit == Init => Core
<1> SUFFICES ASSUME Init PROVE Core
  OBVIOUS
<1>1. \A c \in Completers :
        pc[c] = "idle" /\ frame[c] = NoFrame /\ result[c] = "none" /\ local[c] = NoOne
  BY DEF Init
<1> QED
  BY <1>1 DEF Init, Core, Roles, LockHeld, Completing, Assembled, Measures, Holds, Sound, Filled, PathIsOpened,
              LocalIsSound, AssetIsSound, KeptSomewhere, Kept

\* The completion under way is the only one.
LEMMA Alone ==
  ASSUME Core, NEW c \in Completers, Completing(c)
  PROVE  lock = c /\ \A d \in Completers \ {c} : pc[d] \in {"idle", "over"}
  BY DEF Core, LockHeld, Completing

\* What no completion does: chunks, cancellations, the expiry of the session.
LEMMA QuietStep ==
  ASSUME Core, MakesNoFile, lock' = lock,
         \A c \in Completers : pc'[c] = pc[c] /\ frame'[c] = frame[c] /\ result'[c] = result[c],
         TypeOK
  PROVE  Core'
<1>1. Roles' /\ LockHeld' /\ AssetIsSound' /\ KeptSomewhere'
  BY DEF Core, Roles, LockHeld, Completing, AssetIsSound, Sound, KeptSomewhere, MakesNoFile
<1>2. Assembled'
  BY DEF Core, Assembled, Measures, Filled, Holds, Sound, MakesNoFile
<1>3. PathIsOpened' /\ LocalIsSound'
  BY DEF Core, PathIsOpened, LocalIsSound, Sound, MakesNoFile, TypeOK
<1> QED
  BY <1>1, <1>2, <1>3 DEF Core

\* A call of a completion that makes no file and does not lead to a copy.
Advances(c) ==
    /\ Completing(c) /\ Only(c) /\ MakesNoFile
    /\ lock' = lock \/ (lock' = NoOne /\ pc'[c] = "over")
    /\ pc'[c] \notin {"idle", "cancelling", "copying"}
    /\ pc'[c] \in {"marking", "removing", "opening"} => frame'[c].index = 0 /\ frame'[c].at = 0
    /\ pc'[c] \in Filled =>
          /\ pc'[c] \in Measures /\ frame'[c] = frame[c]
          /\ pc[c] \in Measures \/ (pc[c] = "measuring" /\ Measured(c))
    /\ pc'[c] \in Early => pc[c] \in Early
    /\ pc'[c] \in Kept \/ result'[c] = "ok" => asset # NoAsset \/ local[c] # NoOne

LEMMA Advance ==
  ASSUME Core, TypeOK, NEW c \in Completers, Advances(c)
  PROVE  Core'
<1> USE DEF Advances
<1>1. lock = c /\ \A d \in Completers \ {c} : pc'[d] \in {"idle", "over"}
  BY Alone DEF Only
<1>2. Roles' /\ LockHeld'
  BY <1>1 DEF Core, Roles, LockHeld, Completing
<1>3. Assembled'
  <2>1. \A d \in Completers \ {c} : pc'[d] \notin Filled \cup {"copying"}
    BY <1>1 DEF Filled
  <2> QED
    BY <1>1, <2>1 DEF Core, Assembled, Measures, Measured, Holds, Sound, MakesNoFile, Filled
<1>4. \A d \in Completers : pc[d] \notin Early => pc'[d] \notin Early
  BY DEF Only
<1>5. PathIsOpened' /\ LocalIsSound'
  BY <1>4 DEF Core, PathIsOpened, LocalIsSound, Sound, MakesNoFile, TypeOK
<1>6. AssetIsSound'
  BY DEF Core, AssetIsSound, Sound, MakesNoFile
<1>7. KeptSomewhere'
  <2>1. \A d \in Completers \ {c} :
          pc'[d] \in Kept \/ result'[d] = "ok" => asset # NoAsset \/ local[d] # NoOne
    BY DEF Core, KeptSomewhere, Only
  <2> QED
    BY <2>1 DEF KeptSomewhere, MakesNoFile
<1> QED
  BY <1>2, <1>3, <1>5, <1>6, <1>7 DEF Core

\* Only the handler that makes a step moves.
LEMMA GoIsOnly ==
  ASSUME TypeOK, NEW p \in Handlers
  PROVE  /\ \A stage, locals :
              GoWith(p, stage, locals) =>
                /\ Only(p)
                /\ pc'[p] = stage /\ frame'[p] = locals /\ result'[p] = result[p]
         /\ \A stage :
              Go(p, stage) =>
                /\ Only(p)
                /\ pc'[p] = stage /\ frame'[p] = frame[p] /\ result'[p] = result[p]
         /\ \A r :
              Answer(p, r) =>
                /\ Only(p)
                /\ pc'[p] = "over" /\ frame'[p] = NoFrame /\ result'[p] = r
  BY DEF TypeOK, GoWith, Go, Answer, Only

\* Where a refused reader goes.
LEMMA RefusedIsOnly ==
  ASSUME TypeOK, NEW p \in Handlers, ReadRefused(p)
  PROVE  /\ Only(p)
         /\ pc'[p] \in {"over", "expiring"}
         /\ result'[p] \in {result[p], "error"}
  BY GoIsOnly DEF ReadRefused

\* A request that is no completion disturbs none.
LEMMA OthersStep ==
  ASSUME Core, TypeOK
  PROVE  /\ \A u \in Uploaders : UploaderStep(u) => Core'
         /\ \A x \in Cancellers : StartCancel(x) \/ MarkCancelled(x) => Core'
         /\ \A p \in Handlers \ Completers : CleanUpStep(p) \/ CallFails(p) => Core'
<1>1. ASSUME NEW p \in Handlers \ Completers, Only(p), MakesNoFile, lock' = lock
      PROVE  Core'
  BY <1>1, QuietStep DEF Only
<1>2. ASSUME NEW u \in Uploaders, UploaderStep(u)
      PROVE  Core'
  <2>1. Only(u)
    BY <1>2, GoIsOnly, RefusedIsOnly
       DEF UploaderStep, ReceiveChunk, MakeDirectory, OpenTemp, WriteTemp, WritePiece,
           RenameTemp, RecordChunk
  <2>2. MakesNoFile /\ lock' = lock
    BY <1>2
       DEF UploaderStep, ReceiveChunk, MakeDirectory, OpenTemp, WriteTemp, WritePiece,
           RenameTemp, RecordChunk, Save, MakesNoFile, redis, disk, store
  <2> QED
    BY <1>1, <2>1, <2>2
<1>3. ASSUME NEW x \in Cancellers, StartCancel(x) \/ MarkCancelled(x)
      PROVE  Core'
  <2>1. Only(x)
    BY <1>3, GoIsOnly DEF StartCancel, MarkCancelled, Mark
  <2>2. MakesNoFile /\ lock' = lock
    BY <1>3 DEF StartCancel, MarkCancelled, Mark, Save, MakesNoFile, redis, disk, store
  <2> QED
    BY <1>1, <2>1, <2>2
<1>4. ASSUME NEW p \in Handlers \ Completers, CleanUpStep(p) \/ CallFails(p)
      PROVE  Core'
  <2>1. Only(p)
    BY <1>4, GoIsOnly
       DEF CleanUpStep, Clean, DeleteSession, CleanExpired, ForgetExpired, CallFails
  <2>2. MakesNoFile /\ lock' = lock
    BY <1>4 DEF CleanUpStep, Clean, DeleteSession, CleanExpired, ForgetExpired, CallFails,
                RemoveFiles, MakesNoFile, redis, disk, store
  <2> QED
    BY <1>1, <2>1, <2>2
<1> QED
  BY <1>2, <1>3, <1>4

\* The calls of completeUpload.
LEMMA CompleterCore ==
  ASSUME Core, TypeOK, WholeUnlessClashed, NEW c \in Completers, CompleterStep(c)
  PROVE  Core'
<1> USE DEF MakesNoFile
<1>1. CASE StartCompletion(c)
  <2>1. Only(c) /\ pc'[c] \in {"reading", "over"} /\ result'[c] \in {result[c], "error"}
    BY <1>1, GoIsOnly DEF StartCompletion, Acquire
  <2>2. MakesNoFile /\ pc[c] = "idle"
    BY <1>1 DEF StartCompletion, disk, store
  <2>3. Roles' /\ AssetIsSound'
    BY <2>1, <2>2 DEF Core, Roles, Only, AssetIsSound, Sound
  <2>4. LockHeld'
    <3>1. CASE lock = NoOne
      <4>1. \A d \in Completers : ~Completing(d)
        BY <3>1 DEF Core, LockHeld
      <4>2. pc'[c] = "reading" => lock' = c
        BY <1>1, <3>1, GoIsOnly DEF StartCompletion, Acquire
      <4> QED
        BY <2>1, <4>1, <4>2 DEF LockHeld, Completing, Only
    <3>2. CASE lock # NoOne
      <4>1. lock' = lock /\ pc'[c] = "over"
        BY <1>1, <3>2, GoIsOnly DEF StartCompletion, Acquire
      <4> QED
        BY <2>1, <4>1 DEF Core, LockHeld, Completing, Only
    <3> QED
      BY <3>1, <3>2
  <2>5. Assembled'
    BY <2>1, <2>2 DEF Core, Assembled, Measures, Holds, Sound, Only, Filled
  <2>6. \A d \in Completers : pc[d] \notin Early => pc'[d] \notin Early
    BY <2>1, <2>2 DEF Only, Early
  <2>7. PathIsOpened' /\ LocalIsSound'
    BY <2>2, <2>6 DEF Core, PathIsOpened, LocalIsSound, Sound, TypeOK
  <2>8. KeptSomewhere'
    BY <2>1, <2>2 DEF Core, KeptSomewhere, Only, Kept
  <2> QED
    BY <2>3, <2>4, <2>5, <2>7, <2>8 DEF Core
<1>2. CASE ReadForCompletion(c)
  <2>1. /\ Only(c) /\ pc[c] = "reading"
        /\ pc'[c] \in {"over", "expiring", "marking", "failing"}
        /\ result'[c] \in {result[c], "error"}
    BY <1>2, GoIsOnly, RefusedIsOnly DEF ReadForCompletion
  <2>2. pc'[c] = "marking" => frame'[c].index = 0 /\ frame'[c].at = 0
    BY <1>2, GoIsOnly, RefusedIsOnly DEF ReadForCompletion, ReadFrame, NoFrame
  <2>3. MakesNoFile /\ lock' = lock
    BY <1>2 DEF ReadForCompletion, redis, disk, store
  <2>4. result[c] = "ok" => asset # NoAsset \/ local[c] # NoOne
    BY DEF Core, KeptSomewhere
  <2>a. Advances(c)
    BY <2>1, <2>2, <2>3, <2>4 DEF Advances, Completing, Filled, Measures, Early, Kept
  <2> QED
    BY <2>a, Advance
<1>3. CASE MarkAssembling(c) \/ MarkStoring(c) \/ MarkCompleted(c) \/ MarkFailed(c)
  <2>1. /\ Only(c) /\ frame'[c] = frame[c] /\ result'[c] = result[c]
        /\ <<pc[c], pc'[c]>> \in {<<"marking", "removing">>, <<"announcing", "sending">>,
                                  <<"completing", "cleaning">>, <<"failing", "throwing">>}
    BY <1>3, GoIsOnly DEF MarkAssembling, MarkStoring, MarkCompleted, MarkFailed, Mark
  <2>2. MakesNoFile /\ lock' = lock
    BY <1>3 DEF MarkAssembling, MarkStoring, MarkCompleted, MarkFailed, Mark, Save, disk, store
  <2>3. /\ pc[c] = "marking" => frame[c].index = 0 /\ frame[c].at = 0
        /\ pc[c] \in Kept \/ result[c] = "ok" => asset # NoAsset \/ local[c] # NoOne
    BY DEF Core, Assembled, Measures, Filled, Holds, Sound, KeptSomewhere
  <2>a. Advances(c)
    BY <2>1, <2>2, <2>3 DEF Advances, Completing, Filled, Measures, Early, Kept
  <2> QED
    BY <2>a, Advance
<1>4. CASE RemoveOldAssembly(c) \/ MeasureAssembly(c)
  <2>1. /\ Only(c) /\ frame'[c] = frame[c] /\ result'[c] = result[c]
        /\ <<pc[c], pc'[c]>> \in {<<"removing", "opening">>, <<"measuring", "announcing">>,
                                  <<"measuring", "failing">>}
        /\ pc'[c] = "announcing" => Measured(c)
    BY <1>4, GoIsOnly DEF RemoveOldAssembly, MeasureAssembly
  <2>2. MakesNoFile /\ lock' = lock
    BY <1>4 DEF RemoveOldAssembly, MeasureAssembly, redis, disk, store
  <2>3. /\ pc[c] = "removing" => frame[c].index = 0 /\ frame[c].at = 0
        /\ result[c] = "ok" => asset # NoAsset \/ local[c] # NoOne
    BY DEF Core, Assembled, Measures, Filled, Holds, Sound, KeptSomewhere
  <2>a. Advances(c)
    BY <2>1, <2>2, <2>3 DEF Advances, Completing, Filled, Measures, Early, Kept
  <2> QED
    BY <2>a, Advance
<1>5. CASE OpenAssembly(c)
  <2> DEFINE target == IF path = NoOne THEN c ELSE path
  <2>k. result[c] = "ok" => asset # NoAsset \/ local[c] # NoOne
    BY DEF Core, KeptSomewhere
  <2>1. CASE ~dir
    <3>1. Only(c) /\ pc[c] = "opening" /\ pc'[c] = "failing" /\ result'[c] = result[c]
      BY <1>5, <2>1, GoIsOnly DEF OpenAssembly
    <3>2. MakesNoFile /\ lock' = lock
      BY <1>5, <2>1 DEF OpenAssembly, redis, store
    <3>a. Advances(c)
      BY <2>k, <3>1, <3>2 DEF Advances, Completing, Filled, Measures, Early, Kept
    <3> QED
      BY <3>a, Advance
  <2>2. CASE dir
    <3>1. /\ Only(c) /\ pc[c] = "opening" /\ pc'[c] = "copying" /\ result'[c] = result[c]
          /\ frame'[c] = [frame[c] EXCEPT !.handle = target]
          /\ path' = target /\ file' = [file EXCEPT ![target] = EmptyFile]
          /\ UNCHANGED <<asset, local, lock, clashed>>
      BY <1>5, <2>2, GoIsOnly DEF OpenAssembly, redis, store
    <3>2. target \in Completers /\ frame[c].index = 0 /\ frame[c].at = 0
      BY <3>1 DEF TypeOK, Core, Assembled, Measures, Filled, Holds, Sound
    <3>3. frame'[c].handle = target /\ frame'[c].index = 0 /\ frame'[c].at = 0
      BY <3>1, <3>2 DEF TypeOK, Frames
    <3>4. \A d \in Completers : local[d] # target
      BY <3>1 DEF Core, LocalIsSound, Early
    <3>5. lock = c /\ \A d \in Completers \ {c} : pc'[d] = pc[d] /\ pc'[d] \in {"idle", "over"}
      BY <3>1, Alone DEF Completing, Only
    <3>6. Roles' /\ LockHeld' /\ AssetIsSound' /\ KeptSomewhere'
      BY <3>1, <3>5 DEF Core, Roles, LockHeld, Completing, AssetIsSound, Sound, KeptSomewhere,
                        Kept, Only
    <3>7. Assembled'
      <4>1. file'[target] = [written |-> 0 .. 0 - 1, size |-> 0]
        BY <3>1, <3>2 DEF EmptyFile, TypeOK
      <4>2. 0 < NumChunks
        OBVIOUS
      <4>3. \A s : \A f : f = [written |-> 0 .. 0 - 1, size |-> 0] =>
              f.size = 0 /\ (0 .. 0 - 1) \ s \subseteq f.written
        OBVIOUS
      <4> HIDE DEF target
      <4> QED
        BY <3>1, <3>2, <3>3, <3>4, <3>5, <4>1, <4>2, <4>3
           DEF Assembled, Measures, Holds, Sound, Filled
    <3>8. PathIsOpened'
      BY <3>1, <3>2, <3>5 DEF Core, PathIsOpened, Early
    <3>9. LocalIsSound'
      BY <3>1, <3>2, <3>4, <3>5 DEF Core, LocalIsSound, Sound, Early, TypeOK
    <3> QED
      BY <3>6, <3>7, <3>8, <3>9 DEF Core
  <2> QED
    BY <2>1, <2>2 DEF TypeOK
<1>6. CASE CopyChunk(c)
  <2> DEFINE i == frame[c].index
             at == frame[c].at
             f == frame[c].handle
             pieces == chunk[part[i]]
             next == IF "tail" \in pieces THEN at + 1 ELSE at
  <2>k. result[c] = "ok" => asset # NoAsset \/ local[c] # NoOne
    BY DEF Core, KeptSomewhere
  <2>1. CASE i \notin Present
    <3>1. Only(c) /\ pc[c] = "copying" /\ pc'[c] = "failing" /\ result'[c] = result[c]
      BY <1>6, <2>1, GoIsOnly DEF CopyChunk
    <3>2. MakesNoFile /\ lock' = lock
      BY <1>6, <2>1 DEF CopyChunk, redis, store
    <3>a. Advances(c)
      BY <2>k, <3>1, <3>2 DEF Advances, Completing, Filled, Measures, Early, Kept
    <3> QED
      BY <3>a, Advance
  <2>2. CASE i \in Present
    <3>1. /\ Only(c) /\ pc[c] = "copying" /\ result'[c] = result[c]
          /\ pc'[c] = (IF i + 1 = NumChunks THEN "measuring" ELSE "copying")
          /\ frame'[c] = [frame[c] EXCEPT !.index = i + 1, !.at = next]
          /\ file' = [file EXCEPT ![f] = Appended(@, i, at, pieces)]
          /\ UNCHANGED <<path, asset, local, lock, clashed>>
      BY <1>6, <2>2, GoIsOnly DEF CopyChunk, redis, store
    <3>2. /\ f \in Completers /\ path \in {NoOne, f}
          /\ i < NumChunks
          /\ Holds(file[f], at, i)
          /\ \A d \in Completers : local[d] # f
      BY <3>1 DEF Core, Assembled, Measures, Filled, Holds, Sound
    <3>3. frame[c] \in Frames
      BY DEF TypeOK
    <3>4. /\ frame'[c].handle = f /\ frame'[c].index = i + 1 /\ frame'[c].at = next
          /\ i \in Nat /\ at \in Nat /\ at <= i
      BY <3>1, <3>3 DEF Frames
    <3>p. i \notin clashed => pieces = Pieces
      BY <2>2 DEF Present, WholeUnlessClashed
    <3>5. Holds(file'[f], next, i + 1)
      <4>1. file'[f] = Appended(file[f], i, at, pieces)
        BY <3>1, <3>2 DEF TypeOK
      <4>2. 0 .. (i + 1) - 1 = (0 .. i - 1) \cup {i}
        BY <3>4
      <4>3. Holds(Appended(file[f], i, at, pieces), next, i + 1)
        <5> HIDE DEF i, at, pieces, f
        <5> QED BY <3>2, <3>4, <3>p, <4>2 DEF Holds, Appended, Pieces
      <4> HIDE DEF next
      <4> QED
        BY <4>1, <4>3
    <3>6. lock = c /\ \A d \in Completers \ {c} : pc'[d] = pc[d] /\ pc'[d] \in {"idle", "over"}
      BY <3>1, Alone DEF Completing, Only
    <3>7. Roles' /\ LockHeld' /\ AssetIsSound' /\ KeptSomewhere'
      BY <3>1, <3>6 DEF Core, Roles, LockHeld, Completing, AssetIsSound, Sound, KeptSomewhere,
                        Kept, Only
    <3>8. Assembled'
      <4>1. CASE i + 1 = NumChunks
        <5>1. pc'[c] = "measuring"
          BY <3>1, <4>1
        <5>2. 0 .. (i + 1) - 1 = Chunks
          BY <4>1 DEF Chunks
        <5>3. file'[f].size = NumChunks => Sound(file'[f])
          BY <3>5, <4>1, <5>2 DEF Holds, Sound
        <5> QED
          BY <3>1, <3>2, <3>4, <3>6, <5>1, <5>3 DEF Assembled, Measures, Holds, Filled, Sound
      <4>2. CASE i + 1 # NumChunks
        <5>1. i + 1 < NumChunks
          BY <3>2, <3>4, <4>2
        <5>2. pc'[c] = "copying"
          BY <3>1, <4>2
        <5>3. Holds(file'[frame'[c].handle], frame'[c].at, frame'[c].index)
          BY <3>4, <3>5
        <5> HIDE DEF next
        <5> QED
          BY <3>1, <3>2, <3>4, <3>6, <5>1, <5>2, <5>3 DEF Assembled, Filled, Measures, Holds
      <4> QED
        BY <4>1, <4>2
    <3>9. PathIsOpened' /\ LocalIsSound'
      BY <3>1, <3>2, <3>6 DEF Core, PathIsOpened, LocalIsSound, Sound, Early, TypeOK
    <3> QED
      BY <3>7, <3>8, <3>9 DEF Core
  <2> QED
    BY <2>1, <2>2
<1>7. CASE SendToCloudinary(c)
  <2>1. /\ Only(c) /\ pc[c] = "sending" /\ pc'[c] \in {"completing", "moving", "failing"}
        /\ frame'[c] = frame[c] /\ result'[c] = result[c]
        /\ UNCHANGED <<path, file, local, lock, clashed>>
    BY <1>7, GoIsOnly DEF SendToCloudinary, redis, disk
  <2>2. asset' = asset \/ (path # NoOne /\ asset = NoAsset /\ asset' = file[path])
    BY <1>7 DEF SendToCloudinary
  <2>3. path # NoOne => path = frame[c].handle /\ Sound(file[path])
    BY <2>1 DEF Core, Assembled, Measures, Holds, Sound, Filled
  <2>4. AssetIsSound'
    BY <2>1, <2>2, <2>3 DEF Core, AssetIsSound, Sound
  <2>5. asset # NoAsset => asset' # NoAsset
    BY <2>2
  <2>6. pc'[c] = "completing" => asset' # NoAsset
    <3>1. path # NoOne => file[path] # NoAsset
      BY DEF TypeOK, Files, NoAsset
    <3> QED
      BY <1>7, <3>1, GoIsOnly DEF SendToCloudinary
  <2>7. lock = c /\ \A d \in Completers \ {c} : pc'[d] = pc[d] /\ pc'[d] \in {"idle", "over"}
    BY <2>1, Alone DEF Completing, Only
  <2>8. Roles' /\ LockHeld'
    BY <2>1, <2>7 DEF Core, Roles, LockHeld, Completing
  <2>9. Assembled'
    BY <2>1, <2>7 DEF Core, Assembled, Measures, Holds, Filled, Sound
  <2>10. PathIsOpened' /\ LocalIsSound'
    BY <2>1, <2>7 DEF Core, PathIsOpened, LocalIsSound, Sound, Early, TypeOK
  <2>11. KeptSomewhere'
    BY <2>1, <2>5, <2>6, <2>7 DEF Core, KeptSomewhere, Kept, Only
  <2> QED
    BY <2>4, <2>8, <2>9, <2>10, <2>11 DEF Core
<1>8. CASE MoveToLocalStore(c)
  <2>k. result[c] = "ok" => asset # NoAsset \/ local[c] # NoOne
    BY DEF Core, KeptSomewhere
  <2>1. CASE path = NoOne
    <3>1. Only(c) /\ pc[c] = "moving" /\ pc'[c] = "failing" /\ result'[c] = result[c]
      BY <1>8, <2>1, GoIsOnly DEF MoveToLocalStore
    <3>2. MakesNoFile /\ lock' = lock
      BY <1>8, <2>1 DEF MoveToLocalStore, redis
    <3>a. Advances(c)
      BY <2>k, <3>1, <3>2 DEF Advances, Completing, Filled, Measures, Early, Kept
    <3> QED
      BY <3>a, Advance
  <2>2. CASE path # NoOne
    <3>1. /\ Only(c) /\ pc[c] = "moving" /\ pc'[c] = "completing" /\ result'[c] = result[c]
          /\ local' = [local EXCEPT ![c] = path] /\ path' = NoOne
          /\ UNCHANGED <<file, asset, lock, clashed>>
      BY <1>8, <2>2, GoIsOnly DEF MoveToLocalStore, redis
    <3>2. path \in Completers /\ Sound(file[path]) /\ pc[path] \notin Early
      BY <2>2, <3>1 DEF Core, Assembled, Measures, Holds, Sound, Filled, PathIsOpened, TypeOK
    <3>3. lock = c /\ \A d \in Completers \ {c} : pc'[d] = pc[d] /\ pc'[d] \in {"idle", "over"}
      BY <3>1, Alone DEF Completing, Only
    <3>4. \A d \in Completers : pc[d] \notin Early => pc'[d] \notin Early
      BY <3>1, <3>3 DEF Early
    <3>5. Roles' /\ LockHeld' /\ AssetIsSound'
      BY <3>1, <3>3 DEF Core, Roles, LockHeld, Completing, AssetIsSound, Sound
    <3>6. Assembled' /\ PathIsOpened'
      BY <3>1, <3>3 DEF Assembled, Measures, Holds, Sound, Filled, PathIsOpened
    <3>7. local'[c] = path /\ \A d \in Completers \ {c} : local'[d] = local[d]
      BY <3>1 DEF TypeOK
    <3>8. LocalIsSound'
      BY <3>1, <3>2, <3>4, <3>7 DEF Core, LocalIsSound, Sound, TypeOK
    <3>9. KeptSomewhere'
      BY <2>2, <3>1, <3>3, <3>7 DEF Core, KeptSomewhere, Kept, Only
    <3> QED
      BY <3>5, <3>6, <3>8, <3>9 DEF Core
  <2> QED
    BY <2>1, <2>2
<1>9. CASE Unlock(c)
  <2>1. /\ Only(c) /\ pc[c] \in {"returning", "throwing"} /\ pc'[c] = "over"
        /\ result'[c] = (IF pc[c] = "returning" THEN "ok" ELSE "error")
    BY <1>9, GoIsOnly DEF Unlock
  <2>2. MakesNoFile /\ lock' = NoOne
    BY <1>9 DEF Unlock, disk, store
  <2>3. pc[c] = "returning" => asset # NoAsset \/ local[c] # NoOne
    BY DEF Core, KeptSomewhere, Kept
  <2>a. Advances(c)
    BY <2>1, <2>2, <2>3 DEF Advances, Completing, Filled, Measures, Early, Kept
  <2> QED
    BY <2>a, Advance
<1> QED
  BY <1>1, <1>2, <1>3, <1>4, <1>5, <1>6, <1>7, <1>8, <1>9 DEF CompleterStep

\* The clean-up a completion runs, and the errors it meets.
LEMMA SharedCore ==
  ASSUME Core, TypeOK, NEW c \in Completers, CleanUpStep(c) \/ CallFails(c)
  PROVE  Core'
<1>r. c \notin Cancellers /\ pc[c] # "cancelling"
  BY DEF Core, Roles
<1>k. pc[c] \in Kept \/ result[c] = "ok" => asset # NoAsset \/ local[c] # NoOne
  BY DEF Core, KeptSomewhere
<1>1. MakesNoFile /\ lock' = lock
  BY DEF CleanUpStep, Clean, DeleteSession, CleanExpired, ForgetExpired, CallFails,
         RemoveFiles, MakesNoFile, redis, disk, store
<1>2. CASE CleanUpStep(c)
  <2>1. /\ Only(c)
        /\ \/ /\ <<pc[c], pc'[c]>> \in {<<"cleaning", "deleting">>, <<"deleting", "returning">>,
                                        <<"expiring", "forgetting">>}
              /\ result'[c] = result[c]
           \/ pc[c] = "forgetting" /\ pc'[c] = "over" /\ result'[c] = "error"
    BY <1>r, <1>2, GoIsOnly
       DEF CleanUpStep, Clean, DeleteSession, CleanExpired, ForgetExpired, Deleted
  <2>a. Advances(c)
    BY <1>k, <1>1, <2>1 DEF Advances, Completing, Filled, Measures, Early, Kept
  <2> QED
    BY <2>a, Advance
<1>3. CASE CallFails(c)
  <2>1. /\ Only(c) /\ Completing(c)
        /\ \/ pc'[c] \in {"forgetting", "throwing", "failing"} /\ result'[c] = result[c]
           \/ pc'[c] = "over" /\ result'[c] = "error"
           \/ pc[c] = "returning" /\ pc'[c] = "over" /\ result'[c] = "ok"
    BY <1>r, <1>3, GoIsOnly DEF CallFails, Completing
  <2>a. Advances(c)
    BY <1>k, <1>1, <2>1 DEF Advances, Completing, Filled, Measures, Early, Kept
  <2> QED
    BY <2>a, Advance
<1> QED
  BY <1>2, <1>3

\* A dead process holds no file open; its lock stays.
LEMMA CrashCore ==
  ASSUME Core, TypeOK, Crash
  PROVE  Core'
<1>1. \A c \in Completers :
        \/ pc'[c] = "over" /\ result'[c] = "error"
        \/ pc'[c] = pc[c] /\ pc[c] \in {"idle", "over"} /\ result'[c] = result[c]
  BY DEF Crash, TypeOK
<1>2. UNCHANGED <<lock, path, file, asset, local, clashed>>
  BY DEF Crash, redis, disk, store
<1>3. Roles' /\ LockHeld' /\ AssetIsSound'
  BY <1>1, <1>2 DEF Core, Roles, LockHeld, Completing, AssetIsSound, Sound
<1>4. Assembled'
  BY <1>1 DEF Assembled, Measures, Holds, Sound, Filled
<1>5. \A c \in Completers : pc[c] \notin Early => pc'[c] \notin Early
  BY <1>1 DEF Early
<1>6. PathIsOpened' /\ LocalIsSound'
  BY <1>2, <1>5 DEF Core, PathIsOpened, LocalIsSound, Sound, TypeOK
<1>7. KeptSomewhere'
  BY <1>1, <1>2 DEF Core, KeptSomewhere, Kept
<1> QED
  BY <1>3, <1>4, <1>6, <1>7 DEF Core

\* The lock of a completion that is over expires, or this one has outlived its lock.
LEMMA ExpiryCore ==
  ASSUME Core, TypeOK, LockExpires, overrun' = {}
  PROVE  Core'
<1>1. lock \in Completers /\ ~Completing(lock)
  BY DEF LockExpires, TypeOK
<1>2. \A c \in Completers : ~Completing(c)
  BY <1>1 DEF Core, LockHeld, Completing
<1>3. UNCHANGED <<pc, frame, result, path, file, asset, local, clashed>>
  BY DEF LockExpires, disk, store
<1>4. Roles' /\ LockHeld' /\ AssetIsSound' /\ KeptSomewhere'
  BY <1>2, <1>3 DEF Core, Roles, LockHeld, Completing, AssetIsSound, Sound, KeptSomewhere
<1>5. Assembled' /\ PathIsOpened' /\ LocalIsSound'
  BY <1>3 DEF Core, Assembled, Measures, Filled, Holds, PathIsOpened, LocalIsSound, Sound
<1> QED
  BY <1>4, <1>5 DEF Core

LEMMA CoreStep ==
  ASSUME Core, TypeOK, WholeUnlessClashed, [Next]_vars, overrun' = {}
  PROVE  Core'
<1>1. CASE SessionExpires \/ UNCHANGED vars
  <2>1. MakesNoFile /\ UNCHANGED <<pc, frame, result, lock>>
    BY <1>1 DEF SessionExpires, vars, redis, disk, store, MakesNoFile
  <2> QED
    BY <2>1, QuietStep
<1> QED
  BY <1>1, OthersStep, CompleterCore, SharedCore, CrashCore, ExpiryCore DEF Next

\* Who has outlived its lock has done so for good.
LEMMA OverrunStays ==
  ASSUME [Next]_vars
  PROVE  overrun \subseteq overrun'
<1>1. \A u \in Uploaders : UploaderStep(u) => overrun' = overrun
  BY DEF UploaderStep, ReceiveChunk, MakeDirectory, OpenTemp, WriteTemp, WritePiece,
         RenameTemp, RecordChunk, Save
<1>2. \A c \in Completers : CompleterStep(c) => overrun' = overrun
  BY DEF CompleterStep, StartCompletion, ReadForCompletion, MarkAssembling,
         RemoveOldAssembly, OpenAssembly, CopyChunk, MeasureAssembly, MarkStoring,
         SendToCloudinary, MoveToLocalStore, MarkCompleted, MarkFailed, Mark, Save, Unlock
<1>3. \A x \in Cancellers : StartCancel(x) \/ MarkCancelled(x) => overrun' = overrun
  BY DEF StartCancel, MarkCancelled, Mark, Save
<1>4. \A p \in Handlers : CleanUpStep(p) \/ CallFails(p) => overrun' = overrun
  BY DEF CleanUpStep, Clean, DeleteSession, CleanExpired, ForgetExpired, RemoveFiles, CallFails
<1>5. Crash \/ SessionExpires \/ UNCHANGED vars => overrun' = overrun
  BY DEF Crash, SessionExpires, vars
<1>6. LockExpires => overrun \subseteq overrun'
  BY DEF LockExpires
<1> QED
  BY <1>1, <1>2, <1>3, <1>4, <1>5, <1>6 DEF Next

-----------------------------------------------------------------------------
(* The theorems.                                                           *)

\* The inductive invariant.  Of the chunk files: unless two uploads wrote a chunk at the
\* same time, the chunk is whole once it has its name.  Of the completions, until a lock
\* has expired under its holder: the lock is held by the one under way, and the file it
\* copies into holds what it copied and is in no store.
THEOREM Inductive == Spec => []IInv
<1>1. Init => IInv
  BY TypeInit, ChunkInit, CoreInit DEF IInv, ChunkInv
<1>2. IInv /\ [Next]_vars => IInv'
  <2> SUFFICES ASSUME IInv, [Next]_vars PROVE IInv'
    OBVIOUS
  <2>1. TypeOK' /\ Owned' /\ WholeUnlessClashed'
    BY TypeStep, ChunkStep DEF IInv, ChunkInv
  <2>2. overrun' = {} => Core'
    BY OverrunStays, CoreStep DEF IInv
  <2> QED
    BY <2>1, <2>2 DEF IInv
<1> QED
  BY <1>1, <1>2, PTL DEF Spec

\* As long as no lock has expired under its holder, only files of the right size, without
\* a hole but where two uploads wrote a chunk at the same time, reach a store, and whoever
\* is told that its upload is complete is given one.
THEOREM OnlyWholeFiles == Spec => []StoredIsWhole
<1>1. IInv => StoredIsWhole
  <2> SUFFICES ASSUME IInv, overrun = {}
               PROVE  /\ asset # NoAsset => Sound(asset)
                      /\ \A c \in Completers :
                            /\ local[c] # NoOne => Sound(file[local[c]])
                            /\ result[c] = "ok" => Sound(Given(c))
    BY DEF StoredIsWhole
  <2>1. Core
    BY DEF IInv
  <2>2. \A c \in Completers : result[c] = "ok" => Sound(Given(c))
    BY <2>1 DEF Core, KeptSomewhere, LocalIsSound, AssetIsSound, Given
  <2> QED
    BY <2>1, <2>2 DEF Core, LocalIsSound, AssetIsSound
<1> QED
  BY <1>1, Inductive, PTL

-----------------------------------------------------------------------------
(* How many completions are under way.                                     *)

\* Those under way that do not hold the lock.
Late == {c \in Completers : Completing(c) /\ lock # c}

\* Who has outlived its lock never takes it again.
OnceOverrun == \A c \in overrun : pc[c] # "idle" /\ lock # c

LInv ==
    /\ TypeOK
    /\ OnceOverrun
    /\ Cardinality(Late) <= Cardinality(overrun)

\* A step in which no completion begins and none takes or leaves the lock.
Continues(p) ==
    /\ UNCHANGED <<lock, overrun>>
    /\ \A c \in Completers : pc'[c] = pc[c] \/ (c = p /\ Completing(c) /\ pc'[c] # "idle")

LEMMA FiniteSets ==
  ASSUME NEW S \in SUBSET Completers
  PROVE  IsFiniteSet(S) /\ Cardinality(S) \in Nat
  BY FS_Subset, FS_CardinalityType

LEMMA FewerLate ==
  ASSUME LInv, overrun' = overrun, Late' \subseteq Late
  PROVE  Cardinality(Late') <= Cardinality(overrun')
<1>1. Late \subseteq Completers /\ Late' \subseteq Completers /\ overrun \subseteq Completers
  BY DEF Late, LInv, TypeOK
<1>2. Cardinality(Late') <= Cardinality(Late)
  BY <1>1, FiniteSets, FS_Subset
<1> QED
  BY <1>1, <1>2, FiniteSets DEF LInv

LEMMA ContinuesIn ==
  ASSUME TypeOK
  PROVE  /\ \A u \in Uploaders : UploaderStep(u) => Continues(u)
         /\ \A c \in Completers :
              CompleterStep(c) => StartCompletion(c) \/ Unlock(c) \/ Continues(c)
         /\ \A x \in Cancellers : StartCancel(x) \/ MarkCancelled(x) => Continues(x)
         /\ \A p \in Handlers : CleanUpStep(p) \/ CallFails(p) => Continues(p)
<1> USE DEF Continues, Completing, Moves
<1>1. ASSUME NEW u \in Uploaders, UploaderStep(u) PROVE Continues(u)
  <2>1. UNCHANGED <<lock, overrun>>
    BY <1>1 DEF UploaderStep, ReceiveChunk, MakeDirectory, OpenTemp, WriteTemp, WritePiece,
           RenameTemp, RecordChunk, Save, redis
  <2>2. Moves(u)
    BY <1>1, GoMoves DEF UploaderStep, ReceiveChunk, ReadRefused, MakeDirectory, OpenTemp,
           WriteTemp, WritePiece, RenameTemp, RecordChunk
  <2> QED
    BY <2>1, <2>2
<1>2. ASSUME NEW c \in Completers, CompleterStep(c)
      PROVE  StartCompletion(c) \/ Unlock(c) \/ Continues(c)
  <2>1. CASE ReadForCompletion(c)
    BY <2>1, GoMoves DEF ReadForCompletion, ReadRefused, redis, history
  <2>2. CASE MarkAssembling(c) \/ MarkStoring(c) \/ MarkCompleted(c) \/ MarkFailed(c)
    BY <2>2, GoMoves DEF MarkAssembling, MarkStoring, MarkCompleted, MarkFailed, Mark, Save
  <2>3. CASE RemoveOldAssembly(c) \/ OpenAssembly(c) \/ CopyChunk(c)
    BY <2>3, GoMoves DEF RemoveOldAssembly, OpenAssembly, CopyChunk, redis
  <2>4. CASE MeasureAssembly(c) \/ SendToCloudinary(c) \/ MoveToLocalStore(c)
    BY <2>4, GoMoves DEF MeasureAssembly, SendToCloudinary, MoveToLocalStore, redis
  <2> QED
    BY <1>2, <2>1, <2>2, <2>3, <2>4 DEF CompleterStep
<1>3. ASSUME NEW x \in Cancellers, StartCancel(x) \/ MarkCancelled(x) PROVE Continues(x)
  BY <1>3, GoMoves DEF StartCancel, MarkCancelled, Mark, Save, redis
<1>4. ASSUME NEW p \in Handlers, CleanUpStep(p) PROVE Continues(p)
  BY <1>4, GoMoves DEF CleanUpStep, Clean, DeleteSession, CleanExpired, ForgetExpired,
         RemoveFiles, Deleted, redis
<1>5. ASSUME NEW p \in Handlers, CallFails(p) PROVE Continues(p)
  BY <1>5, GoMoves DEF CallFails, redis
<1> QED
  BY <1>1, <1>2, <1>3, <1>4, <1>5

LEMMA ContinuesKeeps ==
  ASSUME LInv, NEW p, Continues(p)
  PROVE  OnceOverrun' /\ Cardinality(Late') <= Cardinality(overrun')
<1>1. OnceOverrun' /\ Late' \subseteq Late
  BY DEF LInv, TypeOK, OnceOverrun, Continues, Late, Completing
<1> QED
  BY <1>1, FewerLate DEF Continues

\* A completion that takes the lock was not under way; the others hold none.
LEMMA StartKeeps ==
  ASSUME LInv, NEW c \in Completers, StartCompletion(c)
  PROVE  OnceOverrun' /\ Cardinality(Late') <= Cardinality(overrun')
<1>1. /\ overrun' = overrun /\ pc[c] = "idle" /\ pc'[c] # "idle"
      /\ \A d \in Completers \ {c} : pc'[d] = pc[d]
      /\ \/ lock = NoOne /\ lock' = c
         \/ lock' = lock /\ pc'[c] = "over"
  BY GoMoves DEF StartCompletion, Acquire, LInv, Moves
<1>2. OnceOverrun'
  BY <1>1 DEF LInv, TypeOK, OnceOverrun
<1>3. Late' \subseteq Late
  BY <1>1 DEF LInv, TypeOK, Late, Completing
<1> QED
  BY <1>1, <1>2, <1>3, FewerLate

\* A completion that ends frees the lock of another one only if it had none itself, so one
\* more is late and one less.
LEMMA UnlockKeeps ==
  ASSUME LInv, NEW c \in Completers, Unlock(c)
  PROVE  OnceOverrun' /\ Cardinality(Late') <= Cardinality(overrun')
<1>1. /\ overrun' = overrun /\ lock' = NoOne
      /\ pc[c] \in {"returning", "throwing"} /\ pc'[c] = "over"
      /\ \A d \in Completers \ {c} : pc'[d] = pc[d]
  BY GoMoves DEF Unlock, store, history, LInv, Moves
<1>2. OnceOverrun'
  BY <1>1 DEF LInv, TypeOK, OnceOverrun
<1>3. CASE lock \in {c, NoOne}
  <2>1. Late' \subseteq Late
    BY <1>1, <1>3 DEF Late, Completing
  <2> QED
    BY <1>1, <1>2, <2>1, FewerLate
<1>4. CASE lock \notin {c, NoOne}
  <2>1. c \in Late /\ Late \subseteq Completers /\ overrun \subseteq Completers /\ lock \in Completers
    BY <1>1, <1>4 DEF Late, Completing, LInv, TypeOK
  <2> DEFINE rest == Late \ {c}
  <2>2. Late' \subseteq rest \cup {lock}
    BY <1>1 DEF Late, Completing
  <2>3. IsFiniteSet(rest) /\ Cardinality(rest) = Cardinality(Late) - 1
    BY <2>1, FiniteSets, FS_RemoveElement
  <2>4. IsFiniteSet(rest \cup {lock}) /\ Cardinality(rest \cup {lock}) <= Cardinality(Late)
    <3>1. Cardinality(rest) \in Nat /\ Cardinality(Late) \in Nat
      BY <2>1, FiniteSets
    <3>2. /\ IsFiniteSet(rest \cup {lock})
          /\ Cardinality(rest \cup {lock}) = IF lock \in rest THEN Cardinality(rest) ELSE Cardinality(rest) + 1
      BY <2>3, FS_AddElement
    <3> QED
      BY <2>3, <3>1, <3>2
  <2>5. Cardinality(Late') <= Cardinality(rest \cup {lock})
    BY <2>2, <2>4, FS_Subset
  <2>6. /\ Cardinality(Late') \in Nat /\ Cardinality(Late) \in Nat /\ Cardinality(overrun) \in Nat
        /\ Cardinality(rest \cup {lock}) \in Nat
    <3>1. Late' \subseteq Completers
      BY DEF Late
    <3> QED
      BY <2>1, <2>4, <3>1, FiniteSets, FS_CardinalityType
  <2> QED
    BY <1>1, <1>2, <2>4, <2>5, <2>6 DEF LInv
<1> QED
  BY <1>3, <1>4

\* A lock that expires under its holder makes one more late, and is counted.
LEMMA ExpiryKeeps ==
  ASSUME LInv, LockExpires
  PROVE  OnceOverrun' /\ Cardinality(Late') <= Cardinality(overrun')
<1>1. lock \in Completers /\ lock' = NoOne /\ pc' = pc
  BY DEF LockExpires, LInv, TypeOK
<1>2. OnceOverrun'
  BY <1>1 DEF LInv, TypeOK, OnceOverrun, LockExpires, Completing
<1>3. CASE ~Completing(lock)
  <2>1. overrun' = overrun /\ Late' \subseteq Late
    BY <1>1, <1>3 DEF LockExpires, Late, Completing
  <2> QED
    BY <1>2, <2>1, FewerLate
<1>4. CASE Completing(lock)
  <2>1. overrun' = overrun \cup {lock} /\ lock \notin overrun /\ lock \notin Late
    BY <1>4 DEF LockExpires, LInv, OnceOverrun, Late
  <2>2. Late' \subseteq Late \cup {lock}
    BY <1>1 DEF Late, Completing
  <2>3. Late \subseteq Completers /\ Late' \subseteq Completers /\ overrun \subseteq Completers
    BY DEF Late, LInv, TypeOK
  <2>4. Cardinality(overrun') = Cardinality(overrun) + 1
    BY <2>1, <2>3, FiniteSets, FS_AddElement
  <2>5. IsFiniteSet(Late \cup {lock}) /\ Cardinality(Late \cup {lock}) = Cardinality(Late) + 1
    BY <2>1, <2>3, FiniteSets, FS_AddElement
  <2>6. Cardinality(Late') <= Cardinality(Late) + 1
    BY <2>2, <2>5, FS_Subset
  <2>7. Cardinality(Late) \in Nat /\ Cardinality(Late') \in Nat /\ Cardinality(overrun) \in Nat
    BY <2>3, FiniteSets
  <2> QED
    BY <1>2, <2>4, <2>6, <2>7 DEF LInv
<1> QED
  BY <1>3, <1>4

\* A dead process takes its completions with it, and leaves the lock.
LEMMA CrashLate ==
  ASSUME LInv, Crash \/ SessionExpires \/ UNCHANGED vars
  PROVE  OnceOverrun' /\ Cardinality(Late') <= Cardinality(overrun')
<1>1. UNCHANGED <<lock, overrun>>
  BY DEF Crash, SessionExpires, vars, redis, history
<1>2. \A c \in Completers : pc'[c] = pc[c] \/ (pc[c] # "idle" /\ pc'[c] = "over")
  BY DEF Crash, SessionExpires, vars, LInv, TypeOK
<1>3. OnceOverrun' /\ Late' \subseteq Late
  BY <1>1, <1>2 DEF LInv, TypeOK, OnceOverrun, Late, Completing
<1> QED
  BY <1>1, <1>3, FewerLate

LEMMA LateInit == Init => LInv
<1> SUFFICES ASSUME Init PROVE LInv
  OBVIOUS
<1>1. TypeOK
  BY TypeInit
<1>2. overrun = {} /\ Late = {}
  BY DEF Init, Late, Completing
<1> QED
  BY <1>1, <1>2, FS_EmptySet DEF LInv, OnceOverrun

LEMMA LateStep == LInv /\ [Next]_vars => LInv'
<1> SUFFICES ASSUME LInv, [Next]_vars PROVE LInv'
  OBVIOUS
<1>1. TypeOK'
  BY TypeStep DEF LInv
<1>2. OnceOverrun' /\ Cardinality(Late') <= Cardinality(overrun')
  BY ContinuesIn, ContinuesKeeps, StartKeeps, UnlockKeeps, ExpiryKeeps, CrashLate DEF Next, LInv
<1> QED
  BY <1>1, <1>2 DEF LInv

\* Whatever crashes, fails or is cancelled, and whenever locks expire: there are at most as
\* many completions of an upload under way as locks expired under their holders, and one.
THEOREM Exclusion == Spec => []CompletersExclude
<1>1. LInv => CompletersExclude
  <2> SUFFICES ASSUME LInv PROVE CompletersExclude
    OBVIOUS
  <2> DEFINE underWay == {c \in Completers : Completing(c)}
  <2>1. underWay \subseteq Late \cup {lock} /\ Late \subseteq Completers /\ overrun \subseteq Completers
    BY DEF Late, LInv, TypeOK
  <2>2. IsFiniteSet(Late \cup {lock}) /\ Cardinality(Late \cup {lock}) <= Cardinality(Late) + 1
    <3>1. IsFiniteSet(Late) /\ Cardinality(Late) \in Nat
      BY <2>1, FiniteSets
    <3>2. /\ IsFiniteSet(Late \cup {lock})
          /\ Cardinality(Late \cup {lock}) =
                IF lock \in Late THEN Cardinality(Late) ELSE Cardinality(Late) + 1
      BY <3>1, FS_AddElement
    <3> QED
      BY <3>1, <3>2
  <2>3. Cardinality(underWay) <= Cardinality(Late \cup {lock})
    BY <2>1, <2>2, FS_Subset
  <2>4. /\ Cardinality(underWay) \in Nat /\ Cardinality(Late) \in Nat
        /\ Cardinality(overrun) \in Nat /\ Cardinality(Late \cup {lock}) \in Nat
    <3>1. underWay \subseteq Completers
      OBVIOUS
    <3> QED
      BY <2>1, <2>2, <3>1, FiniteSets, FS_CardinalityType
  <2> QED
    BY <2>2, <2>3, <2>4 DEF LInv, CompletersExclude
<1> QED
  BY <1>1, LateInit, LateStep, PTL DEF Spec

-----------------------------------------------------------------------------
(* What the lock has no part in: it holds when a completion outlives it.    *)

Stored == asset # NoAsset \/ \E c \in Completers : local[c] # NoOne

\* A completion that stored a file tells its client or is on the way to, unless one met
\* an error; a client that was told is told for good.
TellsOrFails ==
    /\ Stored =>
          \/ \E c \in Completers : result[c] = "ok" \/ pc[c] \in Kept
          \/ troubled # {}
    /\ \A c \in Completers : result[c] = "ok" => pc[c] = "over"

UploaderStages == {"idle", "making", "creating", "heading", "tailing", "renaming",
                   "saving", "expiring", "forgetting", "over"}

\* Who may come to remove the directory: a completion that stored its file, the reader
\* of an expired session, a cancellation; no uploader.
Removers ==
    /\ \A u \in Uploaders :
          pc[u] \in UploaderStages
    /\ \A c \in Completers : pc[c] # "cancelling" /\ (pc[c] \in Kept => Stored)
    /\ \A p \in Handlers : pc[p] = "expiring" => expired

\* What a handler has read of the list, and the chunk it is about to add, is on disk.
ReadIsOnDisk ==
    /\ session.chunks \subseteq Present
    /\ \A p \in Handlers : frame[p].chunks \subseteq Present
    /\ \A u \in Uploaders : pc[u] = "saving" => ChunkOf[u] \in Present

UInv ==
    /\ TypeOK
    /\ TellsOrFails
    /\ Removers
    /\ MayBeCleaned \/ ReadIsOnDisk

LEMMA UInit == Init => TellsOrFails /\ Removers /\ ReadIsOnDisk
<1> SUFFICES ASSUME Init PROVE TellsOrFails /\ Removers /\ ReadIsOnDisk
  OBVIOUS
<1>1. \A p \in Handlers : pc[p] = "idle" /\ result[p] = "none" /\ frame[p].chunks = {}
  BY DEF Init, NoFrame
<1>2. ~Stored
  BY DEF Init, Stored
<1>3. session.chunks = {} /\ Present = {}
  BY DEF Init, Present
<1> QED
  BY <1>1, <1>2, <1>3 DEF TellsOrFails, Removers, UploaderStages, Kept, ReadIsOnDisk

\* A file, once stored, stays stored, and a reason to remove the directory remains one.
LEMMA StoredStays ==
  ASSUME TypeOK, [Next]_vars
  PROVE  /\ expired => expired'
         /\ Stored => Stored'
         /\ troubled \subseteq troubled'
         /\ \A p \in Handlers : pc[p] # "idle" => pc'[p] # "idle"
<1> DEFINE Keeps == (expired => expired') /\ (Stored => Stored') /\ troubled \subseteq troubled'
<1>f. UNCHANGED <<expired, asset, local, troubled>> => Keeps
  BY DEF Stored
<1>g. ASSUME NEW p \in Handlers,
             \/ \E stage \in Stages \ {"idle"} : \E locals : GoWith(p, stage, locals)
             \/ \E stage \in Stages \ {"idle"} : Go(p, stage)
             \/ \E r : Answer(p, r)
      PROVE  \A q \in Handlers : pc[q] # "idle" => pc'[q] # "idle"
  BY <1>g, GoMoves DEF Moves
<1> DEFINE Busy == \A q \in Handlers : pc[q] # "idle" => pc'[q] # "idle"
<1>1. ASSUME NEW u \in Uploaders, UploaderStep(u)
      PROVE  Keeps /\ Busy
  <2>1. Keeps
    BY <1>1, <1>f DEF UploaderStep, ReceiveChunk, MakeDirectory, OpenTemp, WriteTemp,
                      WritePiece, RenameTemp, RecordChunk, Save, redis, disk, store
  <2>2. Busy
    BY <1>1, <1>g DEF UploaderStep, ReceiveChunk, ReadRefused, MakeDirectory, OpenTemp,
                      WriteTemp, WritePiece, RenameTemp, RecordChunk, Stages
  <2> QED
    BY <2>1, <2>2
<1>2. ASSUME NEW x \in Cancellers, StartCancel(x) \/ MarkCancelled(x)
      PROVE  Keeps /\ Busy
  <2>1. Keeps
    BY <1>2, <1>f DEF StartCancel, MarkCancelled, Mark, Save, redis, disk, store
  <2>2. Busy
    BY <1>2, <1>g DEF StartCancel, MarkCancelled, Mark, Stages
  <2> QED
    BY <2>1, <2>2
<1>3. ASSUME NEW p \in Handlers, CleanUpStep(p)
      PROVE  Keeps /\ Busy
  <2>1. Keeps
    BY <1>3, <1>f DEF CleanUpStep, Clean, DeleteSession, CleanExpired, ForgetExpired,
                      RemoveFiles, redis, disk, store
  <2>2. Busy
    BY <1>3, <1>g DEF CleanUpStep, Clean, DeleteSession, CleanExpired, ForgetExpired, Stages
  <2> QED
    BY <2>1, <2>2
<1>4. ASSUME NEW p \in Handlers, CallFails(p)
      PROVE  Keeps /\ Busy
  <2>1. Keeps
    BY <1>4 DEF CallFails, redis, store, Stored
  <2>2. Busy
    BY <1>4, <1>g DEF CallFails, Stages
  <2> QED
    BY <2>1, <2>2
<1>5. ASSUME NEW c \in Completers, CompleterStep(c)
      PROVE  Keeps /\ Busy
  <2>1. CASE SendToCloudinary(c)
    <3>1. UNCHANGED <<expired, local>> /\ troubled \subseteq troubled'
      BY <2>1 DEF SendToCloudinary, redis
    <3>2. asset # NoAsset => asset' # NoAsset
      BY <2>1 DEF SendToCloudinary
    <3>3. Busy
      BY <2>1, <1>g DEF SendToCloudinary, Stages
    <3> QED
      BY <3>1, <3>2, <3>3 DEF Stored
  <2>2. CASE MoveToLocalStore(c)
    <3>1. UNCHANGED <<expired, asset, troubled>>
      BY <2>2 DEF MoveToLocalStore, redis
    <3>2. \A d \in Completers : local[d] # NoOne => local'[d] # NoOne
      BY <2>2 DEF MoveToLocalStore, TypeOK
    <3>3. Busy
      BY <2>2, <1>g DEF MoveToLocalStore, Stages
    <3> QED
      BY <3>1, <3>2, <3>3 DEF Stored
  <2>3. CASE StartCompletion(c)
    <3>1. Keeps
      BY <2>3 DEF StartCompletion, Acquire, store, Stored
    <3>2. Busy
      BY <2>3, <1>g DEF StartCompletion, Acquire, Stages
    <3> QED
      BY <3>1, <3>2
  <2>4. CASE ReadForCompletion(c) \/ RemoveOldAssembly(c) \/ MeasureAssembly(c) \/ Unlock(c)
    <3>1. Keeps
      BY <2>4, <1>f DEF ReadForCompletion, RemoveOldAssembly, MeasureAssembly, Unlock,
                        redis, disk, store
    <3>2. Busy
      BY <2>4, <1>g DEF ReadForCompletion, ReadRefused, RemoveOldAssembly, MeasureAssembly,
                        Unlock, Stages
    <3> QED
      BY <3>1, <3>2
  <2>5. CASE MarkAssembling(c) \/ MarkStoring(c) \/ MarkCompleted(c) \/ MarkFailed(c)
    <3>1. Keeps
      BY <2>5, <1>f DEF MarkAssembling, MarkStoring, MarkCompleted, MarkFailed, Mark, Save, store
    <3>2. Busy
      BY <2>5, <1>g DEF MarkAssembling, MarkStoring, MarkCompleted, MarkFailed, Mark, Stages
    <3> QED
      BY <3>1, <3>2
  <2>6. CASE OpenAssembly(c) \/ CopyChunk(c)
    <3>1. Keeps
      BY <2>6, <1>f DEF OpenAssembly, CopyChunk, redis, store
    <3>2. Busy
      BY <2>6, <1>g DEF OpenAssembly, CopyChunk, Stages
    <3> QED
      BY <3>1, <3>2
  <2> QED
    BY <1>5, <2>1, <2>2, <2>3, <2>4, <2>5, <2>6 DEF CompleterStep
<1>6. CASE Crash
  <2>1. Keeps
    BY <1>6 DEF Crash, redis, store, Stored
  <2>2. Busy
    BY <1>6 DEF Crash
  <2> QED
    BY <2>1, <2>2
<1>7. CASE LockExpires \/ SessionExpires \/ UNCHANGED vars
  BY <1>7 DEF LockExpires, SessionExpires, vars, redis, store, Stored
<1> QED
  BY <1>1, <1>2, <1>3, <1>4, <1>5, <1>6, <1>7 DEF Next

\* What a handler that moves must see to, for the invariant to hold afterwards.
Tells(p) ==
    /\ pc[p] # "over"
    /\ result'[p] = "ok" => pc'[p] = "over"
    /\ pc[p] \in Kept \/ (Stored' /\ ~Stored) =>
          pc'[p] \in Kept \/ result'[p] = "ok" \/ troubled' # {}

Plays(p) ==
    /\ p \in Uploaders => pc'[p] \in UploaderStages
    /\ p \in Completers => pc'[p] # "cancelling" /\ (pc'[p] \in Kept => Stored')
    /\ pc'[p] = "expiring" => expired'

Finds(p) ==
    /\ Present \subseteq Present'
    /\ session'.chunks \subseteq Present'
    /\ frame'[p].chunks \subseteq Present'
    /\ p \in Uploaders /\ pc'[p] = "saving" => ChunkOf[p] \in Present'

Steps(p) ==
    /\ Moves(p)
    /\ p \in Completers => Tells(p)
    /\ p \notin Completers => UNCHANGED <<asset, local>>
    /\ Plays(p)
    /\ MayBeCleaned \/ Finds(p)

\* The invariant but for the types.
Keeping == TellsOrFails /\ Removers /\ (MayBeCleaned \/ ReadIsOnDisk)

LEMMA CleanedStays ==
  ASSUME TypeOK, [Next]_vars, MayBeCleaned
  PROVE  MayBeCleaned'
  BY StoredStays DEF MayBeCleaned, Stored

LEMMA StepKeeps ==
  ASSUME TypeOK, Keeping, [Next]_vars, NEW p \in Handlers, Steps(p)
  PROVE  Keeping'
<1>1. TellsOrFails'
  <2>1. CASE p \notin Completers
    BY <2>1, StoredStays DEF Steps, Moves, Keeping, TellsOrFails, Stored
  <2>2. CASE p \in Completers
    <3>1. \A c \in Completers : result'[c] = "ok" => pc'[c] = "over"
      BY <2>2 DEF Steps, Moves, Tells, Keeping, TellsOrFails
    <3>2. SUFFICES ASSUME Stored', troubled' = {}
                   PROVE  \E c \in Completers : result'[c] = "ok" \/ pc'[c] \in Kept
      BY <3>1 DEF TellsOrFails
    <3>3. CASE ~Stored
      BY <2>2, <3>2, <3>3 DEF Steps, Tells
    <3>4. CASE Stored
      <4>1. troubled = {}
        BY <3>2, StoredStays
      <4>2. PICK c \in Completers : result[c] = "ok" \/ pc[c] \in Kept
        BY <3>4, <4>1 DEF Keeping, TellsOrFails
      <4>3. result[c] = "ok" => pc[c] = "over"
        BY DEF Keeping, TellsOrFails
      <4> QED
        BY <2>2, <3>2, <4>2, <4>3 DEF Steps, Moves, Tells
    <3> QED
      BY <3>3, <3>4
  <2> QED
    BY <2>1, <2>2
<1>2. Removers'
  BY StoredStays DEF Steps, Moves, Plays, Keeping, Removers
<1>3. CASE MayBeCleaned
  BY <1>1, <1>2, <1>3, CleanedStays DEF Keeping
<1>4. CASE ~MayBeCleaned
  <2>1. ReadIsOnDisk'
    BY <1>4 DEF Steps, Moves, Finds, Keeping, ReadIsOnDisk
  <2> QED
    BY <1>1, <1>2, <2>1 DEF Keeping
<1> QED
  BY <1>3, <1>4

\* A handler about to remove the directory has a reason to.
LEMMA CleaningHasAReason ==
  ASSUME Removers, NEW p \in Handlers, pc[p] \in {"cleaning", "expiring"}
  PROVE  MayBeCleaned
  BY DEF Removers, UploaderStages, MayBeCleaned, Stored, Kept

LEMMA OthersStepsIn ==
  ASSUME TypeOK, Keeping
  PROVE  /\ \A u \in Uploaders : UploaderStep(u) => Steps(u)
         /\ \A x \in Cancellers : StartCancel(x) \/ MarkCancelled(x) => Steps(x)
<1>1. ASSUME NEW u \in Uploaders, ReceiveChunk(u) PROVE Steps(u)
  <2>1. UNCHANGED <<session, expired, Present, asset, local>>
    BY <1>1 DEF ReceiveChunk, redis, disk, store, Present
  <2>2. CASE ReadRefused(u)
    BY <2>1, <2>2, GoMoves DEF ReadRefused, Steps, Plays, UploaderStages, Finds, NoFrame, Keeping, ReadIsOnDisk
  <2>3. CASE Answer(u, "error")
    BY <2>1, <2>3, GoMoves DEF Steps, Plays, UploaderStages, Finds, NoFrame, Keeping, ReadIsOnDisk
  <2>4. CASE GoWith(u, "making", ReadFrame)
    BY <2>1, <2>4, GoMoves
       DEF Steps, Plays, UploaderStages, Finds, ReadFrame, NoFrame, Keeping, ReadIsOnDisk
  <2> QED
    BY <1>1, <2>2, <2>3, <2>4 DEF ReceiveChunk
<1>2. ASSUME NEW u \in Uploaders, MakeDirectory(u) \/ OpenTemp(u) \/ WriteTemp(u)
      PROVE  Steps(u)
  <2>1. UNCHANGED <<session, expired, part, asset, local>>
    BY <1>2 DEF MakeDirectory, OpenTemp, WriteTemp, WritePiece, redis, store
  <2>2. Present' = Present
    BY <2>1 DEF Present
  <2>3. /\ Moves(u) /\ frame'[u] \in {frame[u], NoFrame}
        /\ pc'[u] \in {"creating", "heading", "tailing", "renaming", "over"}
    BY <1>2, GoMoves DEF MakeDirectory, OpenTemp, WriteTemp, WritePiece
  <2> QED
    BY <2>1, <2>2, <2>3 DEF Steps, Plays, UploaderStages, Finds, NoFrame, Keeping, ReadIsOnDisk
<1>6. ASSUME NEW u \in Uploaders, RenameTemp(u) PROVE Steps(u)
  <2>1. UNCHANGED <<session, expired, asset, local>>
    BY <1>6 DEF RenameTemp, redis, store
  <2>2. /\ Moves(u) /\ frame'[u] \in {frame[u], NoFrame}
        /\ \/ pc'[u] = "saving" /\ Present' = Present \cup {ChunkOf[u]}
           \/ pc'[u] = "over" /\ Present' = Present
    <3>1. CASE temp[ChunkOf[u]] # NoOne
      <4>1. part' = [part EXCEPT ![ChunkOf[u]] = temp[ChunkOf[u]]] /\ Go(u, "saving")
        BY <1>6, <3>1 DEF RenameTemp
      <4>2. Present' = Present \cup {ChunkOf[u]}
        BY <3>1, <4>1 DEF Present, TypeOK
      <4> QED
        BY <4>1, <4>2, GoMoves
    <3>2. CASE temp[ChunkOf[u]] = NoOne
      <4>1. part' = part /\ Answer(u, "error")
        BY <1>6, <3>2 DEF RenameTemp
      <4>2. Present' = Present
        BY <4>1 DEF Present
      <4> QED
        BY <4>1, <4>2, GoMoves
    <3> QED
      BY <3>1, <3>2
  <2> QED
    BY <2>1, <2>2 DEF Steps, Plays, UploaderStages, Finds, NoFrame, Keeping, ReadIsOnDisk
<1>3. ASSUME NEW u \in Uploaders, RecordChunk(u) PROVE Steps(u)
  <2>1. /\ UNCHANGED <<expired, asset, local, Present>>
        /\ session'.chunks = frame[u].chunks \cup {ChunkOf[u]}
        /\ pc[u] = "saving"
    BY <1>3 DEF RecordChunk, Save, Added, disk, store, Present
  <2>2. Moves(u) /\ pc'[u] = "over" /\ frame'[u].chunks = {}
    BY <1>3, GoMoves DEF RecordChunk, NoFrame
  <2> QED
    BY <2>1, <2>2 DEF Steps, Plays, UploaderStages, Finds, Keeping, ReadIsOnDisk
<1>4. ASSUME NEW x \in Cancellers, StartCancel(x) PROVE Steps(x)
  <2>1. UNCHANGED <<session, expired, Present, asset, local>>
    BY <1>4 DEF StartCancel, redis, disk, store, Present
  <2>2. Moves(x) /\ pc'[x] \in {"over", "cancelling"} /\ frame'[x].chunks \subseteq session.chunks
    BY <1>4, GoMoves DEF StartCancel, ReadFrame, NoFrame
  <2> QED
    BY <2>1, <2>2 DEF Steps, Plays, UploaderStages, Finds, Keeping, ReadIsOnDisk
<1>5. ASSUME NEW x \in Cancellers, MarkCancelled(x) PROVE Steps(x)
  <2>1. UNCHANGED <<expired, asset, local, Present>> /\ session'.chunks = frame[x].chunks
    BY <1>5 DEF MarkCancelled, Mark, Save, disk, store, Present
  <2>2. Moves(x) /\ pc'[x] = "cleaning" /\ frame'[x] = frame[x]
    BY <1>5, GoMoves DEF MarkCancelled, Mark
  <2> QED
    BY <2>1, <2>2 DEF Steps, Plays, UploaderStages, Finds, Keeping, ReadIsOnDisk
<1> QED
  BY <1>1, <1>2, <1>3, <1>4, <1>5, <1>6 DEF UploaderStep

LEMMA CompleterStepsIn ==
  ASSUME TypeOK, Keeping, NEW c \in Completers, CompleterStep(c)
  PROVE  Steps(c)
<1> USE DEF Kept
<1>o. c \notin Uploaders
  OBVIOUS
\* A call that stores nothing and leaves session and Present as they are, or saves c's list.
<1>q. ASSUME Moves(c), UNCHANGED <<asset, local, Present>>, expired' = expired,
             session'.chunks \in {session.chunks, frame[c].chunks},
             frame'[c].chunks \in {{}, session.chunks, frame[c].chunks},
             Tells(c), pc'[c] # "cancelling", pc'[c] \in Kept => pc[c] \in Kept,
             pc'[c] = "expiring" => expired
      PROVE  Steps(c)
  <2>1. Plays(c)
    BY <1>o, <1>q DEF Plays, UploaderStages, Keeping, Removers, Stored
  <2>2. MayBeCleaned \/ Finds(c)
    BY <1>o, <1>q DEF Finds, Keeping, ReadIsOnDisk
  <2> QED
    BY <1>q, <2>1, <2>2 DEF Steps
<1>n. UNCHANGED <<asset, local>> => ~(Stored' /\ ~Stored)
  BY DEF Stored
<1>k. result[c] = "ok" => pc[c] = "over"
  BY DEF Keeping, TellsOrFails
<1>1. CASE StartCompletion(c)
  <2>1. /\ Moves(c) /\ pc[c] = "idle" /\ pc'[c] \in {"reading", "over"}
        /\ result'[c] \in {result[c], "error"} /\ frame'[c] \in {frame[c], NoFrame}
    BY <1>1, GoMoves DEF StartCompletion, Acquire
  <2>2. UNCHANGED <<session, expired, asset, local, Present>>
    BY <1>1 DEF StartCompletion, disk, store, Present
  <2>3. Tells(c)
    BY <1>k, <1>n, <2>1, <2>2 DEF Tells
  <2> QED
    BY <1>q, <2>1, <2>2, <2>3 DEF NoFrame
<1>2. CASE ReadForCompletion(c)
  <2>1. UNCHANGED <<session, expired, asset, local, Present>> /\ pc[c] = "reading"
    BY <1>2 DEF ReadForCompletion, redis, disk, store, Present
  <2>2. /\ Moves(c) /\ pc'[c] \in {"over", "expiring", "marking", "failing"}
        /\ result'[c] \in {result[c], "error"}
        /\ frame'[c].chunks \in {{}, session.chunks, frame[c].chunks}
        /\ pc'[c] = "expiring" => expired
    BY <1>2, GoMoves DEF ReadForCompletion, ReadRefused, ReadFrame, NoFrame
  <2>3. Tells(c)
    BY <1>k, <1>n, <2>1, <2>2 DEF Tells
  <2> QED
    BY <1>q, <2>1, <2>2, <2>3
<1>3. CASE MarkAssembling(c) \/ MarkStoring(c) \/ MarkCompleted(c) \/ MarkFailed(c)
  <2>1. /\ Moves(c) /\ frame'[c] = frame[c] /\ result'[c] = result[c]
        /\ <<pc[c], pc'[c]>> \in {<<"marking", "removing">>, <<"announcing", "sending">>,
                                  <<"completing", "cleaning">>, <<"failing", "throwing">>}
    BY <1>3, GoMoves DEF MarkAssembling, MarkStoring, MarkCompleted, MarkFailed, Mark
  <2>2. UNCHANGED <<expired, asset, local, Present>> /\ session'.chunks = frame[c].chunks
    BY <1>3 DEF MarkAssembling, MarkStoring, MarkCompleted, MarkFailed, Mark, Save, disk, store, Present
  <2>3. Tells(c)
    BY <1>k, <1>n, <2>1, <2>2 DEF Tells
  <2> QED
    BY <1>q, <2>1, <2>2, <2>3
<1>4. CASE RemoveOldAssembly(c) \/ MeasureAssembly(c)
  <2>1. /\ Moves(c) /\ frame'[c] = frame[c] /\ result'[c] = result[c]
        /\ pc[c] \in {"removing", "measuring"} /\ pc'[c] \in {"opening", "announcing", "failing"}
    BY <1>4, GoMoves DEF RemoveOldAssembly, MeasureAssembly
  <2>2. UNCHANGED <<session, expired, asset, local, Present>>
    BY <1>4 DEF RemoveOldAssembly, MeasureAssembly, redis, disk, store, Present
  <2>3. Tells(c)
    BY <1>k, <1>n, <2>1, <2>2 DEF Tells
  <2> QED
    BY <1>q, <2>1, <2>2, <2>3
<1>5. CASE OpenAssembly(c) \/ CopyChunk(c)
  <2>0. \A i, h, at :
          /\ [frame[c] EXCEPT !.handle = h].chunks = frame[c].chunks
          /\ [frame[c] EXCEPT !.index = i, !.at = at].chunks = frame[c].chunks
    BY DEF TypeOK, Frames
  <2>1. /\ Moves(c) /\ frame'[c].chunks = frame[c].chunks /\ result'[c] = result[c]
        /\ pc[c] \in {"opening", "copying"} /\ pc'[c] \in {"copying", "measuring", "failing"}
    <3>1. \/ \E h : GoWith(c, "copying", [frame[c] EXCEPT !.handle = h])
          \/ \E i, at : \E stage \in {"copying", "measuring"} :
                GoWith(c, stage, [frame[c] EXCEPT !.index = i, !.at = at])
          \/ Go(c, "failing")
      BY <1>5 DEF OpenAssembly, CopyChunk
    <3>2. pc[c] \in {"opening", "copying"}
      BY <1>5 DEF OpenAssembly, CopyChunk
    <3>3. CASE \E h : GoWith(c, "copying", [frame[c] EXCEPT !.handle = h])
      <4>1. PICK h : GoWith(c, "copying", [frame[c] EXCEPT !.handle = h])
        BY <3>3
      <4>2. /\ Moves(c) /\ pc'[c] = "copying" /\ result'[c] = result[c]
            /\ frame'[c] = [frame[c] EXCEPT !.handle = h]
        BY <4>1, GoMoves, Zenon
      <4> QED
        BY <2>0, <3>2, <4>2
    <3>4. CASE \E i, at : \E stage \in {"copying", "measuring"} :
                 GoWith(c, stage, [frame[c] EXCEPT !.index = i, !.at = at])
      <4>1. PICK i, at : \E stage \in {"copying", "measuring"} :
               GoWith(c, stage, [frame[c] EXCEPT !.index = i, !.at = at])
        BY <3>4
      <4>2. PICK stage \in {"copying", "measuring"} :
               GoWith(c, stage, [frame[c] EXCEPT !.index = i, !.at = at])
        BY <4>1
      <4>3. /\ Moves(c) /\ pc'[c] = stage /\ result'[c] = result[c]
            /\ frame'[c] = [frame[c] EXCEPT !.index = i, !.at = at]
        BY <4>2, GoMoves, Zenon
      <4> QED
        BY <2>0, <3>2, <4>3
    <3> QED
      BY <3>1, <3>2, <3>3, <3>4, GoMoves
  <2>2. UNCHANGED <<session, expired, asset, local, Present>>
    BY <1>5 DEF OpenAssembly, CopyChunk, redis, store, Present
  <2>3. Tells(c)
    BY <1>k, <1>n, <2>1, <2>2 DEF Tells
  <2> QED
    BY <1>q, <2>1, <2>2, <2>3
<1>6. CASE SendToCloudinary(c)
  <2>1. /\ Moves(c) /\ frame'[c] = frame[c] /\ result'[c] = result[c]
        /\ pc[c] = "sending" /\ pc'[c] \in {"completing", "moving", "failing"}
        /\ UNCHANGED <<session, expired, Present, local>>
    BY <1>6, GoMoves DEF SendToCloudinary, redis, disk, Present
  <2>2. path # NoOne => file[path] # NoAsset
    BY DEF TypeOK, Files, NoAsset
  <2>3. /\ pc'[c] = "completing" => asset' # NoAsset
        /\ asset' # asset => pc'[c] = "completing" \/ c \in troubled'
    BY <1>6, <2>2, GoMoves DEF SendToCloudinary
  <2>4. Tells(c)
    BY <1>k, <2>1, <2>3 DEF Tells, Stored
  <2>5. Plays(c)
    BY <1>o, <2>1, <2>3 DEF Plays, UploaderStages, Stored
  <2>6. MayBeCleaned \/ Finds(c)
    BY <1>o, <2>1 DEF Finds, Keeping, ReadIsOnDisk
  <2> QED
    BY <2>1, <2>4, <2>5, <2>6 DEF Steps
<1>7. CASE MoveToLocalStore(c)
  <2>1. /\ Moves(c) /\ frame'[c] = frame[c] /\ result'[c] = result[c]
        /\ pc[c] = "moving" /\ pc'[c] \in {"completing", "failing"}
        /\ UNCHANGED <<session, expired, Present, asset>>
    BY <1>7, GoMoves DEF MoveToLocalStore, redis, Present
  <2>2. /\ pc'[c] = "completing" => local'[c] # NoOne
        /\ pc'[c] # "completing" => local' = local
    BY <1>7, GoMoves DEF MoveToLocalStore, TypeOK
  <2>3. Tells(c)
    BY <1>k, <2>1, <2>2 DEF Tells, Stored
  <2>4. Plays(c)
    BY <1>o, <2>1, <2>2 DEF Plays, UploaderStages, Stored
  <2>5. MayBeCleaned \/ Finds(c)
    BY <1>o, <2>1 DEF Finds, Keeping, ReadIsOnDisk
  <2> QED
    BY <2>1, <2>3, <2>4, <2>5 DEF Steps
<1>8. CASE Unlock(c)
  <2>1. /\ Moves(c) /\ frame'[c] = NoFrame /\ pc'[c] = "over"
        /\ pc[c] \in {"returning", "throwing"}
        /\ result'[c] = IF pc[c] = "returning" THEN "ok" ELSE "error"
    BY <1>8, GoMoves DEF Unlock
  <2>2. UNCHANGED <<session, expired, asset, local, Present>>
    BY <1>8 DEF Unlock, disk, store, Present
  <2>3. Tells(c)
    BY <1>n, <2>1, <2>2 DEF Tells
  <2> QED
    BY <1>q, <2>1, <2>2, <2>3 DEF NoFrame
<1> QED
  BY <1>1, <1>2, <1>3, <1>4, <1>5, <1>6, <1>7, <1>8 DEF CompleterStep

LEMMA SharedStepsIn ==
  ASSUME TypeOK, Keeping, NEW p \in Handlers, CleanUpStep(p) \/ CallFails(p)
  PROVE  Steps(p)
<1> USE DEF Kept
<1>k. p \in Completers /\ result[p] = "ok" => pc[p] = "over"
  BY DEF Keeping, TellsOrFails
<1>n. UNCHANGED <<asset, local>> => ~(Stored' /\ ~Stored)
  BY DEF Stored
<1>r. /\ p \in Uploaders => pc[p] \in UploaderStages
      /\ p \in Completers => pc[p] # "cancelling" /\ (pc[p] \in Kept => Stored)
      /\ p \in Completers => p \notin Uploaders
      /\ p \in Cancellers => p \notin Completers /\ p \notin Uploaders
  BY DEF Keeping, Removers
<1>1. CASE Clean(p) \/ CleanExpired(p)
  <2>1. MayBeCleaned
    BY <1>1, CleaningHasAReason DEF Clean, CleanExpired, Keeping
  <2>2. /\ Moves(p) /\ result'[p] = result[p]
        /\ <<pc[p], pc'[p]>> \in {<<"cleaning", "deleting">>, <<"expiring", "forgetting">>}
        /\ UNCHANGED <<asset, local>>
    BY <1>1, GoMoves DEF Clean, CleanExpired, RemoveFiles, store
  <2>3. p \in Completers => Tells(p)
    BY <1>k, <1>n, <2>2 DEF Tells
  <2>4. Plays(p)
    BY <1>r, <2>2 DEF Plays, UploaderStages, Stored
  <2> QED
    BY <2>1, <2>2, <2>3, <2>4 DEF Steps
<1>2. CASE DeleteSession(p) \/ ForgetExpired(p)
  <2>1. /\ Moves(p)
        /\ \/ /\ pc[p] = "deleting" /\ pc'[p] = "over" /\ p \in Cancellers
              /\ frame'[p] = NoFrame
           \/ /\ pc[p] = "deleting" /\ pc'[p] = "returning" /\ p \notin Cancellers
              /\ frame'[p] = frame[p] /\ result'[p] = result[p]
           \/ /\ pc[p] = "forgetting" /\ pc'[p] = "over" /\ result'[p] = "error"
              /\ frame'[p] = NoFrame
    BY <1>2, GoMoves DEF DeleteSession, Deleted, ForgetExpired
  <2>2. UNCHANGED <<expired, asset, local, Present>> /\ session'.chunks = {}
    BY <1>2 DEF DeleteSession, ForgetExpired, NoSession, disk, store, Present
  <2>3. p \in Completers => Tells(p)
    BY <1>k, <1>n, <1>r, <2>1, <2>2 DEF Tells
  <2>4. Plays(p)
    BY <1>r, <2>1, <2>2 DEF Plays, UploaderStages, Stored
  <2>5. MayBeCleaned \/ Finds(p)
    BY <2>1, <2>2 DEF Finds, Keeping, ReadIsOnDisk, NoFrame
  <2> QED
    BY <2>1, <2>2, <2>3, <2>4, <2>5 DEF Steps
<1>3. CASE CallFails(p)
  <2>1. /\ Moves(p) /\ pc[p] \notin {"idle", "over"}
        /\ \/ pc[p] = "cancelling" /\ pc'[p] = "cleaning"
           \/ pc[p] = "expiring" /\ pc'[p] = "forgetting"
           \/ pc[p] = "failing" /\ pc'[p] = "throwing"
           \/ pc'[p] = "over"
           \/ p \in Completers /\ pc'[p] = "failing"
        /\ frame'[p] \in {frame[p], NoFrame}
        /\ pc'[p] = "over" \/ result'[p] = result[p]
    <3>1. /\ pc[p] \notin {"idle", "over"}
          /\ \/ pc[p] = "cancelling" /\ Go(p, "cleaning")
             \/ pc[p] = "expiring" /\ Go(p, "forgetting")
             \/ pc[p] = "failing" /\ Go(p, "throwing")
             \/ \E r \in {"ok", "error"} : Answer(p, r)
             \/ p \in Completers /\ Go(p, "failing")
      BY <1>3 DEF CallFails
    <3> QED
      BY <3>1, GoMoves
  <2>2. /\ UNCHANGED <<session, expired, asset, local, Present>>
        /\ p \in Completers => p \in troubled'
    BY <1>3 DEF CallFails, redis, disk, store, Present
  <2>3. p \in Completers => Tells(p)
    BY <1>k, <2>1, <2>2 DEF Tells
  <2>4. Plays(p)
    BY <1>r, <2>1, <2>2 DEF Plays, UploaderStages, Stored
  <2>5. MayBeCleaned \/ Finds(p)
    BY <1>r, <2>1, <2>2 DEF Finds, Keeping, ReadIsOnDisk, NoFrame
  <2> QED
    BY <2>1, <2>2, <2>3, <2>4, <2>5 DEF Steps
<1> QED
  BY <1>1, <1>2, <1>3 DEF CleanUpStep

LEMMA CrashKeeps ==
  ASSUME TypeOK, Keeping, Crash
  PROVE  Keeping'
<1>1. /\ UNCHANGED <<session, expired, asset, local, Present>> /\ troubled \subseteq troubled'
      /\ \A p \in Handlers :
            /\ frame'[p] = NoFrame
            /\ \/ pc'[p] = "over" /\ result'[p] = "error" /\ (p \in Completers => p \in troubled')
               \/ pc[p] \in {"idle", "over"} /\ pc'[p] = pc[p] /\ result'[p] = result[p]
            /\ pc[p] # "idle" => pc'[p] # "idle"
  BY DEF Crash, redis, disk, store, Present
<1>2. TellsOrFails'
  BY <1>1 DEF Keeping, TellsOrFails, Stored, Kept
<1>3. Removers'
  BY <1>1 DEF Keeping, Removers, UploaderStages, Kept
<1>4. MayBeCleaned => MayBeCleaned'
  BY <1>1 DEF MayBeCleaned
<1>5. ReadIsOnDisk => ReadIsOnDisk'
  BY <1>1 DEF ReadIsOnDisk, NoFrame
<1> QED
  BY <1>2, <1>3, <1>4, <1>5 DEF Keeping

LEMMA UStep == TypeOK /\ Keeping /\ [Next]_vars => Keeping'
<1> SUFFICES ASSUME TypeOK, Keeping, [Next]_vars PROVE Keeping'
  OBVIOUS
<1>1. CASE LockExpires \/ SessionExpires \/ UNCHANGED vars
  <2>1. UNCHANGED <<pc, frame, result, session, asset, local, Present, troubled>>
    BY <1>1 DEF LockExpires, SessionExpires, vars, redis, disk, store, Present
  <2>2. expired => expired'
    BY StoredStays
  <2> QED
    BY <2>1, <2>2 DEF Keeping, TellsOrFails, Stored, Removers, ReadIsOnDisk, MayBeCleaned
<1> QED
  BY <1>1, CrashKeeps, StepKeeps, OthersStepsIn, CompleterStepsIn, SharedStepsIn DEF Next

LEMMA UInvSplit == (UInv <=> TypeOK /\ Keeping) /\ (UInv' <=> TypeOK' /\ Keeping')
  BY DEF UInv, Keeping

\* The second inductive invariant, which makes no assumption on the lock.
THEOREM InductiveAnyLock == Spec => []UInv
<1>1. Init => UInv
  BY TypeInit, UInit, UInvSplit DEF Keeping
<1>2. UInv /\ [Next]_vars => UInv'
  BY TypeStep, UStep, UInvSplit
<1> QED
  BY <1>1, <1>2, PTL DEF Spec

\* However long a store takes: a file no client was told of was left by a completion
\* that met an error or a crash.
THEOREM NoOrphanWithoutTrouble == Spec => []StoredIsReported
<1>1. UInv => StoredIsReported
  BY DEF UInv, TellsOrFails, Stored, StoredIsReported, TypeOK, Completing, Kept
<1> QED
  BY <1>1, InductiveAnyLock, PTL

\* However long a store takes: until something may have removed the directory, every
\* chunk the session lists is on disk.
THEOREM ListedChunksAreThere == Spec => []ListedIsOnDisk
<1>1. UInv => ListedIsOnDisk
  BY DEF UInv, ReadIsOnDisk, ListedIsOnDisk
<1> QED
  BY <1>1, InductiveAnyLock, PTL

=============================================================================
