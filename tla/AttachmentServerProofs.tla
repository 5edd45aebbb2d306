----------------------- MODULE AttachmentServerProofs -----------------------
(***************************************************************************)
(* Proofs about AttachmentServer.  Three lines of argument meet: an        *)
(* address leads back to the file it came from and to no other (Addresses);*)
(* what the process holds open follows where start() and shutdown() stand  *)
(* (Life); and ids are one row's for ever, so that a deletion that looked  *)
(* for rows knows every row but those that came later (Kept).              *)
(***************************************************************************)
EXTENDS AttachmentServer, SequenceTheorems, TLAPS

-----------------------------------------------------------------------------
(* Addresses.                                                              *)

LEMMA ReadIsOfTheFile ==
    ASSUME NEW u \in Uploads, NEW v \in Uploads, AssetOf(v) \in Readable(UrlOf(u))
    PROVE  v.id = u.id
<1>1. UrlOf(u).name.base = u.id
    BY DEF UrlOf, AssetOf
<1>2. AssetOf(v).name.base = v.id
    BY DEF AssetOf
<1>3. CASE AssetOf(v) = LocalAsset(UrlOf(u))
    BY <1>1, <1>2, <1>3 DEF LocalAsset, None, AssetOf
<1>4. CASE AssetOf(v) = DeliveredAsset(UrlOf(u))
    BY <1>1, <1>2, <1>4 DEF DeliveredAsset, None, AssetOf, WithoutExtension
<1>5. CASE AssetOf(v) = SignedAsset(UrlOf(u))
    BY <1>1, <1>2, <1>5 DEF SignedAsset, None, AssetOf
<1> QED
    BY <1>3, <1>4, <1>5 DEF Readable

LEMMA ErasesOnlyTheFile ==
    ASSUME NEW u \in Uploads, NEW v \in Uploads, AssetOf(v) \in Erased(UrlOf(u))
    PROVE  u = v
<1>1. UrlOf(u).name.base = u.id
    BY DEF UrlOf, AssetOf
<1>2. AssetOf(v).name.base = v.id
    BY DEF AssetOf
<1>3. CASE AssetOf(v) = LocalAsset(UrlOf(u))
    BY <1>1, <1>2, <1>3, AttachmentsAssumption DEF LocalAsset, None, AssetOf
<1>4. CASE AssetOf(v) = CloudAsset(UrlOf(u))
  <2>1. CloudNameInUrl(UrlOf(u)).base = u.id
    BY <1>1 DEF CloudNameInUrl, WithoutExtension, UrlOf, AssetOf
  <2> QED
    BY <2>1, <1>2, <1>4, AttachmentsAssumption DEF CloudAsset, None, AssetOf
<1> QED
    BY <1>3, <1>4 DEF Erased

LEMMA UploadComesThird ==
    ASSUME NEW S, NEW path \in Seq(S), Len(path) >= 3,
           path[1] # "upload", path[2] # "upload", path[3] = "upload"
    PROVE  SelectInSeq(path, LAMBDA part : part = "upload") = 3
<1> DEFINE I == {i \in 1..Len(path) : path[i] = "upload"}
<1>1. SelectInSeq(path, LAMBDA part : part = "upload") = IF I # {} THEN Min(I) ELSE 0
    BY DEF SelectInSeq
<1>2. 3 \in I /\ \A i \in I : 3 <= i
    OBVIOUS
<1>3. \A x \in I : (\A y \in I : x <= y) => x = 3
    BY <1>2
<1>4. Min(I) = 3
    BY <1>2, <1>3 DEF Min
<1> QED
    BY <1>1, <1>2, <1>4

LEMMA VersionThenFolder ==
    ASSUME NEW S, NEW s \in Seq(S), NEW t \in Seq(S), Len(s) = 4, Len(t) = 3
    PROVE  LET rest == SubSeq(s \o t, 4, Len(s \o t)) IN rest # <<>> /\ Head(rest) = s[4] /\ Tail(rest) = t
<1> DEFINE whole == s \o t
           rest == SubSeq(whole, 4, Len(whole))
<1>1. /\ whole \in Seq(S) /\ Len(whole) = 7
      /\ \A i \in 1..7 : whole[i] = IF i <= 4 THEN s[i] ELSE t[i - 4]
  <2>1. /\ s \o t \in Seq(S)
        /\ Len(s \o t) = Len(s) + Len(t)
        /\ \A i \in 1..(Len(s) + Len(t)) : (s \o t)[i] = IF i <= Len(s) THEN s[i] ELSE t[i - Len(s)]
    BY ConcatProperties, Zenon
  <2> QED
    BY <2>1
<1> HIDE DEF whole
<1>2. /\ rest \in Seq(S) /\ Len(rest) = 4
      /\ \A i \in 1..4 : rest[i] = whole[3 + i]
  <2>1. \A i \in 4..7 : whole[i] \in S
    <3>1. \A i \in 1..Len(whole) : whole[i] \in S
      BY <1>1, ElementOfSeq, Zenon
    <3> QED
      BY <3>1, <1>1
  <2>2. /\ SubSeq(whole, 4, 7) \in Seq(S)
        /\ Len(SubSeq(whole, 4, 7)) = 4
        /\ \A i \in 1..4 : SubSeq(whole, 4, 7)[i] = whole[4 + i - 1]
    BY <2>1, SubSeqProperties
  <2> QED
    BY <2>2, <1>1
<1> HIDE DEF rest
<1>3. rest # <<>>
  <2>1. rest = <<>> => Len(rest) = 0
    BY EmptySeq, Zenon
  <2> QED
    BY <2>1, <1>2
<1>4. Head(rest) = s[4]
  <2>1. Head(rest) = rest[1]
    BY <1>2, <1>3
  <2> QED
    BY <2>1, <1>1, <1>2
<1>5. /\ Tail(rest) \in Seq(S) /\ Len(Tail(rest)) = Len(rest) - 1
      /\ \A i \in 1..Len(Tail(rest)) : Tail(rest)[i] = rest[i + 1]
    BY <1>2, <1>3, HeadTailProperties, Zenon
<1>6. Len(Tail(rest)) = Len(t)
    BY <1>5, <1>2
<1>7. \A i \in 1..Len(Tail(rest)) : Tail(rest)[i] = t[i]
  <2> SUFFICES ASSUME NEW i \in 1..3 PROVE Tail(rest)[i] = t[i]
    BY <1>6
  <2>1. Tail(rest)[i] = rest[i + 1]
    BY <1>5, <1>6
  <2>2. rest[i + 1] = whole[3 + (i + 1)]
    BY <1>2
  <2>3. whole[3 + (i + 1)] = t[i]
    BY <1>1
  <2> QED
    BY <2>1, <2>2, <2>3
<1>8. Tail(rest) = t
    BY <1>5, <1>6, <1>7, SeqEqual, Zenon
<1> QED
    BY <1>3, <1>4, <1>8 DEF rest, whole

LEMMA FolderIsFound ==
    ASSUME NEW u \in Uploads, u.cloud, CloudName # "upload"
    PROVE  /\ IsDelivery(UrlOf(u))
           /\ UrlOf(u).dir[2] = ResourceType(u)
           /\ WithoutFirst(AfterUpload(UrlOf(u)), VSegments) = CloudFolder
<1> DEFINE Parts == {CloudName, ResourceType(u), "upload", "v1", "valo", "attachments", "user"}
           front == <<CloudName, ResourceType(u), "upload", "v1">>
           path == UrlOf(u).dir
<1>1. ResourceType(u) \in {"image", "raw"}
    BY DEF ResourceType
<1>2. path = front \o CloudFolder /\ UrlOf(u).host = "cloudinary"
    BY DEF UrlOf
<1>3. /\ front \in Seq(Parts) /\ Len(front) = 4
      /\ front[1] = CloudName /\ front[2] = ResourceType(u) /\ front[3] = "upload" /\ front[4] = "v1"
    OBVIOUS
<1>4. CloudFolder \in Seq(Parts) /\ Len(CloudFolder) = 3
    BY DEF CloudFolder
<1> HIDE DEF front, path, Parts
<1>5. /\ path \in Seq(Parts) /\ Len(path) = 7
      /\ path[1] = CloudName /\ path[2] = ResourceType(u) /\ path[3] = "upload" /\ path[4] = "v1"
  <2>1. /\ front \o CloudFolder \in Seq(Parts)
        /\ Len(front \o CloudFolder) = Len(front) + Len(CloudFolder)
        /\ \A i \in 1..(Len(front) + Len(CloudFolder)) :
               (front \o CloudFolder)[i] = IF i <= Len(front) THEN front[i] ELSE CloudFolder[i - Len(front)]
    BY <1>3, <1>4, ConcatProperties, Zenon
  <2>2. path \in Seq(Parts) /\ Len(path) = 7
    BY <2>1, <1>2, <1>3, <1>4
  <2>3. \A i \in 1..4 : path[i] = front[i]
    BY <2>1, <1>2, <1>3, <1>4
  <2> QED
    BY <2>2, <2>3, <1>3
<1>6. ResourceType(u) # "upload"
    BY <1>1
<1>7. SelectInSeq(path, LAMBDA part : part = "upload") = 3
    BY <1>5, <1>6, UploadComesThird
<1>8. AfterUpload(UrlOf(u)) = SubSeq(path, 4, Len(path))
  <2> DEFINE at == SelectInSeq(path, LAMBDA part : part = "upload")
  <2>1. AfterUpload(UrlOf(u)) = SubSeq(path, at + 1, Len(path))
    BY Zenon DEF AfterUpload, path
  <2> HIDE DEF at
  <2>2. at = 3
    BY <1>7, Zenon DEF at
  <2> QED
    BY <2>1, <2>2
<1>9. LET rest == SubSeq(path, 4, Len(path)) IN rest # <<>> /\ Head(rest) = "v1" /\ Tail(rest) = CloudFolder
  <2> DEFINE rest == SubSeq(front \o CloudFolder, 4, Len(front \o CloudFolder))
  <2>1. rest # <<>> /\ Head(rest) = front[4] /\ Tail(rest) = CloudFolder
    BY <1>3, <1>4, VersionThenFolder, Zenon
  <2> QED
    BY <2>1, <1>2, <1>3, Zenon
<1>10. WithoutFirst(AfterUpload(UrlOf(u)), VSegments) = CloudFolder
    BY <1>8, <1>9 DEF WithoutFirst, VSegments
<1> QED
    BY <1>1, <1>2, <1>5, <1>10 DEF IsDelivery, path

LEMMA FrontOfTwo == ASSUME NEW a, NEW b PROVE Front(<<a, b>>) = <<a>>
<1>1. /\ <<a, b>> \in Seq({a, b}) /\ Len(<<a, b>>) = 2 /\ <<a, b>>[1] = a
      /\ <<a>> \in Seq({a, b}) /\ Len(<<a>>) = 1 /\ <<a>>[1] = a
    OBVIOUS
<1>2. /\ SubSeq(<<a, b>>, 1, 1) \in Seq({a, b}) /\ Len(SubSeq(<<a, b>>, 1, 1)) = 1
      /\ SubSeq(<<a, b>>, 1, 1)[1] = a
    BY <1>1, SubSeqProperties
<1>3. SubSeq(<<a, b>>, 1, 1) = <<a>>
  <2>1. \A i \in 1..Len(<<a>>) : SubSeq(<<a, b>>, 1, 1)[i] = <<a>>[i]
    BY <1>1, <1>2
  <2> QED
    BY <1>1, <1>2, <2>1, SeqEqual
<1> QED
    BY <1>1, <1>3 DEF Front

LEMMA ErasesTheFile ==
    ASSUME NEW u \in Uploads, CloudName # "upload"
    PROVE  AssetOf(u) \in Erased(UrlOf(u))
<1>1. CASE ~u.cloud
    BY <1>1 DEF AssetOf, Erased, UrlOf, LocalAsset, None
<1>2. CASE u.cloud
  <2> DEFINE url == UrlOf(u)
  <2>1. /\ IsDelivery(url)
        /\ url.dir[2] = ResourceType(u)
        /\ WithoutFirst(AfterUpload(url), VSegments) = CloudFolder
    BY <1>2, FolderIsFound
  <2>4. CloudNameInUrl(url) = AssetOf(u).name
    <3>1. CASE ResourceType(u) = "image"
      <4>1. url.name = [base |-> u.id, exts |-> <<u.ext, "pdf">>]
        BY <1>2, <3>1 DEF UrlOf
      <4>2. Front(<<u.ext, "pdf">>) = <<u.ext>>
        BY FrontOfTwo
      <4>3. WithoutExtension(url.name) = [base |-> u.id, exts |-> <<u.ext>>]
        BY <4>1, <4>2 DEF WithoutExtension
      <4> QED
        BY <4>3, <3>1, <2>1, <1>2 DEF CloudNameInUrl, AssetOf
    <3>2. CASE ResourceType(u) = "raw"
        BY <3>2, <2>1, <1>2 DEF CloudNameInUrl, AssetOf, UrlOf
    <3> QED
        BY <3>1, <3>2 DEF ResourceType
  <2>5. CloudAsset(url) = AssetOf(u)
    BY <2>1, <2>4, <1>2 DEF CloudAsset, AssetOf
  <2>6. AssetOf(u) # None
    BY <1>2 DEF AssetOf, None, ResourceType
  <2> QED
    BY <2>5, <2>6 DEF Erased
<1> QED
    BY <1>1, <1>2
-----------------------------------------------------------------------------
(* The process.                                                            *)

Stores == {"database", "redis", "queue"}

\* Nothing is open before start() has opened it, and shutdown() closes behind itself.
Ordered ==
    /\ ~Server!Alive => boot = "database" /\ closing = "no" /\ resources = {} /\ open = {} /\ ~job
    /\ boot # "listening" => open = {} /\ closing = "no"
    /\ boot = "redis" => "database" \in resources
    /\ boot \notin {"database", "redis"} /\ closing \in {"no", "http", "worker", "queue"} => Stores \subseteq resources
    /\ "worker" \in resources => boot \in {"seeding", "binding", "listening"} /\ closing \in {"no", "http", "worker"}
    /\ job => "worker" \in resources
    /\ open # {} => closing \in {"no", "http"}

Life == Server!TypeOK /\ Ordered

LEMMA FreshProcess ==
    ASSUME boot = "database", attempt = 1, closing = "no", timer = FALSE, resources = {},
           exitCode \in {"none", "success", "failure"}, open = {}, Busy = {}, job = FALSE
    PROVE  Life
<1>1. 1 \in 1..MaxRetries
    BY ServerAssumption DEF Server!LifecycleAssumption
<1>2. Server!TypeOK
    BY <1>1 DEF Server!TypeOK, Server!Booting, Server!Resources, Server!Closing
<1>3. Ordered
    BY DEF Ordered, Server!Alive
<1> QED
    BY <1>2, <1>3 DEF Life

LEMMA LifeInit == SystemInit => Life
    BY FreshProcess DEF SystemInit, Server!Init

\* A handler touches no other.
LEMMA OneAtWork ==
    ASSUME NEW r \in Requests, Begin(r) \/ Goes(r), NEW q \in Requests, q # r, TypeOK
    PROVE  task'[q] = task[q]
<1>1. DOMAIN task = Requests
    BY DEF TypeOK
<1>2. CASE Begin(r)
    BY <1>1, <1>2 DEF Begin, Send, Discard, DeleteAttachments
<1>3. CASE Goes(r)
    BY <1>1, <1>3
    DEF Goes, AttachFiles, ExtractText, ReadFile, CheckDiscard, FindRows, DeleteRows, EraseAsset, EraseFails, Erase,
        ReadFails, ExtractFails, SendEnds, DeleteFails, CheckFails, Ends
<1> QED
    BY <1>2, <1>3

\* An exit leaves nothing behind.
LEMMA ExitsClean ==
    ASSUME Life, Server!Dies, exitCode' \in {"success", "failure"}
    PROVE  Life'
<1>1. \E code \in {"success", "failure"} : Server!Exit(code)
    BY DEF Server!Dies, Server!DatabaseRefuses, Server!RedisTimesOut, Server!StartFails, Server!Shutdown,
           Server!PrismaDisconnects, Server!CloseFails, Server!ForceExit, Server!Kill, Server!Alive
<1>2. 1 \in 1..MaxRetries
    BY ServerAssumption DEF Server!LifecycleAssumption
<1>3. Server!TypeOK'
    BY <1>1, <1>2 DEF Server!Exit, Server!TypeOK, Server!Booting, Server!Resources, Server!Closing
<1>4. Ordered'
    BY <1>1 DEF Server!Exit, Ordered, Server!Alive
<1> QED
    BY <1>3, <1>4 DEF Life

LEMMA DiesOrStays ==
    ASSUME Life, Server!Dies, exitCode' = "none", Busy' = Busy
    PROVE  Life'
<1>1. CASE Server!DatabaseRefuses
    BY <1>1, ServerAssumption
    DEF Life, Ordered, Server!TypeOK, Server!DatabaseRefuses, Server!Exit, Server!LastAttempt, Server!Alive,
        Server!LifecycleAssumption
<1>2. CASE Server!Shutdown
    BY <1>2
    DEF Life, Ordered, Server!TypeOK, Server!Shutdown, Server!Exit, Server!Alive, Server!Closing
<1> QED
    BY <1>1, <1>2
    DEF Server!Dies, Server!RedisTimesOut, Server!StartFails, Server!PrismaDisconnects, Server!CloseFails,
        Server!ForceExit, Server!Kill, Server!Exit

LEMMA ProcessGoesOn ==
    ASSUME Life, Server!Proceeds \/ Server!Works, Busy' = Busy
    PROVE  Life'
<1> USE DEF Life, Ordered, Stores, Server!TypeOK, Server!Alive, Server!Booting, Server!Closing, Server!Resources
<1>1. CASE Server!ConnectDatabase \/ Server!RedisReady \/ Server!StartWorker \/ Server!Seed \/ Server!Listen
  <2>1. Server!Alive /\ UNCHANGED <<attempt, closing, timer, exitCode, open, Busy, job>>
    BY <1>1 DEF Server!ConnectDatabase, Server!RedisReady, Server!StartWorker, Server!Seed, Server!Listen, Server!Advance
  <2>2. boot # "listening" /\ boot' \in Server!Booting \cup {"listening"} /\ boot' # "database"
    BY <1>1 DEF Server!ConnectDatabase, Server!RedisReady, Server!StartWorker, Server!Seed, Server!Listen, Server!Advance
  <2>3. resources \subseteq resources' /\ resources' \subseteq Server!Resources
    BY <1>1 DEF Server!ConnectDatabase, Server!RedisReady, Server!StartWorker, Server!Seed, Server!Listen, Server!Advance
  <2>4. boot' = "redis" => "database" \in resources'
    BY <1>1 DEF Server!ConnectDatabase, Server!RedisReady, Server!StartWorker, Server!Seed, Server!Listen, Server!Advance
  <2>5. boot' # "redis" => Stores \subseteq resources'
    BY <1>1, <2>2 DEF Server!ConnectDatabase, Server!RedisReady, Server!StartWorker, Server!Seed, Server!Listen, Server!Advance
  <2>6. "worker" \in resources' => boot' \in {"seeding", "binding", "listening"}
    BY <1>1 DEF Server!ConnectDatabase, Server!RedisReady, Server!StartWorker, Server!Seed, Server!Listen, Server!Advance
  <2> QED
    BY <2>1, <2>2, <2>3, <2>4, <2>5, <2>6
<1>2. CASE Server!HttpCloses \/ Server!WorkerCloses \/ Server!QueueCloses \/ Server!RedisQuits
  <2>1. Server!Alive /\ UNCHANGED <<boot, attempt, timer, exitCode, open, Busy, job>>
    BY <1>2 DEF Server!HttpCloses, Server!Drained, Server!WorkerCloses, Server!WorkerIsIdle, Server!QueueCloses,
                Server!RedisQuits, Server!Retire
  <2>2. /\ closing \in Server!Closing \ {"database"}
        /\ closing' \in Server!Closing \ {"http"}
    BY <1>2 DEF Server!HttpCloses, Server!Drained, Server!WorkerCloses, Server!WorkerIsIdle, Server!QueueCloses,
                Server!RedisQuits, Server!Retire
  <2>3. boot = "listening" /\ open = {}
    BY <1>2 DEF Server!HttpCloses, Server!Drained, Server!WorkerCloses, Server!WorkerIsIdle, Server!QueueCloses,
                Server!RedisQuits, Server!Retire
  <2>4. resources' \subseteq resources
    BY <1>2 DEF Server!HttpCloses, Server!Drained, Server!WorkerCloses, Server!WorkerIsIdle, Server!QueueCloses,
                Server!RedisQuits, Server!Retire
  <2>5. closing' \in {"worker", "queue"} => Stores \subseteq resources'
    BY <1>2 DEF Server!HttpCloses, Server!Drained, Server!WorkerCloses, Server!WorkerIsIdle, Server!QueueCloses,
                Server!RedisQuits, Server!Retire
  <2>6. /\ "worker" \in resources' => closing' = "worker"
        /\ job => "worker" \in resources'
    BY <1>2 DEF Server!HttpCloses, Server!Drained, Server!WorkerCloses, Server!WorkerIsIdle, Server!QueueCloses,
                Server!RedisQuits, Server!Retire
  <2> QED
    BY <2>1, <2>2, <2>3, <2>4, <2>5, <2>6
<1>3. CASE Server!Restart
    BY <1>3 DEF Server!Restart
<1>4. CASE Server!Works
    BY <1>4 DEF Server!Works, Server!StartJob, Server!EndJob, Server!process
<1> QED
    BY <1>1, <1>2, <1>3, <1>4 DEF Server!Proceeds

LEMMA LifeStep ==
    ASSUME Life, TypeOK, [SystemNext]_systemVars
    PROVE  Life'
<1>1. ASSUME NEW r \in Requests, Serve(r) PROVE Life'
  <2>1. Server!Accept(r)
    BY <1>1 DEF Serve
  <2> QED
    BY <2>1
    DEF Life, Ordered, Stores, Server!TypeOK, Server!Alive, Server!Accept, Server!process, Server!Booting
<1>2. ASSUME NEW r \in Requests, Handle(r) PROVE Life'
  <2>1. \A q \in Requests : q # r => task'[q] = task[q]
    BY <1>2, OneAtWork DEF Handle
  <2>2. CASE r \in Busy'
    <3>1. UNCHANGED serverVars /\ Busy \subseteq Busy'
      BY <1>2, <2>1, <2>2 DEF Handle, Busy
    <3>2. Busy' \subseteq Requests
      BY DEF Busy
    <3> QED
      BY <3>1, <3>2 DEF Life, Ordered, Server!TypeOK, serverVars, Server!Alive
  <2>3. CASE r \notin Busy'
    <3>1. Server!Respond(r)
      BY <1>2, <2>3 DEF Handle
    <3> QED
      BY <3>1
      DEF Life, Ordered, Server!TypeOK, Server!Alive, Server!Respond, Server!process
  <2> QED
    BY <2>2, <2>3
<1>3. CASE Write \/ Store
    BY <1>3
    DEF Write, Store, DeleteConversation, Upload, Busy, serverVars, Life, Ordered, Server!TypeOK, Server!Alive
<1>4. CASE Process
  <2>1. ASSUME NEW code \in {"success", "failure"}, Server!Dies, exitCode' = code PROVE Life'
    BY <2>1, ExitsClean
  <2>2. CASE UNCHANGED vars /\ (Server!Dies \/ Server!Proceeds \/ Server!Works) /\ exitCode' = "none"
    <3>1. Busy' = Busy
      BY <2>2 DEF vars, Busy
    <3> QED
      BY <2>2, <3>1, DiesOrStays, ProcessGoesOn
  <2>3. ASSUME NEW r \in Requests, UNCHANGED vars, Server!ClientLeaves(r) PROVE Life'
    BY <2>3
    DEF vars, Busy, Life, Ordered, Server!TypeOK, Server!Alive, Server!ClientLeaves, Server!process
  <2> QED
    BY <1>4, <2>1, <2>2, <2>3 DEF Process
<1>5. CASE UNCHANGED systemVars
    BY <1>5 DEF systemVars, vars, serverVars, Busy, Life, Ordered, Server!TypeOK, Server!Alive
<1> QED
    BY <1>1, <1>2, <1>3, <1>4, <1>5 DEF SystemNext

-----------------------------------------------------------------------------
(* The attachments.                                                        *)

\* The rows a removal has found.
Listed(r) == IF task[r].step \in {"erasing", "deleting"} THEN task[r].listed ELSE {}

\* An id is one row's for ever, and a row's file was uploaded.
Numbered ==
    /\ \A x \in rows : x.id < nextId /\ x.file \in uploaded
    /\ \A x, y \in rows : x.id = y.id => x = y
    /\ \A r \in Requests : \A x \in Listed(r) : x.id < nextId /\ \A y \in rows : y.id = x.id => y = x

\* A message reads its own files, each into its place.
Reads(r) ==
    task[r].op = "send" =>
        /\ ToSet(task[r].files) \subseteq uploaded
        /\ \A i \in DOMAIN task[r].files : task[r].documents[i] \in {"unread", task[r].files[i].id}
        /\ DOMAIN task[r].documents = DOMAIN task[r].files
        /\ task[r].step = "streaming" => \A i \in DOMAIN task[r].files : task[r].documents[i] # "unread"

\* A deletion has uploads before it; where it found no row, the rows there are came later.
Erases(r) ==
    /\ At(r, "discard", "checking") => task[r].file \in uploaded
    /\ task[r].step \in {"erasing", "deleting"} => task[r].doomed \subseteq uploaded
    /\ At(r, "discard", "erasing") =>
           /\ task[r].seen <= nextId
           /\ \E u \in Uploads : task[r].doomed = {u}
           /\ \A x \in rows : x.file \in task[r].doomed => x.id >= task[r].seen

Knows(r) == Reads(r) /\ Erases(r)

Kept == TypeOK /\ Numbered /\ (\A r \in Requests : Knows(r)) /\ DanglingHasCause

LEMMA KeptInit == SystemInit => Kept
<1> SUFFICES ASSUME Init PROVE Kept
    BY DEF SystemInit
<1>1. \A r \in Requests : task[r] = Idle /\ Idle.op = "none" /\ Idle.step = "idle"
    BY DEF Init, Idle
<1>2. TypeOK
    BY AttachmentsAssumption DEF Init, TypeOK, Tasks
<1>3. Numbered
    BY <1>1 DEF Init, Numbered, Listed
<1>4. \A r \in Requests : Knows(r)
    BY <1>1 DEF Knows, Reads, Erases, At
<1>5. DanglingHasCause
    BY DEF Init, DanglingHasCause
<1> QED
    BY <1>2, <1>3, <1>4, <1>5 DEF Kept

\* What a request knows stays true while ids and uploads grow.
LEMMA KnowsOn ==
    ASSUME Kept, NEW q \in Requests, Knows(q), task'[q] = task[q],
           uploaded \subseteq uploaded', nextId <= nextId', nextId' \in Nat,
           \A x \in rows' : x \in rows \/ (x.id \in Nat /\ x.id >= nextId)
    PROVE  Knows(q)'
<1>1. nextId \in Nat /\ task[q] \in Tasks
    BY AttachmentsAssumption DEF Kept, TypeOK
<1>2. Reads(q)'
    BY DEF Knows, Reads
<1>3. Erases(q)'
  <2>1. CASE At(q, "discard", "erasing")
    <3>1. task[q].seen \in Nat
      BY <1>1, <2>1, AttachmentsAssumption DEF Tasks, At, Idle
    <3>2. \A x \in rows' : x.file \in task[q].doomed => x.id >= task[q].seen
      <4> SUFFICES ASSUME NEW x \in rows', x.file \in task[q].doomed PROVE x.id >= task[q].seen
        OBVIOUS
      <4>1. CASE x \in rows
        BY <4>1, <2>1 DEF Knows, Erases
      <4>2. CASE x.id \in Nat /\ x.id >= nextId
        BY <4>2, <3>1, <2>1, <1>1 DEF Knows, Erases
      <4> QED
        BY <4>1, <4>2
    <3> QED
      BY <3>1, <3>2, <2>1, <1>1 DEF Knows, Erases, At
  <2>2. CASE ~At(q, "discard", "erasing")
    BY <2>2 DEF Knows, Erases, At
  <2> QED
    BY <2>1, <2>2
<1> QED
    BY <1>2, <1>3 DEF Knows

\* A step that changes nothing but what one request is at.
LEMMA OwnStep ==
    ASSUME Kept, NEW r \in Requests, NEW t \in Tasks, task' = [task EXCEPT ![r] = t],
           UNCHANGED <<assets, uploaded, rows, nextId, conversations, erased, excused>>,
           Knows(r)', Listed(r)' \subseteq Listed(r) \cup rows, Going(r) \subseteq Going(r)'
    PROVE  Kept'
<1>1. TypeOK'
    BY DEF Kept, TypeOK
<1>2. \A q \in Requests : q # r => task'[q] = task[q]
    BY DEF Kept, TypeOK
<1>3. nextId \in Nat
    BY AttachmentsAssumption DEF Kept, TypeOK
<1>4. Numbered'
  <2>1. \A q \in Requests : Listed(q)' \subseteq Listed(q) \cup rows
    BY <1>2 DEF Listed
  <2> QED
    BY <2>1 DEF Kept, Numbered
<1>5. \A q \in Requests : Knows(q)'
  <2> SUFFICES ASSUME NEW q \in Requests, q # r PROVE Knows(q)'
    OBVIOUS
  <2>1. uploaded \subseteq uploaded' /\ nextId <= nextId' /\ nextId' \in Nat
    BY <1>3
  <2>2. \A x \in rows' : x \in rows \/ (x.id \in Nat /\ x.id >= nextId)
    OBVIOUS
  <2>3. task'[q] = task[q] /\ Knows(q)
    BY <1>2 DEF Kept
  <2> QED
    BY <2>1, <2>2, <2>3, KnowsOn
<1>6. DanglingHasCause'
  <2>1. \A q \in Requests : Going(q) \subseteq Going(q)'
    BY <1>2 DEF Going
  <2> QED
    BY <2>1 DEF Kept, DanglingHasCause, Stored
<1> QED
    BY <1>1, <1>4, <1>5, <1>6 DEF Kept

\* A request that has no rows to delete any more ends.
LEMMA EndStep ==
    ASSUME Kept, NEW r \in Requests, Ends(r), Going(r) = {},
           UNCHANGED <<assets, uploaded, rows, nextId, conversations, erased, excused>>
    PROVE  Kept'
<1>1. task' = [task EXCEPT ![r] = Idle] /\ Idle \in Tasks
    BY DEF Ends, Tasks
<1>2. task'[r].op = "none" /\ task'[r].step = "idle"
    BY <1>1 DEF Kept, TypeOK, Idle
<1>3. Knows(r)' /\ Listed(r)' = {}
    BY <1>2 DEF Knows, Reads, Erases, At, Listed
<1> QED
    BY <1>1, <1>3, OwnStep

LEMMA BeginStep == ASSUME Kept, NEW r \in Requests, Begin(r) PROVE Kept'
<1>1. Going(r) = {}
    BY DEF Begin, Send, Discard, DeleteAttachments, Going, Idle
<1>2. DOMAIN task = Requests
    BY DEF Kept, TypeOK
<1>3. ASSUME NEW files \in Messages, NEW c \in Conversations, Send(r, files, c) PROVE Kept'
  <2> DEFINE documents == [i \in DOMAIN files |-> "unread"]
             t == [op |-> "send", step |-> "attaching", files |-> files, of |-> c, documents |-> documents]
  <2>1. files \in Seq(Uploads) /\ DOMAIN files = 1..Len(files) /\ Len(files) \in Nat
    BY AttachmentsAssumption, LenProperties
  <2>2. documents \in Seq({"unread"} \cup {u.id : u \in Uploads})
    BY <2>1, SeqDef
  <2>3. t \in Tasks
    BY <2>2 DEF Tasks
  <2>4. task' = [task EXCEPT ![r] = t]
    BY <1>3 DEF Send
  <2>5. task'[r] = t
    BY <2>4, <1>2
  <2>6. Knows(r)' /\ Listed(r)' = {}
    <3>1. ToSet(files) \subseteq uploaded'
      BY <1>3 DEF Send
    <3>2. DOMAIN documents = DOMAIN files /\ \A i \in DOMAIN files : documents[i] = "unread"
      OBVIOUS
    <3> HIDE DEF documents
    <3> QED
      BY <2>5, <3>1, <3>2 DEF Knows, Reads, Erases, At, Listed
  <2> QED
    BY <1>1, <1>3, <2>3, <2>4, <2>6, OwnStep DEF Send
<1>4. ASSUME NEW u \in Uploads, Discard(r, u) PROVE Kept'
  <2> DEFINE t == [op |-> "discard", step |-> "checking", file |-> u]
  <2>1. t \in Tasks /\ task' = [task EXCEPT ![r] = t]
    BY <1>4 DEF Discard, Tasks
  <2>2. task'[r] = t
    BY <2>1, <1>2
  <2>3. Knows(r)' /\ Listed(r)' = {}
    BY <2>2, <1>4 DEF Knows, Reads, Erases, At, Listed, Discard
  <2> QED
    BY <1>1, <1>4, <2>1, <2>3, OwnStep DEF Discard
<1>5. ASSUME NEW ids \in SUBSET (1..(nextId - 1)) \ {{}}, DeleteAttachments(r, ids) PROVE Kept'
  <2> DEFINE t == [op |-> "remove", step |-> "finding", ids |-> ids]
  <2>1. ids \in SUBSET Ids
    BY AttachmentsAssumption DEF Kept, TypeOK, Ids
  <2>2. t \in Tasks /\ task' = [task EXCEPT ![r] = t]
    BY <1>5, <2>1 DEF DeleteAttachments, Tasks
  <2>3. task'[r] = t
    BY <2>2, <1>2
  <2>4. Knows(r)' /\ Listed(r)' = {}
    BY <2>3 DEF Knows, Reads, Erases, At, Listed
  <2> QED
    BY <1>1, <1>5, <2>2, <2>4, OwnStep DEF DeleteAttachments
<1> QED
    BY <1>3, <1>4, <1>5 DEF Begin

\* What a message and a deletion are made of.
Sends ==
    [op : {"send"}, step : {"attaching", "reading", "streaming"}, files : Messages, of : Conversations,
     documents : Seq({"unread"} \cup {u.id : u \in Uploads})]

Erasures ==
    [op : {"discard", "remove"}, step : {"erasing", "deleting"}, doomed : SUBSET Uploads,
     listed : SUBSET [id : Ids, file : Uploads, of : Conversations], seen : 1..(MaxRows + 1)]

LEMMA Shapes ==
    ASSUME NEW t \in Tasks
    PROVE  /\ t.op = "send" => t \in Sends
           /\ t.step \in {"erasing", "deleting"} => t \in Erasures
           /\ t \in Sends => t.op = "send" /\ t.step \notin {"erasing", "deleting"}
<1>1. CASE t = Idle
    BY <1>1 DEF Idle, Sends
<1>2. CASE t \in Sends
    BY <1>2 DEF Sends
<1>3. CASE t \in [op : {"discard"}, step : {"checking"}, file : Uploads]
    BY <1>3 DEF Sends
<1>4. CASE t \in [op : {"remove"}, step : {"finding"}, ids : SUBSET Ids]
    BY <1>4 DEF Sends
<1>5. CASE t \in Erasures
    BY <1>5 DEF Sends, Erasures
<1> QED
    BY <1>1, <1>2, <1>3, <1>4, <1>5 DEF Tasks, Sends, Erasures

LEMMA SendShape ==
    ASSUME Kept, NEW r \in Requests, task[r].op = "send"
    PROVE  task[r] \in Sends /\ Going(r) = {} /\ Listed(r) = {}
<1>1. task[r] \in Tasks
    BY DEF Kept, TypeOK
<1> QED
    BY <1>1, Shapes DEF Going, Listed

LEMMA EraseShape ==
    ASSUME Kept, NEW r \in Requests, task[r].step \in {"erasing", "deleting"}
    PROVE  task[r] \in Erasures
<1>1. task[r] \in Tasks
    BY DEF Kept, TypeOK
<1> QED
    BY <1>1, Shapes

\* A message on its way: nothing changes but its own state.
LEMMA SendStep ==
    ASSUME Kept, NEW r \in Requests, task[r].op = "send", NEW t \in Sends, task' = [task EXCEPT ![r] = t],
           UNCHANGED <<assets, uploaded, rows, nextId, conversations, erased, excused>>, Reads(r)'
    PROVE  Kept'
<1>1. t \in Tasks
    BY DEF Tasks, Sends
<1>2. task'[r] = t
    BY DEF Kept, TypeOK
<1>3. Erases(r)' /\ Listed(r)' = {} /\ Going(r) = {}
    BY <1>1, <1>2, SendShape, Shapes DEF Erases, Listed, At
<1> QED
    BY <1>1, <1>3, OwnStep DEF Knows

LEMMA ReadStep ==
    ASSUME Kept, NEW r \in Requests, NEW i \in Ids, ReadFile(r, i)
    PROVE  Kept'
<1>1. PICK v \in Uploads :
          /\ AssetOf(v) \in Readable(UrlOf(task[r].files[i])) \cap assets
          /\ task' = [task EXCEPT ![r].documents[Place(r, i)] = v.id]
    BY DEF ReadFile
<1> DEFINE files == task[r].files
           documents == [task[r].documents EXCEPT ![i] = v.id]
           t == [task[r] EXCEPT !.documents = documents]
<1>2. task[r] \in Sends /\ Reads(r) /\ i \in DOMAIN files
    BY SendShape DEF ReadFile, At, Kept, Knows
<1>3. files \in Seq(Uploads) /\ files[i] \in Uploads
  <2>1. files \in Seq(Uploads)
    BY <1>2, AttachmentsAssumption DEF Sends
  <2> QED
    BY <2>1, <1>2
<1>4. v.id = files[i].id
    BY <1>1, <1>3, ReadIsOfTheFile
<1>5. task' = [task EXCEPT ![r] = t]
    BY <1>1 DEF Place
<1>6. documents \in Seq({"unread"} \cup {u.id : u \in Uploads}) /\ DOMAIN documents = DOMAIN files
  <2>1. task[r].documents \in Seq({"unread"} \cup {u.id : u \in Uploads})
    BY <1>2 DEF Sends
  <2>2. DOMAIN task[r].documents = DOMAIN files
    BY <1>2 DEF Reads, Sends
  <2>3. i \in 1..Len(task[r].documents)
    BY <1>2, <2>1, <2>2
  <2>4. v.id \in {"unread"} \cup {u.id : u \in Uploads}
    OBVIOUS
  <2> QED
    BY <2>1, <2>2, <2>3, <2>4, ExceptSeq
<1>7. t \in Sends
    BY <1>2, <1>6 DEF Sends
<1>8. task'[r] = t
    BY <1>5 DEF Kept, TypeOK
<1>9. Reads(r)'
  <2>1. \A j \in DOMAIN files : documents[j] \in {"unread", files[j].id}
    BY <1>2, <1>4 DEF Reads, Sends
  <2>2. t.files = files /\ t.step = "reading" /\ t.documents = documents /\ uploaded' = uploaded
    BY <1>2 DEF ReadFile, At, Sends
  <2> HIDE DEF documents, t
  <2>3. ToSet(files) \subseteq uploaded
    BY <1>2 DEF Reads, Sends
  <2> QED
    BY <1>6, <1>8, <2>1, <2>2, <2>3 DEF Reads
<1> QED
    BY <1>2, <1>5, <1>7, <1>9, SendStep DEF ReadFile, Sends

LEMMA SendMoves ==
    ASSUME Kept, NEW r \in Requests, ExtractText(r) \/ ReadFails(r) \/ ExtractFails(r) \/ SendEnds(r)
    PROVE  Kept'
<1>1. task[r].op = "send"
    BY DEF ExtractText, ReadFails, ExtractFails, SendEnds, At
<1>2. CASE ExtractText(r)
  <2> DEFINE t == [task[r] EXCEPT !.step = "streaming"]
  <2>1. task' = [task EXCEPT ![r] = t]
    BY <1>2 DEF ExtractText
  <2>2. t \in Sends /\ t.op = "send" /\ t.files = task[r].files /\ t.documents = task[r].documents
    BY <1>1, SendShape DEF Sends
  <2>3. task'[r] = t
    BY <2>1 DEF Kept, TypeOK
  <2>4. Reads(r)
    BY DEF Kept, Knows
  <2>5. \A i \in DOMAIN task[r].files : task[r].documents[i] # "unread"
    BY <1>2 DEF ExtractText, AllRead
  <2>6. uploaded' = uploaded
    BY <1>2 DEF ExtractText
  <2> HIDE DEF t
  <2>7. Reads(r)'
    BY <1>1, <2>2, <2>3, <2>4, <2>5, <2>6 DEF Reads
  <2> QED
    BY <1>1, <1>2, <2>1, <2>2, <2>7, SendStep DEF ExtractText
<1>3. CASE ReadFails(r) \/ ExtractFails(r) \/ SendEnds(r)
  <2>1. Ends(r) /\ UNCHANGED <<assets, uploaded, rows, nextId, conversations, erased, excused>>
    BY <1>3 DEF ReadFails, ExtractFails, SendEnds
  <2> QED
    BY <1>1, <2>1, SendShape, EndStep
<1> QED
    BY <1>2, <1>3

\* One insert of all rows, with ids nobody has.
LEMMA AttachStep == ASSUME Kept, NEW r \in Requests, AttachFiles(r) PROVE Kept'
<1> DEFINE files == task[r].files
           new == NewRows(files, task[r].of)
<1>1. task[r] \in Sends /\ Reads(r) /\ Going(r) = {} /\ Listed(r) = {} /\ task[r].op = "send" /\ task[r].step = "attaching"
    BY SendShape DEF AttachFiles, At, Kept, Knows
<1>2. /\ IdsOf(new) \subseteq Ids
      /\ rows' = rows \cup new
      /\ nextId' = nextId + Len(files)
      /\ excused' = excused \cup {row.id : row \in {n \in new : ~Stored(n.file)}}
      /\ task[r].of \in conversations
      /\ UNCHANGED <<assets, uploaded, conversations, erased>>
    BY DEF AttachFiles
<1>3. files \in Seq(Uploads) /\ Len(files) \in Nat /\ DOMAIN files = 1..Len(files)
    BY <1>1, AttachmentsAssumption, LenProperties DEF Sends
<1>4. nextId \in Nat /\ nextId >= 1 /\ rows \subseteq [id : Ids, file : Uploads, of : Conversations]
    BY AttachmentsAssumption DEF Kept, TypeOK
<1>5. \A i \in DOMAIN files : files[i] \in Uploads /\ files[i] \in uploaded
  <2>1. ToSet(files) \subseteq uploaded
    BY <1>1 DEF Reads
  <2> QED
    BY <1>3, <2>1 DEF ToSet
<1>6. \A x \in new : \E i \in 1..Len(files) : x = [id |-> nextId + i - 1, file |-> files[i], of |-> task[r].of]
    BY <1>3 DEF NewRows
<1>7. \A x \in new : x.id \in Nat /\ x.id >= nextId /\ x.id < nextId' /\ x.file \in uploaded
    BY <1>2, <1>3, <1>4, <1>5, <1>6
<1>8. \A x, y \in new : x.id = y.id => x = y
    BY <1>3, <1>4, <1>6
<1>9. new \subseteq [id : Ids, file : Uploads, of : Conversations]
  <2> SUFFICES ASSUME NEW x \in new PROVE x \in [id : Ids, file : Uploads, of : Conversations]
    OBVIOUS
  <2>1. x.id \in Ids
    BY <1>2 DEF IdsOf
  <2>2. task[r].of \in Conversations
    BY <1>1 DEF Sends
  <2> QED
    BY <1>3, <1>5, <1>6, <2>1, <2>2
<1>10. nextId' \in 1..(MaxRows + 1)
  <2>1. CASE Len(files) = 0
    BY <2>1, <1>2, <1>4 DEF Kept, TypeOK
  <2>2. CASE Len(files) # 0
    <3>1. [id |-> nextId + Len(files) - 1, file |-> files[Len(files)], of |-> task[r].of] \in new
      BY <2>2, <1>3 DEF NewRows
    <3>2. nextId + Len(files) - 1 \in Ids
      BY <3>1, <1>2 DEF IdsOf
    <3> QED
      BY <3>2, <1>2, <1>3, <1>4, AttachmentsAssumption DEF Ids
  <2> QED
    BY <2>1, <2>2
<1> HIDE DEF new
<1>11. PICK t \in Tasks :
          /\ task' = [task EXCEPT ![r] = t]
          /\ t = Idle \/ t = [task[r] EXCEPT !.step = "reading"]
  <2>1. [task[r] EXCEPT !.step = "reading"] \in Tasks /\ Idle \in Tasks
    BY <1>1 DEF Tasks, Sends
  <2> QED
    BY <2>1 DEF AttachFiles, Ends
<1>12. task'[r] = t /\ \A q \in Requests : q # r => task'[q] = task[q]
    BY <1>11 DEF Kept, TypeOK
<1>13. Knows(r)' /\ Listed(r)' = {}
  <2>1. CASE t = Idle
    BY <1>12, <2>1 DEF Knows, Reads, Erases, Listed, At, Idle
  <2>2. CASE t = [task[r] EXCEPT !.step = "reading"]
    <3>1. t.op = "send" /\ t.step = "reading" /\ t.files = files /\ t.documents = task[r].documents
      BY <1>1, <2>2 DEF Sends
    <3>2. Reads(r)'
      BY <1>1, <1>2, <1>12, <3>1 DEF Reads
    <3> QED
      BY <3>1, <3>2, <1>12 DEF Knows, Erases, Listed, At
  <2> QED
    BY <1>11, <2>1, <2>2
<1>14. TypeOK'
  <2>1. rows' \subseteq [id : Ids, file : Uploads, of : Conversations]
    BY <1>2, <1>4, <1>9
  <2>2. excused' \subseteq Ids
    BY <1>2, <1>9 DEF Kept, TypeOK
  <2> QED
    BY <1>2, <1>10, <1>11, <2>1, <2>2 DEF Kept, TypeOK
<1>15. Numbered'
  <2>1. \A x \in rows' : x.id < nextId' /\ x.file \in uploaded'
    <3>1. \A x \in rows : x.id \in Nat /\ x.id < nextId /\ x.file \in uploaded
      BY <1>4 DEF Kept, Numbered, Ids
    <3> QED
      BY <3>1, <1>2, <1>3, <1>4, <1>7
  <2>2. \A x, y \in rows' : x.id = y.id => x = y
    <3>1. \A x \in rows : x.id \in Nat /\ x.id < nextId
      BY <1>4 DEF Kept, Numbered, Ids
    <3>2. \A x, y \in rows : x.id = y.id => x = y
      BY DEF Kept, Numbered
    <3> QED
      BY <3>1, <3>2, <1>2, <1>4, <1>7, <1>8
  <2>3. ASSUME NEW q \in Requests, NEW x \in Listed(q)' PROVE x.id < nextId' /\ \A y \in rows' : y.id = x.id => y = x
    <3>1. x \in Listed(q)
      BY <2>3, <1>12, <1>13 DEF Listed
    <3>2. x.id \in Nat
      <4>1. task[q].step \in {"erasing", "deleting"} /\ x \in task[q].listed
        BY <3>1 DEF Listed
      <4>2. x \in [id : Ids, file : Uploads, of : Conversations]
        BY <4>1, EraseShape DEF Erasures
      <4> QED
        BY <4>2 DEF Ids
    <3>3. x.id < nextId /\ \A y \in rows : y.id = x.id => y = x
      BY <3>1 DEF Kept, Numbered
    <3> QED
      BY <3>2, <3>3, <1>2, <1>3, <1>4, <1>7
  <2> QED
    BY <2>1, <2>2, <2>3 DEF Numbered
<1>16. \A q \in Requests : Knows(q)'
  <2> SUFFICES ASSUME NEW q \in Requests, q # r PROVE Knows(q)'
    BY <1>13
  <2>1. uploaded \subseteq uploaded' /\ nextId <= nextId' /\ nextId' \in Nat
    BY <1>2, <1>3, <1>4
  <2>2. \A x \in rows' : x \in rows \/ (x.id \in Nat /\ x.id >= nextId)
    BY <1>2, <1>7
  <2>3. task'[q] = task[q] /\ Knows(q)
    BY <1>12 DEF Kept
  <2> QED
    BY <2>1, <2>2, <2>3, KnowsOn
<1>17. DanglingHasCause'
  <2> SUFFICES ASSUME NEW x \in rows' PROVE Stored(x.file)' \/ x.id \in excused' \/ \E q \in Requests : x \in Going(q)'
    BY DEF DanglingHasCause
  <2>1. CASE x \in rows
    <3>1. \A q \in Requests : Going(q) \subseteq Going(q)'
      BY <1>1, <1>12 DEF Going
    <3>2. Stored(x.file) \/ x.id \in excused \/ \E q \in Requests : x \in Going(q)
      BY <2>1 DEF Kept, DanglingHasCause
    <3> QED
      BY <3>1, <3>2, <1>2 DEF Stored
  <2>2. CASE x \in new
    BY <2>2, <1>2 DEF Stored
  <2> QED
    BY <2>1, <2>2, <1>2
<1> QED
    BY <1>14, <1>15, <1>16, <1>17 DEF Kept

-----------------------------------------------------------------------------
(* Deleting.                                                               *)

LEMMA CheckStep ==
    ASSUME Kept, NEW r \in Requests, CheckDiscard(r) \/ CheckFails(r)
    PROVE  Kept'
<1>1. /\ At(r, "discard", "checking") /\ task[r].file \in uploaded
      /\ UNCHANGED <<assets, uploaded, rows, nextId, conversations, erased, excused>>
      /\ Going(r) = {}
    BY DEF CheckDiscard, CheckFails, Kept, Knows, Erases, At, Going
<1>2. CASE Ends(r)
    BY <1>1, <1>2, EndStep
<1>3. CASE ~Ends(r)
  <2> DEFINE t == [op |-> "discard", step |-> "erasing", doomed |-> {task[r].file}, listed |-> {}, seen |-> nextId]
  <2>1. task' = [task EXCEPT ![r] = t] /\ ~IsSaved(task[r].file)
    BY <1>3 DEF CheckDiscard, CheckFails
  <2>2. task[r].file \in Uploads /\ nextId \in 1..(MaxRows + 1)
    BY <1>1 DEF Kept, TypeOK
  <2>3. t \in Tasks
    BY <2>2 DEF Tasks
  <2>4. task'[r] = t
    BY <2>1 DEF Kept, TypeOK
  <2>5. Reads(r)' /\ Listed(r)' = {}
    BY <2>4 DEF Reads, Listed
  <2>6. Erases(r)'
    <3>1. \A x \in rows : x.file # task[r].file
      BY <2>1 DEF IsSaved
    <3>2. nextId <= nextId
      BY <2>2, AttachmentsAssumption
    <3> QED
      BY <1>1, <2>2, <2>4, <3>1, <3>2 DEF Erases, At
  <2> QED
    BY <1>1, <2>1, <2>3, <2>5, <2>6, OwnStep DEF Knows
<1> QED
    BY <1>2, <1>3

LEMMA FindStep == ASSUME Kept, NEW r \in Requests, FindRows(r) PROVE Kept'
<1> DEFINE found == {row \in rows : row.id \in task[r].ids}
           t == [op |-> "remove", step |-> IF found = {} THEN "deleting" ELSE "erasing",
                 doomed |-> {row.file : row \in found}, listed |-> found, seen |-> nextId]
<1>1. /\ task' = [task EXCEPT ![r] = t]
      /\ UNCHANGED <<assets, uploaded, rows, nextId, conversations, erased, excused>>
      /\ Going(r) = {}
    BY DEF FindRows, At, Going
<1>2. /\ found \subseteq rows
      /\ rows \subseteq [id : Ids, file : Uploads, of : Conversations]
      /\ \A x \in rows : x.file \in uploaded
      /\ nextId \in 1..(MaxRows + 1)
      /\ uploaded \subseteq Uploads
    BY DEF Kept, TypeOK, Numbered
<1> HIDE DEF found
<1>3. {row.file : row \in found} \subseteq uploaded
    BY <1>2
<1>4. t \in Tasks
  <2>1. t.step \in {"erasing", "deleting"}
    OBVIOUS
  <2> QED
    BY <1>2, <1>3, <2>1 DEF Tasks
<1>5. task'[r] = t
    BY <1>1 DEF Kept, TypeOK
<1>6. Knows(r)' /\ Listed(r)' = found
    BY <1>1, <1>3, <1>5 DEF Knows, Reads, Erases, At, Listed
<1> QED
    BY <1>1, <1>2, <1>4, <1>6, OwnStep

\* One asset of a deletion is dealt with: the request goes on with the others, or ends.
LEMMA GoesOn ==
    ASSUME Kept, NEW r \in Requests, NEW u \in Uploads, task[r].step = "erasing", u \in task[r].doomed, Erase(r, u)
    PROVE  /\ \E t \in Tasks : task' = [task EXCEPT ![r] = t]
           /\ \A q \in Requests : q # r => task'[q] = task[q]
           /\ Listed(r)' \subseteq Listed(r)
           /\ Going(r)' = Going(r)
           /\ task[r].op = "remove" => Going(r) = task[r].listed
           /\ uploaded' = uploaded => Knows(r)'
<1> DEFINE left == task[r].doomed \ {u}
           next == IF left = {} THEN "deleting" ELSE "erasing"
<1>1. task[r] \in Erasures /\ Erases(r) /\ DOMAIN task = Requests
    BY EraseShape DEF Kept, Knows, TypeOK
<1>2. CASE task[r].op = "remove"
  <2> DEFINE t == [task[r] EXCEPT !.doomed = left, !.step = next]
  <2>1. task' = [task EXCEPT ![r] = t]
    BY <1>2 DEF Erase
  <2>2. t \in Erasures /\ t.op = "remove" /\ t.doomed = left /\ t.step = next /\ t.listed = task[r].listed
    BY <1>1, <1>2 DEF Erasures
  <2>3. task'[r] = t
    BY <1>1, <2>1
  <2> HIDE DEF t
  <2>4. t.step \in {"erasing", "deleting"}
    BY <2>2
  <2>5. t \in Tasks
    BY <2>2 DEF Tasks, Erasures
  <2>6. left \subseteq uploaded
    BY <1>1 DEF Erases
  <2>7. uploaded' = uploaded => Knows(r)'
    BY <2>2, <2>3, <2>4, <2>6 DEF Knows, Reads, Erases, At
  <2> QED
    BY <1>1, <1>2, <2>1, <2>2, <2>3, <2>4, <2>5, <2>7 DEF Listed, Going
<1>3. CASE task[r].op = "discard"
  <2>1. left = {}
    BY <1>1, <1>3 DEF Erases, At
  <2>2. task' = [task EXCEPT ![r] = Idle]
    BY <1>3, <2>1 DEF Erase, Ends
  <2>3. task'[r] = Idle
    BY <1>1, <2>2
  <2> QED
    BY <1>1, <1>3, <2>2, <2>3 DEF Listed, Going, Knows, Reads, Erases, At, Idle, Tasks
<1> QED
    BY <1>1, <1>2, <1>3 DEF Erasures

LEMMA EraseFailsStep == ASSUME Kept, NEW r \in Requests, NEW u \in Uploads, EraseFails(r, u) PROVE Kept'
<1>1. /\ task[r].step = "erasing" /\ u \in task[r].doomed /\ Erase(r, u)
      /\ UNCHANGED <<assets, uploaded, rows, nextId, conversations, erased, excused>>
    BY DEF EraseFails
<1>2. PICK t \in Tasks : task' = [task EXCEPT ![r] = t]
    BY <1>1, GoesOn
<1> QED
    BY <1>1, <1>2, GoesOn, OwnStep

\* Only rows of the erased file lose their asset: the request deletes them, or could not know of them.
LEMMA EraseStep == ASSUME Kept, NEW r \in Requests, NEW u \in Uploads, EraseAsset(r, u) PROVE Kept'
<1>1. /\ task[r].step = "erasing" /\ u \in task[r].doomed /\ Erase(r, u)
      /\ assets' = assets \ Erased(UrlOf(u))
      /\ excused' = excused \cup Unknown(r, u)
      /\ erased' = erased \cup {u}
      /\ UNCHANGED <<uploaded, rows, nextId, conversations>>
    BY DEF EraseAsset
<1>2. PICK t \in Tasks : task' = [task EXCEPT ![r] = t]
    BY <1>1, GoesOn
<1>3. task[r] \in Erasures /\ Erases(r)
    BY <1>1, EraseShape DEF Kept, Knows
<1>4. \A q \in Requests : q # r => task'[q] = task[q]
    BY <1>1, GoesOn
<1>5. TypeOK'
  <2>1. u \in uploaded
    BY <1>1, <1>3 DEF Erases
  <2>2. Unknown(r, u) \subseteq Ids
    BY DEF Unknown, RowsOf, Kept, TypeOK
  <2> QED
    BY <1>1, <1>2, <2>1, <2>2 DEF Kept, TypeOK
<1>6. Numbered'
  <2>1. \A q \in Requests : Listed(q)' \subseteq Listed(q)
    BY <1>1, <1>4, GoesOn DEF Listed
  <2> QED
    BY <1>1, <2>1 DEF Kept, Numbered
<1>7. \A q \in Requests : Knows(q)'
  <2>1. Knows(r)'
    BY <1>1, GoesOn
  <2> SUFFICES ASSUME NEW q \in Requests, q # r PROVE Knows(q)'
    BY <2>1
  <2>2. uploaded \subseteq uploaded' /\ nextId <= nextId' /\ nextId' \in Nat
    BY <1>1, AttachmentsAssumption DEF Kept, TypeOK
  <2>3. \A x \in rows' : x \in rows \/ (x.id \in Nat /\ x.id >= nextId)
    BY <1>1
  <2>4. task'[q] = task[q] /\ Knows(q)
    BY <1>4 DEF Kept
  <2> QED
    BY <2>2, <2>3, <2>4, KnowsOn
<1>8. DanglingHasCause'
  <2> SUFFICES ASSUME NEW x \in rows PROVE Stored(x.file)' \/ x.id \in excused' \/ \E q \in Requests : x \in Going(q)'
    BY <1>1 DEF DanglingHasCause
  <2>1. \A q \in Requests : Going(q)' = Going(q)
    BY <1>1, <1>4, GoesOn DEF Going
  <2>2. x.file \in Uploads
    BY DEF Kept, TypeOK
  <2>3. CASE x.file # u
    <3>1. AssetOf(x.file) \notin Erased(UrlOf(u))
      BY <2>2, <2>3, ErasesOnlyTheFile
    <3> QED
      BY <1>1, <2>1, <3>1 DEF Kept, DanglingHasCause, Stored
  <2>4. CASE x.file = u /\ task[r].op = "remove"
    <3>1. x \in task[r].listed => x \in Going(r)
      BY <1>1, <2>4, GoesOn
    <3>2. x \notin task[r].listed => x.id \in Unknown(r, u)
      BY <2>4 DEF Unknown, RowsOf
    <3> QED
      BY <1>1, <2>1, <3>1, <3>2
  <2>5. CASE x.file = u /\ task[r].op = "discard"
    <3>1. x.id >= task[r].seen
      BY <1>1, <1>3, <2>5 DEF Erases, At
    <3>2. x.id \in Unknown(r, u)
      BY <2>5, <3>1 DEF Unknown, RowsOf
    <3> QED
      BY <1>1, <3>2
  <2> QED
    BY <1>3, <2>3, <2>4, <2>5 DEF Erasures
<1> QED
    BY <1>5, <1>6, <1>7, <1>8 DEF Kept

\* Ids are one row's, so what excuses another row stays.
LEMMA DeleteRowsStep == ASSUME Kept, NEW r \in Requests, DeleteRows(r) PROVE Kept'
<1> DEFINE gone == task[r].listed
<1>1. /\ task[r].op = "remove" /\ task[r].step = "deleting"
      /\ rows' = rows \ gone
      /\ excused' = excused \ IdsOf(gone)
      /\ task' = [task EXCEPT ![r] = Idle]
      /\ UNCHANGED <<assets, uploaded, nextId, conversations, erased>>
    BY DEF DeleteRows, GoneWith, Ends, At
<1>2. Listed(r) = gone /\ Going(r) = gone
    BY <1>1 DEF Listed, Going
<1>3. task'[r] = Idle /\ \A q \in Requests : q # r => task'[q] = task[q]
    BY <1>1 DEF Kept, TypeOK
<1> HIDE DEF gone
<1>4. TypeOK'
    BY <1>1 DEF Kept, TypeOK, Tasks
<1>5. Listed(r)' = {} /\ Knows(r)'
    BY <1>3 DEF Listed, Knows, Reads, Erases, At, Idle
<1>6. Numbered'
  <2>1. \A q \in Requests : Listed(q)' \subseteq Listed(q)
    BY <1>3, <1>5 DEF Listed
  <2> QED
    BY <1>1, <2>1 DEF Kept, Numbered
<1>7. \A q \in Requests : Knows(q)'
  <2> SUFFICES ASSUME NEW q \in Requests, q # r PROVE Knows(q)'
    BY <1>5
  <2>1. uploaded \subseteq uploaded' /\ nextId <= nextId' /\ nextId' \in Nat
    BY <1>1, AttachmentsAssumption DEF Kept, TypeOK
  <2>2. \A x \in rows' : x \in rows \/ (x.id \in Nat /\ x.id >= nextId)
    BY <1>1
  <2>3. task'[q] = task[q] /\ Knows(q)
    BY <1>3 DEF Kept
  <2> QED
    BY <2>1, <2>2, <2>3, KnowsOn
<1>8. DanglingHasCause'
  <2> SUFFICES ASSUME NEW x \in rows, x \notin gone
               PROVE  Stored(x.file) \/ x.id \in excused' \/ \E q \in Requests : x \in Going(q)'
    BY <1>1 DEF DanglingHasCause, Stored
  <2>1. x.id \notin IdsOf(gone)
    <3>1. \A y \in gone : y.id = x.id => x = y
      BY <1>2 DEF Kept, Numbered
    <3> QED
      BY <3>1 DEF IdsOf
  <2>2. \A q \in Requests : x \in Going(q) => x \in Going(q)'
    BY <1>2, <1>3 DEF Going
  <2> QED
    BY <1>1, <2>1, <2>2 DEF Kept, DanglingHasCause
<1> QED
    BY <1>4, <1>6, <1>7, <1>8 DEF Kept

LEMMA DeleteFailsStep == ASSUME Kept, NEW r \in Requests, DeleteFails(r) PROVE Kept'
<1>1. task[r].op = "remove" /\ Ends(r) /\ UNCHANGED <<assets, uploaded, rows, nextId, conversations, erased>>
    BY DEF DeleteFails
<1>2. CASE task[r].step = "finding"
  <2>1. excused' = excused /\ Going(r) = {}
    BY <1>2 DEF DeleteFails, Going
  <2> QED
    BY <1>1, <2>1, EndStep
<1>3. CASE task[r].step = "deleting"
  <2>1. excused' = excused \cup (IdsOf(task[r].listed) \cap IdsOf(rows)) /\ Going(r) = task[r].listed
    BY <1>1, <1>3 DEF DeleteFails, Going
  <2>2. task' = [task EXCEPT ![r] = Idle] /\ task'[r] = Idle /\ \A q \in Requests : q # r => task'[q] = task[q]
    BY <1>1 DEF Ends, Kept, TypeOK
  <2>3. TypeOK'
    <3>1. IdsOf(rows) \subseteq Ids
      BY DEF Kept, TypeOK, IdsOf
    <3> QED
      BY <1>1, <2>1, <2>2, <3>1 DEF Kept, TypeOK, Tasks
  <2>4. Listed(r)' = {} /\ Knows(r)'
    BY <2>2 DEF Listed, Knows, Reads, Erases, At, Idle
  <2>5. Numbered'
    <3>1. \A q \in Requests : Listed(q)' \subseteq Listed(q)
      BY <2>2, <2>4 DEF Listed
    <3> QED
      BY <1>1, <3>1 DEF Kept, Numbered
  <2>6. \A q \in Requests : Knows(q)'
    <3> SUFFICES ASSUME NEW q \in Requests, q # r PROVE Knows(q)'
      BY <2>4
    <3>1. uploaded \subseteq uploaded' /\ nextId <= nextId' /\ nextId' \in Nat
      BY <1>1, AttachmentsAssumption DEF Kept, TypeOK
    <3>2. \A x \in rows' : x \in rows \/ (x.id \in Nat /\ x.id >= nextId)
      BY <1>1
    <3>3. task'[q] = task[q] /\ Knows(q)
      BY <2>2 DEF Kept
    <3> QED
      BY <3>1, <3>2, <3>3, KnowsOn
  <2>7. DanglingHasCause'
    <3> SUFFICES ASSUME NEW x \in rows PROVE Stored(x.file) \/ x.id \in excused' \/ \E q \in Requests : x \in Going(q)'
      BY <1>1 DEF DanglingHasCause, Stored
    <3>1. x \in Going(r) => x.id \in excused'
      BY <2>1 DEF IdsOf
    <3>2. \A q \in Requests : q # r /\ x \in Going(q) => x \in Going(q)'
      BY <2>2 DEF Going
    <3> QED
      BY <2>1, <3>1, <3>2 DEF Kept, DanglingHasCause
  <2> QED
    BY <2>3, <2>5, <2>6, <2>7 DEF Kept
<1> QED
    BY <1>2, <1>3 DEF DeleteFails

LEMMA ElsewhereStep == ASSUME Kept, Elsewhere PROVE Kept'
<1>1. task' = task /\ nextId' = nextId /\ uploaded \subseteq uploaded' /\ rows' \subseteq rows
    BY DEF Elsewhere, Upload, DeleteConversation
<1>2. \A q \in Requests : Knows(q)'
  <2> SUFFICES ASSUME NEW q \in Requests PROVE Knows(q)'
    OBVIOUS
  <2>1. nextId <= nextId' /\ nextId' \in Nat
    BY <1>1, AttachmentsAssumption DEF Kept, TypeOK
  <2>2. \A x \in rows' : x \in rows \/ (x.id \in Nat /\ x.id >= nextId)
    BY <1>1
  <2>3. task'[q] = task[q] /\ Knows(q)
    BY <1>1 DEF Kept
  <2> QED
    BY <1>1, <2>1, <2>2, <2>3, KnowsOn
<1>3. Numbered'
    BY <1>1 DEF Kept, Numbered, Listed
<1>4. TypeOK'
    BY DEF Kept, TypeOK, Elsewhere, Upload, DeleteConversation
<1>5. ASSUME NEW u \in Uploads, Upload(u) PROVE DanglingHasCause'
    BY <1>1, <1>5 DEF Kept, DanglingHasCause, Upload, Stored, Going
<1>6. ASSUME NEW c \in Conversations, DeleteConversation(c) PROVE DanglingHasCause'
  <2> SUFFICES ASSUME NEW x \in rows'
               PROVE  Stored(x.file)' \/ x.id \in excused' \/ \E q \in Requests : x \in Going(q)'
    BY DEF DanglingHasCause
  <2>1. x \in rows /\ x.id \in IdsOf(rows') /\ assets' = assets /\ excused' = excused \cap IdsOf(rows')
    BY <1>1, <1>6 DEF DeleteConversation, IdsOf
  <2>2. \A q \in Requests : Going(q)' = Going(q)
    BY <1>1 DEF Going
  <2> QED
    BY <2>1, <2>2 DEF Kept, DanglingHasCause, Stored
<1> QED
    BY <1>2, <1>3, <1>4, <1>5, <1>6 DEF Kept, Elsewhere

\* The process ends, and every removal under way leaves its rows to be excused.
LEMMA CutOffStep == ASSUME Kept, CutOff(Requests) PROVE Kept'
<1>1. /\ task' = [r \in Requests |-> Idle]
      /\ excused' = excused \cup (IdsOf(UNION {Going(r) : r \in Requests}) \cap IdsOf(rows))
      /\ UNCHANGED <<assets, uploaded, rows, nextId, conversations, erased>>
    BY DEF CutOff
<1>2. \A r \in Requests : task'[r] = Idle /\ Idle.op = "none" /\ Idle.step = "idle"
    BY <1>1 DEF Idle
<1>3. TypeOK'
  <2>1. IdsOf(rows) \subseteq Ids
    BY DEF Kept, TypeOK, IdsOf
  <2> QED
    BY <1>1, <2>1 DEF Kept, TypeOK, Tasks
<1>4. Numbered'
    BY <1>1, <1>2 DEF Kept, Numbered, Listed
<1>5. \A r \in Requests : Knows(r)'
    BY <1>2 DEF Knows, Reads, Erases, At
<1>6. DanglingHasCause'
    BY <1>1 DEF Kept, DanglingHasCause, Stored, IdsOf
<1> QED
    BY <1>3, <1>4, <1>5, <1>6 DEF Kept

LEMMA GoesStep == ASSUME Kept, NEW r \in Requests, Goes(r) PROVE Kept'
    BY AttachStep, SendMoves, ReadStep, CheckStep, FindStep, DeleteRowsStep, EraseStep, EraseFailsStep, DeleteFailsStep
    DEF Goes

LEMMA KeptStep == ASSUME Kept, Life, [SystemNext]_systemVars PROVE Kept'
<1>1. ASSUME NEW r \in Requests, Serve(r) \/ Handle(r) PROVE Kept'
    BY <1>1, BeginStep, GoesStep DEF Serve, Handle
<1>2. CASE Write \/ Store
    BY <1>2, ElsewhereStep DEF Write, Store, Elsewhere
<1>3. ASSUME NEW code \in {"success", "failure"}, CutOff(Torn(code)), Server!Dies, exitCode' = code
      PROVE  Kept'
  \* A shutdown that succeeds has waited for every client that was still there.
  <2>1. code = "success" => open = {}
    BY <1>3
    DEF Server!Dies, Server!DatabaseRefuses, Server!RedisTimesOut, Server!StartFails, Server!Shutdown,
        Server!PrismaDisconnects, Server!CloseFails, Server!ForceExit, Server!Kill, Server!Alive, Server!Exit, Life, Ordered
  <2>2. Torn(code) = Requests
    BY <2>1 DEF Torn
  <2> QED
    BY <1>3, <2>2, CutOffStep
<1>4. CASE UNCHANGED vars
  <2>1. \A r \in Requests : Listed(r)' = Listed(r) /\ Going(r)' = Going(r) /\ (Knows(r)' <=> Knows(r))
    BY <1>4 DEF vars, Listed, Going, Knows, Reads, Erases, At
  <2> QED
    BY <1>4, <2>1 DEF vars, Kept, TypeOK, Numbered, DanglingHasCause, Stored
<1> QED
    BY <1>1, <1>2, <1>3, <1>4 DEF SystemNext, Process, systemVars

\* An erased asset is another's only if the upload is the same, and nobody uploads twice.
LEMMA ErasedStep ==
    ASSUME Kept, ErasedIsGone, CloudName # "upload", [SystemNext]_systemVars
    PROVE  ErasedIsGone'
<1>1. erased \subseteq uploaded /\ uploaded \subseteq Uploads
    BY DEF Kept, TypeOK
<1>2. ASSUME assets' \subseteq assets, erased' = erased PROVE ErasedIsGone'
    BY <1>2 DEF ErasedIsGone, Stored
<1>3. ASSUME NEW r \in Requests, Begin(r) PROVE ErasedIsGone'
    BY <1>3, <1>2 DEF Begin, Send, Discard, DeleteAttachments
<1>4. ASSUME NEW r \in Requests, NEW u \in Uploads, EraseAsset(r, u) PROVE ErasedIsGone'
  <2>1. assets' = assets \ Erased(UrlOf(u)) /\ erased' = erased \cup {u}
    BY <1>4 DEF EraseAsset
  <2> QED
    BY <2>1, ErasesTheFile DEF ErasedIsGone, Stored
<1>5. ASSUME NEW r \in Requests, Goes(r) PROVE ErasedIsGone'
  <2>1. CASE \E u \in Uploads : EraseAsset(r, u)
    BY <2>1, <1>4
  <2>2. CASE ~ \E u \in Uploads : EraseAsset(r, u)
    BY <2>2, <1>5, <1>2
    DEF Goes, AttachFiles, ExtractText, ReadFile, CheckDiscard, FindRows, DeleteRows, EraseFails,
        ReadFails, ExtractFails, SendEnds, DeleteFails, CheckFails
  <2> QED
    BY <2>1, <2>2
<1>6. ASSUME NEW u \in Uploads, Upload(u) PROVE ErasedIsGone'
  <2>1. u \notin uploaded /\ assets' = assets \cup {AssetOf(u)} /\ erased' = erased
    BY <1>6 DEF Upload
  <2>2. \A v \in Uploads : AssetOf(v).name.base = v.id
    BY DEF AssetOf
  <2>3. \A v \in erased : v \in Uploads /\ v # u /\ AssetOf(v) # AssetOf(u)
    BY <1>1, <2>1, <2>2, AttachmentsAssumption
  <2> QED
    BY <2>1, <2>3 DEF ErasedIsGone, Stored
<1>7. CASE Write
    BY <1>7, <1>2 DEF Write, DeleteConversation
<1>8. CASE Process
  <2>1. UNCHANGED <<assets, erased>>
    BY <1>8 DEF Process, CutOff, vars
  <2> QED
    BY <1>2, <2>1
<1>9. CASE UNCHANGED systemVars
    BY <1>2, <1>9 DEF systemVars, vars
<1> QED
    BY <1>3, <1>5, <1>6, <1>7, <1>8, <1>9 DEF SystemNext, Serve, Handle, Store

\* In the eyes of the process a handler is there until its last step.
LEMMA ServerStep == ASSUME Kept, [SystemNext]_systemVars PROVE [Server!Next]_(Server!vars)
<1> USE DEF Server!Next, Server!vars, Server!process, serverVars
<1>1. ASSUME NEW r \in Requests, Serve(r) PROVE Server!Next
    BY <1>1 DEF Serve
<1>2. ASSUME NEW r \in Requests, Handle(r) PROVE [Server!Next]_(Server!vars)
  <2>1. CASE r \in Busy'
    <3>1. task[r].op # "none"
      <4>1. CASE task[r].step \in {"erasing", "deleting"}
        BY <4>1, EraseShape DEF Erasures
      <4>2. CASE task[r].step \notin {"erasing", "deleting"}
        BY <4>2, <1>2
        DEF Handle, Goes, AttachFiles, ExtractText, ReadFile, CheckDiscard, FindRows, DeleteRows, EraseAsset, EraseFails,
            ReadFails, ExtractFails, SendEnds, DeleteFails, CheckFails, At
      <4> QED
        BY <4>1, <4>2
    <3>2. \A q \in Requests : q # r => task'[q] = task[q]
      BY <1>2, OneAtWork DEF Handle, Kept
    <3>3. Busy' = Busy
      BY <2>1, <3>1, <3>2 DEF Busy
    <3> QED
      BY <1>2, <2>1, <3>3 DEF Handle
  <2>2. CASE r \notin Busy'
    BY <1>2, <2>2 DEF Handle
  <2> QED
    BY <2>1, <2>2
<1>3. CASE Write \/ Store
  <2>1. Busy' = Busy
    BY <1>3 DEF Write, Store, DeleteConversation, Upload, Busy
  <2> QED
    BY <1>3, <2>1 DEF Write, Store
<1>4. CASE Process
    BY <1>4 DEF Process
<1>5. CASE UNCHANGED systemVars
    BY <1>5 DEF systemVars, vars, Busy
<1> QED
    BY <1>1, <1>2, <1>3, <1>4, <1>5 DEF SystemNext

-----------------------------------------------------------------------------
(* The theorems.                                                           *)

(* What the process has open follows where start() and shutdown() stand,   *)
(* and what the requests know of rows and uploads stays true.              *)
THEOREM Inductive == SystemSpec => [](Life /\ Kept)
<1>1. SystemInit => Life /\ Kept
    BY LifeInit, KeptInit
<1>2. Life /\ Kept /\ [SystemNext]_systemVars => (Life /\ Kept)'
    BY LifeStep, KeptStep DEF Kept
<1> QED
    BY <1>1, <1>2, PTL DEF SystemSpec

(* The variables keep their types, whatever requests and the process do.   *)
THEOREM TypeCorrect == SystemSpec => []SystemTypeOK
<1>1. Life /\ Kept => SystemTypeOK
    BY DEF Life, Kept, SystemTypeOK
<1> QED
    BY <1>1, Inductive, PTL

(* Work that somebody waits for has the stores it needs, through every     *)
(* start, shutdown and crash (server.ts:35-46 and 87-102).                 *)
THEOREM StoresStay == SystemSpec => []StoresOutliveWork
<1>1. Life => StoresOutliveWork
    BY DEF Life, Ordered, Stores, Server!TypeOK, Server!Booting, Server!Alive, StoresOutliveWork, Server!WorkHasItsStores
<1> QED
    BY <1>1, Inductive, PTL

(* A row without its asset always has one of the known causes, for any     *)
(* number of requests, files and rows (attachment.service.ts:52-89).       *)
THEOREM CausesAreKnown == SystemSpec => []DanglingHasCause
<1>1. Kept => DanglingHasCause
    BY DEF Kept
<1> QED
    BY <1>1, Inductive, PTL

(* The model is asked with each file's own text, in whatever order the     *)
(* files are read (file.service.ts:55-88).                                 *)
THEOREM DocumentsMatch == SystemSpec => []DocumentsAreTheFiles
<1>1. Kept => DocumentsAreTheFiles
    BY DEF Kept, Knows, Reads, DocumentsAreTheFiles, At
<1> QED
    BY <1>1, Inductive, PTL

(* A deletion that meets no error finds its asset, and the asset never     *)
(* comes back, unless the cloud is named like the marker of the path that  *)
(* parseAsset looks for (cloudinary.service.ts:91-129).                    *)
THEOREM ErasedForGood ==
    ASSUME CloudName # "upload"
    PROVE  SystemSpec => []ErasedIsGone
<1>1. SystemInit => ErasedIsGone
    BY DEF SystemInit, Init, ErasedIsGone
<1>2. Kept /\ ErasedIsGone /\ [SystemNext]_systemVars => ErasedIsGone'
    BY ErasedStep
<1> QED
    BY <1>1, <1>2, Inductive, PTL DEF SystemSpec

(* Seen from outside, a process that serves attachments is a               *)
(* ServerLifecycle: handlers, deletions and uploads take steps of it or    *)
(* none (server.ts).                                                       *)
THEOREM ServesAsAServer == SystemSpec => Server!Spec
<1>1. SystemInit => Server!Init
    BY DEF SystemInit
<1>2. Kept /\ [SystemNext]_systemVars => [Server!Next]_(Server!vars)
    BY ServerStep
<1> QED
    BY <1>1, <1>2, Inductive, PTL DEF SystemSpec, Server!Spec

=============================================================================
