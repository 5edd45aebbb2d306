# Valo App: a verification project

TLA+ specifications of the Valo App backend (Express, Prisma over PostgreSQL,
Redis, BullMQ), the TLC configurations that model-check them on small instances,
and proofs for every instance. Paths below are relative to `src/src/` unless they
start with `src/`.

## 1. Inventory

| Component | State it keeps | Operations | What is hard | What makes it correct |
|---|---|---|---|---|
| **Message streaming** (`controllers/message.controller.ts`, `services/ai.service.ts`, `services/ai/*`) | per request: the chunks pushed, the abort controller, the AI timer; the assistant row (PENDING, SUCCESS, FAILED, stopped) | accept, prepare, attach files, extract, stream tokens, save answer / stop / failure | every `await` interleaves with the client closing, the timer, a deletion of the conversation, a crash; a save can be refused or commit without acknowledgement | a stop wins over later errors; the client is told what is stored; a pending row has an owner; a row settles once; an opened stream settles |
| **Message tree** (`services/message.service.ts`, `repositories/message.repository.ts`) | rows with a parent and a materialized path | send, retry, read history, create row, settle, cascade | question and reply in two transactions; reads before writes; parents named by clients | stored ancestors are the way to the root; the history is the branch, and of this conversation; replies hang under questions |
| **Chunked upload** (`services/chunked-upload.service.ts`, storage manager, Cloudinary, local store) | the session record and a lock in Redis, a directory on disk, two stores | initialize, receive a chunk, complete, cancel, expire | no request locks the session but completion; the lock expires, also under its holder; two uploads of a chunk share a temporary name; disk, Redis and store fail one by one | completions exclude each other while the lock lasts; only whole files are stored; acknowledged chunks are not forgotten; no orphans; the lock comes free |
| **Accounts and groups** (`services/user.service.ts`, `services/group.service.ts`, `database/seeder`) | users, groups, memberships | create, activate, delete one or many, assign groups, add and remove members, create, rename and delete groups, seed at start | count, then delete, without a transaction | an active administrator remains; a restart grants nothing to anybody without need |
| **Sessions** (`services/auth.service.ts`, `middlewares/auth.middleware.ts`) | one refresh-token hash per user and a token blacklist in Redis | login, refresh, change password, set password by link, logout, authenticate | a login in flight across a logout or a password change; two stores; lifetimes in whole seconds | what a logout or a change of the password revokes stays revoked; access ends once the session has |
| **OTP** (`services/auth.service.ts`) | code and cooldown in Redis, `active` in the database | register, send, resend, verify | check-then-act on the cooldown; deletion by key | while somebody is told to wait a code of the account is stored; no account becomes active without a password |
| **Account links, mail queue, worker** (`services/account-link.service.ts`, `queues/*`) | one-time links in Redis, queued jobs, `invitationEmailFailed` | invite, resend, set password, send mail, retry | verify-then-consume; jobs retried after success; a late failure | every invitation is mailed or reported; a pending account can be invited |
| **Attachments and stored files** (`services/attachment.service.ts`, `services/file.service.ts`, `services/cloudinary.service.ts`, `services/local-storage.service.ts`) | rows, assets in two stores, and addresses as the only way from one to the other | save with a message, read for the model, discard an upload, delete many, cascade | asset and row in two systems; check-then-delete; the asset is found by parsing its address; files read beside each other | a row without its asset has a known cause; what was deleted is gone for good; each text is that of its file |
| **Conversations and lists** (`repositories/*`, `utils/pagination.util.ts`) | conversations and the lists of conversations, attachments, users, groups and members | create, rename, touch, delete; pages by a cursor or by number | rows come, go and move between two pages, also to dates older than their last; sort keys that are not unique | a walk repeats or misses a row only for a reason one can name |
| **Export** (`services/message.service.ts:248-364`) | none | find the message, check its conversation, build the document | the message may be unsaved, or go between the two queries | the document reads what the model sent, or the error stored instead |
| **Server** (`server.ts`, `config/*`, `database/db.ts`) | connections, the shutdown flag, the forced-exit timer | connect with retries, seed, listen, shut down, forced exit after 10 s | start and shutdown are coroutines of one process; a handler outlives its client and nothing waits for it | work that is waited for has its stores; a start decides; a shutdown ends |
| Text extraction, HTTP shell, translations, API documentation | none of their own | | | section 7 |

Interaction: the message controller calls the message service (tree), the
attachment service, the file service and the AI service; it and the chunked upload
share nothing but the stored file's address, which a message request carries. The server
takes requests between its start and its shutdown and cuts off what is left. All
components share PostgreSQL (transactions, cascades) and Redis (single-key
commands). The process is one event loop: code between two awaits is atomic, and
everything else interleaves. That is the granularity of every module here: **one
action per awaited call**, except where section 3 says otherwise.

## 2. Plan

1. `MessageStream` with its abstract specification `MessageLifecycle` (done, proved).
2. `MessageTree` (done).
3. `ChunkedUpload` (done).
4. `AdminGuard` (done).
5. `SessionStore`: login, refresh, logout and password changes over the refresh key
   and the blacklist (done, its safety proved).
6. `Onboarding`: codes and their cooldown, invitation and reset links, the mail queue
   and its worker (done, its safety proved).
7. `StoredFiles` and `Attachments`: addresses, rows and assets; `ServerLifecycle`; and their
   composition `AttachmentServer` (done, its safety and the refinement proved).
8. `Pages`, `EventStream`, `DocxExport` and what a client reads of them, `Reading` (done, its safety
   proved: the walks through lists, the stream of an answer and its document).

What could follow: permissions. Section 6 says which properties are only model-checked, and why.

## 3. Modules

Each module states its own abstractions at its head. Operators named `...Mutant` are
faulty variants of the operator below them, used to show that the properties can fail.

### MessageStream (and MessageLifecycle)

One handler `sendMessageStream` per element of `Requests`. `pc[r]` names the await it
stands at: *preparing*, *replying* (the two transactions of `prepareMessageStream`),
*attaching*, *extracting*, *streaming*, then one of the four saves, *stopping*,
*finishing*, *failing*, *rescuing* (the last two are the catch block without and with an
abort). `reply[r]` is the assistant row, `stored[r]` whether the question and the files
are in the database (a retry finds its question there instead of storing it) and whether their
owner has removed the files since (`RemoveFiles`, which is `deleteUserAttachments`), `chunks[r]` the number of tokens
pushed, `aborted[r]` the abort signal, `timer[r]` the timeout of `AiService.stream`,
`said[r]` the last event the response carried, `faults[r]` the history of writes of
that row that were refused or not acknowledged.

A transaction has three outcomes: it commits and is acknowledged, it is refused, or it
commits and its acknowledgement is lost. The handler cannot tell the last two apart.
The order of tokens is not modelled, because a single loop appends them; the text of an
answer is its number of tokens, and `ErrorText` the error message. A provider is what
both providers can do: yield, return (an aborted signal makes it return), throw.

`MessageLifecycle` is the abstract specification: absent, pending, then answered,
stopped or failed; an answer may still be overruled by a failure, and a deletion removes
rows. `MessageStream` implements it under the mapping `Phase`.

### MessageTree

Three phases of `prepareMessageStream`: the checks on conversation, parent or retried
message; the read of the history; the transactions that create question and reply.
Between any two of them other requests, settling replies and deletions of conversations
run. `messages` is the table; ids grow, so `createdAt` orders rows as ids do. The two reads
of a retry (the reply and its question) are one step: rows are only ever removed, and a
removal between the two ends in the same refusal.
The query for the history sorts and cuts what it finds: `Ascending` and `Recent`, written as functions
so that they can be proved about. `Walk` and `SuccessfulWalk` are what they are compared with: the tree as
it is found by following parents alone.
`ForeignParents` says whether clients name messages of other conversations; the code
does not forbid it. `updatedAt` of the conversation is left out here and kept in `Pages`.

### ChunkedUpload

One session and every request that names it. `session` and `lock` are the two Redis
keys, `dir`, `temp`, `part`, `opened`, `chunk`, `path` and `file` the disk, `asset` and `local` the
stores, `frame[p]` the locals a handler carries across awaits: the list of chunks it read once,
the file it has open, the index it copies and where that will go.

A file is told from its name, because a removal or a rename separates the two. `temp[i]` and `part[i]`
are the files at `i.part.tmp` and `i.part`, `opened[u]` the file an upload writes to, and `chunk` the pieces
each of these has; `path` is the file at `assembled.tmp`, and `file` the content of those. Node's
`writeFile` opens the name, which truncates a file that is there, and writes a buffer of 2 to 5 MB in
pieces of half a megabyte, so `OpenTemp`, two steps of `WriteTemp` and `RenameTemp` are separate: an upload
of the same index may truncate the file in between and leave it with the tail alone, which has the right size
and a hole. Reading a chunk and writing it into the assembly is one step: a chunk is written where the handle
stands, a hole is copied as a hole, and after a chunk that was short all others land too early (`Appended`).

Any call may throw (`CallFails`), at any await; the call that takes the lock may throw after it took it, and
the call to Cloudinary after the asset was made. The lock expires at any moment (`LockExpires`), also
under a completion that works: its time is that of the clock, and nothing bounds a completion by it.
Three histories say what went on: `troubled` are the completions that met an error or a crash, `overrun` those
whose lock expired before they were over, `clashed` the chunks that two uploads wrote at the same time.
`CompletersExclude` holds whatever expires: a lock that expires under its holder lets in one completion more, and
never two, although the finally block of a late one frees the lock of the next. `StoredIsWhole` speaks of the time
before such an expiry and of chunks that did not clash. Beyond that the code promises nothing: a completion that is late
may store, and tell its client of, a file that another one has truncated after it was measured, and a torn chunk has
the right size, which is all that is compared. The model reaches both (hazards at `chunked-upload.service.ts:235` and `:105`).

### AdminGuard

Users, groups (a name and `isSystem`), memberships, the start of the server with its
seeders, and the three guarded requests, whose counts and deletes are separate steps.
Requests that guard nothing write with one query and are one action each: accounts are created
and activated, memberships are added from the account (`AssignGroups`) and from the group
(`AddMembers`), groups are created, renamed and deleted one by one or many together. `Join`,
`Leave`, `Drop` and `KeptWithout` are what the queries and the cascades do to memberships.
Permissions, profile data and the group `user` are left out: whether somebody is an administrator
is read off the group named `admin`, as `countActiveAdmins` does.
`RenameSystem` says whether `updateGroup` is used on a system group. The code allows it,
and then the guards count nobody; the runs assume it is not done.

### SessionStore

One account. `key` is the Redis key of its session, `black` the blacklist, `left` the
lifetime of each access token, `task[r]` the request that stands at one of its awaits:
*admitting* (the blacklist lookup of `authenticate`), *asking* (the stored hash in
`refreshToken`), *signing*, *storing*, *updating*, *revoking*, *listing* (the blacklist
entry), *answering*. Lifetimes are counted down by `Tick`, so that the time a logout
computes and the moment at which it writes the entry can lie apart.

Refresh tokens have no identity in the model, because they have none in the code: bcrypt
compares 72 bytes, and the first 72 bytes of two refresh tokens of one account are the same
JWT header and the same beginning of the user id. What the key keeps is the *version* of the
password that its login knew. `Fail` breaks a request off at any await, whether Redis threw,
an acknowledgement was lost or the process died. `settled` remembers, for the properties
only, the last change of password that deleted the session while no older login was under
way. `Tokens` and `MaxVersion` bound the tokens alive together and the writes of the password.

### Onboarding

One account from its creation to its activation, and its forgotten passwords. `account` is its
row, `code`, `cooldown` and `link` are the Redis keys, `job[i]` is the mail job of a code or a
link with the attempts made, `inbox` what was delivered, `task[r]` a request at one of its awaits:
*asking*, *coding*, *cooling* (`sendVerificationOtp`), *activating*, *clearing*, *thawing*
(`verifyOtp`), *linking*, *queueing*, *unmarking* with its catch block *dropping*, *marking*
(`sendAccountLink`), *setting*, *consuming* (`setPasswordByToken`). A client can use only what its
inbox holds. The queue is BullMQ: a job waits, is attempted, and after `Attempts` failures is put
before the `failed` listener; an attempt may fail after its mail went out, and jobs run beside each
other. The *active* mark of the job is merged with its attempt. `Failures` says whether calls throw
and processes die; keys expire in any case. The cooldown is set after the code and for less time,
so a code expires before its cooldown only if a call took four minutes, which `CodeMayExpire`
excludes. Another account under the same email, after a deletion, is not modelled.

### StoredFiles, Attachments, ServerLifecycle and AttachmentServer

`StoredFiles` has no state. An address is a host, the segments of its path and a name with its
extensions; `AssetOf` and `UrlOf` say what is stored for an upload and which address the client
gets, `LocalAsset`, `CloudAsset`, `DeliveredAsset` and `SignedAsset` what the code makes of an
address again. The strings are cut at the same places as in the code, and no further. `Parser` is
the choice of the text extractor.

`Attachments` has the rows of `conversation_attachments` and the `assets` of both stores. `task[r]` is a
request at its await: a message that *attaches*, *reads* its files beside each other and *streams*;
a discarded upload that is *checked* and *erased*; a removal that *finds* rows, *erases* assets one
by one and *deletes* the rows. Every call may fail as it does in the code: a store that fails to
delete is logged and passed over, a query that throws ends the request. `excused` is history: the
rows a deletion could not know of, or that a removal left behind when it was broken off.

`ServerLifecycle` has every await of `start()` (`boot`) and of `shutdown()` (`closing`), which run
beside each other in one process, the retries of `connectDB`, the timeout of Redis, the timer of the
forced exit, uncaught errors, kill and restart. `open` are the requests whose client waits and
`running` those whose handler has not ended: `server.close` waits for the first only.

`AttachmentServer` puts the one into the other, with `running <- Busy`: `Serve`, `Handle`, `Write`
and `Store` are requests in a listening server, `Process` a step of the process, which cuts
handlers off (`CutOff`) when it ends. A graceful exit tears only the removals whose client has
left. The seeders are one step here; `AdminGuard` opens them up. The end of a chunked upload and the
deletion of a conversation are one step; `ChunkedUpload` and `MessageStream` open those up.

### Pages, EventStream, DocxExport and Reading

`Pages` is a client that walks through one of five lists while rows are created, deleted, moved and
renamed. Two lists have a cursor, and the row at the cursor is looked up in one query and the page
read in another; three go by page numbers, sorted by a key that rows may share, and such rows come in
any order for every query. A row has any key from the start, alone or with others. There is no clock: a date is
taken in the process before the write that carries it, so writes do not commit in the order of their dates, and a
row may get any date that is not before the one it was born with (`TouchDates`), also one older than its last.
A walk is what `MaxChanges` changes of the list may meet.

`steady`, `moved`, `fallen`, `lost` and `shifted` are history. `steady` are the rows that were left alone during the walk;
`moved` says that the row at the cursor got another key, `fallen` that a row that had been shown got a smaller one,
`lost` that the row at the cursor was gone when it was looked for. `shifted` is said of the ends of pages alone, those
the walk relies on (`Ends`: the end of the page before, or of the page just read): the set of rows that may be in front
of such an end (`InFront`) has changed, or is larger than the page reaches because a tie lies across it. A row that
changes without crossing such an end, or two rows with one key on the same page, do not set it.

`EventStream` is the parser of the Flowise provider: `body` is cut anywhere, `buffer` holds what is in no
block yet, and a step is a read or a block. `Tokens` and the lines *end*, *event* and *junk* stand for lines.
`DocxExport` is `markdownToDocxParagraphs` over marks and words, as operators.

`Reading` composes them: a client walks through a list, or an answer goes from the cuts of the network
through its tokens into its row and from there into the exported document, while it is saved or deleted. The row
is saved with what came (`SaveAnswer`) or in the catch block (`SaveFailure`), which is reached by a stream that broke,
and by a save of the whole answer that was refused or not acknowledged; it stores what came without blanks at its ends, or
the error if nothing is left of that (`FailedText`).

## 4. Runs

| Run | Instance | What it shows |
|---|---|---|
| `MessageStream` | 2 requests (one with files) to 1 conversation, at most 3 tokens, fair | `StopWins`, `ToldWhatIsStored`, `PendingHasOwner`, `ReadyIsDurable`, `SettledOnce`, `StreamSettles`, and the refinement `LifecycleSpec` |
| `MessageTree` | 3 requests, 2 conversations, history of 2 | `AncestorsAreTheWalk`, `RepliesAnswerQuestions`, `HistoryIsTheBranch`, with parents of the own conversation only |
| `MessageTreeForeign` | the same, with foreign parents | **violated**: `HistoryIsOfTheConversation` |
| `ChunkedUpload` | 2 chunks, one of them sent twice, 3 completions, 1 cancellation, in groups of three or four requests, fair | `CompletersExclude`, `StoredIsWhole`, `StoredIsReported`, `ListedIsOnDisk`, `LockIsFreed` |
| `ChunkedUploadLost` | 2 chunks, 3 uploads | **violated**: `AcknowledgedIsListed` (lost update) |
| `AdminGuard` | 3 accounts, 2 groups, 1 guarded request at a time, all others at any moment, no system group renamed | `AdminRemains`, `RestartGrantsNobody` |
| `AdminGuardRace` | 2 guarded requests at once | **violated**: `AdminRemains` |
| `SessionStore` | 2 requests, 2 access tokens of 2 ticks, 1 write of the password, fair | `SignedOutStaysOut`, `RevocationIsFinal`, `RevokedLosesAccess`, `DeletedLosesAccess` |
| `Onboarding` | 2 requests, 2 codes, 1 link, jobs of 2 attempts, every failure, fair worker | `ActiveHasPassword`, `AskedToWaitHasACode`, `InvitationIsDecided` |
| `AttachmentServer` | 2 requests, 2 files (a PDF at Cloudinary, a text on the disk), 2 rows, 1 conversation, 2 attempts to connect, fair | `DanglingHasCause`, `ErasedIsGone`, `DocumentsAreTheFiles`, `StoresOutliveWork`, `ServerDecides`; and, as assumptions, that every accepted upload is found again from its address and has a parser |
| `Reading` | walks through the five lists: at most 3 rows in pages of 1, 3 keys, 3 changes; answers of up to 3 blocks with either line end | `RepeatsNeedAMove`, `SteadyRowsAreShown`, `TokensAreTheStream`, `DocumentIsTheAnswer` |
| `OnboardingStranded` | 1 request at a time, no failures, 2 links | **violated**: `PendingCanBeInvited` (a mailed invitation expires) |

Bounds. Handlers of `MessageStream` meet only through the conversation and the process,
so two of them show every interaction; three tokens give "none", "some" and "more". A
tree needs three requests for a question, an answer below it and a retry, and a history
limit of two to be cut. The requests of `ChunkedUpload` race in different places, and
`MCTogether` lets them come in groups: two uploads and two completions after them, over the lock, the assembly and the
stores; a completion and a cancellation beside two uploads; two uploads of the same chunk beside a completion, over the
record and the temporary name; and three completions, of which the first frees the lock of the second. Two chunks are
the fewest of which one can be missing. What the groups leave out are arrivals, of which no fairness is
assumed, so `LockIsFreed` is checked on behaviours the specification has. Three accounts suffice for
the default administrator and two others, two groups for the admin group and another.
In `SessionStore` two requests race on the one key, two ticks tell a
token that is about to expire from a fresh one, and one write of the password gives an older and a
newer version. In `Onboarding` two codes let a second one be stored while the first is verified,
and two attempts are the fewest of which one is not the last. In `AttachmentServer` two requests
race on one file: two removals, a removal beside a discarded upload, or either beside a message with
both files; two rows are enough for two rows of one address and for a removal that leaves one behind,
and two attempts to connect to the database for one that is not the last. A walk over three rows in pages
of one has a row before, at and after the cursor; three keys give three rows keys that are all different, all equal
or partly so, and a date before and after another; three changes are one between any two pages, or two and one; three
blocks put a boundary before, between and after others, and the texts of the tokens cut a heading, a bullet
and a bold word. What is proved (section 6) does not depend on these bounds.
Deadlock is not checked where every request is served once and then the system stops.

## 5. Fairness

`MessageStream` assumes that database calls return (`Handler`), that a timer fires and
that a provider whose signal is aborted returns; it assumes nothing of a client, of the
extraction of files, which nothing bounds, or of a provider nobody aborts. `StreamSettles`
therefore starts once the stream is open, and rests on the timer. `ChunkedUpload` assumes
that the calls a started completion awaits return or throw and that Redis expires a lock whose holder
is over, which is what its time to live is for; the expiry under a holder that works is never assumed. No
request is assumed to arrive. `SessionStore` assumes that the awaited calls of a request under way
return or throw and that time passes. `Onboarding` assumes only that the worker takes the jobs
that wait and that its calls return or throw. `ServerLifecycle`, and with it `AttachmentServer`, assumes that
the database answers `connectDB` or refuses, that the timer of `waitUntilRedisReady` and that of the
forced exit fire, that the seeders return or throw, and that the port is bound or refused. It assumes nothing of
clients, of handlers, of stores that close, of a signal or of a restart: `ServerDecides` is what the two
timers and the bound on the retries are for.

## 6. Proofs

Every proof module rests on the assumption about constants its component declares, and on what is named
below. The inductive invariants are also true of the instances of the runs, as TLC says of them.

`MessageStreamProofs` proves, for every set of requests and conversations and every token
bound, from `StreamAssumption` alone:

* `TypeCorrect`: `Spec => []TypeOK`.
* `Inductive`: `Spec => []IInv`. The invariants are not inductive by themselves: that no row
  is FAILED after a stop depends on what a handler knows at each await. `Known(r)` says it:
  *stopping* and *rescuing* only after a stop, *finishing* and *failing* only without one;
  the row untouched before the reply is created, unsettled until a first save, and settled
  inside the catch block only if an acknowledgement was lost.
* `StopAlwaysWins`, `PendingIsOwned`: `StopWins` and `PendingHasOwner` follow from `IInv`.
* `RowsSettleOnce`: the action property `SettledOnce`, by the lemma `StepsWrite`, which lists
  the ways a step can change a row.
* `Implements`: `Spec => LifecycleSpec`, step by step from the same lemma.
* `ToldTheTruth` (`ToldWhatIsStored`) and `ReadyStays` (`ReadyIsDurable`), from two more facts of
  every handler: `Told`, what the response has said at each stage and what the row then holds, and
  `Held`, what is stored once the client was told that its message is ready.

`MessageTreeProofs` proves, for every set of requests and conversations, any number of rows and any
limit of the history:

* `Inductive`. `IInv` says what a request knows at each await of rows it has read or stored: its
  question is a user message of the conversation, or gone (`HasQuestion`), its reply hangs under it
  (`HasReply`), the parent a client named is of the conversation, or gone (`HasParent`). All three
  rest on ids that are never given out twice and on conversations that take all their rows with them.
* `RepliesStay` (`RepliesAnswerQuestions`), wherever the parents are that clients name.
* `BranchesAreRooted`, assuming `~ForeignParents`: a row records the branch of its parent, and all of
  it is there and of the row's conversation.
* `AncestorsAreRight` (`AncestorsAreTheWalk`), assuming the same. `Walk` is a recursive function, and
  the library's induction theorems cannot be used (they take an operator). The lemma `WalkIsRecorded`
  argues by the least row at which `Walk` and what the rows record differ (`LeastNatural`, from the
  well-foundedness of the naturals): its parent is older (`Below`), so they agree there, and by the
  recursion they agree at the row. `SuccessfulWalkIsRecorded` argues in the same way.
* `InductiveReads`: `Spec => []BInv`, which adds what a request has read. A branch that was read is
  still that of its target, or the target and all of the branch are gone (`HasBranch`): a conversation takes
  its branches with it whole.
* `TypeCorrect` (`TypeOK`), wherever parents are, and `HistoryIsRight` (the action property
  `HistoryIsTheBranch`), assuming `~ForeignParents`: an order by creation time agrees with the tree,
  because `Ascending` of a branch is the branch (`AscendingAppend`).

`ChunkedUploadProofs` proves, for any number of chunks, uploads, completions and cancellations:

* `TypeCorrect`.
* `Inductive`. A chunk file belongs to one chunk (`Owned`); a chunk that no two uploads wrote at once has one
  writer, whose file is at the temporary name, and is whole once it has its own (`WholeUnlessClashed`). As long as
  no lock has expired under its holder (`overrun = {}`), the completion under way holds the lock
  (`LockHeld`), so it is alone; the file it has open is in no store and, unless a short chunk made its handle stand
  behind, holds the chunks before the next one (`Assembled`), so that a file of the right size is sound; a file in the local
  store has left `assembled.tmp`, where the next completion opens a file (`PathIsOpened`, `LocalIsSound`).
* `OnlyWholeFiles` (`StoredIsWhole`), from it. It assumes nothing of the time a completion takes; the history says when
  its promise ends.
* `Exclusion` (`CompletersExclude`), whenever locks expire, for finitely many completions. Its invariant `LInv` counts the
  late ones, those under way without the lock (`Late`). A lock that expires makes one of them, and counts once, since a completion
  never holds the lock again after that (`OnceOverrun`); one that frees the lock of another completion makes that one
  late too, but was late and ends itself (`UnlockKeeps`).
* `InductiveAnyLock`, `NoOrphanWithoutTrouble` (`StoredIsReported`) and `ListedChunksAreThere`
  (`ListedIsOnDisk`), whenever locks expire. The second invariant `UInv` does not mention the lock: a
  completion that has stored a file goes on to tell its client, or it is troubled (`TellsOrFails`); only a
  request that has passed a removal leaves a gap on the disk (`Removers`, `ReadIsOnDisk`).

`AdminGuardProofs` proves, for any accounts, groups and names:

* `TypeCorrect`, and `RestartIsHarmless` (`RestartGrantsNobody`), for any number of requests.
* Assuming one guarded request at a time and no renamed system group (`OneAtATime`): `Inductive` and
  `AdminStays` (`AdminRemains`). There is one group named admin and it stays; every step but the
  write of a guarded request only adds active administrators; so what the request counted is still
  there when it writes (`Counted`). `AdminGuardRace` shows that the assumption is needed.

`AttachmentServerProofs` proves, for any requests, files, rows, conversations and retries:

* `Inductive` and `TypeCorrect` (`SystemTypeOK`). `Life` says what the process holds open where
  `start()` and `shutdown()` stand (`Ordered`); `Kept` says that ids are given out in order, each to
  one row (`Numbered`), and what a deletion knows of the rows (`Knows`).
* `StoresStay` (`StoresOutliveWork`) from `Life`; `CausesAreKnown` (`DanglingHasCause`) from `Kept`.
* `DocumentsMatch` (`DocumentsAreTheFiles`) and `ErasedForGood` (`ErasedIsGone`), from what addresses
  lead to: the code reads and deletes at an address only the file it was made for, and a deletion finds
  it. The last assumes that the cloud is not named `upload` like the marker the code looks for in the path.
* `ServesAsAServer`: `SystemSpec => Server!Spec`, a handler's last step being the answer of the
  abstract server and every step of the attachments besides it a stutter.

`SessionStoreProofs` proves, for every set of requests and tokens, every lifetime and any number
of password changes:

* `TypeCorrect` and `Inductive`. `IInv` adds to the properties what a request under way holds: a
  token where its next call needs one (`Holding`), the time it computed for the blacklist, which
  still covers its token (`Covered`), and a version of the password that no settled change has
  overtaken (`Recent`). Without `Covered` a logout between its computation and its write could
  be overtaken by anything; with it, both count down together.
* `LogoutIsFinal` (`SignedOutStaysOut`) and `ChangeIsFinal` (`RevocationIsFinal`).

`OnboardingProofs` proves, for every set of requests, codes and links and any number of attempts:

* `TypeCorrect` and `Inductive`. `IInv` says which operation each step belongs to and which item it
  holds (`Staged`), that nothing happens before the account exists (`Untouched`), that codes belong
  to an account with a password (`CodesHavePassword`), and that whoever sets the cooldown has set
  a code while whoever deletes the code has activated the account (`CodeBeforeCooldown`).
* `ActivationNeedsPassword` (`ActiveHasPassword`) and `WaitingHasCode` (`AskedToWaitHasACode`).

`ReadingProofs` proves, for any finite set of ids, any size of a page, any length of a walk and any
changes of the list meanwhile:

* `Inductive`: `Spec => []WInv`. Neither property is inductive, since both compare all that was shown
  with a table that changes between two queries. A walk by a cursor has a place (`Places`: the key that
  was looked up, or the row at the cursor). No shown row is below it unless the row at the cursor has
  moved or a shown row has fallen (`NoneAgain`), and every steady row was shown or is below it
  (`NoneMissed`): unless a shown row falls, no change takes one below the place, and the place only goes up.
  A walk by page numbers has shown exactly the rows in front of the end of the last page it read, each once, until
  such an end shifts (`Unshifted`); the number of rows it counted says which page is the last (`Counted`), and the steady rows
  are in front of the end of that. The step is a lemma about one answer: if no tie lies across `n`, the first `n`
  rows of whatever order the database answers in are those in front of `n` (`PrefixIsFront`), so a page adds
  the rows in front of its end that were not in front of its beginning.
* `RepeatsHaveACause` (`RepeatsNeedAMove`) and `SteadyAreShown` (`SteadyRowsAreShown`).
* `StreamIsRead` (`TokensAreTheStream`), for any sequences of blocks and any tokens. What was yielded says
  nothing of the buffer, so the induction is over `StreamInv`: the stream stands before a block `k`
  (`StandsAt`), the buffer and what is to come are what the model sends from `k` on (`Written`), and the
  tokens yielded, followed by those of the blocks from `k` on (`SentFrom`), are all that were sent. Taking
  a block keeps this because the first boundary of a buffer that begins with a block is the end of that
  block: no boundary begins between two of its lines (`EndOfPairs`, `EndOfTriples`, for the two line ends),
  and a buffer without a boundary does not hold the block whole (`WholeBlock`). The last block
  may lack its end or more; what is left of it has no boundary until two line feeds are appended, which
  give it one and leave at most a line feed after it (`BrokenOff`). When nothing more is to come and no
  boundary is buffered, the buffer is empty or holds such a block (`OnlyBroken`).
* `DocumentReadsTheAnswer` (`DocumentIsTheAnswer`), for any text of tokens, marks and line feeds. The
  argument has two halves. What the export holds: an answer is saved after its stream has stopped, and once more if
  the first save was not acknowledged, so a request that found it saved holds what came, or the text of the
  failure, according to the status it found, and one that found it before holds nothing (`ExportHolds`, the induction over
  `ExportInv`; together with `StreamStands` it says which tokens that text is of). What is trimmed off a failed answer has
  no words (`TrimKeeps`). What the conversion does: the words of two texts put together are those of the first and
  those of the second (`WordsOfBoth`), so a text may be cut anywhere (`Apart`) and a mark at a cut left
  out (`AfterMark`, `BeforeMark`). Then the lines of a text (`LinesKeep`), the runs of a line (`RunsKeep`)
  and a paragraph (`ParagraphKeeps`) have the words of what they are made from, and so has the document
  (`DocumentKeeps`). The recursive functions are unfolded from their last place down (`LeapFrom`,
  `Downward`): a line feed or a bold part leaps over the places it takes.

`PagesAssumption` takes ids as numbers, for their order, and finitely many of them: UUIDs are 128 bits.
`EventsAssumption` says that a block has a line and that no line is a line end, and tells tokens from the
other lines; the event format has no block without a line. `ReadingAssumption` adds that the text of a token
is a sequence of strings, the marks and words of `DocxExport`.

Only model-checked are the liveness properties, since liveness under fairness is outside the prover's
reach: `StreamSettles`, `LockIsFreed`, `RevokedLosesAccess`, `DeletedLosesAccess`, `InvitationIsDecided`
and `ServerDecides`.

## 7. Not modelled

* Permissions: `authorize` reads the permissions of a user's groups and changes nothing. Profile data
  and settings are single updates nothing else reads.
* What parsers make of the bytes of a PDF, a document or a sheet, the limit of characters, and the
  prompt made of extracted texts: libraries and formatting. The choice of the parser and what its failure
  ends are in `StoredFiles` and `Attachments`.
* The download of a local file (a check and a read), and the file name of an export.
* A second account under the same email after a deletion, and which of two passwords set through one
  link stays.
* Routing, validation, rate limits, error formatting, translations, API documentation and mail
  templates: no state of their own that other parts read.
