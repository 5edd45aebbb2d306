---------------------------- MODULE SessionStore ----------------------------
(***************************************************************************)
(* The sessions of one account: services/auth.service.ts without its OTP   *)
(* and its mail, and authenticate of middlewares/auth.middleware.ts.       *)
(*                                                                         *)
(* A session is one Redis key per account; access tokens live beside it,   *)
(* for Duration ticks each, and a logout puts the one it came with on a    *)
(* blacklist for the time the token has left.  Requests run concurrently,  *)
(* one action per awaited call (reads that follow each other are one), and *)
(* any of them may break off at any await: Redis or the database throws,   *)
(* an acknowledgement is lost, the process dies.                           *)
(*                                                                         *)
(* Refresh tokens have no identity here.  bcrypt compares 72 bytes, and    *)
(* those of two JWTs of one account are the same header and the same       *)
(* beginning of the user id, so the comparison in refreshToken tells       *)
(* accounts apart and not tokens.  What the key holds for the properties   *)
(* is the password its login was made with, and a password is its version, *)
(* the number of times it was written.                                     *)
(***************************************************************************)
EXTENDS Integers

CONSTANTS
    Requests,     \* the requests that may be under way together
    Tokens,       \* the access tokens that may live together (a bound)
    NoToken,
    Duration,     \* JWT_VALID_DURATION, in ticks
    MaxVersion    \* how often a password is written (a bound)

ASSUME SessionAssumption ==
    /\ NoToken \notin Tokens
    /\ Duration \in Nat \ {0}
    /\ MaxVersion \in Nat \ {0}

VARIABLES
    exists,     \* whether the account exists; it is active, with a password
    password,   \* the version of its password
    key,        \* auth:refresh:<user>: the version its login knew, NoKey without a key
    held,       \* whether some client was handed a refresh token
    left,       \* left[t]: the ticks until the access token expires
    black,      \* black[t]: the ticks until auth:blacklist:<jti> expires, 0 without it
    known,      \* the access tokens handed to clients, until they expire
    signedOut,  \* those whose logout was answered with success, until they expire
    settled,    \* the last change of password that found no older login under way
    task        \* task[r]: the request r, its next call and its locals

vars == <<exists, password, key, held, left, black, known, signedOut, settled, task>>

NoKey == 0

Versions == 1 .. MaxVersion

Idle == [op |-> "none", step |-> "idle", token |-> NoToken, version |-> NoKey, ttl |-> 0]

Init ==
    /\ exists = TRUE
    /\ password = 1
    /\ key = NoKey
    /\ held = FALSE
    /\ left = [t \in Tokens |-> 0]
    /\ black = [t \in Tokens |-> 0]
    /\ known = {}
    /\ signedOut = {}
    /\ settled = 1
    /\ task = [r \in Requests |-> Idle]

-----------------------------------------------------------------------------
(* Beginnings.  The operators named ...Mutant are faulty variants of the   *)
(* operator that follows them; no specification uses them.                 *)

Begin(r, op, step, token, version) ==
    /\ task[r] = Idle
    /\ task' = [task EXCEPT ![r] = [op |-> op, step |-> step, token |-> token,
                                    version |-> version, ttl |-> 0]]
    /\ UNCHANGED <<exists, password, key, held, left, black, known, signedOut, settled>>

GoTo(r, step) == task' = [task EXCEPT ![r].step = step]

End(r) == task' = [task EXCEPT ![r] = Idle]

FoundMutant == TRUE

\* userRepository.findById and findByEmail answer with the account.
Found == exists

\* loginUser with the right password, as it is when the account is read.
Login(r) == Found /\ Begin(r, "login", "signing", NoToken, password)

\* refreshToken with a refresh token that verifies.
Refresh(r) == held /\ Found /\ Begin(r, "refresh", "asking", NoToken, NoKey)

\* authenticate verifies the access token of a request; the blacklist is asked next.
Authenticate(r, op) ==
    \E t \in known : left[t] > 0 /\ Begin(r, op, "admitting", t, NoKey)

\* setPasswordByToken with a FORGOT_PASSWORD link that verifies; a user is found.
ResetPassword(r) == Found /\ Begin(r, "reset", "updating", NoToken, NoKey)

-----------------------------------------------------------------------------
(* Calls of a request under way.                                           *)

\* authenticate refuses a listed token; the handler refuses a missing account, and
\* logout a missing refresh token.
Admit(r) ==
    /\ task[r].step = "admitting"
    /\ IF black[task[r].token] > 0 \/ ~Found
       THEN End(r)
       ELSE \/ task[r].op = "logout" /\ held /\ GoTo(r, "revoking")
            \/ task[r].op = "logout" /\ ~held /\ End(r)
            \/ task[r].op = "change" /\ GoTo(r, "updating")
    /\ UNCHANGED <<exists, password, key, held, left, black, known, signedOut, settled>>

RenewableMutant(stored) == TRUE

\* What is stored for the account matches every refresh token of it.
Renewable(stored) == stored # NoKey

Ask(r) ==
    /\ task[r].step = "asking"
    /\ IF Renewable(key) THEN GoTo(r, "signing") ELSE End(r)
    /\ UNCHANGED <<exists, password, key, held, left, black, known, signedOut, settled>>

\* A slot whose former token is gone from everywhere.
Free(t) ==
    /\ left[t] = 0 /\ black[t] = 0
    /\ \A r \in Requests : task[r].token # t

\* generateAccessToken, after the comparison: its lifetime starts here.
Sign(r) ==
    /\ task[r].step = "signing"
    /\ \E t \in Tokens :
          /\ Free(t)
          /\ left' = [left EXCEPT ![t] = Duration]
          /\ known' = known \ {t}
          /\ signedOut' = signedOut \ {t}
          /\ task' = [task EXCEPT
                ![r].token = t,
                ![r].step = IF task[r].op = "login" THEN "storing" ELSE "answering"]
    /\ UNCHANGED <<exists, password, key, held, black, settled>>

\* loginUser stores the hash of its refresh token, whoever was there before.
Store(r) ==
    /\ task[r].step = "storing"
    /\ key' = task[r].version
    /\ GoTo(r, "answering")
    /\ UNCHANGED <<exists, password, held, left, black, known, signedOut, settled>>

\* updatePassword, or updatePasswordAndSession: the second clears a column of the
\* database and leaves Redis alone.  Both throw when the account is gone.
Update(r) ==
    /\ task[r].step = "updating"
    /\ IF ~exists
       THEN End(r) /\ UNCHANGED password
       ELSE /\ password < MaxVersion
            /\ password' = password + 1
            /\ IF task[r].op = "reset"
               THEN End(r)
               ELSE task' = [task EXCEPT ![r].version = password + 1,
                                         ![r].step = "revoking"]
    /\ UNCHANGED <<exists, key, held, left, black, known, signedOut, settled>>

\* A login under way that read the account before the version was written.
Overlaps(version) ==
    \E r \in Requests : task[r].op = "login" /\ task[r].version < version

DeletedKeyMutant == key

\* redisService.delete(getRefreshTokenKey(user.id)).
DeletedKey == NoKey

TimeLeftMutant(t) == left[t] - 1

\* timeLeftInSeconds: exp and the clock in whole seconds.
TimeLeft(t) == left[t]

\* changePassword and logout delete the key; logout then verifies its access token
\* once more and takes the time it has left.
Revoke(r) ==
    /\ task[r].step = "revoking"
    /\ key' = DeletedKey
    /\ IF task[r].op = "change"
       THEN /\ GoTo(r, "answering")
            /\ settled' = IF task[r].version > settled /\ ~Overlaps(task[r].version)
                          THEN task[r].version ELSE settled
       ELSE /\ IF left[task[r].token] > 0
               THEN task' = [task EXCEPT ![r].step = "listing",
                                         ![r].ttl = TimeLeft(task[r].token)]
               ELSE End(r)
            /\ UNCHANGED settled
    /\ UNCHANGED <<exists, password, held, left, black, known, signedOut>>

\* The blacklist entry lives for the time computed before this call was awaited.
Blacklist(r) ==
    /\ task[r].step = "listing"
    /\ black' = [black EXCEPT ![task[r].token] = task[r].ttl]
    /\ GoTo(r, "answering")
    /\ UNCHANGED <<exists, password, key, held, left, known, signedOut, settled>>

\* The response: a login hands out both tokens, a refresh the access token.
Answer(r) ==
    /\ task[r].step = "answering"
    /\ IF task[r].op \in {"login", "refresh"}
       THEN known' = known \cup {task[r].token} ELSE UNCHANGED known
    /\ held' = (held \/ task[r].op = "login")
    /\ signedOut' = IF task[r].op = "logout"
                    THEN signedOut \cup {task[r].token} ELSE signedOut
    /\ End(r)
    /\ UNCHANGED <<exists, password, key, left, black, settled>>

\* The next call throws, the acknowledgement of the last one is lost, or the process dies.
Fail(r) ==
    /\ task[r] # Idle
    /\ End(r)
    /\ UNCHANGED <<exists, password, key, held, left, black, known, signedOut, settled>>

-----------------------------------------------------------------------------
(* Around the requests.                                                    *)

LessMutant(n) == n - 1

Less(n) == IF n > 0 THEN n - 1 ELSE 0

Tick ==
    /\ \E t \in Tokens : left[t] > 0 \/ black[t] > 0
    /\ left' = [t \in Tokens |-> Less(left[t])]
    /\ black' = [t \in Tokens |-> Less(black[t])]
    /\ known' = {t \in known : left[t] > 1}
    /\ signedOut' = {t \in signedOut : left[t] > 1}
    /\ UNCHANGED <<exists, password, key, held, settled, task>>

\* REFRESH_TOKEN_TTL is over.
KeyExpires ==
    /\ key # NoKey
    /\ key' = NoKey
    /\ UNCHANGED <<exists, password, held, left, black, known, signedOut, settled, task>>

\* deleteUser leaves everything in Redis where it is.
DeleteUser ==
    /\ exists
    /\ exists' = FALSE
    /\ UNCHANGED <<password, key, held, left, black, known, signedOut, settled, task>>

Proceed(r) ==
    \/ Admit(r) \/ Ask(r) \/ Sign(r) \/ Store(r) \/ Update(r)
    \/ Revoke(r) \/ Blacklist(r) \/ Answer(r)

Next ==
    \/ \E r \in Requests :
          \/ Login(r) \/ Refresh(r) \/ ResetPassword(r)
          \/ \E op \in {"logout", "change"} : Authenticate(r, op)
          \/ Proceed(r) \/ Fail(r)
    \/ Tick \/ KeyExpires \/ DeleteUser

Spec == Init /\ [][Next]_vars

\* Calls to Redis and to the database return or throw, and time passes.
FairSpec ==
    /\ Spec
    /\ \A r \in Requests : WF_vars(Proceed(r))
    /\ WF_vars(Tick)

-----------------------------------------------------------------------------
(* Properties.                                                             *)

\* Every variable has its type, and a request the locals its step needs.
TypeOK ==
    /\ exists \in BOOLEAN
    /\ password \in Versions
    /\ key \in Versions \cup {NoKey}
    /\ held \in BOOLEAN
    /\ left \in [Tokens -> 0 .. Duration]
    /\ black \in [Tokens -> 0 .. Duration]
    /\ known \subseteq Tokens
    /\ signedOut \subseteq Tokens
    /\ settled \in Versions
    /\ task \in [Requests ->
          [op : {"none", "login", "refresh", "logout", "change", "reset"},
           step : {"idle", "admitting", "asking", "signing", "storing", "updating",
                   "revoking", "listing", "answering"},
           token : Tokens \cup {NoToken},
           version : Versions \cup {NoKey},
           ttl : 0 .. Duration]]

\* An access token whose logout was answered stays refused until it has expired by
\* itself: the time to live that logout computes covers all the token has left, also
\* when the entry is written a while after it was computed.
SignedOutStaysOut == \A t \in signedOut : black[t] >= left[t]

\* Once a change of password has deleted the session while no login with an older
\* password was under way, no session of an older password comes back, whatever
\* refreshes, logouts, resets, other changes and broken-off requests do.
RevocationIsFinal == key # NoKey => key >= settled

LoggingIn == \E r \in Requests : task[r].op = "login"

NoAccess == \A t \in Tokens : left[t] = 0

\* Without a session and without a login under way, access comes to its end: refreshes
\* that were answered or under way gain one lifetime and no more.
RevokedLosesAccess == (key = NoKey /\ ~LoggingIn) ~> (NoAccess \/ LoggingIn)

\* The access of a deleted account ends for good, although its session stays in Redis
\* and authenticate never asks the database.
DeletedLosesAccess == (<>~exists) => <>[]NoAccess

=============================================================================
