------------------------- MODULE SessionStoreProofs -------------------------
(***************************************************************************)
(* What is proved of SessionStore, for any number of requests and tokens,  *)
(* any lifetime of a token and any number of changes of the password.      *)
(*                                                                         *)
(* SignedOutStaysOut needs that a logout under way knows enough: the time  *)
(* it computed still covers its token, and once it is about to answer the  *)
(* entry does (Covered).  That in turn needs that nobody signs anew the    *)
(* token somebody holds (the guard Free).  RevocationIsFinal needs that    *)
(* the logins under way know no older password than the settled change,    *)
(* and that no change claims a version not yet written (Recent).           *)
(***************************************************************************)
EXTENDS SessionStore, TLAPS

USE SessionAssumption DEF SessionAssumption, NoKey

\* A logout that has computed its time, and the one about to be answered.
Covered(r) ==
    /\ task[r].step = "listing" =>
          /\ task[r].op = "logout"
          /\ task[r].token \in Tokens
          /\ task[r].ttl >= left[task[r].token]
    /\ task[r].step = "answering" /\ task[r].op = "logout" =>
          /\ task[r].token \in Tokens
          /\ black[task[r].token] >= left[task[r].token]

\* What a request remembers of the password.
Recent(r) ==
    /\ task[r].op = "login" => task[r].version >= settled /\ task[r].version # NoKey
    /\ task[r].version <= password

\* A request holds a token where its next call needs one, and only logins store.
Holding(r) ==
    /\ task[r].step \in {"admitting", "revoking"} =>
          /\ task[r].token \in Tokens
          /\ task[r].op \in {"logout", "change"}
    /\ task[r].step = "asking" => task[r].op = "refresh"
    /\ task[r].step = "signing" => task[r].op \in {"login", "refresh"}
    /\ task[r].step = "answering" => task[r].token \in Tokens
    /\ task[r].step = "storing" => task[r].op = "login" /\ task[r].token \in Tokens
    /\ task[r].step = "updating" => task[r].op \in {"change", "reset"}
    /\ task[r].step = "updating" /\ task[r].op = "change" => task[r].token \in Tokens
    /\ task[r].step = "revoking" /\ task[r].op = "change" => task[r].version # NoKey

IInv ==
    /\ TypeOK
    /\ SignedOutStaysOut
    /\ RevocationIsFinal
    /\ settled <= password
    /\ \A r \in Requests : Holding(r) /\ Covered(r) /\ Recent(r)

-----------------------------------------------------------------------------
(* Type correctness.                                                       *)

Ops == {"none", "login", "refresh", "logout", "change", "reset"}

Steps == {"idle", "admitting", "asking", "signing", "storing", "updating",
          "revoking", "listing", "answering"}

Tasks == [op : Ops, step : Steps, token : Tokens \cup {NoToken},
          version : Versions \cup {NoKey}, ttl : 0 .. Duration]

LEMMA TaskType == TypeOK => task \in [Requests -> Tasks]
  BY DEF TypeOK, Tasks, Ops, Steps

LEMMA IdleType == Idle \in Tasks
  BY DEF Idle, Tasks, Ops, Steps

\* One component of one task may be replaced by another of its type.
LEMMA TaskUpdate ==
  ASSUME task \in [Requests -> Tasks], NEW r \in Requests
  PROVE  /\ End(r) => task' \in [Requests -> Tasks]
         /\ \A step \in Steps : GoTo(r, step) => task' \in [Requests -> Tasks]
  BY IdleType DEF End, GoTo, Tasks

LEMMA BeginType ==
  ASSUME TypeOK, NEW r \in Requests, NEW op \in Ops, NEW step \in Steps,
         NEW token \in Tokens \cup {NoToken}, NEW version \in Versions \cup {NoKey},
         Begin(r, op, step, token, version)
  PROVE  TypeOK'
<1>1. task' \in [Requests -> Tasks]
  BY TaskType DEF Begin, Tasks
<1> QED
  BY <1>1 DEF Begin, TypeOK, Tasks, Ops, Steps, Versions

\* The variables besides task keep their types.
StoresOK ==
    /\ exists \in BOOLEAN
    /\ password \in Versions
    /\ key \in Versions \cup {NoKey}
    /\ held \in BOOLEAN
    /\ left \in [Tokens -> 0 .. Duration]
    /\ black \in [Tokens -> 0 .. Duration]
    /\ known \subseteq Tokens
    /\ signedOut \subseteq Tokens
    /\ settled \in Versions

LEMMA TypeSplit ==
  /\ TypeOK <=> StoresOK /\ task \in [Requests -> Tasks]
  /\ TypeOK' <=> StoresOK' /\ task' \in [Requests -> Tasks]
  BY DEF TypeOK, StoresOK, Tasks, Ops, Steps, Versions

LEMMA TypeInit == Init => TypeOK
<1> SUFFICES ASSUME Init PROVE TypeOK
  OBVIOUS
<1>1. task \in [Requests -> Tasks]
  BY IdleType DEF Init
<1>2. 1 \in Versions /\ 0 \in 0 .. Duration
  BY DEF Versions
<1>3. left \in [Tokens -> 0 .. Duration] /\ black \in [Tokens -> 0 .. Duration]
  BY <1>2 DEF Init
<1>4. StoresOK
  BY <1>2, <1>3 DEF Init, StoresOK
<1> QED
  BY <1>1, <1>4, TypeSplit

\* Only type-correct states in which a request holds what its step needs are left
\* in a type-correct way.
LEMMA TypeStep ==
  TypeOK /\ (\A r \in Requests : Holding(r)) /\ [Next]_vars => TypeOK'
<1> SUFFICES ASSUME TypeOK, \A r \in Requests : Holding(r), [Next]_vars
             PROVE  TypeOK'
  OBVIOUS
<1> USE TypeSplit
<1>t. task \in [Requests -> Tasks] /\ StoresOK
  OBVIOUS
<1>1. ASSUME NEW r \in Requests, Login(r) PROVE TypeOK'
  BY <1>1, BeginType DEF Login, Ops, Steps, StoresOK
<1>2. ASSUME NEW r \in Requests, Refresh(r) PROVE TypeOK'
  BY <1>2, BeginType DEF Refresh, Ops, Steps
<1>3. ASSUME NEW r \in Requests, ResetPassword(r) PROVE TypeOK'
  BY <1>3, BeginType DEF ResetPassword, Ops, Steps
<1>4. ASSUME NEW r \in Requests, NEW op \in {"logout", "change"}, Authenticate(r, op)
      PROVE  TypeOK'
  <2>1. PICK t \in known : Begin(r, op, "admitting", t, NoKey)
    BY <1>4 DEF Authenticate
  <2> QED
    BY <2>1, BeginType DEF Ops, Steps, StoresOK
<1>5. ASSUME NEW r \in Requests, Admit(r) PROVE TypeOK'
  <2>1. task' \in [Requests -> Tasks]
    BY <1>5, TaskUpdate DEF Admit, Steps
  <2> QED
    BY <1>5, <2>1 DEF Admit, StoresOK
<1>6. ASSUME NEW r \in Requests, Ask(r) PROVE TypeOK'
  <2>1. task' \in [Requests -> Tasks]
    BY <1>6, TaskUpdate DEF Ask, Steps
  <2> QED
    BY <1>6, <2>1 DEF Ask, StoresOK
<1>7. ASSUME NEW r \in Requests, Sign(r) PROVE TypeOK'
  <2>1. PICK t \in Tokens :
          /\ left' = [left EXCEPT ![t] = Duration]
          /\ known' = known \ {t}
          /\ signedOut' = signedOut \ {t}
          /\ task' = [task EXCEPT
                ![r].token = t,
                ![r].step = IF task[r].op = "login" THEN "storing" ELSE "answering"]
    BY <1>7 DEF Sign
  <2>2. task' \in [Requests -> Tasks]
    BY <2>1 DEF Tasks, Steps
  <2>3. StoresOK'
    BY <1>7, <2>1 DEF Sign, StoresOK
  <2> QED
    BY <2>2, <2>3
<1>8. ASSUME NEW r \in Requests, Store(r) PROVE TypeOK'
  <2>1. task' \in [Requests -> Tasks]
    BY <1>8, TaskUpdate DEF Store, Steps
  <2>2. key' \in Versions \cup {NoKey}
    BY <1>8 DEF Store, Tasks
  <2> QED
    BY <1>8, <2>1, <2>2 DEF Store, StoresOK
<1>9. ASSUME NEW r \in Requests, Update(r) PROVE TypeOK'
  <2>1. password' \in Versions /\ (password' = password \/ password' = password + 1)
    BY <1>9 DEF Update, StoresOK, Versions
  <2>2. task' \in [Requests -> Tasks]
    <3>1. CASE End(r)
      BY <3>1, TaskUpdate
    <3>2. CASE ~End(r)
      <4>1. /\ password + 1 \in Versions
            /\ task' = [task EXCEPT ![r].version = password + 1, ![r].step = "revoking"]
        BY <1>9, <3>2 DEF Update, StoresOK, Versions
      <4> QED
        BY <4>1 DEF Tasks, Steps
    <3> QED
      BY <3>1, <3>2
  <2> QED
    BY <1>9, <2>1, <2>2 DEF Update, StoresOK
<1>10. ASSUME NEW r \in Requests, Revoke(r) PROVE TypeOK'
  <2>1. task' \in [Requests -> Tasks]
    <3>1. CASE End(r) \/ GoTo(r, "answering")
      BY <3>1, TaskUpdate DEF Steps
    <3>2. CASE ~(End(r) \/ GoTo(r, "answering"))
      <4>1. task' = [task EXCEPT ![r].step = "listing", ![r].ttl = left[task[r].token]]
        BY <1>10, <3>2 DEF Revoke, TimeLeft
      <4>2. left[task[r].token] \in 0 .. Duration
        BY <1>10 DEF Revoke, Holding, StoresOK
      <4> QED
        BY <4>1, <4>2 DEF Tasks, Steps
    <3> QED
      BY <3>1, <3>2
  <2>2. settled' \in Versions
    BY <1>10 DEF Revoke, Holding, StoresOK, Tasks
  <2> QED
    BY <1>10, <2>1, <2>2 DEF Revoke, DeletedKey, StoresOK
<1>11. ASSUME NEW r \in Requests, Blacklist(r) PROVE TypeOK'
  <2>1. task' \in [Requests -> Tasks]
    BY <1>11, TaskUpdate DEF Blacklist, Steps
  <2>2. black' \in [Tokens -> 0 .. Duration]
    BY <1>11 DEF Blacklist, StoresOK, Tasks
  <2> QED
    BY <1>11, <2>1, <2>2 DEF Blacklist, StoresOK
<1>12. ASSUME NEW r \in Requests, Answer(r) PROVE TypeOK'
  <2>1. task' \in [Requests -> Tasks]
    BY <1>12, TaskUpdate DEF Answer
  <2>2. known' \subseteq Tokens /\ signedOut' \subseteq Tokens
    BY <1>12 DEF Answer, Holding, StoresOK
  <2>3. held' \in BOOLEAN
    BY <1>12 DEF Answer, StoresOK
  <2> QED
    BY <1>12, <2>1, <2>2, <2>3 DEF Answer, StoresOK
<1>13. ASSUME NEW r \in Requests, Fail(r) PROVE TypeOK'
  <2>1. task' \in [Requests -> Tasks]
    BY <1>13, TaskUpdate DEF Fail
  <2> QED
    BY <1>13, <2>1 DEF Fail, StoresOK
<1>14. CASE Tick
  BY <1>14 DEF Tick, Less, StoresOK
<1>15. CASE KeyExpires
  BY <1>15 DEF KeyExpires, StoresOK
<1>16. CASE DeleteUser
  BY <1>16 DEF DeleteUser, StoresOK
<1>17. CASE UNCHANGED vars
  BY <1>17 DEF vars, StoresOK
<1> QED
  BY <1>1, <1>2, <1>3, <1>4, <1>5, <1>6, <1>7, <1>8, <1>9, <1>10, <1>11, <1>12, <1>13,
     <1>14, <1>15, <1>16, <1>17 DEF Next, Proceed

-----------------------------------------------------------------------------
(* The inductive invariant.                                                *)

LEMMA IInvInit == Init => IInv
<1> SUFFICES ASSUME Init PROVE IInv
  OBVIOUS
<1>1. TypeOK
  BY TypeInit
<1>2. ASSUME NEW r \in Requests PROVE Holding(r) /\ Covered(r) /\ Recent(r)
  <2>1. task[r] = Idle /\ password = 1
    BY DEF Init
  <2>2. Recent(r)
    BY <2>1 DEF Idle, Recent
  <2> QED
    BY <2>1, <2>2 DEF Idle, Holding, Covered
<1>3. SignedOutStaysOut /\ RevocationIsFinal
  BY DEF Init, SignedOutStaysOut, RevocationIsFinal
<1>4. settled <= password
  BY DEF Init
<1> QED
  BY <1>1, <1>2, <1>3, <1>4 DEF IInv

\* A task that has ended claims nothing, and the other tasks are left alone.
LEMMA Ended ==
  ASSUME TypeOK, TypeOK', NEW r \in Requests, End(r)
  PROVE  /\ Holding(r)' /\ Covered(r)' /\ Recent(r)'
         /\ \A q \in Requests \ {r} : task'[q] = task[q]
<1>1. task' = [task EXCEPT ![r] = Idle] /\ task'[r] = Idle
  BY TaskType DEF End
<1>2. password' \in Versions
  BY TypeSplit DEF StoresOK
<1>3. Recent(r)'
  BY <1>1, <1>2 DEF Idle, Recent, Versions
<1>4. \A q \in Requests \ {r} : task'[q] = task[q]
  BY <1>1, TaskType
<1> QED
  BY <1>1, <1>3, <1>4 DEF Idle, Holding, Covered

\* A task that goes to another step keeps its locals, and so do the other tasks.
LEMMA Gone ==
  ASSUME TypeOK, NEW r \in Requests, NEW step \in Steps, GoTo(r, step)
  PROVE  /\ task'[r].step = step
         /\ task'[r].op = task[r].op
         /\ task'[r].token = task[r].token
         /\ task'[r].version = task[r].version
         /\ task'[r].ttl = task[r].ttl
         /\ \A q \in Requests \ {r} : task'[q] = task[q]
  BY TaskType DEF GoTo, Tasks

\* A step that touches one task and no store needs to be checked for that task only.
LEMMA Quiet ==
  ASSUME IInv, TypeOK', NEW r \in Requests,
         \A q \in Requests \ {r} : task'[q] = task[q],
         UNCHANGED <<password, key, left, black, signedOut, settled>>,
         Holding(r)', Covered(r)', Recent(r)'
  PROVE  IInv'
<1>1. ASSUME NEW q \in Requests PROVE Holding(q)' /\ Covered(q)' /\ Recent(q)'
  <2>1. CASE q # r
    <3>1. task'[q] = task[q]
      BY <2>1
    <3> QED
      BY <3>1 DEF IInv, Holding, Covered, Recent
  <2> QED
    BY <2>1
<1> QED
  BY <1>1 DEF IInv, SignedOutStaysOut, RevocationIsFinal

\* A request begins with claims that hold.
LEMMA Begun ==
  ASSUME IInv, TypeOK', NEW r \in Requests, NEW op \in Ops, NEW step \in Steps,
         NEW token \in Tokens \cup {NoToken}, NEW version \in Versions \cup {NoKey},
         Begin(r, op, step, token, version),
         op = "login" => step = "signing" /\ version = password,
         op # "login" => version = NoKey,
         step \in {"admitting", "asking", "signing", "updating"},
         step = "admitting" => token \in Tokens /\ op \in {"logout", "change"},
         step = "asking" => op = "refresh",
         step = "signing" => op = "login",
         step = "updating" => op = "reset"
  PROVE  IInv'
<1>1. TypeOK /\ settled <= password /\ password \in Versions
  BY TypeSplit DEF IInv, StoresOK
<1>2. /\ task'[r].op = op /\ task'[r].step = step
      /\ task'[r].token = token /\ task'[r].version = version
      /\ \A q \in Requests \ {r} : task'[q] = task[q]
  BY <1>1, TaskType DEF Begin
<1>3. Holding(r)' /\ Covered(r)'
  BY <1>2 DEF Holding, Covered
<1>4. Recent(r)'
  BY <1>1, <1>2 DEF Begin, Recent, Versions
<1> QED
  BY <1>2, <1>3, <1>4, Quiet DEF Begin

LEMMA IInvStep == IInv /\ [Next]_vars => IInv'
<1> SUFFICES ASSUME IInv, [Next]_vars PROVE IInv'
  OBVIOUS
<1>t. TypeOK /\ TypeOK'
  BY TypeStep DEF IInv
<1>s. StoresOK /\ StoresOK' /\ task \in [Requests -> Tasks] /\ task' \in [Requests -> Tasks]
  BY <1>t, TypeSplit
<1>h. \A r \in Requests : Holding(r) /\ Covered(r) /\ Recent(r)
  BY DEF IInv
<1>1. ASSUME NEW r \in Requests, Login(r) PROVE IInv'
  BY <1>1, <1>t, <1>s, Begun DEF Login, Ops, Steps, StoresOK
<1>2. ASSUME NEW r \in Requests, Refresh(r) PROVE IInv'
  BY <1>2, <1>t, Begun DEF Refresh, Ops, Steps
<1>3. ASSUME NEW r \in Requests, ResetPassword(r) PROVE IInv'
  BY <1>3, <1>t, Begun DEF ResetPassword, Ops, Steps
<1>4. ASSUME NEW r \in Requests, NEW op \in {"logout", "change"}, Authenticate(r, op)
      PROVE  IInv'
  <2>1. PICK t \in known : Begin(r, op, "admitting", t, NoKey)
    BY <1>4 DEF Authenticate
  <2> QED
    BY <2>1, <1>t, <1>s, Begun DEF Ops, Steps, StoresOK
<1>5. ASSUME NEW r \in Requests, Admit(r) PROVE IInv'
  <2>1. CASE End(r)
    BY <2>1, <1>5, <1>t, Ended, Quiet DEF Admit
  <2>2. CASE ~End(r)
    <3>1. PICK step \in {"revoking", "updating"} :
            /\ GoTo(r, step)
            /\ step = "revoking" => task[r].op = "logout"
            /\ step = "updating" => task[r].op = "change"
      BY <1>5, <2>2 DEF Admit
    <3>2. Holding(r)' /\ Covered(r)' /\ Recent(r)'
      BY <3>1, <1>5, <1>t, <1>h, Gone DEF Admit, Steps, Holding, Covered, Recent
    <3> QED
      BY <3>1, <3>2, <1>5, <1>t, Gone, Quiet DEF Admit, Steps
  <2> QED
    BY <2>1, <2>2
<1>6. ASSUME NEW r \in Requests, Ask(r) PROVE IInv'
  <2>1. CASE End(r)
    BY <2>1, <1>6, <1>t, Ended, Quiet DEF Ask
  <2>2. CASE GoTo(r, "signing")
    <3>1. Holding(r)' /\ Covered(r)' /\ Recent(r)'
      BY <2>2, <1>6, <1>t, <1>h, Gone DEF Ask, Steps, Holding, Covered, Recent
    <3> QED
      BY <2>2, <3>1, <1>6, <1>t, Gone, Quiet DEF Ask, Steps
  <2> QED
    BY <2>1, <2>2, <1>6 DEF Ask
<1>7. ASSUME NEW r \in Requests, Sign(r) PROVE IInv'
  <2>1. PICK t \in Tokens :
          /\ Free(t)
          /\ left' = [left EXCEPT ![t] = Duration]
          /\ signedOut' = signedOut \ {t}
          /\ task' = [task EXCEPT
                ![r].token = t,
                ![r].step = IF task[r].op = "login" THEN "storing" ELSE "answering"]
    BY <1>7 DEF Sign
  <2>2. /\ task'[r].token = t /\ task'[r].op = task[r].op
        /\ task'[r].version = task[r].version
        /\ task'[r].step = IF task[r].op = "login" THEN "storing" ELSE "answering"
        /\ \A q \in Requests \ {r} : task'[q] = task[q]
    BY <2>1, <1>s DEF Tasks
  <2>3. \A u \in Tokens \ {t} : left'[u] = left[u]
    BY <2>1, <1>s DEF StoresOK
  <2>4. ASSUME NEW q \in Requests \ {r} PROVE Holding(q)' /\ Covered(q)' /\ Recent(q)'
    <3>1. task'[q] = task[q] /\ task[q].token # t
      BY <2>1, <2>2 DEF Free
    <3> QED
      BY <3>1, <2>3, <1>7, <1>h DEF Sign, Holding, Covered, Recent
  <2>5. Holding(r)' /\ Covered(r)' /\ Recent(r)'
    BY <2>2, <1>7, <1>h DEF Sign, Holding, Covered, Recent
  <2>6. SignedOutStaysOut'
    BY <2>1, <2>3, <1>7, <1>s DEF Sign, IInv, SignedOutStaysOut, StoresOK
  <2> QED
    BY <2>4, <2>5, <2>6, <1>7, <1>t DEF Sign, IInv, RevocationIsFinal
<1>8. ASSUME NEW r \in Requests, Store(r) PROVE IInv'
  <2>1. GoTo(r, "answering") /\ key' = task[r].version
    BY <1>8 DEF Store
  <2>2. RevocationIsFinal'
    BY <2>1, <1>8, <1>h DEF Store, Holding, Recent, RevocationIsFinal
  <2>3. ASSUME NEW q \in Requests PROVE Holding(q)' /\ Covered(q)' /\ Recent(q)'
    BY <2>1, <1>8, <1>t, <1>h, Gone DEF Store, Steps, Holding, Covered, Recent
  <2> QED
    BY <2>2, <2>3, <1>8, <1>t DEF Store, IInv, SignedOutStaysOut
<1>9. ASSUME NEW r \in Requests, Update(r) PROVE IInv'
  <2>1. CASE ~exists
    BY <2>1, <1>9, <1>t, Ended, Quiet DEF Update
  <2>2. CASE exists
    <3>1. password' = password + 1 /\ password \in Nat /\ settled \in Nat
      BY <2>2, <1>9, <1>s DEF Update, StoresOK, Versions
    <3>2. ASSUME NEW q \in Requests \ {r}, task'[q] = task[q]
          PROVE  Holding(q)' /\ Covered(q)' /\ Recent(q)'
      <4>1. task[q].version \in Int
        BY <1>s DEF Tasks, Versions
      <4> QED
        BY <4>1, <3>1, <3>2, <1>9, <1>h DEF Update, Holding, Covered, Recent
    <3>3. /\ Holding(r)' /\ Covered(r)' /\ Recent(r)'
          /\ \A q \in Requests \ {r} : task'[q] = task[q]
      <4>1. CASE task[r].op = "reset"
        BY <4>1, <2>2, <1>9, <1>t, Ended DEF Update
      <4>2. CASE task[r].op = "change"
        <5>1. task' = [task EXCEPT ![r].version = password + 1, ![r].step = "revoking"]
          BY <4>2, <2>2, <1>9 DEF Update
        <5>2. /\ task'[r].op = "change" /\ task'[r].step = "revoking"
              /\ task'[r].version = password + 1 /\ task'[r].token = task[r].token
              /\ \A q \in Requests \ {r} : task'[q] = task[q]
          BY <5>1, <4>2, <1>s DEF Tasks
        <5> QED
          BY <5>2, <4>2, <3>1, <1>9, <1>h DEF Update, Holding, Covered, Recent
      <4> QED
        BY <4>1, <4>2, <1>9, <1>h DEF Update, Holding
    <3> QED
      BY <3>1, <3>2, <3>3, <1>9, <1>t
      DEF Update, IInv, SignedOutStaysOut, RevocationIsFinal
  <2> QED
    BY <2>1, <2>2
<1>10. ASSUME NEW r \in Requests, Revoke(r) PROVE IInv'
  <2>1. CASE task[r].op = "change"
    <3>1. GoTo(r, "answering") /\ task[r].version # NoKey
      BY <2>1, <1>10, <1>h DEF Revoke, Holding
    <3>2. settled' <= password'
      BY <2>1, <1>10, <1>h DEF Revoke, IInv, Recent
    <3>3. ASSUME NEW q \in Requests, task[q].op = "login"
          PROVE  task[q].version >= settled'
      <4>1. task[q].version \in Int /\ task[r].version \in Int
        BY <1>s DEF Tasks, Versions
      <4> QED
        BY <4>1, <3>3, <2>1, <1>10, <1>h DEF Revoke, Overlaps, Recent
    <3>4. ASSUME NEW q \in Requests PROVE Holding(q)' /\ Covered(q)' /\ Recent(q)'
      <4>1. /\ task'[q].op = task[q].op /\ task'[q].token = task[q].token
            /\ task'[q].version = task[q].version
            /\ q # r => task'[q] = task[q]
            /\ q = r => task'[q].step = "answering"
        BY <3>1, <1>t, Gone DEF Steps
      <4>2. Recent(q)'
        BY <4>1, <3>3, <1>10, <1>h DEF Revoke, Recent
      <4> QED
        BY <4>1, <4>2, <2>1, <1>10, <1>h DEF Revoke, Holding, Covered
    <3> QED
      BY <3>2, <3>4, <1>10, <1>t
      DEF Revoke, DeletedKey, IInv, SignedOutStaysOut, RevocationIsFinal
  <2>2. CASE task[r].op # "change"
    <3>1. /\ Holding(r)' /\ Covered(r)' /\ Recent(r)'
          /\ \A q \in Requests \ {r} : task'[q] = task[q]
      <4>1. CASE End(r)
        BY <4>1, <1>t, Ended
      <4>2. CASE ~End(r)
        <5>1. task' = [task EXCEPT ![r].step = "listing", ![r].ttl = left[task[r].token]]
          BY <4>2, <2>2, <1>10 DEF Revoke, TimeLeft
        <5>2. /\ task'[r].op = task[r].op /\ task'[r].step = "listing"
              /\ task'[r].version = task[r].version /\ task'[r].token = task[r].token
              /\ task'[r].ttl = left[task[r].token]
              /\ \A q \in Requests \ {r} : task'[q] = task[q]
          BY <5>1, <1>s DEF Tasks
        <5>3. task[r].op = "logout" /\ task[r].token \in Tokens
          BY <2>2, <1>10, <1>h DEF Revoke, Holding
        <5>4. left[task[r].token] \in Int
          BY <5>3, <1>s DEF StoresOK
        <5> QED
          BY <5>2, <5>3, <5>4, <2>2, <1>10, <1>h DEF Revoke, Holding, Covered, Recent
      <4> QED
        BY <4>1, <4>2
    <3>2. ASSUME NEW q \in Requests \ {r} PROVE Holding(q)' /\ Covered(q)' /\ Recent(q)'
      BY <3>1, <2>2, <1>10, <1>h DEF Revoke, Holding, Covered, Recent
    <3> QED
      BY <3>1, <3>2, <2>2, <1>10, <1>t
      DEF Revoke, DeletedKey, IInv, SignedOutStaysOut, RevocationIsFinal
  <2> QED
    BY <2>1, <2>2
<1>11. ASSUME NEW r \in Requests, Blacklist(r) PROVE IInv'
  <2> DEFINE t == task[r].token
  <2>1. /\ t \in Tokens /\ task[r].ttl >= left[t] /\ task[r].op = "logout"
        /\ GoTo(r, "answering")
    BY <1>11, <1>h DEF Blacklist, Covered
  <2>2. black'[t] >= left'[t] /\ \A u \in Tokens \ {t} : black'[u] = black[u]
    BY <2>1, <1>11, <1>s DEF Blacklist, StoresOK
  <2>3. ASSUME NEW q \in Requests PROVE Holding(q)' /\ Covered(q)' /\ Recent(q)'
    <3>1. /\ task'[q].op = task[q].op /\ task'[q].token = task[q].token
          /\ task'[q].version = task[q].version
          /\ q # r => task'[q] = task[q]
          /\ q = r => task'[q].step = "answering"
      BY <2>1, <1>t, Gone DEF Steps
    <3>2. Covered(q)'
      BY <3>1, <2>1, <2>2, <1>11, <1>h DEF Blacklist, Covered
    <3> QED
      BY <3>1, <3>2, <2>1, <1>11, <1>h DEF Blacklist, Holding, Recent
  <2>4. SignedOutStaysOut'
    BY <2>2, <1>11, <1>s DEF Blacklist, IInv, SignedOutStaysOut, StoresOK
  <2> QED
    BY <2>3, <2>4, <1>11, <1>t DEF Blacklist, IInv, RevocationIsFinal
<1>12. ASSUME NEW r \in Requests, Answer(r) PROVE IInv'
  <2>1. /\ Holding(r)' /\ Covered(r)' /\ Recent(r)'
        /\ \A q \in Requests \ {r} : task'[q] = task[q]
    BY <1>12, <1>t, Ended DEF Answer
  <2>2. ASSUME NEW q \in Requests \ {r} PROVE Holding(q)' /\ Covered(q)' /\ Recent(q)'
    BY <2>1, <1>12, <1>h DEF Answer, Holding, Covered, Recent
  <2>3. SignedOutStaysOut'
    BY <1>12, <1>h DEF Answer, IInv, SignedOutStaysOut, Covered
  <2> QED
    BY <2>1, <2>2, <2>3, <1>12, <1>t DEF Answer, IInv, RevocationIsFinal
<1>13. ASSUME NEW r \in Requests, Fail(r) PROVE IInv'
  BY <1>13, <1>t, Ended, Quiet DEF Fail
<1>14. CASE Tick
  <2>1. \A t \in Tokens :
          /\ black'[t] = Less(black[t]) /\ left'[t] = Less(left[t])
          /\ black[t] \in Nat /\ left[t] \in Nat
    BY <1>14, <1>s DEF Tick, StoresOK
  <2>2. \A t \in Tokens : left'[t] <= left[t] /\ (black[t] >= left[t] => black'[t] >= left'[t])
    BY <2>1 DEF Less
  <2>3. ASSUME NEW q \in Requests PROVE Holding(q)' /\ Covered(q)' /\ Recent(q)'
    <3>1. task[q].ttl \in Int
      BY <1>s DEF Tasks
    <3>2. Covered(q)'
      BY <3>1, <2>1, <2>2, <1>14, <1>h, <1>s DEF Tick, Covered, StoresOK
    <3> QED
      BY <3>2, <1>14, <1>h DEF Tick, Holding, Recent
  <2>4. SignedOutStaysOut'
    BY <2>2, <1>14, <1>s DEF Tick, IInv, SignedOutStaysOut, StoresOK
  <2> QED
    BY <2>3, <2>4, <1>14, <1>t DEF Tick, IInv, RevocationIsFinal
<1>15. CASE KeyExpires
  BY <1>15, <1>t, <1>h
  DEF KeyExpires, IInv, SignedOutStaysOut, RevocationIsFinal, Holding, Covered, Recent
<1>16. CASE DeleteUser
  BY <1>16, <1>t, <1>h
  DEF DeleteUser, IInv, SignedOutStaysOut, RevocationIsFinal, Holding, Covered, Recent
<1>17. CASE UNCHANGED vars
  BY <1>17, <1>t, <1>h
  DEF vars, IInv, SignedOutStaysOut, RevocationIsFinal, Holding, Covered, Recent
<1> QED
  BY <1>1, <1>2, <1>3, <1>4, <1>5, <1>6, <1>7, <1>8, <1>9, <1>10, <1>11, <1>12, <1>13,
     <1>14, <1>15, <1>16, <1>17 DEF Next, Proceed

-----------------------------------------------------------------------------
(* The theorems.                                                           *)

\* The inductive invariant holds of every reachable state: what a logout under way has
\* computed covers its token, and logins under way know no password older than the
\* last settled change.
THEOREM Inductive == Spec => []IInv
  BY IInvInit, IInvStep, PTL DEF Spec

\* The variables keep their types.
THEOREM TypeCorrect == Spec => []TypeOK
<1>1. IInv => TypeOK
  BY DEF IInv
<1> QED
  BY <1>1, Inductive, PTL

\* A token whose logout was answered is refused for as long as it would be valid,
\* however long the entry of the blacklist was under way.
THEOREM LogoutIsFinal == Spec => []SignedOutStaysOut
<1>1. IInv => SignedOutStaysOut
  BY DEF IInv
<1> QED
  BY <1>1, Inductive, PTL

\* After a change of password that met no older login, no session of an older password
\* appears, for any number of concurrent requests and later changes.
THEOREM ChangeIsFinal == Spec => []RevocationIsFinal
<1>1. IInv => RevocationIsFinal
  BY DEF IInv
<1> QED
  BY <1>1, Inductive, PTL

=============================================================================
