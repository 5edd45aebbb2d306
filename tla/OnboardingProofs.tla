-------------------------- MODULE OnboardingProofs --------------------------
(* What holds of Onboarding for any requests, codes and links.  Both        *)
(* safety properties rest on one invariant: it says, step by step, what a   *)
(* request under way knows of the account, and that codes belong to an      *)
(* account with a password.                                                 *)
EXTENDS Onboarding, TLAPS

CodeSteps == {"asking", "coding", "cooling"}
LinkSteps == {"linking", "unmarking", "dropping", "marking"}
VerifySteps == {"activating", "clearing", "thawing"}
CodeOps == {"askForCode", "verify"}
LinkOps == {"INVITATION", "FORGOT_PASSWORD"}

\* A request is at a step of its own operation, and queues the item it has made.
Staged ==
    \A r \in Requests :
        /\ task[r].step \in CodeSteps => task[r].op = "askForCode"
        /\ task[r].step \in LinkSteps => task[r].op \in LinkOps
        /\ task[r].step \in VerifySteps => task[r].op = "verify"
        /\ task[r].step = "cooling" => task[r].item \in Codes
        /\ task[r].step = "queueing" =>
              \/ task[r].op = "askForCode" /\ task[r].item \in Codes
              \/ task[r].op \in LinkOps /\ task[r].item \in Links

\* Before the account is created nothing has happened.
Untouched ==
    account.state = "absent" =>
        /\ ~account.active
        /\ code = NoItem /\ ~cooldown
        /\ \A r \in Requests : task[r] = Idle

\* A code, stored or in the hands of a request, is of an account with a password.
CodesHavePassword ==
    /\ code # NoItem => account.hasPassword
    /\ \A r \in Requests : task[r].op \in CodeOps => account.hasPassword

\* Who sets the cooldown has set a code; who deletes the code has activated the account.
CodeBeforeCooldown ==
    /\ cooldown /\ Pending => code # NoItem
    /\ \A r \in Requests :
          /\ task[r].step = "cooling" /\ Pending => code # NoItem
          /\ task[r].step = "clearing" => ~Pending

IInv ==
    /\ TypeOK
    /\ Staged
    /\ Untouched
    /\ CodesHavePassword
    /\ ActiveHasPassword
    /\ CodeBeforeCooldown

-----------------------------------------------------------------------------
(* Type correctness.                                                       *)

Accounts == [state : {"absent", "exists", "deleted"}, hasPassword : BOOLEAN,
             active : BOOLEAN, failed : BOOLEAN]

LinkStates == {"unused", "INVITATION", "FORGOT_PASSWORD", "gone"}

JobStates == JobsOver \cup {"waiting", "unmarking", "exhausted"}

Jobs == [state : JobStates, kind : {"none", "askForCode"} \cup LinkOps,
         attempts : 0 .. Attempts - 1]

Ops == {"none", "setPassword"} \cup CodeOps \cup LinkOps

Steps == {"idle", "queueing", "setting", "consuming"}
            \cup CodeSteps \cup LinkSteps \cup VerifySteps

Tasks == [op : Ops, step : Steps, item : Items \cup {NoItem}]

LEMMA TypeSplit ==
  /\ TypeOK <=> /\ account \in Accounts
                /\ code \in Codes \cup {NoItem}
                /\ cooldown \in BOOLEAN
                /\ link \in [Links -> LinkStates]
                /\ job \in [Items -> Jobs]
                /\ inbox \subseteq Items
                /\ task \in [Requests -> Tasks]
  /\ TypeOK' <=> /\ account' \in Accounts
                 /\ code' \in Codes \cup {NoItem}
                 /\ cooldown' \in BOOLEAN
                 /\ link' \in [Links -> LinkStates]
                 /\ job' \in [Items -> Jobs]
                 /\ inbox' \subseteq Items
                 /\ task' \in [Requests -> Tasks]
  BY DEF TypeOK, Accounts, LinkStates, JobStates, Jobs, Ops, Steps, Tasks, CodeOps,
         LinkOps, CodeSteps, LinkSteps, VerifySteps

\* What an operation or an awaited call makes of the tasks.
LEMMA TaskUpdate ==
  ASSUME task \in [Requests -> Tasks], NEW r \in Requests
  PROVE  /\ End(r) => task' \in [Requests -> Tasks]
         /\ \A step \in Steps : GoTo(r, step) => task' \in [Requests -> Tasks]
         /\ \A op \in Ops, step \in Steps, item \in Items \cup {NoItem} :
               Begin(r, op, step, item) => task' \in [Requests -> Tasks]
  BY DEF End, GoTo, Begin, Idle, Tasks, Ops, Steps

\* What can happen to the account keeps its type.
LEMMA AccountUpdate ==
  ASSUME account \in Accounts
  PROVE  /\ \A b \in BOOLEAN : [account EXCEPT !.failed = b] \in Accounts
         /\ [account EXCEPT !.state = "exists"] \in Accounts
         /\ [account EXCEPT !.state = "exists", !.hasPassword = TRUE] \in Accounts
         /\ [account EXCEPT !.state = "deleted"] \in Accounts
         /\ [account EXCEPT !.active = TRUE] \in Accounts
         /\ [account EXCEPT !.hasPassword = TRUE, !.active = TRUE, !.failed = FALSE]
               \in Accounts
  BY DEF Accounts

LEMMA FailedType ==
  ASSUME job \in [Items -> Jobs], NEW i \in Items
  PROVE  Failed(i) \in Jobs
<1> DEFINE made == job[i].attempts + 1
<1>1. job[i] \in Jobs
  OBVIOUS
<1>2. CASE Retried(made)
  <2>1. /\ made \in 0 .. Attempts - 1
        /\ Failed(i) = [job[i] EXCEPT !.state = "waiting", !.attempts = made]
    BY <1>1, <1>2, OnboardingAssumption DEF OnboardingAssumption, Failed, Retried, Jobs
  <2> QED
    BY <1>1, <2>1 DEF Jobs, JobStates
<1>3. CASE ~Retried(made)
  <2>1. PICK state \in {"exhausted", "dropped"} :
            Failed(i) = [job[i] EXCEPT !.state = state, !.attempts = 0]
    BY <1>3 DEF Failed
  <2>2. 0 \in 0 .. Attempts - 1
    BY OnboardingAssumption DEF OnboardingAssumption
  <2> QED
    BY <1>1, <2>1, <2>2 DEF Jobs, JobStates, JobsOver
<1> QED
  BY <1>2, <1>3

LEMMA TypeInit == Init => TypeOK
<1> SUFFICES ASSUME Init PROVE TypeOK
  OBVIOUS
<1>1. account \in Accounts
  BY DEF Init, Accounts
<1>2. link \in [Links -> LinkStates]
  BY DEF Init, LinkStates
<1>3. job \in [Items -> Jobs]
  <2>1. 0 \in 0 .. Attempts - 1
    BY OnboardingAssumption DEF OnboardingAssumption
  <2> QED
    BY <2>1 DEF Init, Jobs, JobStates, JobsOver
<1>4. task \in [Requests -> Tasks]
  BY DEF Init, Idle, Tasks, Ops, Steps
<1> QED
  BY <1>1, <1>2, <1>3, <1>4, TypeSplit DEF Init

LEMMA TypeStep == TypeOK /\ Staged /\ [Next]_vars => TypeOK'
<1> SUFFICES ASSUME TypeOK, Staged, [Next]_vars PROVE TypeOK'
  OBVIOUS
<1> USE TypeSplit
<1>t. /\ task \in [Requests -> Tasks]
      /\ account \in Accounts
      /\ link \in [Links -> LinkStates]
      /\ job \in [Items -> Jobs]
  OBVIOUS
<1>1. ASSUME NEW r \in Requests,
             Register(r) \/ AskForCode(r) \/ Verify(r) \/ Invite(r)
               \/ ResendInvitation(r) \/ ForgotPassword(r) \/ SetPassword(r)
      PROVE  TypeOK'
  <2>1. task' \in [Requests -> Tasks]
    BY <1>t, <1>1, TaskUpdate DEF Register, AskForCode, Verify, Invite, ResendInvitation,
       ForgotPassword, SetPassword, Ops, Steps, CodeOps, LinkOps, CodeSteps, LinkSteps,
       VerifySteps, Items
  <2>2. account' \in Accounts
    BY <1>t, <1>1, AccountUpdate DEF Register, AskForCode, Verify, Invite,
       ResendInvitation, ForgotPassword, SetPassword
  <2> QED
    BY <1>1, <2>1, <2>2 DEF Register, AskForCode, Verify, Invite, ResendInvitation,
       ForgotPassword, SetPassword
<1>2. ASSUME NEW r \in Requests, AskCooldown(r) \/ SetCooldown(r) PROVE TypeOK'
  <2>1. task' \in [Requests -> Tasks]
    BY <1>t, <1>2, TaskUpdate DEF AskCooldown, SetCooldown, Steps, CodeSteps
  <2> QED
    BY <1>2, <2>1 DEF AskCooldown, SetCooldown
<1>3. ASSUME NEW r \in Requests, SetCode(r) PROVE TypeOK'
  <2>1. PICK c \in Codes :
            /\ code' = c
            /\ task' = [task EXCEPT ![r].item = c, ![r].step = "cooling"]
    BY <1>3 DEF SetCode
  <2>2. task' \in [Requests -> Tasks]
    BY <1>t, <2>1 DEF Tasks, Steps, CodeSteps, Items
  <2> QED
    BY <1>3, <2>1, <2>2 DEF SetCode
<1>4. ASSUME NEW r \in Requests, Activate(r) \/ ClearCode(r) \/ ClearCooldown(r)
      PROVE  TypeOK'
  <2>1. task' \in [Requests -> Tasks]
    BY <1>t, <1>4, TaskUpdate DEF Activate, ClearCode, ClearCooldown, Steps, VerifySteps
  <2>2. account' \in Accounts
    BY <1>t, <1>4, AccountUpdate DEF Activate, ClearCode, ClearCooldown
  <2> QED
    BY <1>4, <2>1, <2>2 DEF Activate, ClearCode, ClearCooldown
<1>5. ASSUME NEW r \in Requests, CreateLink(r) PROVE TypeOK'
  <2>1. PICK l \in Links :
            /\ link' = [link EXCEPT ![l] = task[r].op]
            /\ task' = [task EXCEPT ![r].item = l, ![r].step = "queueing"]
    BY <1>5 DEF CreateLink
  <2>2. task' \in [Requests -> Tasks]
    BY <1>t, <2>1 DEF Tasks, Steps, Items
  <2>3. task[r].op \in LinkStates
    BY <1>5 DEF CreateLink, Staged, LinkSteps, LinkOps, LinkStates
  <2> QED
    BY <1>t, <1>5, <2>1, <2>2, <2>3 DEF CreateLink
<1>6. ASSUME NEW r \in Requests, task[r].step = "queueing"
      PROVE  Queued(r) \in [Items -> Jobs]
  BY <1>t, <1>6 DEF Queued, Staged, Jobs, JobStates, Items
<1>7. ASSUME NEW r \in Requests, Queue(r) PROVE TypeOK'
  <2>1. task' \in [Requests -> Tasks]
    BY <1>t, <1>7, TaskUpdate DEF Queue, Steps, LinkSteps
  <2> QED
    BY <1>6, <1>7, <2>1 DEF Queue
<1>8. ASSUME NEW r \in Requests, Unmark(r) \/ Mark(r) PROVE TypeOK'
  <2>1. task' \in [Requests -> Tasks] /\ account' \in Accounts
    BY <1>t, <1>8, TaskUpdate, AccountUpdate DEF Unmark, Mark
  <2> QED
    BY <1>8, <2>1 DEF Unmark, Mark
<1>9. ASSUME NEW r \in Requests, LinkBreaks(r) PROVE TypeOK'
  <2>1. task' \in [Requests -> Tasks] /\ account' \in Accounts
    BY <1>t, <1>9, TaskUpdate, AccountUpdate DEF LinkBreaks, Steps, LinkSteps
  <2> QED
    BY <1>6, <1>9, <2>1 DEF LinkBreaks
<1>10. ASSUME NEW r \in Requests, DropLink(r) \/ Consume(r) PROVE TypeOK'
  <2>1. task' \in [Requests -> Tasks]
    BY <1>t, <1>10, TaskUpdate DEF DropLink, Consume, Steps, LinkSteps
  <2>2. link' \in [Links -> LinkStates]
    BY <1>t, <1>10 DEF DropLink, Consume, LinkStates
  <2> QED
    BY <1>10, <2>1, <2>2 DEF DropLink, Consume
<1>11. ASSUME NEW r \in Requests, UpdatePassword(r) \/ Fail(r) PROVE TypeOK'
  <2>1. task' \in [Requests -> Tasks] /\ account' \in Accounts
    BY <1>t, <1>11, TaskUpdate, AccountUpdate DEF UpdatePassword, Fail, Steps
  <2> QED
    BY <1>11, <2>1 DEF UpdatePassword, Fail
<1>12. ASSUME NEW i \in Items, Work(i) PROVE TypeOK'
  <2>1. job' \in [Items -> Jobs]
    <3>1. CASE job' = [job EXCEPT ![i] = Failed(i)]
      BY <1>t, <3>1, FailedType
    <3>2. CASE \E state \in JobStates : job' = [job EXCEPT ![i].state = state]
      BY <1>t, <3>2 DEF Jobs
    <3> QED
      BY <1>12, <3>1, <3>2 DEF Work, SendMail, UnmarkSent, MarkExhausted, JobStates,
         JobsOver
  <2>2. account' \in Accounts
    BY <1>t, <1>12, AccountUpdate DEF Work, SendMail, UnmarkSent, MarkExhausted, Accounts
  <2> QED
    BY <1>12, <2>1, <2>2 DEF Work, SendMail, UnmarkSent, MarkExhausted
<1>13. CASE CodeExpires \/ CooldownExpires \/ DeleteUser
  BY <1>t, <1>13, AccountUpdate DEF CodeExpires, CooldownExpires, DeleteUser
<1>14. ASSUME NEW l \in Links, LinkExpires(l) PROVE TypeOK'
  BY <1>t, <1>14 DEF LinkExpires, LinkStates
<1>15. CASE UNCHANGED vars
  BY <1>15 DEF vars
<1> QED
  BY <1>1, <1>2, <1>3, <1>4, <1>5, <1>7, <1>8, <1>9, <1>10, <1>11, <1>12, <1>13, <1>14,
     <1>15 DEF Next, Proceed

-----------------------------------------------------------------------------
(* The inductive invariant.                                                *)

\* The new state of one task; the others stay.
Moves(r, op, step, item) ==
    /\ task'[r] = [op |-> op, step |-> step, item |-> item]
    /\ \A q \in Requests \ {r} : task'[q] = task[q]

LEMMA Moved ==
  ASSUME task \in [Requests -> Tasks], NEW r \in Requests
  PROVE  /\ End(r) => Moves(r, "none", "idle", NoItem)
         /\ \A step : GoTo(r, step) => Moves(r, task[r].op, step, task[r].item)
         /\ \A op, step, item : Begin(r, op, step, item) => Moves(r, op, step, item)
         /\ \A step, item :
               task' = [task EXCEPT ![r].item = item, ![r].step = step]
               => Moves(r, task[r].op, step, item)
  BY DEF Moves, End, GoTo, Begin, Idle, Tasks

\* The request that acts keeps to the steps of its operation; the others are left alone.
LEMMA StagedStep == TypeOK /\ Staged /\ [Next]_vars => Staged'
<1> SUFFICES ASSUME TypeOK, Staged, [Next]_vars PROVE Staged'
  OBVIOUS
<1>t. task \in [Requests -> Tasks]
  BY TypeSplit
<1> USE DEF CodeSteps, LinkSteps, VerifySteps, LinkOps
<1>1. ASSUME NEW r \in Requests, NEW op, NEW step, NEW item, Moves(r, op, step, item),
             /\ step \in CodeSteps => op = "askForCode"
             /\ step \in LinkSteps => op \in LinkOps
             /\ step \in VerifySteps => op = "verify"
             /\ step = "cooling" => item \in Codes
             /\ step = "queueing" => \/ op = "askForCode" /\ item \in Codes
                                     \/ op \in LinkOps /\ item \in Links
      PROVE  Staged'
  BY <1>1 DEF Staged, Moves
<1>2. ASSUME NEW r \in Requests,
             Register(r) \/ AskForCode(r) \/ Verify(r) \/ Invite(r)
               \/ ResendInvitation(r) \/ ForgotPassword(r) \/ SetPassword(r)
      PROVE  Staged'
  BY <1>t, <1>1, <1>2, Moved DEF Register, AskForCode, Verify, Invite, ResendInvitation,
     ForgotPassword, SetPassword
<1>3. ASSUME NEW r \in Requests, Proceed(r) PROVE Staged'
  <2>1. CASE End(r)
    BY <1>t, <1>1, <2>1, Moved
  <2>2. CASE AskCooldown(r) \/ SetCooldown(r)
    BY <1>t, <1>1, <2>1, <2>2, Moved DEF AskCooldown, SetCooldown, Staged, Items
  <2>6. CASE SetCode(r)
    <3>1. PICK c \in Codes :
              task[r].step = "coding" /\ Moves(r, task[r].op, "cooling", c)
      BY <1>t, <2>6, Moved DEF SetCode
    <3> QED
      BY <1>1, <3>1 DEF Staged
  <2>3. CASE Activate(r) \/ ClearCode(r) \/ ClearCooldown(r)
    BY <1>t, <1>1, <2>1, <2>3, Moved DEF Activate, ClearCode, ClearCooldown, Staged
  <2>4. CASE Queue(r) \/ Unmark(r) \/ LinkBreaks(r)
    BY <1>t, <1>1, <2>1, <2>4, Moved DEF Queue, Unmark, LinkBreaks, Staged
  <2>7. CASE CreateLink(r)
    <3>1. PICK l \in Links :
              task[r].step = "linking" /\ Moves(r, task[r].op, "queueing", l)
      BY <1>t, <2>7, Moved DEF CreateLink
    <3> QED
      BY <1>1, <3>1 DEF Staged, Items
  <2>5. CASE DropLink(r) \/ Mark(r) \/ UpdatePassword(r) \/ Consume(r)
    BY <1>t, <1>1, <2>1, <2>5, Moved DEF DropLink, Mark, UpdatePassword, Consume, Staged
  <2> QED
    BY <1>3, <2>2, <2>3, <2>4, <2>5, <2>6, <2>7 DEF Proceed
<1>4. ASSUME NEW r \in Requests, Fail(r) PROVE Staged'
  BY <1>t, <1>1, <1>4, Moved DEF Fail
<1>5. CASE UNCHANGED task
  BY <1>5 DEF Staged
<1> QED
  BY <1>2, <1>3, <1>4, <1>5 DEF Next, Work, SendMail, UnmarkSent, MarkExhausted,
     CodeExpires, CooldownExpires, LinkExpires, DeleteUser, vars

\* What the account, the code and the requests have to do with each other.
Bound ==
    /\ Untouched
    /\ CodesHavePassword
    /\ ActiveHasPassword
    /\ CodeBeforeCooldown

LEMMA BoundStep == TypeOK /\ Staged /\ Bound /\ [Next]_vars => Bound'
<1> SUFFICES ASSUME TypeOK, Staged, Bound, [Next]_vars PROVE Bound'
  OBVIOUS
<1>t. /\ task \in [Requests -> Tasks]
      /\ account \in Accounts
      /\ inbox \subseteq Items
  BY TypeSplit
<1> USE DEF Bound, Untouched, CodesHavePassword, ActiveHasPassword, CodeBeforeCooldown,
            Pending, Exists, CodeSteps, LinkSteps, VerifySteps, CodeOps, LinkOps
\* A request that is under way has an account; so the first operation has it, and the
\* steps that follow do not go back.
<1>1. ASSUME NEW r \in Requests, task[r] # Idle PROVE account.state # "absent"
  BY <1>1
<1>2. ASSUME NEW r \in Requests, Register(r) PROVE Bound'
  <2>1. Moves(r, "askForCode", "asking", NoItem)
    BY <1>t, <1>2, Moved DEF Register
  <2>2. /\ account'.state = "exists" /\ account'.hasPassword
        /\ account'.active = account.active
    BY <1>t, <1>2 DEF Register, Accounts
  <2>3. /\ account.state = "absent"
        /\ code' = code /\ cooldown' = cooldown
    BY <1>2 DEF Register
  <2> QED
    BY <2>1, <2>2, <2>3 DEF Moves, Idle
<1>3. ASSUME NEW r \in Requests, Invite(r) PROVE Bound'
  <2>1. Moves(r, "INVITATION", "linking", NoItem)
    BY <1>t, <1>3, Moved DEF Invite
  <2>2. /\ account'.state = "exists" /\ account'.hasPassword = account.hasPassword
        /\ account'.active = account.active
    BY <1>t, <1>3 DEF Invite, Accounts
  <2>3. /\ account.state = "absent"
        /\ code' = code /\ cooldown' = cooldown
    BY <1>3 DEF Invite
  <2> QED
    BY <2>1, <2>2, <2>3 DEF Moves, Idle
\* Codes are asked for, and used, by who has a password.
<1>4. ASSUME NEW r \in Requests, AskForCode(r) \/ Verify(r) PROVE Bound'
  <2>1. PICK op, step, item :
            op \in CodeOps /\ step \in {"asking", "activating"} /\ Moves(r, op, step, item)
    BY <1>t, <1>4, Moved DEF AskForCode, Verify
  <2>2. account.hasPassword /\ account.state # "absent"
    BY <1>t, <1>4, OnboardingAssumption
       DEF OnboardingAssumption, AskForCode, MayAskForCode, Verify, Items
  <2>3. UNCHANGED <<account, code, cooldown>>
    BY <1>4 DEF AskForCode, Verify
  <2> QED
    BY <2>1, <2>2, <2>3 DEF Moves
\* The other operations have nothing to do with codes.
<1>5. ASSUME NEW r \in Requests,
             ResendInvitation(r) \/ ForgotPassword(r) \/ SetPassword(r)
      PROVE  Bound'
  <2>1. PICK op, step, item :
            /\ op \in LinkOps \cup {"setPassword"} /\ step \in {"linking", "setting"}
            /\ Moves(r, op, step, item)
    BY <1>t, <1>5, Moved DEF ResendInvitation, ForgotPassword, SetPassword
  <2>2. account.state # "absent"
    BY <1>5 DEF ResendInvitation, MayResend, ForgotPassword, SetPassword, Suits
  <2>3. UNCHANGED <<account, code, cooldown>>
    BY <1>5 DEF ResendInvitation, ForgotPassword, SetPassword
  <2> QED
    BY <2>1, <2>2, <2>3 DEF Moves
<1> DEFINE Same == /\ account'.state = account.state
                   /\ account'.active = account.active
                   /\ account'.hasPassword = account.hasPassword
\* Calls that touch neither account, code nor cooldown, and lead neither to the step
\* that sets the cooldown nor to the one that deletes the code.
<1>6. ASSUME NEW r \in Requests, NEW op \in {task[r].op, "none"}, NEW step, NEW item,
             task[r] # Idle, Moves(r, op, step, item),
             step \notin {"cooling", "clearing"},
             code' = code, cooldown' => cooldown, Same
      PROVE  Bound'
  <2>1. account.state # "absent"
    BY <1>1, <1>6
  <2>2. Untouched'
    BY <2>1, <1>6
  <2>3. CodesHavePassword'
    BY <1>6 DEF Moves
  <2>4. ActiveHasPassword'
    BY <1>6
  <2>5. CodeBeforeCooldown'
    BY <1>6 DEF Moves
  <2> QED
    BY <2>2, <2>3, <2>4, <2>5
<1>7. ASSUME NEW r \in Requests,
             AskCooldown(r) \/ ClearCooldown(r) \/ CreateLink(r) \/ Queue(r) \/ Unmark(r)
               \/ LinkBreaks(r) \/ DropLink(r) \/ Mark(r) \/ Consume(r) \/ Fail(r)
      PROVE  Bound'
  <2>1. PICK op, step, item :
            /\ op \in {task[r].op, "none"}
            /\ step \in {"idle", "coding", "queueing"} \cup LinkSteps
            /\ Moves(r, op, step, item)
    <3>1. CASE End(r)
      BY <1>t, <3>1, Moved
    <3>2. CASE \E step \in {"coding"} \cup LinkSteps : GoTo(r, step)
      BY <1>t, <3>2, Moved
    <3>3. CASE CreateLink(r)
      <4>1. PICK l \in Links : Moves(r, task[r].op, "queueing", l)
        BY <1>t, <3>3, Moved DEF CreateLink
      <4> QED
        BY <4>1
    <3> QED
      BY <1>7, <3>1, <3>2, <3>3 DEF AskCooldown, ClearCooldown, Queue, Unmark, LinkBreaks,
         DropLink, Mark, Consume, Fail
  <2>2. task[r] # Idle
    BY <1>7 DEF AskCooldown, ClearCooldown, CreateLink, Queue, Unmark, LinkBreaks,
       DropLink, Mark, Consume, Fail, Idle
  <2>3. code' = code /\ (cooldown' => cooldown)
    BY <1>7 DEF AskCooldown, ClearCooldown, CreateLink, Queue, Unmark, LinkBreaks,
       DropLink, Mark, Consume, Fail
  <2>4. Same
    BY <1>t, <1>7 DEF AskCooldown, ClearCooldown, CreateLink, Queue, Unmark, LinkBreaks,
       DropLink, Mark, Consume, Fail, Accounts
  <2> QED
    BY <1>6, <2>1, <2>2, <2>3, <2>4
<1>8. ASSUME NEW r \in Requests, SetCode(r) PROVE Bound'
  <2>1. PICK c \in Codes : code' = c /\ Moves(r, task[r].op, "cooling", c)
    BY <1>t, <1>8, Moved DEF SetCode
  <2>2. code' # NoItem
    BY <2>1, OnboardingAssumption DEF OnboardingAssumption
  <2>3. task[r].op = "askForCode" /\ account.state # "absent"
    BY <1>1, <1>8 DEF SetCode, Staged, Idle
  <2>4. UNCHANGED <<account, cooldown>>
    BY <1>8 DEF SetCode
  <2> QED
    BY <2>1, <2>2, <2>3, <2>4 DEF Moves
<1>9. ASSUME NEW r \in Requests, SetCooldown(r) PROVE Bound'
  <2>1. Moves(r, task[r].op, "queueing", task[r].item)
    BY <1>t, <1>9, Moved DEF SetCooldown
  <2>2. task[r].step = "cooling" /\ account.state # "absent"
    BY <1>1, <1>9 DEF SetCooldown, Idle
  <2>3. UNCHANGED <<account, code>>
    BY <1>9 DEF SetCooldown
  <2> QED
    BY <2>1, <2>2, <2>3 DEF Moves
<1>10. ASSUME NEW r \in Requests, Activate(r) PROVE Bound'
  <2>1. account.hasPassword /\ account.state # "absent"
    BY <1>1, <1>10 DEF Activate, Staged, Idle
  <2>2. UNCHANGED <<code, cooldown>>
    BY <1>10 DEF Activate
  <2>3. CASE Exists
    <3>1. /\ account'.active /\ account'.state = account.state
          /\ account'.hasPassword = account.hasPassword
      BY <1>t, <1>10, <2>3 DEF Activate, Accounts
    <3>2. Moves(r, task[r].op, "clearing", task[r].item)
      BY <1>t, <1>10, <2>3, Moved DEF Activate
    <3> QED
      BY <2>1, <2>2, <3>1, <3>2 DEF Moves
  <2>4. CASE ~Exists
    <3>1. account' = account /\ Moves(r, "none", "idle", NoItem)
      BY <1>t, <1>10, <2>4, Moved DEF Activate
    <3> QED
      BY <2>1, <2>2, <3>1 DEF Moves
  <2> QED
    BY <2>3, <2>4
\* Only an account that is no longer pending loses its code.
<1>11. ASSUME NEW r \in Requests, ClearCode(r) PROVE Bound'
  <2>1. Moves(r, task[r].op, "thawing", task[r].item)
    BY <1>t, <1>11, Moved DEF ClearCode
  <2>2. ~Pending /\ account.state # "absent"
    BY <1>1, <1>11 DEF ClearCode, Idle
  <2>3. code' = NoItem /\ UNCHANGED <<account, cooldown>>
    BY <1>11 DEF ClearCode
  <2> QED
    BY <2>1, <2>2, <2>3 DEF Moves
<1>12. ASSUME NEW r \in Requests, UpdatePassword(r) PROVE Bound'
  <2>1. account.state # "absent" /\ UNCHANGED <<code, cooldown>>
    BY <1>1, <1>12 DEF UpdatePassword, Idle
  <2>2. PICK op, step, item :
            /\ op \in {task[r].op, "none"} /\ step \in {"idle", "consuming"}
            /\ Moves(r, op, step, item)
    BY <1>t, <1>12, Moved DEF UpdatePassword
  <2>3. CASE Exists
    <3>1. account'.active /\ account'.hasPassword /\ account'.state = account.state
      BY <1>t, <1>12, <2>3 DEF UpdatePassword, Accounts
    <3> QED
      BY <2>1, <2>2, <3>1 DEF Moves
  <2>4. CASE ~Exists
    <3>1. account' = account
      BY <1>12, <2>4 DEF UpdatePassword
    <3> QED
      BY <2>1, <2>2, <3>1 DEF Moves
  <2> QED
    BY <2>3, <2>4
<1>13. ASSUME NEW i \in Items, Work(i) PROVE Bound'
  <2>1. UNCHANGED <<code, cooldown, task>>
    BY <1>13 DEF Work, SendMail, UnmarkSent, MarkExhausted
  <2>2. Same
    BY <1>t, <1>13 DEF Work, SendMail, UnmarkSent, MarkExhausted, Accounts
  <2> QED
    BY <2>1, <2>2
<1>14. CASE CodeExpires
  BY <1>14 DEF CodeExpires, CodeMayExpire
<1>15. CASE CooldownExpires
  BY <1>15 DEF CooldownExpires
<1>16. CASE DeleteUser
  <2>1. /\ account'.state = "deleted" /\ account'.active = account.active
        /\ account'.hasPassword = account.hasPassword
    BY <1>t, <1>16 DEF DeleteUser, Accounts
  <2> QED
    BY <1>16, <2>1 DEF DeleteUser
<1>17. ASSUME NEW l \in Links, LinkExpires(l) PROVE Bound'
  BY <1>17 DEF LinkExpires
<1>18. CASE UNCHANGED vars
  BY <1>18 DEF vars
<1> QED
  BY <1>2, <1>3, <1>4, <1>5, <1>7, <1>8, <1>9, <1>10, <1>11, <1>12, <1>13, <1>14, <1>15,
     <1>16, <1>17, <1>18 DEF Next, Proceed

-----------------------------------------------------------------------------
(* Theorems.                                                               *)

LEMMA IInvInit == Init => IInv
<1> SUFFICES ASSUME Init PROVE IInv
  OBVIOUS
<1>1. Staged
  BY DEF Init, Idle, Staged, CodeSteps, LinkSteps, VerifySteps
<1>2. Untouched /\ CodesHavePassword /\ ActiveHasPassword /\ CodeBeforeCooldown
  BY DEF Init, Idle, Untouched, CodesHavePassword, CodeOps, ActiveHasPassword,
     CodeBeforeCooldown
<1> QED
  BY <1>1, <1>2, TypeInit DEF IInv

\* What the requests under way, the code and the cooldown have to do with the account:
\* the invariant that the safety properties need.
THEOREM Inductive == Spec => []IInv
<1>1. IInv /\ [Next]_vars => IInv'
  BY TypeStep, StagedStep, BoundStep DEF IInv, Bound
<1> QED
  BY <1>1, IInvInit, PTL DEF Spec

\* The variables keep their types: a job is retried within its attempts, and no call
\* leaves a link or a job in a state of another.
THEOREM TypeCorrect == Spec => []TypeOK
<1>1. IInv => TypeOK
  BY DEF IInv
<1> QED
  BY <1>1, Inductive, PTL

\* No order of registration, invitation, codes and links, of any number of requests,
\* activates an account that has no password.
THEOREM ActivationNeedsPassword == Spec => []ActiveHasPassword
<1>1. IInv => ActiveHasPassword
  BY DEF IInv
<1> QED
  BY <1>1, Inductive, PTL

\* While the cooldown of a pending account lasts some code is stored for it, mailed or not,
\* for any number of requests that set, use and delete codes together.
THEOREM WaitingHasCode == Spec => []AskedToWaitHasACode
<1>1. IInv => AskedToWaitHasACode
  BY DEF IInv, CodeBeforeCooldown, AskedToWaitHasACode
<1> QED
  BY <1>1, Inductive, PTL

=============================================================================
