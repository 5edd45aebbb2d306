----------------------------- MODULE Onboarding -----------------------------
(***************************************************************************)
(* How one account comes to be active: by a code mailed to who registers,  *)
(* or by a link mailed to who is invited; and the link of a forgotten      *)
(* password, which shares their code.  services/auth.service.ts,           *)
(* account-link.service.ts, password-setup.service.ts, user.service.ts and *)
(* the queue and worker of queues/.                                        *)
(*                                                                         *)
(* Codes and links are distinct secrets, each mailed by at most one job.   *)
(* A client knows what its inbox holds.  One action per awaited call;      *)
(* reads that follow each other are one.  A request may break off at any   *)
(* await; a job that fails is tried again, Attempts times in all.          *)
(***************************************************************************)
EXTENDS Naturals

CONSTANTS
    Requests,   \* the requests that may be under way together
    Codes,      \* the codes that may be generated (a bound)
    Links,      \* the links that may be generated (a bound)
    NoItem,
    Attempts,   \* defaultJobOptions.attempts
    Failures    \* whether calls fail and processes die; links expire in any case

ASSUME OnboardingAssumption ==
    /\ Codes \cap Links = {} /\ NoItem \notin Codes \cup Links
    /\ Attempts \in Nat \ {0}
    /\ Failures \in BOOLEAN

VARIABLES
    account,   \* the row of the account: its state, hasPassword, active, failed
    code,      \* auth:otp:<email>, NoItem without it
    cooldown,  \* whether auth:otp:cooldown:<email> is there
    link,      \* link[l]: "unused", "INVITATION", "FORGOT_PASSWORD" or "gone"
    job,       \* job[i]: the job that mails i: its state, its kind and the attempts made
    inbox,     \* the codes and links that were delivered
    task       \* task[r]: the request r, its next call, its code or link

vars == <<account, code, cooldown, link, job, inbox, task>>

Items == Codes \cup Links

Idle == [op |-> "none", step |-> "idle", item |-> NoItem]

Init ==
    /\ account = [state |-> "absent", hasPassword |-> FALSE, active |-> FALSE, failed |-> FALSE]
    /\ code = NoItem
    /\ cooldown = FALSE
    /\ link = [l \in Links |-> "unused"]
    /\ job = [i \in Items |-> [state |-> "none", kind |-> "none", attempts |-> 0]]
    /\ inbox = {}
    /\ task = [r \in Requests |-> Idle]

Exists == account.state = "exists"

Pending == Exists /\ ~account.active

GoTo(r, step) == task' = [task EXCEPT ![r].step = step]

End(r) == task' = [task EXCEPT ![r] = Idle]

Begin(r, op, step, item) ==
    /\ task[r] = Idle
    /\ task' = [task EXCEPT ![r] = [op |-> op, step |-> step, item |-> item]]

\* A code or a link nobody has seen yet.
Fresh(i) ==
    /\ job[i].state = "none" /\ i # code
    /\ \A r \in Requests : task[r].item # i
    /\ i \in Links => link[i] = "unused"

-----------------------------------------------------------------------------
(* The mail of a code: sendVerificationOtp and what leads to it.  The      *)
(* operators named ...Mutant are faulty variants of the operator that      *)
(* follows them; no specification uses them.                               *)

\* registerUser: the transaction that creates the account, with a password.
Register(r) ==
    /\ account.state = "absent"
    /\ account' = [account EXCEPT !.state = "exists", !.hasPassword = TRUE]
    /\ Begin(r, "askForCode", "asking", NoItem)
    /\ UNCHANGED <<code, cooldown, link, job, inbox>>

MayAskForCodeMutant == Pending

\* resendOtp, and loginUser with the right password: invited accounts are refused.
MayAskForCode == Pending /\ account.hasPassword

AskForCode(r) ==
    /\ MayAskForCode
    /\ Begin(r, "askForCode", "asking", NoItem)
    /\ UNCHANGED <<account, code, cooldown, link, job, inbox>>

\* During the cooldown nothing is sent.
AskCooldown(r) ==
    /\ task[r].step = "asking"
    /\ IF cooldown THEN End(r) ELSE GoTo(r, "coding")
    /\ UNCHANGED <<account, code, cooldown, link, job, inbox>>

SetCode(r) ==
    /\ task[r].step = "coding"
    /\ \E c \in Codes :
          /\ Fresh(c)
          /\ code' = c
          /\ task' = [task EXCEPT ![r].item = c, ![r].step = "cooling"]
    /\ UNCHANGED <<account, cooldown, link, job, inbox>>

SetCooldown(r) ==
    /\ task[r].step = "cooling"
    /\ cooldown' = TRUE
    /\ GoTo(r, "queueing")
    /\ UNCHANGED <<account, code, link, job, inbox>>

-----------------------------------------------------------------------------
(* verifyOtp.                                                              *)

\* The code of the client is the one that is stored.
Verify(r) ==
    /\ code \in inbox
    /\ Begin(r, "verify", "activating", code)
    /\ UNCHANGED <<account, code, cooldown, link, job, inbox>>

\* activateUser throws when the account is gone.
Activate(r) ==
    /\ task[r].step = "activating"
    /\ IF Exists
       THEN account' = [account EXCEPT !.active = TRUE] /\ GoTo(r, "clearing")
       ELSE End(r) /\ UNCHANGED account
    /\ UNCHANGED <<code, cooldown, link, job, inbox>>

\* The key is deleted by its name, whatever code it holds by now.
ClearCode(r) ==
    /\ task[r].step = "clearing"
    /\ code' = NoItem
    /\ GoTo(r, "thawing")
    /\ UNCHANGED <<account, cooldown, link, job, inbox>>

ClearCooldown(r) ==
    /\ task[r].step = "thawing"
    /\ cooldown' = FALSE
    /\ End(r)
    /\ UNCHANGED <<account, code, link, job, inbox>>

-----------------------------------------------------------------------------
(* The mail of a link: sendAccountLink and what leads to it.               *)

\* createUser: the account has no password.
Invite(r) ==
    /\ account.state = "absent"
    /\ account' = [account EXCEPT !.state = "exists"]
    /\ Begin(r, "INVITATION", "linking", NoItem)
    /\ UNCHANGED <<code, cooldown, link, job, inbox>>

\* resendInvitation asks for the mark of a failed mail and for nothing else.
MayResend == Exists /\ account.failed

ResendInvitation(r) ==
    /\ MayResend
    /\ Begin(r, "INVITATION", "linking", NoItem)
    /\ UNCHANGED <<account, code, cooldown, link, job, inbox>>

ForgotPassword(r) ==
    /\ Exists /\ account.active /\ account.hasPassword
    /\ Begin(r, "FORGOT_PASSWORD", "linking", NoItem)
    /\ UNCHANGED <<account, code, cooldown, link, job, inbox>>

CreateLink(r) ==
    /\ task[r].step = "linking"
    /\ \E l \in Links :
          /\ Fresh(l)
          /\ link' = [link EXCEPT ![l] = task[r].op]
          /\ task' = [task EXCEPT ![r].item = l, ![r].step = "queueing"]
    /\ UNCHANGED <<account, code, cooldown, job, inbox>>

Queued(r) ==
    [job EXCEPT ![task[r].item].state = "waiting", ![task[r].item].kind = task[r].op]

\* getEmailQueue().add; an invitation then removes the mark of a failed mail.
Queue(r) ==
    /\ task[r].step = "queueing"
    /\ job' = Queued(r)
    /\ IF task[r].op = "INVITATION" THEN GoTo(r, "unmarking") ELSE End(r)
    /\ UNCHANGED <<account, code, cooldown, link, inbox>>

Unmark(r) ==
    /\ task[r].step = "unmarking"
    /\ Exists
    /\ account' = [account EXCEPT !.failed = FALSE]
    /\ End(r)
    /\ UNCHANGED <<code, cooldown, link, job, inbox>>

\* The catch block starts: creating the link, queueing the mail or removing the mark
\* threw.  A call that threw may have had its effect; a link that was not returned is
\* known to nobody.
LinkBreaks(r) ==
    /\ \/ Failures /\ task[r].item \notin Codes /\ task[r].step \in {"linking", "queueing"}
       \/ task[r].step = "unmarking" /\ (Failures \/ ~Exists)
    /\ IF task[r].item # NoItem THEN GoTo(r, "dropping")
       ELSE IF task[r].op = "INVITATION" THEN GoTo(r, "marking")
       ELSE End(r)
    /\ IF task[r].step = "queueing" THEN job' \in {job, Queued(r)} ELSE UNCHANGED job
    /\ IF task[r].step = "unmarking" /\ Exists
       THEN account' \in {account, [account EXCEPT !.failed = FALSE]}
       ELSE UNCHANGED account
    /\ UNCHANGED <<code, cooldown, link, inbox>>

\* consumeToken, whose own error is swallowed.
DropLink(r) ==
    /\ task[r].step = "dropping"
    /\ \/ link' = [link EXCEPT ![task[r].item] = "gone"]
       \/ Failures /\ UNCHANGED link
    /\ IF task[r].op = "INVITATION" THEN GoTo(r, "marking") ELSE End(r)
    /\ UNCHANGED <<account, code, cooldown, job, inbox>>

\* Marking an account that is gone throws, and the request fails.
Mark(r) ==
    /\ task[r].step = "marking"
    /\ IF Exists THEN account' = [account EXCEPT !.failed = TRUE] ELSE UNCHANGED account
    /\ End(r)
    /\ UNCHANGED <<code, cooldown, link, job, inbox>>

-----------------------------------------------------------------------------
(* setPasswordByToken.                                                     *)

\* An invitation is for an account that is not active, a forgotten password for one that is.
Suits(purpose) ==
    /\ Exists
    /\ IF purpose = "INVITATION" THEN ~account.active
       ELSE account.active /\ account.hasPassword

SetPassword(r) ==
    /\ \E l \in inbox \cap Links :
          /\ link[l] \in {"INVITATION", "FORGOT_PASSWORD"}
          /\ Suits(link[l])
          /\ Begin(r, "setPassword", "setting", l)
    /\ UNCHANGED <<account, code, cooldown, link, job, inbox>>

\* updatePasswordAndSession.
UpdatePassword(r) ==
    /\ task[r].step = "setting"
    /\ IF Exists
       THEN /\ account' = [account EXCEPT !.hasPassword = TRUE, !.active = TRUE,
                                          !.failed = FALSE]
            /\ GoTo(r, "consuming")
       ELSE End(r) /\ UNCHANGED account
    /\ UNCHANGED <<code, cooldown, link, job, inbox>>

Consume(r) ==
    /\ task[r].step = "consuming"
    /\ link' = [link EXCEPT ![task[r].item] = "gone"]
    /\ End(r)
    /\ UNCHANGED <<account, code, cooldown, job, inbox>>

\* An await outside the try block of sendAccountLink throws, or the process dies.
Fail(r) ==
    /\ Failures
    /\ task[r] # Idle
    /\ End(r)
    /\ UNCHANGED <<account, code, cooldown, link, job, inbox>>

-----------------------------------------------------------------------------
(* The worker; jobs run beside each other.                                 *)

RetriedMutant(made) == made <= Attempts

\* Whether the queue tries a job again that has been tried so often.
Retried(made) == made < Attempts

ExhaustedMutant(made) == made > Attempts

\* hasExhaustedAttempts of the failed listener.
Exhausted(made) == made >= Attempts

\* What an attempt that fails leaves: another attempt, or the failed listener, which
\* cares for invitations only.
Failed(i) ==
    LET made == job[i].attempts + 1
        reported == job[i].kind = "INVITATION" /\ Exhausted(made)
    IN  IF Retried(made)
        THEN [job[i] EXCEPT !.state = "waiting", !.attempts = made]
        ELSE [job[i] EXCEPT !.state = IF reported THEN "exhausted" ELSE "dropped",
                            !.attempts = 0]

\* The worker takes a job; its mail goes out or not, and the call that sends it returns
\* or throws.
SendMail(i) ==
    /\ job[i].state = "waiting"
    /\ \/ /\ inbox' = inbox \cup {i}
          /\ job' = [job EXCEPT ![i].state = IF job[i].kind = "INVITATION"
                                                 THEN "unmarking" ELSE "sent"]
       \/ /\ Failures
          /\ inbox' \in {inbox, inbox \cup {i}}
          /\ job' = [job EXCEPT ![i] = Failed(i)]
    /\ UNCHANGED <<account, code, cooldown, link, task>>

\* The mark of a failed invitation is removed; when that throws the mail is sent again.
UnmarkSent(i) ==
    /\ job[i].state = "unmarking"
    /\ \/ /\ Exists
          /\ account' = [account EXCEPT !.failed = FALSE]
          /\ job' = [job EXCEPT ![i].state = "sent"]
       \/ /\ Failures \/ ~Exists
          /\ job' = [job EXCEPT ![i] = Failed(i)]
          /\ account' \in {account, [account EXCEPT !.failed = @ /\ ~Exists]}
    /\ UNCHANGED <<code, cooldown, link, inbox, task>>

\* The failed listener after the last attempt; its own error is only logged.
MarkExhausted(i) ==
    /\ job[i].state = "exhausted"
    /\ \/ /\ Exists
          /\ account' = [account EXCEPT !.failed = TRUE]
          /\ job' = [job EXCEPT ![i].state = "reported"]
       \/ /\ Failures \/ ~Exists
          /\ job' = [job EXCEPT ![i].state = "unreported"]
          /\ UNCHANGED account
    /\ UNCHANGED <<code, cooldown, link, inbox, task>>

-----------------------------------------------------------------------------
(* Time, and the administrator.                                            *)

CodeMayExpireMutant == TRUE

\* The code is stored for 300 seconds, the cooldown that follows it for 60: the code
\* outlives it, as no call takes four minutes.
CodeMayExpire == ~cooldown /\ \A r \in Requests : task[r].step # "cooling"

CodeExpires ==
    /\ code # NoItem /\ CodeMayExpire
    /\ code' = NoItem
    /\ UNCHANGED <<account, cooldown, link, job, inbox, task>>

CooldownExpires ==
    /\ cooldown
    /\ cooldown' = FALSE
    /\ UNCHANGED <<account, code, link, job, inbox, task>>

LinkExpires(l) ==
    /\ link[l] \in {"INVITATION", "FORGOT_PASSWORD"}
    /\ link' = [link EXCEPT ![l] = "gone"]
    /\ UNCHANGED <<account, code, cooldown, job, inbox, task>>

DeleteUser ==
    /\ Exists
    /\ account' = [account EXCEPT !.state = "deleted"]
    /\ UNCHANGED <<code, cooldown, link, job, inbox, task>>

Proceed(r) ==
    \/ AskCooldown(r) \/ SetCode(r) \/ SetCooldown(r) \/ Queue(r)
    \/ Activate(r) \/ ClearCode(r) \/ ClearCooldown(r)
    \/ CreateLink(r) \/ Unmark(r) \/ LinkBreaks(r) \/ DropLink(r) \/ Mark(r)
    \/ UpdatePassword(r) \/ Consume(r)

Work(i) == SendMail(i) \/ UnmarkSent(i) \/ MarkExhausted(i)

Next ==
    \/ \E r \in Requests :
          \/ Register(r) \/ AskForCode(r)
          \/ Verify(r) \/ Invite(r) \/ ResendInvitation(r) \/ ForgotPassword(r)
          \/ SetPassword(r) \/ Proceed(r) \/ Fail(r)
    \/ \E i \in Items : Work(i)
    \/ CodeExpires \/ CooldownExpires \/ DeleteUser
    \/ \E l \in Links : LinkExpires(l)

Spec == Init /\ [][Next]_vars

\* The worker takes what is queued, and its calls return or throw.
FairSpec == Spec /\ \A i \in Items : WF_vars(Work(i))

-----------------------------------------------------------------------------
(* Properties.                                                             *)

JobsOver == {"none", "sent", "dropped", "reported", "unreported"}

\* Every variable has its type.
TypeOK ==
    /\ account \in [state : {"absent", "exists", "deleted"}, hasPassword : BOOLEAN,
                     active : BOOLEAN, failed : BOOLEAN]
    /\ code \in Codes \cup {NoItem}
    /\ cooldown \in BOOLEAN
    /\ link \in [Links -> {"unused", "INVITATION", "FORGOT_PASSWORD", "gone"}]
    /\ job \in [Items -> [state : JobsOver \cup {"waiting", "unmarking", "exhausted"},
                          kind : {"none", "askForCode", "INVITATION", "FORGOT_PASSWORD"},
                          attempts : 0 .. Attempts - 1]]
    /\ inbox \subseteq Items
    /\ task \in [Requests ->
          [op : {"none", "askForCode", "verify", "INVITATION", "FORGOT_PASSWORD", "setPassword"},
           step : {"idle", "asking", "coding", "cooling", "queueing", "activating",
                   "clearing", "thawing", "linking", "unmarking", "dropping", "marking",
                   "setting", "consuming"},
           item : Items \cup {NoItem}]]

\* Whoever is active can log in: no order of registration, invitation, codes and links
\* activates an account that has no password.
ActiveHasPassword == account.active => account.hasPassword

\* While the cooldown turns requests for a code away, some code of the account is stored
\* and has neither expired nor been deleted, unless the account is active by then.  It is
\* not said that the user was sent that code: the cooldown is set before the mail is
\* queued, and a mail may fail (auth.service.ts:80-98).
AskedToWaitHasACode == cooldown /\ Pending => code # NoItem

\* Every invitation that is queued is either mailed or, after the last attempt, put
\* before the failed listener, which reports it on the account or logs that it cannot.
InvitationIsDecided ==
    \A l \in Links :
        job[l].state = "waiting" /\ job[l].kind = "INVITATION"
            ~> job[l].state \in {"sent", "reported", "unreported"}

\* Once nothing is under way an invited account that is still pending has a link that
\* works, or may be sent another.
PendingCanBeInvited ==
    /\ Pending /\ ~account.hasPassword
    /\ \A r \in Requests : task[r] = Idle
    /\ \A i \in Items : job[i].state \in JobsOver
    => MayResend \/ \E l \in inbox \cap Links : link[l] = "INVITATION"

=============================================================================
