-------------------------- MODULE AttachmentServer --------------------------
(***************************************************************************)
(* The attachments of Attachments inside the process of ServerLifecycle:   *)
(* requests are taken only while the server listens, a handler runs on     *)
(* when its client leaves, and the end of the process, graceful or not,    *)
(* cuts every handler off at the await it stands at.                       *)
(***************************************************************************)
EXTENDS Attachments

CONSTANT MaxRetries

VARIABLES boot, attempt, closing, timer, resources, exitCode, open, job

Server == INSTANCE ServerLifecycle WITH running <- Busy

ASSUME ServerAssumption == Server!LifecycleAssumption

serverVars == <<boot, attempt, closing, timer, resources, exitCode, open, job>>
systemVars == <<vars, serverVars>>

SystemInit == Init /\ Server!Init

\* A new request is a connection and the handler's first step.
Serve(r) == Begin(r) /\ Server!Accept(r)

\* A handler's step; the last one answers.
Handle(r) ==
    /\ Goes(r)
    /\ IF r \in Busy' THEN UNCHANGED serverVars ELSE Server!Respond(r)

\* The deletion of a conversation and the end of an upload are requests of one step here.
Write ==
    /\ \E c \in Conversations : DeleteConversation(c)
    /\ boot = "listening"
    /\ closing \in {"no", "http"}
    /\ UNCHANGED serverVars

Store ==
    /\ \E u \in Uploads : Upload(u)
    /\ boot = "listening"
    /\ closing \in {"no", "http"}
    /\ UNCHANGED serverVars

\* Who may find a removal unfinished after the exit: everybody after a forced one, and
\* only who left before after a graceful one.
Torn(code) == IF code = "success" THEN Requests \ open ELSE Requests

\* The process ends, or a step of it leaves the handlers alone.
Process ==
    \/ /\ Server!Alive
       /\ \E code \in {"success", "failure"} :
             /\ CutOff(Torn(code))
             /\ Server!Dies
             /\ exitCode' = code
    \/ /\ UNCHANGED vars
       /\ Server!Dies \/ Server!Proceeds \/ Server!Works
       /\ exitCode' = "none"
    \/ \E r \in Requests : UNCHANGED vars /\ Server!ClientLeaves(r)

SystemNext ==
    \/ \E r \in Requests : Serve(r) \/ Handle(r)
    \/ Write \/ Store
    \/ Process

SystemSpec == SystemInit /\ [][SystemNext]_systemVars /\ Server!Fairness

-----------------------------------------------------------------------------

SystemTypeOK == TypeOK /\ Server!TypeOK

(* While a handler has a client that waits, or the worker a job, the stores *)
(* they use are open, from the first request to the end of the shutdown     *)
(* (server.ts:35-46 and 87-102).                                            *)
StoresOutliveWork == Server!WorkHasItsStores

(* A start comes to listen or the process exits, and a shutdown that has    *)
(* begun ends the process, whatever handlers, clients and stores do         *)
(* (server.ts:31-46, 82-85, database/db.ts, config/redis.ts).               *)
ServerDecides == Server!StartDecides /\ Server!ShutdownEnds

=============================================================================
