-------------------------- MODULE ServerLifecycle --------------------------
(***************************************************************************)
(* One life of the server process after another (server.ts): start()       *)
(* connects the stores, seeds and listens; a signal, an uncaught exception *)
(* or an unhandled rejection starts shutdown(), which closes the listener, *)
(* the worker, the queue and the stores one after the other, under a timer *)
(* that exits by force.  The two are coroutines of one process, and either *)
(* may end it.                                                             *)
(*                                                                         *)
(* Requests and jobs are what the stores are open for.  A handler whose    *)
(* client has left keeps running, and nothing waits for it.  A step is one *)
(* awaited call.  The seeders are one step here, AdminGuard opens it up;   *)
(* the jobs the worker runs beside each other are one.                     *)
(***************************************************************************)
EXTENDS FiniteSets, Naturals

CONSTANTS
    Requests,    \* the requests that may be under way together
    MaxRetries   \* POSTGRES_MAX_RETRIES

LifecycleAssumption == MaxRetries \in Nat \ {0}

VARIABLES
    boot,        \* the await at which start() stands, "listening" once it is through
    attempt,     \* the attempt of connectDB
    closing,     \* the await at which shutdown() stands, "no" before it is called
    timer,       \* whether the timer of the forced exit is armed
    resources,   \* what the process holds open
    exitCode,    \* "none" while the process lives
    open,        \* the requests whose connection is open
    running,     \* the requests whose handler has not ended
    job          \* whether the worker is at a job

process == <<boot, attempt, closing, timer, resources, exitCode>>
vars == <<process, open, running, job>>

Booting == {"database", "redis", "worker", "seeding", "binding"}
Closing == {"http", "worker", "queue", "redis", "database"}
Resources == {"database", "redis", "queue", "worker"}

Init ==
    /\ boot = "database"
    /\ attempt = 1
    /\ closing = "no"
    /\ timer = FALSE
    /\ resources = {}
    /\ exitCode = "none"
    /\ open = {}
    /\ running = {}
    /\ job = FALSE

Alive == exitCode = "none"

\* process.exit: whatever is under way is gone.
Exit(code) ==
    /\ exitCode' = code
    /\ boot' = "database"
    /\ attempt' = 1
    /\ closing' = "no"
    /\ timer' = FALSE
    /\ resources' = {}
    /\ open' = {}
    /\ running' = {}
    /\ job' = FALSE

-----------------------------------------------------------------------------
(* start().                                                                *)

\* One await of start() ends well: it holds what it opened and goes on to the next.
Advance(from, to, opened) ==
    /\ Alive
    /\ boot = from
    /\ boot' = to
    /\ resources' = resources \cup opened
    /\ UNCHANGED <<attempt, closing, timer, exitCode, open, running, job>>

ConnectDatabase == Advance("database", "redis", {"database"})

LastAttemptMutant == attempt > MaxRetries

LastAttempt == attempt = MaxRetries

\* connectDB waits and tries again, and throws what its last attempt threw.
DatabaseRefuses ==
    /\ Alive
    /\ boot = "database"
    /\ IF LastAttempt
       THEN Exit("failure")
       ELSE /\ attempt' = attempt + 1
            /\ UNCHANGED <<boot, closing, timer, resources, exitCode, open, running, job>>

\* "ready" wins the race of waitUntilRedisReady, and the queue is made without an await.
RedisReady == Advance("redis", "worker", {"redis", "queue"})

\* The dynamic import makes the worker, which takes jobs from here on.
StartWorker == Advance("worker", "seeding", {"worker"})

Seed == Advance("seeding", "binding", {})

Listen == Advance("binding", "listening", {})

\* The timer wins the race of waitUntilRedisReady.
RedisTimesOut ==
    /\ Alive
    /\ boot = "redis"
    /\ Exit("failure")

\* The import or a seeder throws, or the port is taken.
StartFails ==
    /\ Alive
    /\ boot \in {"worker", "seeding", "binding"}
    /\ Exit("failure")

-----------------------------------------------------------------------------
(* shutdown().                                                             *)

\* Any signal after the first finds isShuttingDown.  httpServer.close refuses at once
\* unless the server listens, and the catch block exits.
Shutdown ==
    /\ Alive
    /\ closing = "no"
    /\ IF boot = "listening"
       THEN /\ closing' = "http"
            /\ timer' = TRUE
            /\ UNCHANGED <<boot, attempt, resources, exitCode, open, running, job>>
       ELSE Exit("failure")

\* One await of shutdown() ends well.
Retire(from, to, closed) ==
    /\ Alive
    /\ closing = from
    /\ closing' = to
    /\ resources' = resources \ closed
    /\ UNCHANGED <<boot, attempt, timer, exitCode, open, running, job>>

DrainedMutant == TRUE

\* httpServer.close calls back when the last connection is gone.
Drained == open = {}

HttpCloses == Drained /\ Retire("http", "worker", {})

\* Worker.close waits for the jobs under way.
WorkerIsIdle == ~job

WorkerCloses == WorkerIsIdle /\ Retire("worker", "queue", {"worker"})

QueueCloses == Retire("queue", "redis", {"queue"})

RedisQuits == Retire("redis", "database", {"redis"})

PrismaDisconnects ==
    /\ Alive
    /\ closing = "database"
    /\ Exit("success")

\* The catch block: Redis or the database answered with an error.
CloseFails ==
    /\ Alive
    /\ closing \in Closing \ {"http"}
    /\ Exit("failure")

TimerArmedMutant == timer /\ closing = "http"

TimerArmed == timer

ForceExit ==
    /\ Alive
    /\ TimerArmed
    /\ Exit("failure")

-----------------------------------------------------------------------------
(* The process from outside, and the work in it.                           *)

\* The process is killed or the machine goes down.
Kill ==
    /\ Alive
    /\ Exit("failure")

\* Somebody starts the server again.
Restart ==
    /\ ~Alive
    /\ exitCode' = "none"
    /\ UNCHANGED <<boot, attempt, closing, timer, resources, open, running, job>>

Accept(r) ==
    /\ Alive
    /\ boot = "listening"
    /\ closing = "no"
    /\ r \notin running
    /\ open' = open \cup {r}
    /\ running' = running \cup {r}
    /\ UNCHANGED <<process, job>>

\* The handler answers and returns.
Respond(r) ==
    /\ r \in running
    /\ open' = open \ {r}
    /\ running' = running \ {r}
    /\ UNCHANGED <<process, job>>

\* The connection ends while the handler is still running.
ClientLeaves(r) ==
    /\ r \in open
    /\ open' = open \ {r}
    /\ UNCHANGED <<process, running, job>>

\* A closing worker takes no further job.
StartJob ==
    /\ Alive
    /\ "worker" \in resources
    /\ closing \in {"no", "http"}
    /\ ~job
    /\ job' = TRUE
    /\ UNCHANGED <<process, open, running>>

EndJob ==
    /\ job
    /\ job' = FALSE
    /\ UNCHANGED <<process, open, running>>

\* The steps that may end the process.
Dies ==
    \/ DatabaseRefuses \/ RedisTimesOut \/ StartFails
    \/ Shutdown \/ PrismaDisconnects \/ CloseFails \/ ForceExit
    \/ Kill

\* The steps of start() and shutdown() that leave requests and jobs alone.
Proceeds ==
    \/ ConnectDatabase \/ RedisReady \/ StartWorker \/ Seed \/ Listen
    \/ HttpCloses \/ WorkerCloses \/ QueueCloses \/ RedisQuits
    \/ Restart

Works == StartJob \/ EndJob

Next ==
    \/ Dies \/ Proceeds \/ Works
    \/ \E r \in Requests : Accept(r) \/ Respond(r) \/ ClientLeaves(r)

\* connectDB gets an answer from the database, the timer of waitUntilRedisReady fires, the
\* seeders return or throw, the port is bound or refused; and the timer of the forced exit fires.
\* Nothing is assumed of clients, of handlers, or of a store that closes.
Fairness ==
    /\ WF_vars(ConnectDatabase \/ DatabaseRefuses)
    /\ WF_vars(RedisTimesOut)
    /\ WF_vars(StartWorker \/ Seed \/ Listen \/ StartFails)
    /\ WF_vars(ForceExit)

Spec == Init /\ [][Next]_vars

FairSpec == Spec /\ Fairness

-----------------------------------------------------------------------------

TypeOK ==
    /\ boot \in Booting \cup {"listening"}
    /\ attempt \in 1..MaxRetries
    /\ closing \in Closing \cup {"no"}
    /\ timer \in BOOLEAN
    /\ resources \subseteq Resources
    /\ exitCode \in {"none", "success", "failure"}
    /\ open \subseteq running
    /\ running \subseteq Requests
    /\ job \in BOOLEAN

(* A request whose client still waits, and a job of the worker, have both  *)
(* stores and the queue: start() opens them before the first request, and  *)
(* shutdown() closes them after the last (server.ts:35-46, 87-102).        *)
WorkHasItsStores ==
    /\ open # {} => {"database", "redis", "queue"} \subseteq resources
    /\ job => {"database", "redis", "queue"} \subseteq resources

(* A shutdown that has begun ends the process, whatever hangs              *)
(* (server.ts:82-85).                                                      *)
ShutdownEnds == closing # "no" ~> ~Alive

(* A start comes to an end: the server listens, or the process exits       *)
(* (server.ts:31-46, database/db.ts, config/redis.ts).                     *)
StartDecides == (Alive /\ boot # "listening") ~> (boot = "listening" \/ ~Alive)

=============================================================================
