------------------------------ MODULE Service ------------------------------
(***************************************************************************)
(* The life of the processes: each applies the schema, in a transaction     *)
(* under an advisory lock, then starts its tasks, and at shutdown cancels   *)
(* and awaits them before it closes its connections.  The tasks of one      *)
(* process, Self, are modelled as the callers of its rate limiter.          *)
(* (A process without auto_migrate has no part in the start-up.)            *)
(***************************************************************************)
EXTENDS RateLimiter

CONSTANTS
  Processes,  \* those that serve with auto_migrate, and "migrate" commands
  Commands,   \* the latter
  Self        \* one that serves, in the role push or all

ASSUME ServiceAssumption == Commands \subseteq Processes /\ Self \in Processes \ Commands

VARIABLES
  stage,   \* where a process is: see Stages
  schema,  \* the schema is committed
  tasks    \* the tasks of Self that have not ended

service == <<stage, schema, tasks, limiter>>

Stages ==
  { "down",
    "locking",   \* waits in pg_advisory_xact_lock
    "creating",  \* runs the script, having found no schema
    "checking",  \* runs the script, having found the schema
    "failed",    \* the script has raised
    "serving",
    "stopping",  \* has cancelled its tasks, and awaits them
    "closed" }   \* has closed its connections

Init ==
  /\ stage = [p \in Processes |-> "down"]
  /\ schema = FALSE /\ tasks = {}
  /\ LimiterInit

Enter(p, label) == stage' = [stage EXCEPT ![p] = label]

\* The process ends, and its memory with it.
End(p) ==
  /\ Enter(p, "down")
  /\ IF p = Self THEN tasks' = {} /\ LimiterEnds
       ELSE UNCHANGED <<tasks, limiter>>
  /\ UNCHANGED schema

Boot(p) ==
  /\ stage[p] = "down"
  /\ Enter(p, "locking")
  /\ UNCHANGED <<schema, tasks, limiter>>

\* Mutant: no advisory lock.
MutLockFree == TRUE

\* Mutant: a session-level lock, held as long as the pooled connection lives.
MutSessionLock ==
  \A q \in Processes : stage[q] \notin {"creating", "checking", "serving"}

\* The lock is held until its transaction ends.
LockFree == \A q \in Processes : stage[q] \notin {"creating", "checking"}

Lock(p) ==
  /\ stage[p] = "locking" /\ LockFree
  /\ Enter(p, IF schema THEN "checking" ELSE "creating")
  /\ UNCHANGED <<schema, tasks, limiter>>

\* CREATE TABLE IF NOT EXISTS raises if the table was not there when it began,
\* but another transaction has committed it since.
Clash(p) == stage[p] = "creating" /\ schema

\* The script is done and committed: the tasks start, or the command is over.
Migrate(p) ==
  /\ stage[p] \in {"creating", "checking"}
  /\ Enter(p, IF Clash(p) THEN "failed"
              ELSE IF p \in Commands THEN "closed" ELSE "serving")
  /\ tasks' = IF p = Self /\ ~Clash(p) THEN Callers ELSE tasks
  /\ schema' = TRUE
  /\ UNCHANGED limiter

\* SIGTERM: every task is cancelled.
Shutdown(p) ==
  /\ stage[p] = "serving"
  /\ Enter(p, "stopping")
  /\ UNCHANGED <<schema, tasks, limiter>>

\* Mutant: a task that waits in acquire survives its cancellation.
MutCancellable(c) == c \in tasks \ Waiting

\* CancelledError passes every except clause.
Cancellable(c) == c \in tasks

\* The CancelledError arrives, wherever the task is.
TaskEnds(c) ==
  /\ stage[Self] = "stopping" /\ Cancellable(c)
  /\ tasks' = tasks \ {c}
  /\ IF c \in Waiting THEN CancelCall(c) ELSE UNCHANGED limiter
  /\ UNCHANGED <<stage, schema>>

\* Mutant: the tasks are cancelled, but not awaited.
MutAwaited(p) == TRUE

Awaited(p) == p = Self => tasks = {}

\* Redis and database connections are closed.
Close(p) ==
  /\ stage[p] = "stopping" /\ Awaited(p)
  /\ Enter(p, "closed")
  /\ UNCHANGED <<schema, tasks, limiter>>

Exit(p) == stage[p] \in {"closed", "failed"} /\ End(p)

\* The process is killed; a transaction of its is rolled back.
Crash(p) == stage[p] # "down" /\ End(p)

Sending ==
  /\ stage[Self] = "serving"
  /\ Refill \/ Tick \/ \E c \in tasks : Acquire(c)
  /\ UNCHANGED <<stage, schema, tasks>>

Next ==
  \/ \E p \in Processes :
       Boot(p) \/ Lock(p) \/ Migrate(p) \/ Shutdown(p) \/ Close(p) \/ Exit(p)
       \/ Crash(p)
  \/ \E c \in Callers : TaskEnds(c)
  \/ Sending

Spec == Init /\ [][Next]_service

\* Statements and tasks proceed, PostgreSQL queues those who wait for a lock,
\* and time passes.  Nobody has to start, stop or crash.
Fairness ==
  /\ \A p \in Processes :
       SF_service(Lock(p)) /\ WF_service(Migrate(p) \/ Close(p) \/ Exit(p))
  /\ WF_service(\E c \in Callers : TaskEnds(c))
  /\ WF_service(Refill /\ Sending) /\ WF_service(Tick /\ Sending)

FairSpec == Spec /\ Fairness

-----------------------------------------------------------------------------
(* Properties. *)

\* Types; tasks live in a process whose connections are open, and only tasks
\* that live hold or await the limiter's lock.
TypeOK ==
  /\ stage \in [Processes -> Stages]
  /\ schema \in BOOLEAN
  /\ tasks \subseteq Callers
  /\ tasks # {} => stage[Self] \in {"serving", "stopping"}
  /\ LimiterTypeOK
  /\ Waiting \subseteq tasks

\* Replicas that start together, before there is a schema, never make each
\* other fail (apply_schema).
NoStartFails == \A p \in Processes : stage[p] # "failed"

\* Everybody who waits to apply the schema gets to, also next to replicas that
\* serve already, or dies waiting.
StartsServe ==
  \A p \in Processes : stage[p] = "locking" ~> stage[p] \notin {"locking", "creating", "checking"}

\* Every call of acquire returns, unless its task is cancelled: also one for
\* more than a second's worth, behind any others (acquire).
CallsReturn == \A c \in Callers : c \in Waiting ~> c \notin Waiting

\* A shutdown comes to its end, with tasks asleep or in the queue of the
\* limiter (lifespan).
ShutdownEnds == \A p \in Processes : stage[p] = "stopping" ~> stage[p] = "down"
=============================================================================
