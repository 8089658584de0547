----------------------------- MODULE PushWorkers -----------------------------
(***************************************************************************)
(* The push workers: each leases a page job, walks its range of subscribers *)
(* with DeliverPage, storing the cursor as it goes, and completes or fails  *)
(* the job.  A page is a digest and a range of users, bounded below by      *)
(* lo (exclusive) and above by hi (inclusive), where 0 is None.             *)
(***************************************************************************)
EXTENDS DeliverPage, JobTable

CONSTANTS
  Workers,       \* the push workers, among the senders
  InitialPages,  \* the pages enqueued: a function from job ids to pages
  MaxAttempts,   \* max_attempts
  NoJob

Page == [digest : Digests, lo : Users \cup {0}, hi : Users \cup {0},
         ckpt : Users \cup {0}]

ASSUME PushWorkersAssumption ==
  /\ Workers \subseteq Senders
  /\ InitialPages \in [DOMAIN InitialPages -> Page]
  /\ \A j \in DOMAIN InitialPages : InitialPages[j].ckpt = 0
  /\ MaxAttempts \in Nat /\ NoJob \notin DOMAIN InitialPages

VARIABLES
  job,   \* push_page_jobs: status and lease
  page,  \* push_page_jobs: what to deliver, and cursor_checkpoint
  held,  \* the job a worker works on
  seen   \* attempts of that job when the worker claimed it

delivery ==
  <<token, subscribed, active, markers, pushes, pc, task, cursor, batch, faults>>
jobs == <<job, page, held, seen>>
vars == <<delivery, jobs>>

Init ==
  /\ InitDelivery
  /\ page = InitialPages
  /\ job = [j \in DOMAIN InitialPages |-> NewJob]
  /\ held = [w \in Workers |-> NoJob]
  /\ seen = [w \in Workers |-> 0]

\* cursor_checkpoint or user_id_from.
ResumePoint(j) == IF page[j].ckpt # 0 THEN page[j].ckpt ELSE page[j].lo

\* The oldest job is taken, but the rows that another claim has locked are
\* skipped: with several workers any job may be the one that is left.
ClaimPage(w) ==
  /\ pc[w] = "idle"
  /\ \E j \in DOMAIN job :
       /\ Claimable(job[j])
       /\ job' = [job EXCEPT ![j] = Claimed(@)]
       /\ held' = [held EXCEPT ![w] = j]
       /\ seen' = [seen EXCEPT ![w] = job[j].attempts + 1]
       /\ Start(w, page[j].digest, ResumePoint(j), page[j].hi)
  /\ UNCHANGED <<world, markers, pushes, page, faults>>

Deliver(w) == DeliveryStep(w) /\ UNCHANGED jobs

\* checkpoint_push_page_job, whoever holds the lease by now.
Checkpoint(w) ==
  /\ AfterCheckpoint(w)
  /\ page' = [page EXCEPT ![held[w]].ckpt = cursor[w]]
  /\ UNCHANGED <<job, held, seen>>

\* The worker is free for the next job.
LeaveJob(w) ==
  /\ Stop(w)
  /\ held' = [held EXCEPT ![w] = NoJob]
  /\ seen' = [seen EXCEPT ![w] = 0]

CompletePage(w) ==
  /\ pc[w] = "returned"
  /\ job' = [job EXCEPT ![held[w]] = Completed(@)]
  /\ LeaveJob(w)
  /\ UNCHANGED <<world, markers, pushes, page, faults>>

FailPage(w) ==
  /\ pc[w] = "raised"
  /\ job' = [job EXCEPT ![held[w]] = FailedAttempt(@, seen[w], MaxAttempts)]
  /\ LeaveJob(w)
  /\ UNCHANGED <<world, markers, pushes, page, faults>>

DeliveryRaises(w) == DeliveryFailure(w) /\ UNCHANGED jobs

\* The process dies or is cancelled (CancelledError passes by every except
\* clause), or fail_push_page_job raises: the job stays running.
Crash(w) ==
  /\ pc[w] # "idle"
  /\ LeaveJob(w)
  /\ Fault("crash")
  /\ UNCHANGED <<world, markers, pushes, job, page>>

\* The lease of a running job runs out: a fault only if its worker is at work.
Lapse(j) ==
  /\ job[j].status = "running" /\ job[j].leased
  /\ IF \E w \in Workers : held[w] = j /\ seen[w] = job[j].attempts
       THEN Fault("lapse") ELSE UNCHANGED faults
  /\ job' = [job EXCEPT ![j] = Lapsed(@)]
  /\ UNCHANGED <<world, markers, pushes, sending, page, held, seen>>

BackOff(j) ==
  /\ ~job[j].due
  /\ job' = [job EXCEPT ![j] = BackedOff(@)]
  /\ UNCHANGED <<world, markers, pushes, sending, faults, page, held, seen>>

WorkerStep(w) ==
  ClaimPage(w) \/ Deliver(w) \/ Checkpoint(w) \/ CompletePage(w) \/ FailPage(w)

Environment ==
  \/ Forget /\ UNCHANGED jobs
  \/ \E u \in Users : UserStep(u) /\ UNCHANGED jobs

Next ==
  \/ \E w \in Workers : WorkerStep(w) \/ DeliveryRaises(w) \/ Crash(w)
  \/ \E j \in DOMAIN job : Lapse(j) \/ BackOff(j)
  \/ Environment

Spec == Init /\ [][Next]_vars

\* The loops of the workers run forever and time passes; users and faults are
\* free to do nothing.
Fairness ==
  /\ \A w \in Workers : WF_vars(WorkerStep(w))
  /\ \A j \in DOMAIN InitialPages : WF_vars(Lapse(j)) /\ WF_vars(BackOff(j))

FairSpec == Spec /\ Fairness

-----------------------------------------------------------------------------
(* Properties. *)

\* Types; a worker in deliver_page holds a job.
TypeOK ==
  /\ DeliveryTypeOK
  /\ DOMAIN page = DOMAIN job
  /\ job \in [DOMAIN job -> JobRow]
  /\ page \in [DOMAIN job -> Page]
  /\ held \in [Workers -> DOMAIN job \cup {NoJob}]
  /\ \A w \in Workers : pc[w] # "idle" => held[w] \in DOMAIN job
  /\ seen \in [Workers -> Nat]

\* The steady users of page j up to the user last, None being all of them.
SteadyIn(j, last) == {u \in Steady : InRange(u, page[j].lo, page[j].hi) /\
                                     (last = 0 \/ u <= last)}

\* A job that is done has notified every steady user of its range, and a
\* checkpoint has left nobody behind, but for users whose push another worker,
\* one that lost its lease, is about to send: whoever is skipped because of
\* a marker is in somebody's hands.
DoneMeansNotified ==
  \A j \in DOMAIN job :
    \A u \in Steady :
      (\/ job[j].status = "done" /\ u \in SteadyIn(j, 0)
       \/ page[j].ckpt # 0 /\ u \in SteadyIn(j, page[j].ckpt))
      => pushes[page[j].digest][u] > 0 \/ InFlight(page[j].digest, u)

\* Every page job comes to rest, done or failed.
EveryPageSettles ==
  \A j \in DOMAIN InitialPages : <>[](job[j].status \in {"done", "failed"})

\* Every steady user of a page is eventually notified, unless the page is
\* given up.
EveryoneNotified ==
  \A j \in DOMAIN InitialPages : \A u \in Steady :
    InRange(u, InitialPages[j].lo, InitialPages[j].hi) =>
      <>(pushes[InitialPages[j].digest][u] > 0 \/ job[j].status = "failed")
=============================================================================
