-------------------------- MODULE PushWorkersProofs --------------------------
(***************************************************************************)
(* Theorems about PushWorkers, for any number of workers, users, digests    *)
(* and pages.                                                               *)
(***************************************************************************)
EXTENDS PushWorkers, DeliveryProofs, JobTableProofs

\* The bounds of a page and its checkpoint are users, or None.
LEMMA ResumePointType ==
  ASSUME TypeOK, NEW j \in DOMAIN job
  PROVE  /\ page[j].digest \in Digests /\ page[j].hi \in Users \cup {0}
         /\ ResumePoint(j) \in Users \cup {0}
<1>1. page[j] \in Page
  BY DEF TypeOK
<1>. QED
  BY <1>1 DEF Page, ResumePoint

\* Changing one row of job keeps its type and domain.
LEMMA JobUpdateType ==
  ASSUME TypeOK, NEW j \in DOMAIN job, NEW row \in JobRow,
         job' = [job EXCEPT ![j] = row]
  PROVE  DOMAIN job' = DOMAIN job /\ job' \in [DOMAIN job' -> JobRow]
  BY DEF TypeOK

\* The worker that leaves its job is idle; the others keep theirs.
LEMMA LeaveJobType ==
  ASSUME TypeOK, NEW w \in Workers, LeaveJob(w), DOMAIN job' = DOMAIN job
  PROVE  /\ held' \in [Workers -> DOMAIN job' \cup {NoJob}]
         /\ \A v \in Workers : pc'[v] # "idle" => held'[v] \in DOMAIN job'
         /\ seen' \in [Workers -> Nat]
  BY PushWorkersAssumption
    DEF TypeOK, DeliveryTypeOK, LeaveJob, Stop, Goto

\* Every step keeps the types.
LEMMA NextType ==
  TypeOK /\ [Next]_vars => TypeOK'
<1> USE PushWorkersAssumption
<1> SUFFICES ASSUME TypeOK, [Next]_vars PROVE TypeOK'
  OBVIOUS
<1>1. ASSUME NEW w \in Workers, ClaimPage(w) PROVE TypeOK'
  <2>1. PICK j \in DOMAIN job :
          /\ job' = [job EXCEPT ![j] = Claimed(@)]
          /\ held' = [held EXCEPT ![w] = j]
          /\ seen' = [seen EXCEPT ![w] = job[j].attempts + 1]
          /\ Start(w, page[j].digest, ResumePoint(j), page[j].hi)
    BY <1>1 DEF ClaimPage
  <2>2. DeliveryTypeOK'
    BY <1>1, <2>1, ResumePointType, StartType DEF ClaimPage, TypeOK
  <2>3. Claimed(job[j]) \in JobRow /\ job[j].attempts \in Nat
    BY JobRowTypes DEF TypeOK, JobRow
  <2>4. DOMAIN job' = DOMAIN job /\ job' \in [DOMAIN job' -> JobRow]
    BY <2>1, <2>3, JobUpdateType
  <2>5. /\ held' \in [Workers -> DOMAIN job \cup {NoJob}]
        /\ seen' \in [Workers -> Nat]
    BY <2>1, <2>3 DEF TypeOK
  <2>6. \A v \in Workers : pc'[v] # "idle" => held'[v] \in DOMAIN job
    BY <2>1 DEF TypeOK, DeliveryTypeOK, Start, Goto
  <2>. QED
    BY <1>1, <2>2, <2>4, <2>5, <2>6 DEF ClaimPage, TypeOK
<1>2. ASSUME NEW w \in Workers, Deliver(w) \/ DeliveryRaises(w)
      PROVE  TypeOK'
  <2>1. DeliveryTypeOK'
    BY <1>2, DeliveryStepType, DeliveryFailureType
      DEF Deliver, DeliveryRaises, TypeOK
  <2>2. \A v \in Workers : pc'[v] # "idle" => pc[v] # "idle"
    BY <1>2 DEF Deliver, DeliveryStep, LoadNone, Load, ClaimNext, ClaimReply,
         Send, Prune, Release, DeliveryRaises, DeliveryFailure, SendRaises,
         RedisRaises, DatabaseRaises, Goto, TypeOK, DeliveryTypeOK
  <2>. QED
    BY <1>2, <2>1, <2>2 DEF Deliver, DeliveryRaises, jobs, TypeOK
<1>3. ASSUME NEW w \in Workers, Checkpoint(w) PROVE TypeOK'
  <2>1. DeliveryTypeOK'
    BY <1>3, AfterCheckpointType DEF Checkpoint, TypeOK
  <2>2. \A v \in Workers : pc'[v] # "idle" => pc[v] # "idle"
    BY <1>3 DEF Checkpoint, AfterCheckpoint, Goto, TypeOK, DeliveryTypeOK
  <2>3. held[w] \in DOMAIN job /\ cursor[w] \in Users \cup {0}
    BY <1>3 DEF Checkpoint, AfterCheckpoint, TypeOK, DeliveryTypeOK
  <2>4. [page[held[w]] EXCEPT !.ckpt = cursor[w]] \in Page
    BY <2>3 DEF TypeOK, Page
  <2>5. page' \in [DOMAIN job -> Page]
    BY <1>3, <2>3, <2>4 DEF Checkpoint, TypeOK
  <2>. QED
    BY <1>3, <2>1, <2>2, <2>5 DEF Checkpoint, TypeOK
<1>4. ASSUME NEW w \in Workers, CompletePage(w) \/ FailPage(w)
      PROVE  TypeOK'
  <2>1. DeliveryTypeOK'
    BY <1>4, StopType
      DEF CompletePage, FailPage, LeaveJob, TypeOK, DeliveryTypeOK
  <2>2. held[w] \in DOMAIN job /\ seen[w] \in Nat
    BY <1>4 DEF CompletePage, FailPage, TypeOK
  <2>3. /\ Completed(job[held[w]]) \in JobRow
        /\ FailedAttempt(job[held[w]], seen[w], MaxAttempts) \in JobRow
    BY <2>2, JobRowTypes DEF TypeOK
  <2>4. DOMAIN job' = DOMAIN job /\ job' \in [DOMAIN job' -> JobRow]
    BY <1>4, <2>2, <2>3, JobUpdateType DEF CompletePage, FailPage
  <2>. QED
    BY <1>4, <2>1, <2>4, LeaveJobType DEF CompletePage, FailPage, TypeOK
<1>5. ASSUME NEW w \in Workers, Crash(w) PROVE TypeOK'
  <2>1. DeliveryTypeOK'
    BY <1>5, StopType DEF Crash, Fault, LeaveJob, TypeOK, DeliveryTypeOK
  <2>. QED
    BY <1>5, <2>1, LeaveJobType DEF Crash, TypeOK
<1>6. ASSUME NEW j \in DOMAIN job, Lapse(j) \/ BackOff(j) PROVE TypeOK'
  <2>1. Lapsed(job[j]) \in JobRow /\ BackedOff(job[j]) \in JobRow
    BY JobRowTypes DEF TypeOK
  <2>2. DOMAIN job' = DOMAIN job /\ job' \in [DOMAIN job' -> JobRow]
    BY <1>6, <2>1, JobUpdateType DEF Lapse, BackOff
  <2>3. faults' \in Nat
    BY <1>6 DEF Lapse, BackOff, Fault, TypeOK, DeliveryTypeOK
  <2>4. DeliveryTypeOK'
    BY <1>6, <2>3 DEF Lapse, BackOff, TypeOK, DeliveryTypeOK, world, sending
  <2>. QED
    BY <1>6, <2>2, <2>4 DEF Lapse, BackOff, TypeOK, sending
<1>7. CASE Environment
  <2>1. DeliveryTypeOK'
    BY <1>7, EnvironmentType DEF Environment, TypeOK
  <2>2. UNCHANGED <<pc, jobs>>
    BY <1>7 DEF Environment, Forget, UserStep, ChangeActivity,
                RegisterDevice, ChangeSubscription, sending
  <2>. QED
    BY <2>1, <2>2 DEF jobs, TypeOK
<1>8. CASE UNCHANGED vars
  BY <1>8 DEF vars, delivery, jobs, TypeOK, DeliveryTypeOK
<1>. QED
  BY <1>1, <1>2, <1>3, <1>4, <1>5, <1>6, <1>7, <1>8 DEF Next, WorkerStep

\* Nobody works on a job at first.
LEMMA InitType == Init => TypeOK
<1> SUFFICES ASSUME Init PROVE TypeOK
  OBVIOUS
<1> USE PushWorkersAssumption
<1>1. NewJob \in JobRow
  BY DEF NewJob, JobRow, JobStatus
<1>2. DeliveryTypeOK
  BY InitDeliveryType DEF Init
<1>3. \A w \in Workers : pc[w] = "idle"
  BY DEF Init, InitDelivery
<1>. QED
  BY <1>1, <1>2, <1>3 DEF Init, TypeOK

\* Every variable keeps its type; no multicast exceeds multicast_batch_size.
THEOREM PushTypeCorrect == Spec => []TypeOK
  BY InitType, NextType, PTL DEF Spec

-----------------------------------------------------------------------------
(* Nobody is told twice. *)

\* The steps around deliver_page: a call begins, a checkpoint, or a call is over.
Around(p) ==
  /\ UNCHANGED <<markers, pushes>>
  /\ \/ pc[p] = "idle" /\ \E d, after, upto : Start(p, d, after, upto)
     \/ AfterCheckpoint(p)
     \/ Stop(p)

\* They claim nothing.
LEMMA AroundOnce ==
  ASSUME DeliveryTypeOK, Once, NEW p \in Senders, Around(p)
  PROVE  Once'
<1>1. \A q \in Senders : Claiming(q)' =>
        Claiming(q) /\ batch'[q].fresh = batch[q].fresh /\ task'[q] = task[q]
  BY DEF Around, Start, AfterCheckpoint, Stop, Goto, Claiming, DeliveryTypeOK
<1>. QED
  BY <1>1, QuietOnce DEF Around

\* Every step keeps the guard of the markers.
LEMMA NextOnce ==
  ASSUME Dependable
  PROVE  TypeOK /\ Once /\ [Next]_vars => Once'
<1> USE PushWorkersAssumption
<1> SUFFICES ASSUME TypeOK, Once, [Next]_vars PROVE Once'
  OBVIOUS
<1> USE DEF TypeOK
<1>1. ASSUME NEW w \in Workers,
             \/ ClaimPage(w) \/ Checkpoint(w)
             \/ CompletePage(w) \/ FailPage(w) \/ Crash(w)
      PROVE  Once'
  <2>1. Around(w)
    BY <1>1 DEF ClaimPage, Checkpoint, AfterCheckpoint, CompletePage, FailPage,
                Crash, LeaveJob, Around
  <2>. QED
    BY <2>1, AroundOnce
<1>2. ASSUME NEW w \in Workers, Deliver(w) PROVE Once'
  BY <1>2, DeliveryStepOnce DEF Deliver
<1>3. ASSUME NEW w \in Workers, DeliveryRaises(w) PROVE Once'
  BY <1>3, Dependable, DeliveryFailureOnce DEF DeliveryRaises
<1>4. CASE \/ \E j \in DOMAIN job : Lapse(j) \/ BackOff(j)
           \/ UNCHANGED vars
  <2>1. UNCHANGED <<markers, pushes, pc, task, batch>>
    BY <1>4 DEF Lapse, BackOff, vars, delivery, sending
  <2>. QED
    BY <2>1, QuietOnce DEF Claiming
<1>5. CASE Environment
  <2>1. UNCHANGED <<markers, pushes, pc, task, batch>>
    BY <1>5, Dependable DEF Dependable, Environment, Forget, Fault, UserStep,
         ChangeActivity, RegisterDevice, ChangeSubscription, sending
  <2>. QED
    BY <2>1, QuietOnce DEF Claiming
<1>. QED
  BY <1>1, <1>2, <1>3, <1>4, <1>5 DEF Next, WorkerStep

\* Once is an invariant of the workers.
LEMMA OnceAlways ==
  ASSUME Dependable
  PROVE  Spec => []Once
<1> USE PushWorkersAssumption
<1>1. Init => Once
  BY InitDeliveryOnce DEF Init
<1>2. TypeOK /\ Once /\ [Next]_vars => Once'
  BY NextOnce
<1>. QED
  BY <1>1, <1>2, PushTypeCorrect, PTL DEF Spec

\* Whatever workers race over the pages of a digest, crash, outlive their
\* lease or are retried, and however the pages overlap, nobody is pushed the
\* digest twice; provided that a send that raises has pushed to nobody and
\* that Redis keeps its markers (PushDedupStore).
THEOREM OncePerUser ==
  ASSUME Dependable
  PROVE  Spec => []AtMostOnce
<1>1. Once => AtMostOnce
  BY DEF Once
<1>. QED
  BY <1>1, OnceAlways, PTL

\* Two senders never hold the claim of one notification, a claim is marked
\* before its push, and the marker outlives the push (PushDedupStore).
THEOREM ClaimsGuarded ==
  ASSUME Dependable
  PROVE  Spec => []MarkersGuard
<1>1. Once => MarkersGuard
  BY DEF Once
<1>. QED
  BY <1>1, OnceAlways, PTL

-----------------------------------------------------------------------------
(* The workers implement Notification. *)

\* A sender whose call is over drops the claims it holds: their users are not
\* told, and their markers stay.
LEMMA AroundFate ==
  ASSUME Facts, Facts', NEW p \in Senders, Around(p)
  PROVE  N!Next \/ UNCHANGED Fate
<1>1. /\ UNCHANGED <<markers, pushes>> /\ ~Claiming(p)'
      /\ \A q \in Senders \ {p}, d \in Digests, u \in Users :
           Holds(q, d, u)' <=> Holds(q, d, u)
  BY DEF Around, Start, AfterCheckpoint, Stop, Goto, Claiming, Holds, Facts,
         DeliveryTypeOK
<1>2. CASE Claiming(p)
  <2>1. /\ {} \in SUBSET batch[p].fresh
        /\ \A d \in Digests, u \in Users : pushes'[d][u] =
             IF d = task[p].digest /\ u \in {} THEN pushes[d][u] + 1
                                               ELSE pushes[d][u]
    BY <1>1
  <2>. QED
    BY <1>1, <1>2, <2>1, SettleFate
<1>3. CASE ~Claiming(p)
  <2>1. \A q \in Senders, d \in Digests, u \in Users :
          Holds(q, d, u)' <=> Holds(q, d, u)
    BY <1>1, <1>3 DEF Holds
  <2>. QED
    BY <1>1, <2>1, QuietFate
<1>. QED
  BY <1>2, <1>3

\* Every step is one that Notification allows.
LEMMA NextFate ==
  ASSUME Dependable
  PROVE  TypeOK /\ Once /\ TypeOK' /\ Once' /\ [Next]_vars => [N!Next]_Fate
<1> USE PushWorkersAssumption
<1> SUFFICES ASSUME TypeOK, Once, TypeOK', Once', [Next]_vars
             PROVE  N!Next \/ UNCHANGED Fate
  OBVIOUS
<1>0. Facts /\ Facts'
  BY DEF Facts, TypeOK
<1>1. ASSUME NEW w \in Workers,
             \/ ClaimPage(w) \/ Checkpoint(w)
             \/ CompletePage(w) \/ FailPage(w) \/ Crash(w)
      PROVE  N!Next \/ UNCHANGED Fate
  <2>1. Around(w)
    BY <1>1 DEF ClaimPage, Checkpoint, AfterCheckpoint, CompletePage, FailPage,
                Crash, LeaveJob, Around
  <2>. QED
    BY <1>0, <2>1, AroundFate
<1>2. ASSUME NEW w \in Workers, Deliver(w) \/ DeliveryRaises(w)
      PROVE  N!Next \/ UNCHANGED Fate
  BY <1>0, <1>2, DeliveryStepFate, DeliveryFailureFate
    DEF Deliver, DeliveryRaises
<1>3. CASE \/ \E j \in DOMAIN job : Lapse(j) \/ BackOff(j)
           \/ Environment \/ UNCHANGED vars
  <2>1. UNCHANGED <<markers, pushes, pc, task, batch>>
    BY <1>3 DEF Dependable, Lapse, BackOff, Environment, Forget, Fault,
         UserStep, ChangeActivity, RegisterDevice, ChangeSubscription,
         vars, delivery, sending
  <2>. QED
    BY <1>0, <2>1, QuietFate DEF Holds, Claiming
<1>. QED
  BY <1>1, <1>2, <1>3 DEF Next, WorkerStep

\* All notifications are open at first.
LEMMA InitFate == InitDelivery => N!Init
<1> SUFFICES ASSUME InitDelivery PROVE N!Init
  OBVIOUS
<1>1. ASSUME NEW d \in Digests, NEW u \in Users
      PROVE  FateOf(d, u) = "open"
  <2>1. pushes[d][u] = 0 /\ markers = {} /\ ~ InFlight(d, u)
    BY DEF InitDelivery, InFlight, Claiming
  <2>. QED
    BY <2>1 DEF FateOf
<1>. QED
  BY <1>1 DEF N!Init, Fate

\* The push workers implement what the markers promise: nobody is told twice,
\* and what one worker has taken no other tells, gives back or loses
\* (PushDedupStore, deliver_page); on the terms of OncePerUser.
THEOREM NotificationImplemented ==
  ASSUME Dependable
  PROVE  Spec => ImplementsNotification
<1>1. Init => N!Init
  BY InitFate DEF Init
<1>2. TypeOK /\ Once /\ TypeOK' /\ Once' /\ [Next]_vars => [N!Next]_Fate
  BY NextFate
<1>3. Spec => [](TypeOK /\ Once)
  BY PushTypeCorrect, OnceAlways, PTL
<1>. QED
  BY <1>1, <1>2, <1>3, PTL DEF Spec, ImplementsNotification, N!Spec

\* No step of the workers erases the token of a working device.
LEMMA NextSparesLive ==
  TypeOK /\ [Next]_vars =>
    [\A u \in Users : token[u] = "live" => token'[u] = "live"]_token
<1> SUFFICES ASSUME TypeOK, [Next]_vars, token' # token
             PROVE  \A u \in Users : token[u] = "live" => token'[u] = "live"
  OBVIOUS
<1>1. \/ \E w \in Workers : Prune(w)
      \/ \E u \in Users : RegisterDevice(u)
  BY DEF Next, WorkerStep, ClaimPage, Deliver, Checkpoint, CompletePage,
       FailPage, DeliveryRaises, Crash, Lapse, BackOff, Environment,
       DeliveryStep, LoadNone, Load, ClaimNext, ClaimReply, Send, Release,
       AfterCheckpoint, DeliveryFailure, SendRaises, RedisRaises,
       DatabaseRaises, Forget, UserStep, ChangeActivity,
       ChangeSubscription, world, vars, delivery
<1>2. ASSUME NEW w \in Workers, Prune(w)
      PROVE  \A u \in Users : token[u] = "live" => token'[u] = "live"
  BY <1>2 DEF Prune, Pruned
<1>3. ASSUME NEW u \in Users, RegisterDevice(u)
      PROVE  \A v \in Users : token[v] = "live" => token'[v] = "live"
  BY <1>3 DEF RegisterDevice, TypeOK, DeliveryTypeOK
<1>. QED
  BY <1>1, <1>2, <1>3

\* A prune never erases the token of a working device, even one registered
\* while the multicast to the old token was on its way (prune_device_tokens
\* goes by token, not by user).
THEOREM LiveTokensSpared == Spec => PruneSparesLive
  BY NextSparesLive, PushTypeCorrect, PTL DEF Spec, PruneSparesLive

-----------------------------------------------------------------------------
(* Coverage: no page loses a steady user. *)

\* A worker delivers the digest of its page to the users of its page.
Assigned(w) ==
  /\ task[w].digest = page[held[w]].digest /\ task[w].upto = page[held[w]].hi
  /\ Covers(w, page[held[w]].lo)

\* The inductive invariant behind DoneMeansNotified.
PushCovered ==
  /\ NoneLost /\ DoneMeansNotified
  /\ \A w \in Workers : pc[w] # "idle" => Assigned(w)

\* What a job has left behind is handled.
LEMMA LeftBehind ==
  ASSUME DoneMeansNotified, NEW j \in DOMAIN job, NEW u \in Steady,
         InRange(u, page[j].lo, page[j].hi),
         \/ job[j].status = "done"
         \/ page[j].ckpt # 0 /\ u <= page[j].ckpt
  PROVE  Handled(page[j].digest, u)
  BY DEF DoneMeansNotified, SteadyIn, Handled

\* Nobody else is left behind.
LEMMA StillNotified ==
  ASSUME TypeOK,
         HandledStay,
         \A j \in DOMAIN job' : \A u \in Steady :
           InRange(u, page'[j].lo, page'[j].hi) /\
           (job'[j].status = "done" \/ (page'[j].ckpt # 0 /\ u <= page'[j].ckpt))
             => \E d \in Digests : d = page'[j].digest /\ Handled(d, u)
  PROVE  DoneMeansNotified'
<1> SUFFICES ASSUME NEW j \in DOMAIN job', NEW u \in Steady,
                    InRange(u, page'[j].lo, page'[j].hi),
                    \/ job'[j].status = "done"
                    \/ page'[j].ckpt # 0 /\ u <= page'[j].ckpt
             PROVE  pushes'[page'[j].digest][u] > 0
                      \/ InFlight(page[j].digest, u)'
  BY DEF DoneMeansNotified, SteadyIn
<1>1. PICK d \in Digests : d = page'[j].digest /\ Handled(d, u)
  OBVIOUS
<1>2. Handled(d, u)'
  BY <1>1 DEF HandledStay
<1>. QED
  BY <1>1, <1>2 DEF Handled, InFlight

\* Who is assigned stays so, if its page keeps its range.
LEMMA StillAssigned ==
  ASSUME TypeOK, HandledStay, NEW w \in Workers, pc[w] # "idle", Assigned(w),
         pc'[w] = pc[w], task'[w] = task[w], cursor'[w] = cursor[w],
         batch'[w] = batch[w], held'[w] = held[w],
         page'[held[w]].lo = page[held[w]].lo,
         page'[held[w]].hi = page[held[w]].hi,
         page'[held[w]].digest = page[held[w]].digest
  PROVE  Assigned(w)'
<1>1. PICK lo : lo = page[held[w]].lo
  OBVIOUS
<1>2. Covers(w, lo)
  BY <1>1 DEF Assigned
<1>3. Covers(w, lo)'
  BY <1>2, OthersCover, PushWorkersAssumption DEF TypeOK
<1>. QED
  BY <1>1, <1>3 DEF Assigned, Covers

\* A worker that is sent through deliver_page by one step.
LEMMA LocalAssigned ==
  ASSUME Reliable, TypeOK, TypeOK', NoneLost, NEW w \in Workers, LocalStep(w),
         pc[w] # "idle", Assigned(w), held'[w] = held[w],
         page'[held[w]].lo = page[held[w]].lo,
         page'[held[w]].hi = page[held[w]].hi,
         page'[held[w]].digest = page[held[w]].digest
  PROVE  Assigned(w)'
<1>1. PICK lo : lo = page[held[w]].lo
  OBVIOUS
<1>2. Covers(w, lo)
  BY <1>1 DEF Assigned
<1>3. Covers(w, lo)'
  BY <1>2, StepCovers, PushWorkersAssumption DEF TypeOK
<1>4. task' = task
  BY ReliableSteps, PushWorkersAssumption
    DEF LocalStep, DeliveryStep, LoadNone, Load, ClaimNext,
        ClaimReply, Send, Prune, AfterCheckpoint, DatabaseRaises
<1>. QED
  BY <1>1, <1>3, <1>4 DEF Assigned, Covers

\* A step that changes nobody's page, and completes no job.
LEMMA QuietNotified ==
  ASSUME TypeOK, DoneMeansNotified, HandledStay,
         DOMAIN job' = DOMAIN job, page' = page,
         \A j \in DOMAIN job :
           job'[j].status = "done" => job[j].status = "done"
  PROVE  DoneMeansNotified'
<1>1. \A j \in DOMAIN job : page[j].digest \in Digests
  BY ResumePointType
<1>. QED
  BY <1>1, LeftBehind, StillNotified

\* The call begins where the checkpoints, which left nobody behind, end.
LEMMA ClaimPageCovered ==
  ASSUME TypeOK, TypeOK', PushCovered, NEW w \in Workers, ClaimPage(w)
  PROVE  PushCovered' /\ HandledStay
<1> USE PushWorkersAssumption
<1>1. PICK j \in DOMAIN job :
        /\ job' = [job EXCEPT ![j] = Claimed(@)]
        /\ held' = [held EXCEPT ![w] = j]
        /\ Start(w, page[j].digest, ResumePoint(j), page[j].hi)
  BY DEF ClaimPage
<1>2. /\ pc[w] = "idle" /\ pc'[w] = "load" /\ held'[w] = j
      /\ task'[w] = [digest |-> page[j].digest, upto |-> page[j].hi]
      /\ cursor'[w] = ResumePoint(j)
      /\ UNCHANGED <<world, markers, pushes, page, batch>>
  BY <1>1 DEF ClaimPage, Start, Goto, TypeOK, DeliveryTypeOK
<1>3. \A q \in Senders \ {w} :
        /\ pc'[q] = pc[q] /\ task'[q] = task[q] /\ cursor'[q] = cursor[q]
        /\ q \in Workers => held'[q] = held[q]
  BY <1>1 DEF Start, Goto, TypeOK, DeliveryTypeOK
<1>4. NoneLost' /\ HandledStay
  BY <1>2, <1>3, QuietCoverage DEF PushCovered, Claiming, TypeOK, world
<1>5. DoneMeansNotified'
  <2>1. job[j].status # "done" => Claimed(job[j]).status # "done"
    BY DEF Claimed, TypeOK, JobRow
  <2>2. \A k \in DOMAIN job : job'[k].status = "done" => job[k].status = "done"
    <3>1. Claimed(job[j]).status = "running"
      BY DEF Claimed, TypeOK, JobRow
    <3>. QED
      BY <1>1, <3>1 DEF TypeOK
  <2>3. DOMAIN job' = DOMAIN job
    BY <1>1 DEF TypeOK
  <2>. QED
    BY <1>2, <1>4, <2>2, <2>3, QuietNotified DEF PushCovered
<1>6. ASSUME NEW u \in Steady, InRange(u, page[j].lo, page[j].hi)
      PROVE  Handled(page[j].digest, u)' \/ Coming(w, u)'
  <2>1. CASE u > ResumePoint(j)
    BY <1>2, <2>1 DEF Coming
  <2>2. CASE ~ (u > ResumePoint(j))
    <3>1. u \in Nat /\ ResumePoint(j) \in Nat
      <4>1. u \in Users /\ ResumePoint(j) \in Users \cup {0}
        BY ResumePointType DEF Steady
      <4>2. Users \subseteq Nat /\ Users \cup {0} \subseteq Nat
        BY DeliverPageAssumption
      <4>. QED
        BY <4>1, <4>2, Zenon
    <3>2. u <= ResumePoint(j)
      BY <2>2, <3>1
    <3>3. page[j].ckpt # 0 /\ u <= page[j].ckpt
      BY <1>6, <2>2, <3>2 DEF ResumePoint, InRange
    <3>4. PICK d \in Digests : d = page[j].digest /\ Handled(d, u)
      BY <1>6, <3>3, LeftBehind, ResumePointType DEF PushCovered
    <3>5. Handled(d, u)'
      BY <1>4, <3>4 DEF HandledStay
    <3>. QED
      BY <1>2, <3>4, <3>5 DEF Handled, InFlight
  <2>. QED
    BY <2>1, <2>2
<1>7. Assigned(w)'
  <2>1. \A u : Handled(page[j].digest, u)' => Handled(task[w].digest, u)'
    BY <1>2 DEF Handled, InFlight
  <2>. QED
    BY <1>2, <1>6, <2>1 DEF Assigned, Covers
<1>8. ASSUME NEW v \in Workers \ {w}, pc'[v] # "idle" PROVE Assigned(v)'
  BY <1>2, <1>3, <1>4, <1>8, StillAssigned DEF PushCovered
<1>. QED
  BY <1>4, <1>5, <1>7, <1>8 DEF PushCovered

\* deliver_page goes on, or a statement of it raises.
LEMMA DeliverCovered ==
  ASSUME Reliable, TypeOK, TypeOK', PushCovered, NEW w \in Workers,
         Deliver(w) \/ DeliveryRaises(w)
  PROVE  PushCovered' /\ HandledStay
<1> USE PushWorkersAssumption
<1>1. LocalStep(w) /\ UNCHANGED jobs
  BY ReliableSteps
    DEF PushCovered, Deliver, DeliveryRaises, DeliveryFailure, LocalStep
<1>2. NoneLost' /\ HandledStay
  BY <1>1, StepHandled, StepNoneLost DEF PushCovered, TypeOK
<1>3. DoneMeansNotified'
  BY <1>1, <1>2, QuietNotified DEF PushCovered, jobs
<1>4. pc[w] # "idle"
  BY DEF Deliver, DeliveryStep, LoadNone, Load, ClaimNext, ClaimReply,
     Send, Prune, Release, DeliveryRaises, DeliveryFailure, SendRaises,
     RedisRaises, DatabaseRaises
<1>5. Assigned(w)'
  BY <1>1, <1>4, LocalAssigned DEF PushCovered, jobs
<1>6. ASSUME NEW v \in Workers \ {w}, pc'[v] # "idle" PROVE Assigned(v)'
  <2>1. /\ pc'[v] = pc[v] /\ task'[v] = task[v] /\ cursor'[v] = cursor[v]
        /\ batch'[v] = batch[v]
    BY LocalOthers, <1>1 DEF TypeOK
  <2>. QED
    BY <1>1, <1>2, <1>6, <2>1, StillAssigned DEF PushCovered, jobs
<1>. QED
  BY <1>2, <1>3, <1>5, <1>6 DEF PushCovered

\* The checkpoint leaves nobody behind: all that was loaded is handled.
LEMMA CheckpointCovered ==
  ASSUME Reliable, TypeOK, TypeOK', PushCovered, NEW w \in Workers,
         Checkpoint(w)
  PROVE  PushCovered' /\ HandledStay
<1> USE PushWorkersAssumption
<1> DEFINE j == held[w]
<1>1. /\ LocalStep(w) /\ pc[w] = "checkpoint" /\ j \in DOMAIN job
      /\ page' = [page EXCEPT ![j].ckpt = cursor[w]]
      /\ UNCHANGED <<job, held, seen>>
  BY DEF Checkpoint, LocalStep, AfterCheckpoint, TypeOK
<1>2. \A k \in DOMAIN job :
        /\ page'[k].lo = page[k].lo /\ page'[k].hi = page[k].hi
        /\ page'[k].digest = page[k].digest /\ page[k].digest \in Digests
        /\ page'[k].ckpt = IF k = j THEN cursor[w] ELSE page[k].ckpt
  BY <1>1 DEF TypeOK, Page
<1>3. NoneLost' /\ HandledStay
  BY <1>1, StepHandled, StepNoneLost DEF PushCovered, TypeOK
<1>4. ASSUME NEW u \in Steady, InRange(u, page[j].lo, page[j].hi),
             u <= cursor[w]
      PROVE  Handled(page[j].digest, u)
  <2>1. u \in Nat /\ cursor[w] \in Nat
    <3>1. u \in Users /\ cursor[w] \in Users \cup {0}
      BY DEF Steady, TypeOK, DeliveryTypeOK
    <3>2. Users \subseteq Nat /\ Users \cup {0} \subseteq Nat
      BY DeliverPageAssumption
    <3>. QED
      BY <3>1, <3>2, Zenon
  <2>2. ~ Coming(w, u)
    BY <1>4, <2>1 DEF Coming
  <2>. QED
    BY <1>1, <1>4, <2>2 DEF PushCovered, Assigned, Covers
<1>5. DoneMeansNotified'
  <2>1. ASSUME NEW k \in DOMAIN job, NEW u \in Steady,
               InRange(u, page'[k].lo, page'[k].hi),
               \/ job'[k].status = "done"
               \/ page'[k].ckpt # 0 /\ u <= page'[k].ckpt
        PROVE  \E d \in Digests : d = page'[k].digest /\ Handled(d, u)
    BY <1>1, <1>2, <1>4, <2>1, LeftBehind DEF PushCovered
  <2>. QED
    BY <1>1, <1>3, <2>1, StillNotified
<1>6. Assigned(w)'
  BY <1>1, <1>2, LocalAssigned DEF PushCovered
<1>7. ASSUME NEW v \in Workers \ {w}, pc'[v] # "idle" PROVE Assigned(v)'
  <2>1. /\ pc'[v] = pc[v] /\ task'[v] = task[v] /\ cursor'[v] = cursor[v]
        /\ batch'[v] = batch[v]
    BY LocalOthers, <1>1 DEF TypeOK
  <2>2. held[v] \in DOMAIN job
    BY <1>7, <2>1 DEF TypeOK
  <2>. QED
    BY <1>1, <1>2, <1>3, <1>7, <2>1, <2>2, StillAssigned DEF PushCovered
<1>. QED
  BY <1>3, <1>5, <1>6, <1>7 DEF PushCovered

\* Steps that leave the senders alone, or end the call of one that is at rest.
LEMMA RestCovered ==
  ASSUME TypeOK, TypeOK', PushCovered, UNCHANGED <<world, markers, pushes, page>>,
         NEW w \in Workers, LeaveJob(w) \/ UNCHANGED <<sending, held>>,
         pc[w] \in {"idle", "returned", "raised"},
         DOMAIN job' = DOMAIN job,
         \A j \in DOMAIN job : job'[j].status = "done" =>
           job[j].status = "done" \/ (pc[w] = "returned" /\ j = held[w])
  PROVE  PushCovered' /\ HandledStay
<1> USE PushWorkersAssumption
<1>1. \A q \in Senders :
        \/ q = w /\ pc'[q] = "idle" /\ batch'[q] = NoBatch
        \/ /\ pc'[q] = pc[q] /\ task'[q] = task[q] /\ cursor'[q] = cursor[q]
           /\ batch'[q] = batch[q]
           /\ q \in Workers => held'[q] = held[q]
  BY DEF LeaveJob, Stop, Goto, sending, TypeOK, DeliveryTypeOK
<1>2. NoneLost' /\ HandledStay
  BY <1>1, QuietCoverage DEF PushCovered, Claiming, TypeOK, world
<1>3. DoneMeansNotified'
  <2>1. ASSUME NEW k \in DOMAIN job, NEW u \in Steady,
               InRange(u, page[k].lo, page[k].hi),
               \/ job'[k].status = "done"
               \/ page[k].ckpt # 0 /\ u <= page[k].ckpt
        PROVE  \E d \in Digests : d = page[k].digest /\ Handled(d, u)
    <3>1. CASE pc[w] = "returned" /\ k = held[w]
      BY <2>1, <3>1, ResumePointType
        DEF PushCovered, Assigned, Covers, Coming
    <3>2. CASE ~ (pc[w] = "returned" /\ k = held[w])
      BY <2>1, <3>2, LeftBehind, ResumePointType DEF PushCovered
    <3>. QED
      BY <3>1, <3>2
  <2>. QED
    BY <1>2, <2>1, StillNotified
<1>4. ASSUME NEW v \in Workers, pc'[v] # "idle" PROVE Assigned(v)'
  BY <1>1, <1>2, <1>4, StillAssigned DEF PushCovered
<1>. QED
  BY <1>2, <1>3, <1>4 DEF PushCovered

\* Steps of nobody in particular.
LEMMA UnattendedCovered ==
  ASSUME TypeOK, TypeOK', PushCovered,
         UNCHANGED <<world, markers, pushes, sending, page, held>>,
         DOMAIN job' = DOMAIN job,
         \A j \in DOMAIN job :
           job'[j].status = "done" => job[j].status = "done"
  PROVE  PushCovered' /\ HandledStay
<1> USE PushWorkersAssumption
<1>1. NoneLost' /\ HandledStay
  BY QuietCoverage DEF PushCovered, Claiming, TypeOK, world, sending
<1>2. DoneMeansNotified'
  BY <1>1, QuietNotified DEF PushCovered
<1>3. ASSUME NEW v \in Workers, pc'[v] # "idle" PROVE Assigned(v)'
  BY <1>1, <1>3, StillAssigned DEF PushCovered, sending
<1>. QED
  BY <1>1, <1>2, <1>3 DEF PushCovered

\* Every step of the workers and of their environment.
LEMMA NextCovered ==
  ASSUME Reliable, TypeOK, TypeOK', PushCovered, [Next]_vars
  PROVE  PushCovered' /\ HandledStay
<1> USE PushWorkersAssumption
<1>1. ASSUME NEW w \in Workers, CompletePage(w) \/ FailPage(w)
      PROVE  PushCovered' /\ HandledStay
  <2>1. /\ pc[w] \in {"returned", "raised"} /\ held[w] \in DOMAIN job
        /\ LeaveJob(w) /\ UNCHANGED <<world, markers, pushes, page>>
    BY <1>1 DEF CompletePage, FailPage, TypeOK
  <2>2. DOMAIN job' = DOMAIN job
    BY <1>1 DEF CompletePage, FailPage
  <2>3. \A j \in DOMAIN job : job'[j].status = "done" =>
          job[j].status = "done" \/ (pc[w] = "returned" /\ j = held[w])
    <3>1. CASE CompletePage(w)
      BY <3>1 DEF CompletePage
    <3>2. CASE FailPage(w)
      <4> DEFINE row == FailedAttempt(job[held[w]], seen[w], MaxAttempts)
      <4>1. row.status # "done"
        BY <2>1 DEF FailedAttempt, TypeOK, JobRow
      <4> HIDE DEF row
      <4>2. job' = [job EXCEPT ![held[w]] = row]
        BY <3>2 DEF FailPage, row
      <4>. QED
        BY <4>1, <4>2 DEF TypeOK
    <3>. QED
      BY <1>1, <3>1, <3>2
  <2>. QED
    BY <2>1, <2>2, <2>3, RestCovered
<1>2. ASSUME NEW w \in Workers PROVE ~ Crash(w)
  BY DEF Reliable, Crash, Fault
<1>3. ASSUME NEW j \in DOMAIN job, Lapse(j) \/ BackOff(j)
      PROVE  PushCovered' /\ HandledStay
  <2>1. \A k \in DOMAIN job :
          job'[k].status = "done" => job[k].status = "done"
    <3>1. /\ Lapsed(job[j]).status = job[j].status
          /\ BackedOff(job[j]).status = job[j].status
      BY DEF Lapsed, BackedOff, TypeOK, JobRow
    <3>. QED
      BY <1>3, <3>1 DEF Lapse, BackOff, TypeOK
  <2>2. DOMAIN job' = DOMAIN job
    BY <1>3 DEF Lapse, BackOff
  <2>. QED
    BY <1>3, <2>1, <2>2, UnattendedCovered DEF Lapse, BackOff
<1>4. CASE Environment
  <2>1. NoneLost' /\ HandledStay /\ UNCHANGED <<sending, jobs>>
    BY <1>4, EnvironmentCoverage DEF Environment, PushCovered, TypeOK
  <2>2. DoneMeansNotified'
    BY <2>1, QuietNotified DEF PushCovered, jobs
  <2>3. ASSUME NEW v \in Workers, pc'[v] # "idle" PROVE Assigned(v)'
    BY <2>1, <2>3, StillAssigned DEF PushCovered, sending, jobs
  <2>. QED
    BY <2>1, <2>2, <2>3 DEF PushCovered
<1>5. CASE UNCHANGED vars
  BY <1>5, UnattendedCovered DEF vars, delivery, jobs, world, sending
<1>. QED
  BY <1>1, <1>2, <1>3, <1>4, <1>5, ClaimPageCovered, DeliverCovered,
     CheckpointCovered DEF Next, WorkerStep

\* At first there is nothing to be left behind.
LEMMA InitCovered == Init => PushCovered
<1> SUFFICES ASSUME Init PROVE PushCovered
  OBVIOUS
<1>1. /\ \A p \in Senders : pc[p] = "idle" /\ batch[p] = NoBatch
      /\ markers = {}
      /\ \A j \in DOMAIN job :
           job[j].status = "queued" /\ page[j].ckpt = 0
  BY PushWorkersAssumption DEF Init, InitDelivery, NewJob
<1>2. NoneLost
  BY <1>1 DEF Init, InitDelivery, NoneLost, NoBatch, Steady
<1>3. DoneMeansNotified
  BY <1>1 DEF DoneMeansNotified
<1>. QED
  BY <1>1, <1>2, <1>3, PushWorkersAssumption DEF PushCovered

\* A page job that is done has notified every steady user of its range, and a
\* checkpoint has left nobody behind, but for users whose push is about to be
\* sent: whatever workers outlive their lease and walk one page side by side,
\* whatever pages overlap, and whatever statements fail.  It takes a process
\* that dies, a send or a claim pipeline that raises for a marker to outlast
\* the push it stands for.
THEOREM DoneIsNotified ==
  ASSUME Reliable
  PROVE  Spec => []DoneMeansNotified
<1>1. Init => PushCovered
  BY InitCovered
<1>2. TypeOK /\ TypeOK' /\ PushCovered /\ [Next]_vars => PushCovered'
  BY NextCovered
<1>3. PushCovered => DoneMeansNotified
  BY DEF PushCovered
<1>. QED
  BY <1>1, <1>2, <1>3, PushTypeCorrect, PTL DEF Spec

-----------------------------------------------------------------------------
(* Attempts: what a page costs, and when it is given up. *)

\* The workers that are about to fail job j.
Raising(j) == {w \in Workers : pc[w] \in {"release", "raised"} /\ held[w] = j}

\* The attempts of job j, and the failures it has still to be charged with.
Spent(j) == job[j].attempts + Cardinality(Raising(j))

\* A worker holds the lease of job j.
Attended(j) ==
  /\ job[j].status = "running" /\ job[j].leased
  /\ \E w \in Workers :
       pc[w] # "idle" /\ held[w] = j /\ seen[w] = job[j].attempts

\* Every attempt but one has met a fault, and all have if nobody attends to a
\* job that is neither done nor given up.
JobPaid(j) ==
  /\ IsFiniteSet(Raising(j)) /\ Spent(j) <= faults + 1
  /\ Spent(j) <= faults \/ job[j].status \in {"done", "failed"} \/ Attended(j)
  /\ job[j].status = "failed" =>
       job[j].attempts >= MaxAttempts /\ faults >= MaxAttempts

\* What a worker saw of the attempts is no more than they are by now.
SeenPaid(w) ==
  pc[w] # "idle" =>
    /\ seen[w] <= job[held[w]].attempts
    /\ seen[w] <= faults + 1
    /\ pc[w] \in {"release", "raised"} => seen[w] <= faults

AttemptsPaid ==
  /\ \A w \in Workers : SeenPaid(w)
  /\ \A j \in DOMAIN job : JobPaid(j)

\* The counts of a job are numbers.
LEMMA CountsType ==
  ASSUME TypeOK, NEW j \in DOMAIN job, JobPaid(j)
  PROVE  /\ job[j] \in JobRow /\ job[j].attempts \in Nat
         /\ Cardinality(Raising(j)) \in Nat /\ faults \in Nat
<1>1. job[j] \in JobRow /\ faults \in Nat
  BY DEF TypeOK, DeliveryTypeOK
<1>. QED
  BY <1>1, FS_CardinalityType DEF JobPaid, JobRow

\* Faults that do not make a worker fail its job, and new jobs, cost nothing.
LEMMA StillPaid ==
  ASSUME TypeOK, AttemptsPaid, faults' \in Nat, faults' >= faults,
         UNCHANGED <<held, seen>>, DOMAIN job \subseteq DOMAIN job',
         \A j \in DOMAIN job : job'[j] = job[j],
         \A j \in DOMAIN job' : j \in DOMAIN job \/ job'[j] = NewJob,
         \A w \in Workers :
           /\ pc'[w] = "idle" <=> pc[w] = "idle"
           /\ pc'[w] \in {"release", "raised"} <=> pc[w] \in {"release", "raised"}
  PROVE  AttemptsPaid'
<1>1. \A j : Raising(j)' = Raising(j)
  BY DEF Raising
<1>2. ASSUME NEW j \in DOMAIN job PROVE JobPaid(j)'
  <2>1. JobPaid(j) /\ job'[j] = job[j]
    BY DEF AttemptsPaid
  <2>2. Spent(j)' = Spent(j) /\ Spent(j) \in Nat /\ faults \in Nat
    BY <1>1, <2>1, CountsType DEF Spent
  <2>3. Attended(j)' <=> Attended(j)
    BY <2>1 DEF Attended
  <2>4. MaxAttempts \in Nat
    BY PushWorkersAssumption
  <2>. QED
    BY <1>1, <2>1, <2>2, <2>3, <2>4 DEF JobPaid
<1>3. ASSUME NEW j \in DOMAIN job' \ DOMAIN job PROVE JobPaid(j)'
  <2>1. Raising(j)' = {}
    BY <1>1, <1>3 DEF Raising, TypeOK
  <2>2. job'[j].attempts = 0 /\ job'[j].status = "queued"
    BY <1>3 DEF NewJob
  <2>3. Spent(j)' = 0 /\ IsFiniteSet(Raising(j)')
    BY <2>1, <2>2, FS_EmptySet DEF Spent
  <2>4. Spent(j)' <= faults' /\ Spent(j)' <= faults' + 1
    <3>1. \A n \in Nat : 0 <= n /\ 0 <= n + 1
      OBVIOUS
    <3>2. 0 <= faults' /\ 0 <= faults' + 1
      BY <3>1, Zenon
    <3>. QED
      BY <2>3, <3>2
  <2>5. job'[j].status # "failed"
    BY <2>2
  <2>. QED
    BY <2>3, <2>4, <2>5 DEF JobPaid
<1>4. ASSUME NEW w \in Workers PROVE SeenPaid(w)'
  <2>1. SeenPaid(w) /\ seen[w] \in Nat /\ faults \in Nat
    BY DEF AttemptsPaid, TypeOK, DeliveryTypeOK
  <2>2. pc[w] # "idle" => held[w] \in DOMAIN job
    BY DEF TypeOK
  <2>. QED
    BY <2>1, <2>2 DEF SeenPaid
<1>. QED
  BY <1>2, <1>3, <1>4 DEF AttemptsPaid

\* A worker that begins to fail its job has met a fault.
LEMMA RaisedPaid ==
  ASSUME TypeOK, AttemptsPaid, NEW w \in Workers, faults' = faults + 1,
         UNCHANGED <<job, held, seen>>,
         pc[w] \notin {"idle", "release", "raised"},
         pc'[w] \in {"release", "raised"},
         \A v \in Workers \ {w} : pc'[v] = pc[v]
  PROVE  AttemptsPaid'
<1>1. \A j : Raising(j)' = IF j = held[w] THEN Raising(j) \cup {w} ELSE Raising(j)
  BY DEF Raising
<1>2. \A j : w \notin Raising(j)
  BY DEF Raising
<1>3. ASSUME NEW j \in DOMAIN job PROVE JobPaid(j)'
  <2>1. JobPaid(j) /\ MaxAttempts \in Nat
    BY PushWorkersAssumption DEF AttemptsPaid
  <2>2. job[j].attempts \in Nat /\ Cardinality(Raising(j)) \in Nat /\ faults \in Nat
    BY <2>1, CountsType
  <2>3. /\ IsFiniteSet(Raising(j)')
        /\ Cardinality(Raising(j)') <= Cardinality(Raising(j)) + 1
        /\ Cardinality(Raising(j)') \in Nat
    <3>1. IsFiniteSet(Raising(j))
      BY <2>1 DEF JobPaid
    <3>2. CASE j = held[w]
      BY <1>1, <1>2, <2>2, <3>1, <3>2, FS_AddElement
    <3>3. CASE j # held[w]
      BY <1>1, <2>2, <3>1, <3>3
    <3>. QED
      BY <3>2, <3>3
  <2>4. Spent(j)' <= Spent(j) + 1 /\ Spent(j) \in Nat /\ Spent(j)' \in Nat
    BY <2>2, <2>3 DEF Spent
  <2>5. Attended(j)' <=> Attended(j)
    BY DEF Attended
  <2>. QED
    BY <2>1, <2>2, <2>3, <2>4, <2>5 DEF JobPaid
<1>4. ASSUME NEW v \in Workers PROVE SeenPaid(v)'
  <2>1. SeenPaid(v) /\ seen[v] \in Nat /\ faults \in Nat
    BY DEF AttemptsPaid, TypeOK, DeliveryTypeOK
  <2>. QED
    BY <2>1 DEF SeenPaid
<1>. QED
  BY <1>3, <1>4 DEF AttemptsPaid

\* A claim takes a job that nobody attends to.
LEMMA ClaimPaid ==
  ASSUME TypeOK, AttemptsPaid, NEW w \in Workers, ClaimPage(w)
  PROVE  AttemptsPaid'
<1>1. PICK j \in DOMAIN job :
        /\ Claimable(job[j])
        /\ job' = [job EXCEPT ![j] = Claimed(@)]
        /\ held' = [held EXCEPT ![w] = j]
        /\ seen' = [seen EXCEPT ![w] = job[j].attempts + 1]
        /\ Start(w, page[j].digest, ResumePoint(j), page[j].hi)
  BY DEF ClaimPage
<1>2. /\ pc[w] = "idle" /\ pc'[w] = "load" /\ held'[w] = j
      /\ seen'[w] = job[j].attempts + 1 /\ faults' = faults
      /\ \A v \in Workers \ {w} :
           pc'[v] = pc[v] /\ held'[v] = held[v] /\ seen'[v] = seen[v]
  BY <1>1, PushWorkersAssumption
    DEF ClaimPage, Start, Goto, TypeOK, DeliveryTypeOK
<1>3. \A k : Raising(k)' = Raising(k)
  BY <1>2 DEF Raising
<1>4. /\ job'[j].status = "running" /\ job'[j].leased
      /\ job'[j].attempts = job[j].attempts + 1
      /\ \A k \in DOMAIN job \ {j} : job'[k] = job[k]
      /\ DOMAIN job' = DOMAIN job
  <2>1. job[j] \in JobRow
    BY DEF TypeOK
  <2>2. /\ Claimed(job[j]).status = "running" /\ Claimed(job[j]).leased
        /\ Claimed(job[j]).attempts = job[j].attempts + 1
    BY <2>1 DEF Claimed, JobRow
  <2>. QED
    BY <1>1, <2>2 DEF TypeOK
<1>5. ASSUME NEW k \in DOMAIN job
      PROVE  /\ JobPaid(k) /\ job[k].attempts \in Nat /\ faults \in Nat
             /\ Cardinality(Raising(k)) \in Nat /\ Spent(k) \in Nat
  BY CountsType DEF AttemptsPaid, Spent
<1>6. Spent(j) <= faults
  BY <1>1, <1>5 DEF Claimable, JobPaid, Attended
<1>7. JobPaid(j)'
  <2>1. Spent(j)' = Spent(j) + 1
    BY <1>3, <1>4, <1>5 DEF Spent
  <2>2. Attended(j)'
    BY <1>2, <1>4 DEF Attended
  <2>. QED
    BY <1>2, <1>3, <1>4, <1>5, <1>6, <2>1, <2>2 DEF JobPaid
<1>8. ASSUME NEW k \in DOMAIN job \ {j} PROVE JobPaid(k)'
  <2>1. Spent(k)' = Spent(k)
    BY <1>3, <1>4 DEF Spent
  <2>2. Attended(k) => Attended(k)'
    BY <1>2, <1>4 DEF Attended
  <2>. QED
    BY <1>2, <1>3, <1>4, <1>5, <2>1, <2>2 DEF JobPaid
<1>9. ASSUME NEW v \in Workers PROVE SeenPaid(v)'
  <2>1. CASE v = w
    <3>1. job[j].attempts + 1 <= faults + 1
      BY <1>5, <1>6 DEF Spent
    <3>. QED
      BY <1>2, <1>4, <1>5, <2>1, <3>1 DEF SeenPaid
  <2>2. CASE v # w
    <3>1. /\ SeenPaid(v) /\ seen[v] \in Nat
          /\ pc[v] # "idle" => held[v] \in DOMAIN job
      BY DEF AttemptsPaid, TypeOK
    <3>2. ASSUME pc[v] # "idle"
          PROVE  seen[v] <= job'[held[v]].attempts
      <4>1. PICK k \in DOMAIN job : k = held[v]
        BY <3>1, <3>2
      <4>2. job'[k].attempts \in {job[k].attempts, job[k].attempts + 1}
        BY <1>4
      <4>3. seen[v] <= job[k].attempts /\ job[k].attempts \in Nat
        BY <1>5, <3>1, <3>2, <4>1 DEF SeenPaid
      <4>. QED
        BY <3>1, <4>1, <4>2, <4>3
    <3>. QED
      BY <1>2, <2>2, <3>1, <3>2 DEF SeenPaid
  <2>. QED
    BY <2>1, <2>2
<1>. QED
  BY <1>4, <1>7, <1>8, <1>9 DEF AttemptsPaid

\* A worker that leaves its job unfinished, at the price of a fault.
LEMMA CrashPaid ==
  ASSUME TypeOK, AttemptsPaid, NEW w \in Workers, Crash(w)
  PROVE  AttemptsPaid'
<1>1. /\ pc'[w] = "idle" /\ faults' = faults + 1 /\ job' = job
      /\ \A v \in Workers \ {w} :
           pc'[v] = pc[v] /\ held'[v] = held[v] /\ seen'[v] = seen[v]
  BY PushWorkersAssumption
    DEF Crash, LeaveJob, Stop, Goto, Fault, TypeOK, DeliveryTypeOK
<1>2. \A j : Raising(j)' \subseteq Raising(j)
  BY <1>1 DEF Raising
<1>3. ASSUME NEW j \in DOMAIN job PROVE JobPaid(j)'
  <2>1. JobPaid(j) /\ MaxAttempts \in Nat
    BY PushWorkersAssumption DEF AttemptsPaid
  <2>2. /\ job[j].attempts \in Nat /\ Cardinality(Raising(j)) \in Nat
        /\ faults \in Nat
    BY <2>1, CountsType
  <2>3. /\ IsFiniteSet(Raising(j)')
        /\ Cardinality(Raising(j)') <= Cardinality(Raising(j))
    BY <1>2, <2>1, FS_Subset DEF JobPaid
  <2>4. Cardinality(Raising(j)') \in Nat
    BY <2>3, FS_CardinalityType
  <2>5. Spent(j)' <= faults' /\ Spent(j)' \in Nat
    BY <1>1, <2>1, <2>2, <2>3, <2>4 DEF JobPaid, Spent
  <2>. QED
    BY <1>1, <2>1, <2>2, <2>3, <2>5 DEF JobPaid
<1>4. ASSUME NEW v \in Workers PROVE SeenPaid(v)'
  <2>1. SeenPaid(v) /\ seen[v] \in Nat /\ faults \in Nat
    BY DEF AttemptsPaid, TypeOK, DeliveryTypeOK
  <2>2. CASE v # w
    <3>1. job'[held'[v]].attempts = job[held[v]].attempts
      BY <1>1, <2>2
    <3>. QED
      BY <1>1, <2>1, <2>2, <3>1 DEF SeenPaid
  <2>. QED
    BY <1>1, <2>2 DEF SeenPaid
<1>. QED
  BY <1>1, <1>3, <1>4 DEF AttemptsPaid

\* A worker that completes or fails its job.
LEMMA FinishPaid ==
  ASSUME TypeOK, AttemptsPaid, NEW w \in Workers, CompletePage(w) \/ FailPage(w)
  PROVE  AttemptsPaid'
<1>0. PICK j : held[w] = j
  OBVIOUS
<1>1. /\ pc'[w] = "idle" /\ faults' = faults /\ j \in DOMAIN job
      /\ pc[w] \in {"returned", "raised"} /\ seen[w] \in Nat
      /\ \A v \in Workers \ {w} :
           pc'[v] = pc[v] /\ held'[v] = held[v] /\ seen'[v] = seen[v]
  BY <1>0, PushWorkersAssumption
    DEF CompletePage, FailPage, LeaveJob, Stop, Goto, TypeOK, DeliveryTypeOK
<1>2. /\ DOMAIN job' = DOMAIN job /\ job'[j].attempts = job[j].attempts
      /\ \A k \in DOMAIN job \ {j} : job'[k] = job[k]
      /\ \/ job'[j].status = "done"
         \/ pc[w] = "raised" /\ job'[j].status = "queued"
         \/ /\ pc[w] = "raised" /\ job'[j].status = "failed"
            /\ seen[w] >= MaxAttempts
  <2>1. job[j] \in JobRow
    BY <1>1 DEF TypeOK
  <2>2. CASE CompletePage(w)
    <3>1. /\ Completed(job[j]).status = "done"
          /\ Completed(job[j]).attempts = job[j].attempts
      BY <2>1 DEF Completed, JobRow
    <3>. QED
      BY <1>0, <1>1, <2>2, <3>1 DEF CompletePage, TypeOK
  <2>3. CASE FailPage(w)
    <3> DEFINE row == FailedAttempt(job[j], seen[w], MaxAttempts)
    <3>1. /\ row.attempts = job[j].attempts
          /\ row.status = IF seen[w] >= MaxAttempts THEN "failed" ELSE "queued"
      BY <2>1 DEF FailedAttempt, JobRow
    <3>2. pc[w] = "raised" /\ job' = [job EXCEPT ![j] = row]
      BY <1>0, <2>3 DEF FailPage
    <3> HIDE DEF row
    <3>. QED
      BY <1>1, <3>1, <3>2 DEF TypeOK
  <2>. QED
    BY <2>2, <2>3
<1>3. \A k : Raising(k)' = IF k = j THEN Raising(k) \ {w} ELSE Raising(k)
  BY <1>0, <1>1 DEF Raising
<1>4. ASSUME NEW k \in DOMAIN job
      PROVE  /\ JobPaid(k) /\ job[k].attempts \in Nat /\ faults \in Nat
             /\ Cardinality(Raising(k)) \in Nat /\ Spent(k) \in Nat
  BY CountsType DEF AttemptsPaid, Spent
<1>5. MaxAttempts \in Nat /\ SeenPaid(w)
  BY PushWorkersAssumption DEF AttemptsPaid
<1>6. JobPaid(j)'
  <2>1. IsFiniteSet(Raising(j)) /\ Raising(j)' = Raising(j) \ {w}
    BY <1>1, <1>3, <1>4 DEF JobPaid
  <2>2. /\ IsFiniteSet(Raising(j)') /\ Cardinality(Raising(j)') \in Nat
        /\ Cardinality(Raising(j)') <= Cardinality(Raising(j))
        /\ w \in Raising(j) =>
             Cardinality(Raising(j)') = Cardinality(Raising(j)) - 1
    <3>1. /\ IsFiniteSet(Raising(j) \ {w})
          /\ Cardinality(Raising(j) \ {w}) =
               IF w \in Raising(j) THEN Cardinality(Raising(j)) - 1
                                   ELSE Cardinality(Raising(j))
      BY <2>1, FS_RemoveElement
    <3>2. Cardinality(Raising(j) \ {w}) \in Nat
      BY <3>1, FS_CardinalityType
    <3>3. Cardinality(Raising(j)) \in Nat
      BY <1>1, <1>4
    <3>. QED
      BY <2>1, <3>1, <3>2, <3>3
  <2>3. /\ Spent(j)' <= Spent(j) /\ Spent(j)' \in Nat
        /\ w \in Raising(j) => Spent(j)' <= Spent(j) - 1
    BY <1>1, <1>2, <1>4, <2>2 DEF Spent
  <2>4. Spent(j)' <= faults + 1
    BY <1>1, <1>4, <2>3 DEF JobPaid
  <2>5. CASE job'[j].status = "done"
    BY <1>1, <2>2, <2>4, <2>5 DEF JobPaid
  <2>6. CASE pc[w] = "raised" /\ job'[j].status # "done"
    <3>1. w \in Raising(j)
      BY <1>0, <2>6 DEF Raising
    <3>2. Spent(j)' <= faults
      BY <1>1, <1>4, <2>3, <3>1 DEF JobPaid
    <3>3. seen[w] <= job[j].attempts /\ seen[w] <= faults
      BY <1>0, <1>5, <2>6 DEF SeenPaid
    <3>4. job'[j].status = "failed" =>
            job'[j].attempts >= MaxAttempts /\ faults >= MaxAttempts
      BY <1>1, <1>2, <1>4, <1>5, <2>6, <3>3
    <3>. QED
      BY <1>1, <2>2, <2>4, <3>2, <3>4 DEF JobPaid
  <2>. QED
    BY <1>2, <2>5, <2>6
<1>7. ASSUME NEW k \in DOMAIN job \ {j} PROVE JobPaid(k)'
  <2>1. Spent(k)' = Spent(k) /\ Raising(k)' = Raising(k) /\ job'[k] = job[k]
    BY <1>2, <1>3, <1>7 DEF Spent
  <2>2. Attended(k) => Attended(k)'
    BY <1>0, <1>1, <1>7, <2>1 DEF Attended
  <2>. QED
    BY <1>1, <1>4, <2>1, <2>2 DEF JobPaid
<1>8. ASSUME NEW v \in Workers PROVE SeenPaid(v)'
  <2>1. /\ SeenPaid(v) /\ seen[v] \in Nat
        /\ pc[v] # "idle" => held[v] \in DOMAIN job
    BY DEF AttemptsPaid, TypeOK
  <2>2. CASE v # w
    <3>1. pc[v] # "idle" => job'[held[v]].attempts = job[held[v]].attempts
      BY <1>2, <2>1
    <3>. QED
      BY <1>1, <2>1, <2>2, <3>1 DEF SeenPaid
  <2>. QED
    BY <1>1, <2>2 DEF SeenPaid
<1>. QED
  BY <1>2, <1>6, <1>7, <1>8 DEF AttemptsPaid

\* A lease that runs out costs a fault, if somebody attends to the job.
LEMMA TimePaid ==
  ASSUME TypeOK, AttemptsPaid, NEW j \in DOMAIN job, Lapse(j) \/ BackOff(j)
  PROVE  AttemptsPaid'
<1>1. /\ DOMAIN job' = DOMAIN job /\ UNCHANGED <<pc, held, seen>>
      /\ job'[j].attempts = job[j].attempts /\ job'[j].status = job[j].status
      /\ \A k \in DOMAIN job \ {j} : job'[k] = job[k]
  <2>1. job[j] \in JobRow
    BY DEF TypeOK
  <2>2. /\ Lapsed(job[j]).attempts = job[j].attempts
        /\ Lapsed(job[j]).status = job[j].status
        /\ BackedOff(job[j]).attempts = job[j].attempts
        /\ BackedOff(job[j]).status = job[j].status
    BY <2>1 DEF Lapsed, BackedOff, JobRow
  <2>. QED
    BY <2>2 DEF Lapse, BackOff, sending, TypeOK
<1>2. faults \in Nat /\ faults' \in {faults, faults + 1} /\ faults' \in Nat
  BY DEF Lapse, BackOff, Fault, TypeOK, DeliveryTypeOK
<1>3. Attended(j) => Attended(j)' \/ faults' = faults + 1
  <2>1. CASE Lapse(j)
    BY <2>1 DEF Lapse, Attended, Fault
  <2>2. CASE BackOff(j)
    <3>1. job'[j].leased = job[j].leased
      <4>1. job[j] \in JobRow
        BY DEF TypeOK
      <4>2. BackedOff(job[j]).leased = job[j].leased
        BY <4>1 DEF BackedOff, JobRow
      <4>. QED
        BY <2>2, <4>2 DEF BackOff, TypeOK
    <3>. QED
      BY <1>1, <3>1 DEF Attended
  <2>. QED
    BY <2>1, <2>2
<1>4. ASSUME NEW k \in DOMAIN job PROVE JobPaid(k)'
  <2>1. /\ JobPaid(k) /\ Spent(k) \in Nat /\ MaxAttempts \in Nat
        /\ job[k].attempts \in Nat
    BY CountsType, PushWorkersAssumption DEF AttemptsPaid, Spent
  <2>2. /\ Raising(k)' = Raising(k)
        /\ job'[k].attempts = job[k].attempts /\ job'[k].status = job[k].status
    BY <1>1 DEF Raising
  <2>3. Spent(k)' = Spent(k)
    BY <2>2 DEF Spent
  <2>4. Attended(k) => Attended(k)' \/ faults' = faults + 1
    BY <1>1, <1>3 DEF Attended
  <2>. QED
    BY <1>2, <2>1, <2>2, <2>3, <2>4 DEF JobPaid
<1>5. ASSUME NEW v \in Workers PROVE SeenPaid(v)'
  <2>1. /\ SeenPaid(v) /\ seen[v] \in Nat
        /\ pc[v] # "idle" => held[v] \in DOMAIN job
    BY DEF AttemptsPaid, TypeOK
  <2>2. pc[v] # "idle" => job'[held[v]].attempts = job[held[v]].attempts
    BY <1>1, <2>1
  <2>. QED
    BY <1>1, <1>2, <2>1, <2>2 DEF SeenPaid
<1>. QED
  BY <1>1, <1>4, <1>5 DEF AttemptsPaid

\* Every step of the workers and of their environment keeps the account.
LEMMA NextPaid ==
  TypeOK /\ AttemptsPaid /\ [Next]_vars => AttemptsPaid'
<1> SUFFICES ASSUME TypeOK, AttemptsPaid, [Next]_vars PROVE AttemptsPaid'
  OBVIOUS
<1>0. faults \in Nat /\ faults + 1 \in Nat
  BY DEF TypeOK, DeliveryTypeOK
<1>1. ASSUME NEW w \in Workers, Deliver(w) \/ Checkpoint(w) PROVE AttemptsPaid'
  <2>1. /\ faults' = faults /\ UNCHANGED <<job, held, seen>>
        /\ \A v \in Workers :
             /\ pc'[v] = "idle" <=> pc[v] = "idle"
             /\ pc'[v] \in {"release", "raised"} <=> pc[v] \in {"release", "raised"}
    BY <1>1, PushWorkersAssumption
      DEF Deliver, DeliveryStep, LoadNone, Load, ClaimNext, ClaimReply, Send,
          Prune, Release, Checkpoint, AfterCheckpoint, Goto, jobs, TypeOK,
          DeliveryTypeOK
  <2>. QED
    BY <1>0, <2>1, StillPaid
<1>2. ASSUME NEW w \in Workers, DeliveryRaises(w) PROVE AttemptsPaid'
  <2>1. /\ faults' = faults + 1 /\ UNCHANGED <<job, held, seen>>
        /\ pc[w] # "idle" /\ pc'[w] \in {"release", "raised"}
        /\ pc[w] # "raised"
        /\ \A v \in Workers \ {w} : pc'[v] = pc[v]
    BY <1>2, PushWorkersAssumption
      DEF DeliveryRaises, DeliveryFailure, SendRaises, RedisRaises,
          DatabaseRaises, Fault, Goto, jobs, TypeOK, DeliveryTypeOK
  <2>2. CASE pc[w] = "release"
    BY <1>0, <2>1, <2>2, StillPaid
  <2>3. CASE pc[w] # "release"
    BY <2>1, <2>3, RaisedPaid
  <2>. QED
    BY <2>2, <2>3
<1>3. CASE Environment \/ UNCHANGED vars
  <2>1. /\ faults' \in {faults, faults + 1}
        /\ UNCHANGED <<pc, job, held, seen>>
    BY <1>3 DEF Environment, Forget, Fault, UserStep, ChangeActivity,
       RegisterDevice, ChangeSubscription, sending, jobs, vars, delivery
  <2>. QED
    BY <1>0, <2>1, StillPaid
<1>. QED
  BY <1>1, <1>2, <1>3, ClaimPaid, FinishPaid, CrashPaid, TimePaid
    DEF Next, WorkerStep

LEMMA InitPaid == Init => AttemptsPaid
<1> SUFFICES ASSUME Init PROVE AttemptsPaid
  OBVIOUS
<1>1. /\ \A w \in Workers : pc[w] = "idle"
      /\ faults = 0
      /\ \A j \in DOMAIN job : job[j].attempts = 0 /\ job[j].status = "queued"
  BY PushWorkersAssumption DEF Init, InitDelivery, NewJob
<1>2. \A j : Raising(j) = {}
  BY <1>1 DEF Raising
<1>3. \A j \in DOMAIN job : Spent(j) = 0 /\ IsFiniteSet(Raising(j))
  <2>1. IsFiniteSet({}) /\ Cardinality({}) = 0
    BY FS_EmptySet
  <2>. QED
    BY <1>1, <1>2, <2>1 DEF Spent
<1>. QED
  BY <1>1, <1>3 DEF AttemptsPaid, JobPaid, SeenPaid
\* A page is given up only when it has been claimed max_attempts times, and no
\* sooner than as many failures have happened: no crowd of workers, lapsed
\* lease or job completed twice uses up its attempts, though each worker fails
\* a job by the attempts it saw (fail_push_page_job).
THEOREM GivenUpLate ==
  Spec => [](\A j \in DOMAIN job : job[j].status = "failed" =>
               job[j].attempts >= MaxAttempts /\ faults >= MaxAttempts)
<1>1. AttemptsPaid => \A j \in DOMAIN job : job[j].status = "failed" =>
                        job[j].attempts >= MaxAttempts /\ faults >= MaxAttempts
  BY DEF AttemptsPaid, JobPaid
<1>. QED
  BY <1>1, InitPaid, NextPaid, PushTypeCorrect, PTL DEF Spec

-----------------------------------------------------------------------------
(* What it takes to push a digest twice. *)

\* The steps around deliver_page claim and push nothing.
LEMMA AroundPaid ==
  ASSUME DeliveryTypeOK, AllPaid, faults' \in Nat, faults' >= faults,
         NEW p \in Senders, Around(p)
  PROVE  AllPaid'
<1>1. \A q \in Senders : Claiming(q)' =>
        Claiming(q) /\ batch'[q].fresh = batch[q].fresh /\ task'[q] = task[q]
  BY DEF Around, Start, AfterCheckpoint, Stop, Goto, Claiming, DeliveryTypeOK
<1>. QED
  BY <1>1, QuietPaid DEF Around

LEMMA NextAllPaid ==
  TypeOK /\ AllPaid /\ [Next]_vars => AllPaid'
<1> USE PushWorkersAssumption
<1> SUFFICES ASSUME TypeOK, AllPaid, [Next]_vars PROVE AllPaid'
  OBVIOUS
<1>0. /\ DeliveryTypeOK /\ faults \in Nat
      /\ \A n : n = faults \/ n = faults + 1 => n \in Nat /\ n >= faults
  BY DEF TypeOK, DeliveryTypeOK
<1>1. ASSUME NEW w \in Workers,
             \/ ClaimPage(w) \/ Checkpoint(w)
             \/ CompletePage(w) \/ FailPage(w) \/ Crash(w)
      PROVE  AllPaid'
  <2>1. Around(w) /\ faults' \in {faults, faults + 1}
    BY <1>1 DEF ClaimPage, Checkpoint, AfterCheckpoint, CompletePage, FailPage,
                Crash, Fault, LeaveJob, Around, TypeOK
  <2>. QED
    BY <1>0, <2>1, AroundPaid
<1>2. ASSUME NEW w \in Workers, Deliver(w) \/ DeliveryRaises(w) PROVE AllPaid'
  BY <1>0, <1>2, DeliveryStepPaid, DeliveryFailurePaid DEF Deliver, DeliveryRaises
<1>3. CASE \/ \E j \in DOMAIN job : Lapse(j) \/ BackOff(j)
           \/ \E u \in Users : UserStep(u)
           \/ UNCHANGED vars
  <2>1. UNCHANGED <<markers, pushes, pc, task, batch>>
        /\ faults' \in {faults, faults + 1}
    BY <1>3 DEF Lapse, BackOff, Fault, UserStep, ChangeActivity, RegisterDevice,
       ChangeSubscription, vars, delivery, sending
  <2>. QED
    BY <1>0, <2>1, QuietPaid DEF Claiming
<1>4. CASE Forget
  BY <1>0, <1>4, ForgetPaid
<1>. QED
  BY <1>1, <1>2, <1>3, <1>4 DEF Next, WorkerStep, Environment

\* A user is pushed a digest at most once more than there were failures, even
\* if sends raise after they have pushed and Redis loses markers while pages
\* are retried: races of workers multiply none of that (the claims of
\* PushDedupStore, and their release when the send raises).  Without these
\* two kinds of failure nobody is pushed twice at all (OncePerUser).
THEOREM RepeatsArePaid == Spec => []RepeatsPaid
<1>1. Init => AllPaid
  BY InitDeliveryPaid DEF Init
<1>2. TypeOK /\ AllPaid => RepeatsPaid
  BY PaidRepeats DEF TypeOK
<1>. QED
  BY <1>1, <1>2, NextAllPaid, PushTypeCorrect, PTL DEF Spec
=============================================================================
