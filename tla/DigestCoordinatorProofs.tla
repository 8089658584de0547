----------------------- MODULE DigestCoordinatorProofs -----------------------
(***************************************************************************)
(* Theorems about DigestCoordinator, the coordinators and workers together, *)
(* for any number of each, of users, digests, posts and page sizes.         *)
(***************************************************************************)
EXTENDS DigestCoordinator, PushWorkersProofs

-----------------------------------------------------------------------------
(* The pages of a digest. *)

\* A nonempty set of users has a last one.
LEMMA LastUser ==
  ASSUME NEW S \in SUBSET Users, S # {}
  PROVE  \E m \in S : \A u \in S : u <= m
<1> DEFINE above(m) == {u \in S : u > m}
           count == {Cardinality(above(m)) : m \in S}
<1>1. S \subseteq Nat /\ IsFiniteSet(S)
  BY FS_Subset, DeliverPageAssumption
<1>2. \A m \in S : IsFiniteSet(above(m)) /\ Cardinality(above(m)) \in Nat
  BY <1>1, FS_Subset, FS_CardinalityType
<1>3. PICK n \in count : \A k \in count : ~ (k < n)
  <2>1. count \subseteq Nat /\ count # {}
    BY <1>2
  <2> HIDE DEF count
  <2>2. PICK n \in count : \A k \in count : <<k, n>> \notin OpToRel(<, Nat)
    BY <2>1, WFMin, NatLessThanWellFounded, Zenon
  <2>. QED
    BY <2>1, <2>2, Zenon DEF OpToRel
<1>4. PICK m \in S : n = Cardinality(above(m))
  BY <1>3
<1>5. ASSUME NEW u \in S, ~ (u <= m) PROVE FALSE
  <2>1. u > m /\ u \in above(m) /\ u \notin above(u)
    BY <1>1, <1>5
  <2>2. above(u) \subseteq above(m)
    <3>1. \A v \in S : v > u => v > m
      BY <1>1, <2>1
    <3>. QED
      BY <3>1
  <2>3. above(u) # above(m)
    BY <2>1
  <2>4. ~ (Cardinality(above(u)) < Cardinality(above(m)))
    BY <1>3, <1>4
  <2> HIDE DEF above
  <2>5. Cardinality(above(u)) <= Cardinality(above(m))
        /\ Cardinality(above(u)) # Cardinality(above(m))
    BY <1>2, <2>2, <2>3, FS_Subset
  <2>. QED
    BY <1>2, <2>4, <2>5
<1>. QED
  BY <1>5

\* The boundaries are subscribers.
LEMMA PageEndsType ==
  ASSUME TypeOK
  PROVE  /\ Boundaries \in SUBSET Users /\ PageEnds \subseteq Users \cup {0}
         /\ Users \cup {0} \subseteq Nat /\ 0 \notin Boundaries
         /\ IsFiniteSet(PageEnds) /\ 0 \in PageEnds
<1>1. Boundaries \in SUBSET Users
  BY DEF Boundaries, TypeOK, DeliveryTypeOK
<1>2. Users \subseteq Nat \ {0}
  BY DeliverPageAssumption
<1>3. IsFiniteSet(PageEnds)
  BY <1>1, FS_Subset, FS_AddElement, DeliverPageAssumption DEF PageEnds
<1>. QED
  BY <1>1, <1>2, <1>3 DEF PageEnds

\* A page begins at the last boundary before its end, or at None.
LEMMA PageStartIs ==
  ASSUME TypeOK, NEW hi \in PageEnds
  PROVE  /\ PageStart(hi) \in Boundaries \cup {0}
         /\ hi # 0 => PageStart(hi) < hi
         /\ \A b \in Boundaries : (hi = 0 \/ b < hi) => b <= PageStart(hi)
<1> DEFINE before == {b \in Boundaries : hi = 0 \/ b < hi}
           Good(lo) == /\ hi # 0 => lo < hi
                       /\ \A b \in Boundaries : (hi = 0 \/ b < hi) => b <= lo
<1>1. hi \in Nat /\ before \in SUBSET Users
  BY PageEndsType
<1>2. \E lo \in Boundaries \cup {0} : Good(lo)
  <2>1. CASE before = {}
    <3>1. hi # 0 => 0 < hi
      BY <1>1
    <3>. QED
      BY <2>1, <3>1
  <2>2. CASE before # {}
    <3>1. PICK m \in before : \A b \in before : b <= m
      <4> HIDE DEF before
      <4>. QED
        BY <1>1, <2>2, LastUser
    <3>. QED
      BY <3>1
  <2>. QED
    BY <2>1, <2>2
<1>3. PageStart(hi) = CHOOSE lo \in Boundaries \cup {0} : Good(lo)
  BY DEF PageStart
<1>4. PageStart(hi) \in Boundaries \cup {0} /\ Good(PageStart(hi))
  <2> HIDE DEF Good
  <2>. QED
    BY <1>2, <1>3, Zenon
<1>. QED
  BY <1>4

\* The pages are disjoint and leave nobody out.
LEMMA PagesSplit ==
  ASSUME TypeOK, NEW u \in Users
  PROVE  \E h \in PageEnds : \A k \in PageEnds :
           InRange(u, PageStart(k), k) <=> k = h
<1> DEFINE after == {b \in Boundaries : u <= b}
<1>0. /\ u \in Nat \ {0} /\ PageEnds \subseteq Nat /\ Boundaries \subseteq Nat
      /\ \A k \in PageEnds : PageStart(k) \in Nat
  BY PageEndsType, PageStartIs, DeliverPageAssumption
<1>1. CASE after = {}
  <2>1. \A b \in Boundaries \cup {0} : b < u
    BY <1>0, <1>1
  <2>2. \A k \in PageEnds : InRange(u, PageStart(k), k) <=> k = 0
    BY <1>0, <2>1, PageStartIs DEF InRange, PageEnds
  <2>. QED
    BY <2>2, PageEndsType
<1>2. CASE after # {}
  <2>1. PICK h \in after : \A b \in after : ~ (b < h)
    BY <1>2, FirstUser, PageEndsType
  <2>2. /\ h \in PageEnds /\ h \in Nat /\ h # 0 /\ u <= h
        /\ \A b \in Boundaries \cup {0} : b < h => b < u
    BY <1>0, <2>1, PageEndsType DEF PageEnds
  <2>3. InRange(u, PageStart(h), h)
    <3>1. PageStart(h) < u
      BY <2>2, PageStartIs
    <3>. QED
      BY <1>0, <2>2, <3>1 DEF InRange
  <2>4. ASSUME NEW k \in PageEnds, k # h PROVE ~ InRange(u, PageStart(k), k)
    <3>1. CASE k = 0 \/ h < k
      <4>1. h <= PageStart(k)
        BY <2>1, <3>1, PageStartIs
      <4>. QED
        BY <1>0, <2>2, <4>1 DEF InRange
    <3>2. CASE k # 0 /\ k < h
      <4>1. k < u
        BY <2>2, <3>2, <2>4 DEF PageEnds
      <4>. QED
        BY <1>0, <3>2, <4>1 DEF InRange
    <3>. QED
      BY <1>0, <2>2, <2>4, <3>1, <3>2
  <2>. QED
    BY <2>2, <2>3, <2>4
<1>. QED
  BY <1>1, <1>2

\* Every job has the number of the jobs before it in its id.
FreshIds ==
  /\ IsFiniteSet(DOMAIN job)
  /\ \A j \in DOMAIN job : \E k \in Nat, hi \in Nat :
       j = <<k, hi>> /\ k < Cardinality(DOMAIN job)

\* The new jobs: one for each page end, and no job overwritten.
LEMMA EnqueueEffect ==
  ASSUME TypeOK, FreshIds, NEW c \in Coordinators, EnqueuePages(c)
  PROVE  \E new :
           /\ new \cap DOMAIN job = {} /\ IsFiniteSet(new)
           /\ DOMAIN job' = DOMAIN job \cup new /\ DOMAIN page' = DOMAIN job'
           /\ \A j \in DOMAIN job : job'[j] = job[j] /\ page'[j] = page[j]
           /\ \A j \in new :
                /\ job'[j] = NewJob
                /\ \E hi \in PageEnds :
                     /\ j = <<Cardinality(DOMAIN job), hi>>
                     /\ page'[j] = [digest |-> digest[c].to,
                                    lo |-> PageStart(hi), hi |-> hi, ckpt |-> 0]
           /\ \A hi \in PageEnds : <<Cardinality(DOMAIN job), hi>> \in new
<1> DEFINE n == Cardinality(DOMAIN job)
           id(hi) == <<n, hi>>
           new == {id(hi) : hi \in PageEnds}
           spec == [j \in new |-> [digest |-> digest[c].to, lo |-> PageStart(j[2]),
                                   hi |-> j[2], ckpt |-> 0]]
<1>1. /\ job' = [j \in DOMAIN job \cup new |->
                   IF j \in new THEN NewJob ELSE job[j]]
      /\ page' = [j \in DOMAIN job \cup new |->
                    IF j \in new THEN spec[j] ELSE page[j]]
  BY DEF EnqueuePages
<1>2. n \in Nat
  BY FS_CardinalityType DEF FreshIds
<1>3. new \cap DOMAIN job = {}
  BY <1>2 DEF FreshIds
<1>4. IsFiniteSet(new)
  <2> DEFINE f == [hi \in PageEnds |-> id(hi)]
  <2>1. f \in Surjection(PageEnds, new)
    BY DEF Surjection
  <2>. QED
    BY <2>1, PageEndsType, FS_Surjection
<1>5. ASSUME NEW j \in new
      PROVE  \E hi \in PageEnds :
               /\ j = id(hi)
               /\ spec[j] = [digest |-> digest[c].to, lo |-> PageStart(hi),
                             hi |-> hi, ckpt |-> 0]
  <2>1. PICK hi \in PageEnds : j = id(hi)
    OBVIOUS
  <2>2. j[2] = hi
    BY <2>1
  <2>. QED
    BY <2>1, <2>2
<1>6. \A hi \in PageEnds : id(hi) \in new
  OBVIOUS
<1> HIDE DEF new, spec
<1>7. /\ DOMAIN job' = DOMAIN job \cup new /\ DOMAIN page' = DOMAIN job'
      /\ \A j \in DOMAIN job : job'[j] = job[j] /\ page'[j] = page[j]
      /\ \A j \in new : job'[j] = NewJob /\ page'[j] = spec[j]
  BY <1>1, <1>3
<1>. QED
  BY <1>3, <1>4, <1>5, <1>6, <1>7

\* The ids of the next jobs are fresh again.
LEMMA EnqueueFresh ==
  ASSUME TypeOK, FreshIds, NEW c \in Coordinators, EnqueuePages(c)
  PROVE  FreshIds'
<1>1. PICK new :
        /\ new \cap DOMAIN job = {} /\ IsFiniteSet(new)
        /\ DOMAIN job' = DOMAIN job \cup new
        /\ \A j \in new : \E hi \in PageEnds : j = <<Cardinality(DOMAIN job), hi>>
        /\ \A hi \in PageEnds : <<Cardinality(DOMAIN job), hi>> \in new
  BY EnqueueEffect
<1>2. IsFiniteSet(DOMAIN job') /\ Cardinality(DOMAIN job) \in Nat
      /\ Cardinality(DOMAIN job') \in Nat
  <2>1. IsFiniteSet(DOMAIN job) /\ IsFiniteSet(new)
    BY <1>1 DEF FreshIds
  <2>2. IsFiniteSet(DOMAIN job \cup new)
    BY <2>1, FS_Union
  <2>. QED
    BY <1>1, <2>1, <2>2, FS_CardinalityType
<1>3. new # {}
  BY <1>1, PageEndsType
<1>4. Cardinality(DOMAIN job) < Cardinality(DOMAIN job')
  <2>1. /\ DOMAIN job \in SUBSET DOMAIN job' /\ DOMAIN job # DOMAIN job'
    BY <1>1, <1>3
  <2>2. /\ Cardinality(DOMAIN job) <= Cardinality(DOMAIN job')
        /\ Cardinality(DOMAIN job) # Cardinality(DOMAIN job')
    BY <1>2, <2>1, FS_Subset
  <2>. QED
    BY <1>2, <2>2
<1>5. \A hi \in PageEnds : hi \in Nat
  BY PageEndsType
<1>6. ASSUME NEW j \in DOMAIN job'
      PROVE  \E k \in Nat, hi \in Nat :
               j = <<k, hi>> /\ k < Cardinality(DOMAIN job')
  <2>1. PICK k \in Nat, hi \in Nat :
               j = <<k, hi>> /\ k <= Cardinality(DOMAIN job)
    BY <1>1, <1>2, <1>5 DEF FreshIds
  <2>. QED
    BY <1>2, <1>4, <2>1
<1>. QED
  BY <1>2, <1>6 DEF FreshIds

-----------------------------------------------------------------------------
(* Types. *)

\* Coordinators are senders that are no workers; posts are numbered.
LEMMA Roles ==
  /\ \A c \in Coordinators : c \in Senders /\ c \notin Workers
  /\ \A w \in Workers : w \in Senders /\ w \notin Coordinators
  /\ Digests = 1 .. MaxPosts /\ MaxPosts \in Nat
  BY CoordinatorAssumption

\* A step of a coordinator leaves the jobs and the workers alone.
LEMMA CoordinatorType ==
  ASSUME TypeOK, DeliveryTypeOK', UNCHANGED jobs, NEW c \in Coordinators,
         \A q \in Senders \ {c} : pc'[q] = pc[q]
  PROVE  TypeOK'
<1>1. \A w \in Workers : pc'[w] = pc[w]
  BY Roles
<1>. QED
  BY <1>1 DEF TypeOK, jobs

\* The steps of the workers are not those of a coordinator.
LEMMA NextOthers ==
  ASSUME TypeOK, [Next]_vars, NEW c \in Coordinators
  PROVE  /\ pc'[c] = pc[c] /\ task'[c] = task[c] /\ cursor'[c] = cursor[c]
         /\ batch'[c] = batch[c]
<1> USE Roles DEF TypeOK
<1>1. ASSUME NEW w \in Workers, WorkerStep(w) \/ DeliveryRaises(w)
      PROVE  /\ pc'[c] = pc[c] /\ task'[c] = task[c] /\ cursor'[c] = cursor[c]
             /\ batch'[c] = batch[c]
  <2>1. CASE Deliver(w) \/ Checkpoint(w) \/ DeliveryRaises(w)
    <3>1. LocalStep(w) \/ DeliveryFailure(w)
      BY <2>1 DEF Deliver, Checkpoint, DeliveryRaises, LocalStep
    <3>. QED
      BY <3>1, LocalOthers
  <2>2. CASE ClaimPage(w) \/ CompletePage(w) \/ FailPage(w)
    BY <2>2 DEF ClaimPage, Start, CompletePage, FailPage, LeaveJob, Stop,
                Goto, DeliveryTypeOK
  <2>. QED
    BY <1>1, <2>1, <2>2 DEF WorkerStep
<1>2. ASSUME NEW w \in Workers, Crash(w)
      PROVE  /\ pc'[c] = pc[c] /\ task'[c] = task[c] /\ cursor'[c] = cursor[c]
             /\ batch'[c] = batch[c]
  BY <1>2 DEF Crash, LeaveJob, Stop, Goto, DeliveryTypeOK
<1>3. CASE (\E j \in DOMAIN job : Lapse(j) \/ BackOff(j)) \/ Environment
             \/ UNCHANGED vars
  BY <1>3 DEF Lapse, BackOff, Environment, Forget, UserStep, ChangeActivity,
     RegisterDevice, ChangeSubscription, sending, vars, delivery
<1>. QED
  BY <1>1, <1>2, <1>3 DEF Next

\* What the types say of one coordinator.
CoordinatorOK(c) ==
  /\ phase[c] \in {"idle", "listed", "hot", "delivering", "dispatched"}
  /\ digest[c] \in [from : Nat, to : Digests \cup {0}]
  /\ digest[c].to <= lastPost
  /\ phase[c] # "idle" => digest[c].from < digest[c].to
  /\ pc[c] # "idle" <=> phase[c] = "delivering"

\* In particular, a coordinator that is at work has a digest.
Underway(c) ==
  /\ CoordinatorOK(c)
  /\ phase[c] # "idle" => digest[c].to \in Digests
  /\ digest[c].from \in Nat /\ digest[c].to \in Nat
  /\ lastPost \in Nat /\ pushed \in Nat /\ pushed <= lastPost

LEMMA AtWork ==
  ASSUME PipelineTypeOK, NEW c \in Coordinators
  PROVE  Underway(c)
<1>1. CoordinatorOK(c)
  BY DEF PipelineTypeOK, CoordinatorOK
<1>2. lastPost \in Nat /\ pushed \in Nat /\ pushed <= lastPost
  BY Roles DEF PipelineTypeOK
<1>3. digest[c].from \in Nat /\ digest[c].to \in Digests \cup {0}
  BY <1>1 DEF CoordinatorOK
<1>4. digest[c].to \in Nat /\ (digest[c].to # 0 => digest[c].to \in Digests)
  BY <1>3, Roles
<1>. QED
  BY <1>1, <1>2, <1>3, <1>4 DEF CoordinatorOK, Underway

\* The steps of the workers neither add nor remove jobs.
LEMMA NextKeepsJobs ==
  ASSUME TypeOK, Next
  PROVE  DOMAIN job' = DOMAIN job
  BY DEF TypeOK, Next, WorkerStep, ClaimPage, Deliver, Checkpoint, CompletePage,
     FailPage, DeliveryRaises, Crash, Lapse, BackOff, Environment, jobs

\* The types of one coordinator, and of what all of them share, are enough.
LEMMA PipelineTypeStep ==
  ASSUME TypeOK', lastPost' \in Digests \cup {0}, pushed' \in 0 .. lastPost',
         recent' \in BOOLEAN, spans' \in [Digests -> SUBSET Nat],
         PipelineTypeOK, lastPost' >= lastPost,
         NEW c \in Coordinators, CoordinatorOK(c)',
         phase' = [phase EXCEPT ![c] = phase'[c]],
         digest' = [digest EXCEPT ![c] = digest'[c]],
         \A q \in Coordinators \ {c} : pc'[q] = pc[q]
  PROVE  PipelineTypeOK'
<1>1. ASSUME NEW q \in Coordinators PROVE CoordinatorOK(q)'
  <2>1. CASE q = c
    BY <2>1
  <2>2. CASE q # c
    <3>1. CoordinatorOK(q) /\ digest[q].to \in Nat /\ lastPost \in Nat
      BY AtWork DEF Underway
    <3>2. phase'[q] = phase[q] /\ digest'[q] = digest[q] /\ pc'[q] = pc[q]
      BY <2>2 DEF PipelineTypeOK
    <3>3. lastPost' \in Nat
      BY Roles
    <3>. QED
      BY <3>1, <3>2, <3>3 DEF CoordinatorOK
  <2>. QED
    BY <2>1, <2>2
<1>2. /\ phase' \in [Coordinators ->
           {"idle", "listed", "hot", "delivering", "dispatched"}]
      /\ digest' \in [Coordinators -> [from : Nat, to : Digests \cup {0}]]
  BY <1>1 DEF CoordinatorOK, PipelineTypeOK
<1>. QED
  BY <1>1, <1>2 DEF PipelineTypeOK, CoordinatorOK

\* The end of a cycle.
LEMMA LeaveCycleType ==
  ASSUME PipelineTypeOK, NEW c \in Coordinators, LeaveCycle(c),
         UNCHANGED <<world, markers, pushes, jobs, lastPost, spans>>,
         faults' \in Nat, pushed' \in 0 .. lastPost, recent' \in BOOLEAN
  PROVE  PipelineTypeOK'
<1>1. DeliveryTypeOK'
  BY StopType, Roles DEF LeaveCycle, PipelineTypeOK, TypeOK
<1>2. /\ pc'[c] = "idle" /\ \A q \in Senders \ {c} : pc'[q] = pc[q]
      /\ phase' = [phase EXCEPT ![c] = "idle"] /\ phase'[c] = "idle"
      /\ digest' = [digest EXCEPT ![c] = NoDigest] /\ digest'[c] = NoDigest
  BY Roles DEF LeaveCycle, Stop, Goto, Enter, PipelineTypeOK, TypeOK,
               DeliveryTypeOK
<1>3. TypeOK'
  BY <1>1, <1>2, CoordinatorType DEF PipelineTypeOK
<1>4. CoordinatorOK(c)'
  BY <1>2, Roles, AtWork DEF CoordinatorOK, NoDigest, Underway
<1>5. lastPost >= lastPost
  BY AtWork DEF Underway
<1>. QED
  BY <1>2, <1>3, <1>4, <1>5, Roles, PipelineTypeStep DEF PipelineTypeOK
\* A coordinator lists a digest, counts the subscribers or begins to deliver.
LEMMA DispatchType ==
  ASSUME PipelineTypeOK, NEW c \in Coordinators,
         ListDigest(c) \/ DispatchCold(c) \/ DispatchHot(c)
  PROVE  PipelineTypeOK'
<1>0. Underway(c)
  BY AtWork
<1> USE Roles DEF PipelineTypeOK
<1>1. CASE ListDigest(c)
  <2>1. UNCHANGED vars /\ lastPost' = lastPost /\ pushed' = pushed
        /\ recent' = recent /\ lastPost \in Digests /\ pushed < lastPost
    BY <1>0, <1>1 DEF ListDigest, Pending, Underway
  <2>2. TypeOK' /\ pc' = pc /\ DOMAIN job' = DOMAIN job
    BY <2>1, NextType DEF vars, delivery, jobs
  <2>3. spans' \in [Digests -> SUBSET Nat]
    BY <1>0, <1>1, <2>1 DEF ListDigest, Underway
  <2>4. /\ phase' = [phase EXCEPT ![c] = "listed"] /\ phase'[c] = "listed"
        /\ digest'[c] = [from |-> pushed, to |-> lastPost]
        /\ digest' = [digest EXCEPT ![c] = digest'[c]]
    BY <1>1 DEF ListDigest, Enter
  <2>5. phase[c] = "idle"
    BY <1>1 DEF ListDigest
  <2>6. CoordinatorOK(c)'
    BY <1>0, <2>1, <2>2, <2>4, <2>5 DEF CoordinatorOK, Underway
  <2>7. /\ lastPost' \in Digests \cup {0} /\ pushed' \in 0 .. lastPost'
        /\ recent' \in BOOLEAN /\ lastPost' >= lastPost
    BY <1>0, <2>1 DEF Underway
  <2> HIDE DEF PipelineTypeOK
  <2>. QED
    BY <2>2, <2>3, <2>4, <2>6, <2>7, PipelineTypeStep
<1>2. CASE DispatchCold(c) \/ DispatchHot(c)
  <2>1. UNCHANGED <<topic, digest, jobs>> /\ phase[c] = "listed"
        /\ phase' = [phase EXCEPT ![c] = phase'[c]]
        /\ phase'[c] = IF DispatchCold(c) THEN "delivering" ELSE "hot"
    BY <1>2 DEF DispatchCold, DispatchHot, Enter, vars
  <2>2. DeliveryTypeOK'
    <3>1. CASE DispatchCold(c)
      <4>1. digest[c].to \in Digests /\ 0 \in Users \cup {0}
        BY <1>0, <2>1 DEF Underway
      <4>. QED
        BY <3>1, <4>1, StartType DEF DispatchCold, TypeOK
    <3>2. CASE DispatchHot(c)
      <4>1. UNCHANGED vars
        BY <3>2 DEF DispatchHot
      <4>. QED
        BY <4>1, NextType DEF TypeOK
    <3>. QED
      BY <1>2, <3>1, <3>2
  <2>3. pc' = IF DispatchCold(c) THEN [pc EXCEPT ![c] = "load"] ELSE pc
    BY <1>2 DEF DispatchCold, DispatchHot, Start, Goto, vars, delivery
  <2>4. pc[c] = "idle"
    BY <1>0, <2>1 DEF Underway, CoordinatorOK
  <2>5. TypeOK'
    BY <2>1, <2>2, <2>3, CoordinatorType
  <2>6. pc'[c] # "idle" <=> DispatchCold(c)
    BY <2>3, <2>4 DEF TypeOK, DeliveryTypeOK
  <2>7. CoordinatorOK(c)'
    BY <1>0, <2>1, <2>6 DEF CoordinatorOK, Underway, topic
  <2>8. /\ lastPost' \in Digests \cup {0} /\ pushed' \in 0 .. lastPost'
        /\ recent' \in BOOLEAN /\ lastPost' >= lastPost
        /\ spans' \in [Digests -> SUBSET Nat]
        /\ digest' = [digest EXCEPT ![c] = digest'[c]]
        /\ \A q \in Coordinators \ {c} : pc'[q] = pc[q]
    BY <1>0, <2>1, <2>3 DEF Underway, topic, TypeOK, DeliveryTypeOK
  <2> HIDE DEF PipelineTypeOK
  <2>. QED
    BY <2>1, <2>5, <2>7, <2>8, PipelineTypeStep
<1>. QED
  BY <1>1, <1>2

\* A coordinator enqueues the pages of its digest.
LEMMA EnqueueType ==
  ASSUME PipelineTypeOK, FreshIds, NEW c \in Coordinators, EnqueuePages(c)
  PROVE  PipelineTypeOK'
<1>0. Underway(c)
  BY AtWork
<1> USE DEF PipelineTypeOK
<1>1. PICK new :
        /\ DOMAIN job' = DOMAIN job \cup new /\ DOMAIN page' = DOMAIN job'
        /\ \A j \in DOMAIN job : job'[j] = job[j] /\ page'[j] = page[j]
        /\ \A j \in new :
             /\ job'[j] = NewJob
             /\ \E hi \in PageEnds :
                  page'[j] = [digest |-> digest[c].to,
                              lo |-> PageStart(hi), hi |-> hi, ckpt |-> 0]
  <2>1. PICK new :
          /\ DOMAIN job' = DOMAIN job \cup new /\ DOMAIN page' = DOMAIN job'
          /\ \A j \in DOMAIN job : job'[j] = job[j] /\ page'[j] = page[j]
          /\ \A j \in new :
               /\ job'[j] = NewJob
               /\ \E hi \in PageEnds :
                    /\ j = <<Cardinality(DOMAIN job), hi>>
                    /\ page'[j] = [digest |-> digest[c].to,
                                   lo |-> PageStart(hi), hi |-> hi, ckpt |-> 0]
    BY EnqueueEffect
  <2>. QED
    BY <2>1
<1>2. /\ UNCHANGED <<delivery, held, seen, topic, digest>> /\ phase[c] = "hot"
      /\ phase' = [phase EXCEPT ![c] = "dispatched"] /\ phase'[c] = "dispatched"
      /\ job' = [j \in DOMAIN job' |-> job'[j]]
      /\ page' = [j \in DOMAIN page' |-> page'[j]]
  BY DEF EnqueuePages, Enter
<1>3. digest[c].to \in Digests
  BY <1>0, <1>2 DEF Underway
<1>4. \A j \in new : job'[j] \in JobRow /\ page'[j] \in Page
  <2>1. \A hi \in PageEnds : hi \in Users \cup {0} /\ PageStart(hi) \in Users \cup {0}
    BY PageStartIs, PageEndsType
  <2>2. ASSUME NEW j \in new PROVE page'[j] \in Page
    BY <1>1, <1>3, <2>1 DEF Page
  <2>3. NewJob \in JobRow
    BY DEF NewJob, JobRow, JobStatus
  <2>. QED
    BY <1>1, <2>2, <2>3
<1>5. \A j \in DOMAIN job' : job'[j] \in JobRow /\ page'[j] \in Page
  BY <1>1, <1>4 DEF TypeOK
<1>6. job' \in [DOMAIN job' -> JobRow] /\ page' \in [DOMAIN job' -> Page]
  BY <1>1, <1>2, <1>5, Zenon
<1>7. TypeOK'
  <2>1. DeliveryTypeOK' /\ pc' = pc /\ held' = held /\ seen' = seen
    BY <1>2 DEF delivery, TypeOK, DeliveryTypeOK, Marker, world
  <2>. QED
    BY <1>1, <1>6, <2>1 DEF TypeOK
<1>8. CoordinatorOK(c)'
  BY <1>0, <1>2 DEF CoordinatorOK, Underway, topic, delivery
<1>. QED
  BY <1>0, <1>2, <1>7, <1>8, PipelineTypeStep DEF Underway, topic, delivery

\* A coordinator delivers a digest itself.
LEMMA DeliverColdType ==
  ASSUME PipelineTypeOK, NEW c \in Coordinators,
         DeliverCold(c) \/ (DeliveryFailure(c) /\ UNCHANGED <<jobs, coordination>>)
  PROVE  PipelineTypeOK'
<1>0. Underway(c)
  BY AtWork
<1> USE Roles DEF PipelineTypeOK
<1>1. LocalStep(c) \/ DeliveryFailure(c)
  BY DEF DeliverCold, LocalStep
<1>2. UNCHANGED <<jobs, coordination>>
  BY DEF DeliverCold
<1>3. DeliveryTypeOK'
  BY DeliveryStepType, AfterCheckpointType, DeliveryFailureType
    DEF DeliverCold, TypeOK
<1>4. \A q \in Senders \ {c} : pc'[q] = pc[q]
  BY <1>1, LocalOthers DEF TypeOK
<1>5. TypeOK'
  BY <1>2, <1>3, <1>4, CoordinatorType
<1>6. pc[c] # "idle" /\ pc'[c] # "idle"
  BY DEF DeliverCold, DeliveryStep, LoadNone, Load, ClaimNext, ClaimReply, Send,
     Prune, Release, AfterCheckpoint, DeliveryFailure, SendRaises, RedisRaises,
     DatabaseRaises, Goto, TypeOK, DeliveryTypeOK
<1>7. CoordinatorOK(c)'
  BY <1>0, <1>2, <1>6 DEF CoordinatorOK, Underway, coordination, topic
<1>8. /\ lastPost' \in Digests \cup {0} /\ pushed' \in 0 .. lastPost'
      /\ recent' \in BOOLEAN /\ spans' \in [Digests -> SUBSET Nat]
      /\ lastPost' >= lastPost
  BY <1>0, <1>2 DEF Underway, coordination, topic
<1>9. /\ phase' = [phase EXCEPT ![c] = phase'[c]]
      /\ digest' = [digest EXCEPT ![c] = digest'[c]]
  BY <1>2 DEF coordination
<1>10. \A q \in Coordinators \ {c} : pc'[q] = pc[q]
  BY <1>4
<1> HIDE DEF PipelineTypeOK
<1>. QED
  BY <1>5, <1>7, <1>8, <1>9, <1>10, PipelineTypeStep

\* The steps that leave the coordinators where they are.
LEMMA SharedType ==
  ASSUME PipelineTypeOK,
         \/ [Next]_vars /\ UNCHANGED coordination
         \/ NewPost \/ IntervalPasses
  PROVE  PipelineTypeOK'
<1> USE Roles DEF PipelineTypeOK
<1>1. TypeOK'
  BY NextType DEF NewPost, IntervalPasses
<1>2. \A c \in Coordinators : pc'[c] = pc[c]
  <2>1. [Next]_vars
    BY DEF NewPost, IntervalPasses
  <2>. QED
    BY <2>1, NextOthers
<1>0. /\ lastPost \in Nat /\ lastPost <= MaxPosts /\ pushed \in Nat
      /\ pushed <= lastPost /\ recent \in BOOLEAN /\ Digests \cup {0} = 0 .. MaxPosts
  OBVIOUS
<1>3. /\ UNCHANGED <<phase, digest, pushed, spans>> /\ recent' \in BOOLEAN
      /\ lastPost' \in 0 .. MaxPosts /\ lastPost <= lastPost'
      /\ pushed' \in 0 .. lastPost'
  <2>1. CASE NewPost
    BY <1>0, <2>1 DEF NewPost
  <2>2. CASE IntervalPasses \/ UNCHANGED coordination
    <3>1. UNCHANGED <<phase, digest, pushed, spans, lastPost>>
      BY <2>2 DEF IntervalPasses, coordination, topic
    <3>2. recent' \in BOOLEAN
      BY <1>0, <2>2 DEF IntervalPasses, coordination, topic
    <3>. QED
      BY <1>0, <3>1, <3>2
  <2>. QED
    BY <2>1, <2>2
<1>4. \A c \in Coordinators : digest[c].to \in Nat
  BY AtWork DEF Underway
<1>. QED
  BY <1>0, <1>1, <1>2, <1>3, <1>4

\* The types, and the ids of the jobs.
PipelineInv == PipelineTypeOK /\ FreshIds

\* Only a coordinator that enqueues changes the set of jobs.
LEMMA PipelineStep ==
  PipelineInv /\ [PipelineNext]_pipeline => PipelineInv'
<1> SUFFICES ASSUME PipelineTypeOK, FreshIds, [PipelineNext]_pipeline
             PROVE  PipelineTypeOK' /\ FreshIds'
  BY DEF PipelineInv
<1>1. ASSUME NEW c \in Coordinators, CoordinatorStep(c) \/ CoordinatorFailure(c)
      PROVE  PipelineTypeOK' /\ FreshIds'
  <2>1. FreshIds'
    <3>1. CASE EnqueuePages(c)
      BY <3>1, EnqueueFresh DEF PipelineTypeOK
    <3>2. ASSUME ~ EnqueuePages(c) PROVE DOMAIN job' = DOMAIN job
      BY <1>1, <3>2 DEF CoordinatorStep, CoordinatorFailure, ListDigest,
         DispatchCold, DispatchHot, DeliverCold, Advance, AbandonCycle,
         CycleRaises, CoordinatorCrash, vars, jobs
    <3>. QED
      BY <3>1, <3>2 DEF FreshIds
  <2>2. CASE EnqueuePages(c)
    BY <2>1, <2>2, EnqueueType
  <2>3. CASE ListDigest(c) \/ DispatchCold(c) \/ DispatchHot(c)
    BY <2>1, <2>3, DispatchType
  <2>4. CASE DeliverCold(c) \/ (DeliveryFailure(c) /\ UNCHANGED <<jobs, coordination>>)
    BY <2>1, <2>4, DeliverColdType
  <2>5. CASE Advance(c)
    <3>1. pushed' \in 0 .. lastPost
      BY <2>5, AtWork DEF Advance, Newer, CoordinatorOK, Underway
    <3>2. /\ faults' \in Nat /\ recent' \in BOOLEAN /\ LeaveCycle(c)
          /\ UNCHANGED <<world, markers, pushes, jobs, lastPost, spans>>
      BY <2>5 DEF Advance, PipelineTypeOK, TypeOK, DeliveryTypeOK
    <3>. QED
      BY <2>1, <3>1, <3>2, LeaveCycleType
  <2>6. CASE AbandonCycle(c) \/ CycleRaises(c) \/ CoordinatorCrash(c)
    <3>1. faults' \in Nat
      BY <2>6 DEF AbandonCycle, CycleRaises, CoordinatorCrash, Fault,
                  PipelineTypeOK, TypeOK, DeliveryTypeOK
    <3>2. /\ LeaveCycle(c) /\ UNCHANGED <<world, markers, pushes, jobs, topic>>
      BY <2>6 DEF AbandonCycle, CycleRaises, CoordinatorCrash
    <3>3. pushed' \in 0 .. lastPost /\ recent' \in BOOLEAN
      BY <3>2 DEF topic, PipelineTypeOK
    <3>. QED
      BY <2>1, <3>1, <3>2, <3>3, LeaveCycleType DEF topic
  <2>. QED
    BY <1>1, <2>2, <2>3, <2>4, <2>5, <2>6
      DEF CoordinatorStep, CoordinatorFailure
<1>2. CASE ([Next]_vars /\ UNCHANGED coordination) \/ NewPost \/ IntervalPasses
  <2>1. DOMAIN job' = DOMAIN job
    <3>1. CASE Next
      BY <3>1, NextKeepsJobs DEF PipelineTypeOK
    <3>2. CASE UNCHANGED vars
      BY <3>2 DEF vars, jobs
    <3>. QED
      BY <1>2, <3>1, <3>2 DEF NewPost, IntervalPasses
  <2>. QED
    BY <1>2, <2>1, SharedType DEF FreshIds
<1>3. CASE UNCHANGED pipeline
  <2>1. UNCHANGED vars /\ UNCHANGED coordination
    BY <1>3 DEF pipeline
  <2>. QED
    BY <1>2, <2>1
<1>. QED
  BY <1>1, <1>2, <1>3 DEF PipelineNext

\* The initial types.
LEMMA PipelineStart == PipelineInit => PipelineInv
<1> SUFFICES ASSUME PipelineInit PROVE PipelineInv
  OBVIOUS
<1>1. TypeOK
  BY InitType DEF PipelineInit
<1>2. DOMAIN job = {}
  BY CoordinatorAssumption DEF PipelineInit, Init
<1>3. FreshIds
  BY <1>2, FS_EmptySet DEF FreshIds
<1>4. PipelineTypeOK
  <2>1. /\ lastPost = 0 /\ pushed = 0 /\ recent = FALSE
        /\ phase = [c \in Coordinators |-> "idle"]
        /\ digest = [c \in Coordinators |-> NoDigest]
        /\ spans = [d \in Digests |-> {}]
        /\ pc = [p \in Senders |-> "idle"]
    BY DEF PipelineInit, Init, InitDelivery
  <2>2. recent \in BOOLEAN
    BY <2>1
  <2>3. NoDigest \in [from : Nat, to : Digests \cup {0}] /\ NoDigest.to = 0
    BY DEF NoDigest
  <2>4. lastPost \in Digests \cup {0} /\ pushed \in 0 .. lastPost
    BY <2>1
  <2>5. \A c \in Coordinators :
          /\ digest[c] = NoDigest /\ phase[c] = "idle" /\ pc[c] = "idle"
    BY <2>1, Roles
  <2>. QED
    BY <1>1, <2>1, <2>2, <2>3, <2>4, <2>5 DEF PipelineTypeOK
<1>. QED
  BY <1>3, <1>4 DEF PipelineInv

LEMMA PipelineInvariant == PipelineSpec => []PipelineInv
  BY PipelineStart, PipelineStep, PTL DEF PipelineSpec

\* The variables of the pipeline always have their types: a coordinator that is
\* at work has a digest newer than the one it started from and no newer than
\* the last post, and the digest state never passes the last post.
THEOREM PipelineTypeCorrect == PipelineSpec => []PipelineTypeOK
  BY PipelineInvariant, PTL DEF PipelineInv

\* The steps of a coordinator leave the workers alone, and fail at a price.
LEMMA CoordinatorKeeps ==
  ASSUME PipelineTypeOK, NEW c \in Coordinators,
         CoordinatorStep(c) \/ CoordinatorFailure(c)
  PROVE  /\ \A w \in Workers : pc'[w] = pc[w]
         /\ UNCHANGED <<held, seen>> /\ faults' \in {faults, faults + 1}
         /\ EnqueuePages(c) \/ UNCHANGED job
<1> USE Roles
<1>0. DeliveryTypeOK
  BY DEF PipelineTypeOK, TypeOK
<1>1. CASE ListDigest(c) \/ DispatchHot(c) \/ EnqueuePages(c)
  BY <1>1 DEF ListDigest, DispatchHot, EnqueuePages, vars, delivery, jobs
<1>2. CASE DispatchCold(c)
  BY <1>0, <1>2 DEF DispatchCold, Start, Goto, jobs, DeliveryTypeOK
<1>3. CASE DeliverCold(c) \/ (DeliveryFailure(c) /\ UNCHANGED <<jobs, coordination>>)
  <2>1. LocalStep(c) \/ DeliveryFailure(c)
    BY <1>3 DEF DeliverCold, LocalStep
  <2>2. \A w \in Workers : pc'[w] = pc[w]
    BY <1>0, <2>1, LocalOthers
  <2>3. faults' \in {faults, faults + 1}
    BY <1>3 DEF DeliverCold, DeliveryStep, LoadNone, Load, ClaimNext, ClaimReply,
       Send, Prune, Release, AfterCheckpoint, DeliveryFailure, SendRaises,
       RedisRaises, DatabaseRaises, Fault
  <2>. QED
    BY <1>3, <2>2, <2>3 DEF DeliverCold, jobs
<1>4. CASE Advance(c) \/ AbandonCycle(c) \/ CycleRaises(c) \/ CoordinatorCrash(c)
  BY <1>0, <1>4 DEF Advance, AbandonCycle, CycleRaises, CoordinatorCrash, Fault,
     LeaveCycle, Stop, Goto, jobs, DeliveryTypeOK
<1>. QED
  BY <1>1, <1>2, <1>3, <1>4 DEF CoordinatorStep, CoordinatorFailure

-----------------------------------------------------------------------------
(* The digest state, and the pages. *)

\* Nobody but a coordinator that is done advances the digest state, and with
\* GREATEST.
LEMMA OnlyAdvancePushes ==
  ASSUME [PipelineNext]_pipeline
  PROVE  (\E c \in Coordinators : Advance(c)) \/ UNCHANGED pushed
  BY DEF PipelineNext, CoordinatorStep, CoordinatorFailure, ListDigest,
     DispatchCold, DispatchHot, EnqueuePages, DeliverCold, AbandonCycle,
     CycleRaises, CoordinatorCrash, NewPost, IntervalPasses, pipeline,
     coordination, topic

\* The digest state only moves forward, although a slower coordinator may
\* report an older digest (the GREATEST of advance_digest_state).
THEOREM DigestStateForward == PipelineSpec => DigestStateMonotone
<1>1. ASSUME PipelineTypeOK, [PipelineNext]_pipeline
      PROVE  [pushed' >= pushed]_pushed
  <2>1. ASSUME NEW c \in Coordinators, Advance(c)
        PROVE  pushed' >= pushed
    BY <1>1, <2>1, AtWork DEF Advance, Newer, Underway
  <2>. QED
    BY <1>1, <2>1, OnlyAdvancePushes
<1>. QED
  BY <1>1, PipelineTypeCorrect, PTL DEF PipelineSpec, DigestStateMonotone

\* The pages enqueued for a digest are a partition of all users, whatever the
\* page size and whoever subscribes later (subscriber_page_ranges).
THEOREM PagesCoverAll == PipelineSpec => PagesPartition
<1> DEFINE Parts(new, pg) ==
      new # {} => \A u \in Users :
        \E j \in new : \A k \in new : InRange(u, pg[k].lo, pg[k].hi) <=> k = j
<1>1. ASSUME PipelineInv, [PipelineNext]_pipeline
      PROVE  Parts(DOMAIN page' \ DOMAIN page, page')
  <2> USE <1>1 DEF PipelineInv
  <2>1. TypeOK /\ TypeOK'
    BY PipelineStep DEF PipelineTypeOK
  <2>2. ASSUME NEW c \in Coordinators, EnqueuePages(c)
        PROVE  Parts(DOMAIN page' \ DOMAIN page, page')
    <3>1. PICK new :
            /\ new \cap DOMAIN job = {}
            /\ DOMAIN job' = DOMAIN job \cup new
            /\ \A j \in new : \E hi \in PageEnds :
                 /\ j = <<Cardinality(DOMAIN job), hi>>
                 /\ page'[j] = [digest |-> digest[c].to,
                                lo |-> PageStart(hi), hi |-> hi, ckpt |-> 0]
            /\ \A hi \in PageEnds : <<Cardinality(DOMAIN job), hi>> \in new
      BY <2>1, <2>2, EnqueueEffect
    <3>2. DOMAIN page' \ DOMAIN page = new
      BY <2>1, <3>1 DEF TypeOK
    <3>3. ASSUME NEW u \in Users
          PROVE  \E j \in new : \A k \in new :
                   InRange(u, page'[k].lo, page'[k].hi) <=> k = j
      <4>1. PICK h \in PageEnds : \A k \in PageEnds :
              InRange(u, PageStart(k), k) <=> k = h
        BY <2>1, PagesSplit
      <4>2. PICK j \in new : j = <<Cardinality(DOMAIN job), h>>
        BY <3>1
      <4>3. ASSUME NEW k \in new
            PROVE  InRange(u, page'[k].lo, page'[k].hi) <=> k = j
        <5>1. PICK hi \in PageEnds :
                /\ k = <<Cardinality(DOMAIN job), hi>>
                /\ page'[k] = [digest |-> digest[c].to,
                               lo |-> PageStart(hi), hi |-> hi, ckpt |-> 0]
          BY <3>1
        <5>2. page'[k].lo = PageStart(hi) /\ page'[k].hi = hi
          BY <5>1
        <5>3. InRange(u, PageStart(hi), hi) <=> hi = h
          BY <4>1
        <5>4. k = j <=> hi = h
          BY <4>2, <5>1
        <5>. QED
          BY <5>2, <5>3, <5>4
      <4>. QED
        BY <4>3
    <3>. QED
      BY <3>2, <3>3
  <2>3. ASSUME \A c \in Coordinators : ~ EnqueuePages(c)
        PROVE  DOMAIN page' = DOMAIN page
    <3>1. CASE Next
      BY <2>1, <3>1, NextKeepsJobs DEF TypeOK
    <3>2. CASE ~ Next
      BY <2>3, <3>2 DEF PipelineNext, CoordinatorStep, CoordinatorFailure,
         ListDigest, DispatchCold, DispatchHot, DeliverCold, Advance,
         AbandonCycle, CycleRaises, CoordinatorCrash, NewPost, IntervalPasses,
         pipeline, vars, jobs
    <3>. QED
      BY <3>1, <3>2
  <2>. QED
    BY <2>2, <2>3
<1>2. ASSUME PipelineInv, [PipelineNext]_pipeline
      PROVE  [LET new == DOMAIN page' \ DOMAIN page
              IN  new # {} => \A u \in Users :
                    \E j \in new : \A k \in new :
                      InRange(u, page'[k].lo, page'[k].hi) <=> k = j]_page
  BY <1>1, <1>2
<1>. QED
  BY <1>2, PipelineInvariant, PTL DEF PipelineSpec, PagesPartition

-----------------------------------------------------------------------------
(* Nobody is told of a digest twice, by coordinators and workers together. *)

\* What a step of the pipeline is for the delivery.
LEMMA DeliverySteps ==
  ASSUME PipelineTypeOK, [PipelineNext]_pipeline
  PROVE  \/ [Next]_vars
         \/ \E c \in Coordinators :
              DeliveryStep(c) \/ DeliveryFailure(c) \/ Around(c)
         \/ UNCHANGED delivery
<1>1. ASSUME NEW c \in Coordinators, CoordinatorStep(c) \/ CoordinatorFailure(c)
      PROVE  \/ UNCHANGED delivery
             \/ DeliveryStep(c) \/ DeliveryFailure(c) \/ Around(c)
  <2>1. CASE ListDigest(c) \/ DispatchHot(c) \/ EnqueuePages(c)
    BY <2>1 DEF ListDigest, DispatchHot, EnqueuePages, vars
  <2>2. CASE DispatchCold(c)
    <3>1. pc[c] = "idle"
      BY <2>2, AtWork DEF DispatchCold, Underway, CoordinatorOK
    <3>. QED
      BY <2>2, <3>1 DEF DispatchCold, Around
  <2>3. CASE DeliverCold(c)
    BY <2>3 DEF DeliverCold, AfterCheckpoint, Around
  <2>4. CASE Advance(c) \/ AbandonCycle(c) \/ CycleRaises(c) \/ CoordinatorCrash(c)
    BY <2>4 DEF Advance, AbandonCycle, CycleRaises, CoordinatorCrash, LeaveCycle,
                Around
  <2>. QED
    BY <1>1, <2>1, <2>2, <2>3, <2>4 DEF CoordinatorStep, CoordinatorFailure
<1>2. CASE UNCHANGED pipeline \/ NewPost \/ IntervalPasses
  BY <1>2 DEF pipeline, NewPost, IntervalPasses
<1>. QED
  BY <1>1, <1>2 DEF PipelineNext

\* The guard of the markers holds for the pipeline.
LEMMA PipelineOnce ==
  ASSUME Dependable
  PROVE  PipelineSpec => [](PipelineTypeOK /\ Once)
<1>1. PipelineInit => Once
  BY InitDeliveryOnce DEF PipelineInit, Init
<1>2. PipelineTypeOK /\ Once /\ [PipelineNext]_pipeline => Once'
  <2> SUFFICES ASSUME PipelineTypeOK, Once, [PipelineNext]_pipeline PROVE Once'
    OBVIOUS
  <2>1. DeliveryTypeOK /\ TypeOK
    BY DEF PipelineTypeOK, TypeOK
  <2>2. CASE [Next]_vars
    BY <2>1, <2>2, NextOnce
  <2>3. ASSUME NEW c \in Coordinators,
               DeliveryStep(c) \/ DeliveryFailure(c) \/ Around(c)
        PROVE  Once'
    BY <2>1, <2>3, Roles, DeliveryStepOnce, DeliveryFailureOnce, AroundOnce
  <2>4. CASE UNCHANGED delivery
    BY <2>4, QuietOnce DEF delivery, Claiming
  <2>. QED
    BY <2>2, <2>3, <2>4, DeliverySteps
<1>. QED
  BY <1>1, <1>2, PipelineTypeCorrect, PTL DEF PipelineSpec

\* Whatever coordinators list the same posts side by side, deliver a digest
\* themselves or enqueue its pages once more, and whatever workers race over
\* those, nobody is pushed a digest twice (PushDedupStore); provided that a
\* send that raises has pushed to nobody and that Redis keeps its markers.
THEOREM PipelineOncePerUser ==
  ASSUME Dependable
  PROVE  PipelineSpec => []AtMostOnce
<1>1. Once => AtMostOnce
  BY DEF Once
<1>. QED
  BY <1>1, PipelineOnce, PTL

\* Among coordinators that deliver or enqueue the same posts side by side too,
\* a user is pushed a digest at most once more than there were failures; and
\* without ambiguous sends and lost markers never more than once, by
\* PipelineOncePerUser (PushDedupStore).
THEOREM PipelineRepeatsPaid == PipelineSpec => []RepeatsPaid
<1>1. PipelineInit => AllPaid
  BY InitDeliveryPaid DEF PipelineInit, Init
<1>2. ASSUME PipelineTypeOK, PipelineTypeOK', AllPaid, [PipelineNext]_pipeline
      PROVE  AllPaid'
  <2>1. TypeOK /\ DeliveryTypeOK /\ faults \in Nat /\ faults' \in Nat
    BY <1>2 DEF PipelineTypeOK, TypeOK, DeliveryTypeOK
  <2>2. CASE [Next]_vars
    BY <1>2, <2>1, <2>2, NextAllPaid
  <2>3. ASSUME NEW c \in Coordinators, DeliveryStep(c) \/ DeliveryFailure(c)
        PROVE  AllPaid'
    BY <1>2, <2>1, <2>3, Roles, DeliveryStepPaid, DeliveryFailurePaid
  <2>4. ASSUME NEW c \in Coordinators, Around(c), faults' >= faults
        PROVE  AllPaid'
    BY <1>2, <2>1, <2>4, Roles, AroundPaid
  <2>5. CASE UNCHANGED delivery
    BY <1>2, <2>1, <2>5, QuietPaid DEF delivery, Claiming
  <2>6. faults' >= faults \/ [Next]_vars
    <3>1. ASSUME NEW c \in Coordinators, CoordinatorStep(c) \/ CoordinatorFailure(c)
          PROVE  faults' >= faults
      BY <1>2, <2>1, <3>1, CoordinatorKeeps
    <3>. QED
      BY <1>2, <3>1 DEF PipelineNext, NewPost, IntervalPasses, pipeline
  <2>. QED
    BY <1>2, <2>2, <2>3, <2>4, <2>5, <2>6, DeliverySteps
<1>3. PipelineTypeOK /\ AllPaid => RepeatsPaid
  BY PaidRepeats DEF PipelineTypeOK, TypeOK
<1>. QED
  BY <1>1, <1>2, <1>3, PipelineTypeCorrect, PTL DEF PipelineSpec

\* The coordinators and workers together implement what the markers promise
\* (PushDedupStore, deliver_page).
THEOREM PipelineImplementsNotification ==
  ASSUME Dependable
  PROVE  PipelineSpec => ImplementsNotification
<1>1. PipelineInit => N!Init
  BY InitFate DEF PipelineInit, Init
<1>2. ASSUME PipelineTypeOK, Once, PipelineTypeOK', Once',
             [PipelineNext]_pipeline
      PROVE  [N!Next]_Fate
  <2> USE <1>2
  <2>1. Facts /\ Facts' /\ TypeOK /\ TypeOK'
    BY DEF Facts, PipelineTypeOK, TypeOK
  <2>2. CASE [Next]_vars
    BY <2>1, <2>2, NextFate
  <2>3. ASSUME NEW c \in Coordinators,
               DeliveryStep(c) \/ DeliveryFailure(c) \/ Around(c)
        PROVE  N!Next \/ UNCHANGED Fate
    BY <2>1, <2>3, Roles, DeliveryStepFate, DeliveryFailureFate, AroundFate
  <2>4. CASE UNCHANGED delivery
    <3>1. \A q \in Senders, d \in Digests, u \in Users :
            Holds(q, d, u)' <=> Holds(q, d, u)
      BY <2>4 DEF Holds, Claiming, delivery
    <3>. QED
      BY <2>1, <2>4, <3>1, QuietFate DEF delivery
  <2>. QED
    BY <2>2, <2>3, <2>4, DeliverySteps
<1>. QED
  BY <1>1, <1>2, PipelineOnce, PTL
    DEF PipelineSpec, ImplementsNotification, N!Spec

-----------------------------------------------------------------------------
(* Nobody is passed over. *)

\* Every steady user is handled for digest d, or in the range of a page of it.
Reached(d) ==
  \A u \in Steady :
    \/ Handled(d, u)
    \/ \E j \in DOMAIN job :
         page[j].digest = d /\ InRange(u, page[j].lo, page[j].hi)

\* A coordinator works on a digest that was listed from the digest state, and
\* leaves nobody behind.
Working(c) ==
  /\ pc[c] # "idle" => /\ task[c] = [digest |-> digest[c].to, upto |-> 0]
                       /\ Covers(c, 0)
  /\ phase[c] # "idle" => /\ digest[c].from \in spans[digest[c].to]
                          /\ digest[c].from <= pushed
  /\ phase[c] = "dispatched" => Reached(digest[c].to)

\* The inductive invariant behind NobodyPassedOver.
PipelineCovered ==
  /\ PushCovered
  /\ \A c \in Coordinators : Working(c)
  /\ \A n \in 1 .. pushed : \E d \in Digests : Announces(d, n) /\ Reached(d)

\* Jobs are not removed, and their pages keep their digest and range.
PagesKept ==
  /\ DOMAIN job \subseteq DOMAIN job'
  /\ \A j \in DOMAIN job : /\ page'[j].digest = page[j].digest
                           /\ page'[j].lo = page[j].lo /\ page'[j].hi = page[j].hi

\* Nothing that was announced is taken back.
Forward ==
  pushed' >= pushed /\ \A d \in Digests : spans[d] \subseteq spans'[d]

\* The coordinator c is where it was.
Unmoved(c) ==
  /\ pc'[c] = pc[c] /\ task'[c] = task[c] /\ cursor'[c] = cursor[c]
  /\ batch'[c] = batch[c] /\ phase'[c] = phase[c] /\ digest'[c] = digest[c]

\* Whoever is reached stays so.
LEMMA ReachedKept ==
  ASSUME HandledStay, PagesKept, NEW d \in Digests, Reached(d)
  PROVE  Reached(d)'
<1> SUFFICES ASSUME NEW u \in Steady
             PROVE  \/ Handled(d, u)'
                    \/ \E j \in DOMAIN job' :
                         page'[j].digest = d /\ InRange(u, page'[j].lo, page'[j].hi)
  BY DEF Reached
<1>1. CASE Handled(d, u)
  BY <1>1 DEF HandledStay
<1>2. ASSUME NEW j \in DOMAIN job, page[j].digest = d,
             InRange(u, page[j].lo, page[j].hi)
      PROVE  \E k \in DOMAIN job' :
               page'[k].digest = d /\ InRange(u, page'[k].lo, page'[k].hi)
  BY <1>2 DEF PagesKept
<1>. QED
  BY <1>1, <1>2 DEF Reached

\* A coordinator that is where it was works on.
LEMMA UnmovedWorks ==
  ASSUME PipelineTypeOK, PipelineTypeOK', HandledStay, PagesKept, Forward,
         NEW c \in Coordinators, Working(c), Unmoved(c)
  PROVE  Working(c)'
<1>0. Underway(c) /\ c \in Senders /\ DeliveryTypeOK
  BY AtWork, Roles DEF PipelineTypeOK, TypeOK
<1>1. PICK d : d = digest[c].to
  OBVIOUS
<1>2. ASSUME pc'[c] # "idle"
      PROVE  task'[c] = [digest |-> digest'[c].to, upto |-> 0] /\ Covers(c, 0)'
  <2>1. Covers(c, 0) /\ task[c] = [digest |-> d, upto |-> 0]
    BY <1>1, <1>2 DEF Working, Unmoved
  <2>. QED
    BY <1>0, <1>1, <2>1, OthersCover DEF Unmoved
<1>3. ASSUME phase'[c] # "idle"
      PROVE  digest'[c].from \in spans'[digest'[c].to] /\ digest'[c].from <= pushed'
  <2>1. /\ digest[c].from \in spans[d] /\ digest[c].from <= pushed
        /\ d \in Digests /\ pushed \in Nat /\ pushed' >= pushed
        /\ digest[c].from \in Nat /\ spans[d] \subseteq spans'[d]
    BY <1>0, <1>1, <1>3 DEF Working, Unmoved, Underway, Forward
  <2>2. digest'[c] = digest[c]
    BY DEF Unmoved
  <2>3. pushed' \in Nat
    BY Roles DEF PipelineTypeOK
  <2>. QED
    BY <1>1, <2>1, <2>2, <2>3
<1>4. ASSUME phase'[c] = "dispatched" PROVE Reached(digest[c].to)'
  <2>1. d \in Digests /\ Reached(d) /\ digest'[c].to = d
    BY <1>0, <1>1, <1>4 DEF Working, Unmoved, Underway
  <2>2. Reached(d)'
    BY <2>1, ReachedKept
  <2>. QED
    BY <2>1, <2>2 DEF Reached, Handled, InFlight
<1>. QED
  BY <1>2, <1>3, <1>4 DEF Working

\* It is enough to look at the coordinators that move, at the pages that are
\* new, and at the posts that the digest state moves past.
LEMMA CoveredStep ==
  ASSUME PipelineTypeOK, PipelineTypeOK', PipelineCovered, PushCovered',
         HandledStay, PagesKept, Forward,
         \A c \in Coordinators : Unmoved(c) \/ Working(c)',
         \A n \in 1 .. pushed' : n > pushed =>
           \E d \in Digests : Announces(d, n) /\ Reached(d)
  PROVE  PipelineCovered'
<1>1. \A c \in Coordinators : Working(c)'
  BY UnmovedWorks DEF PipelineCovered
<1>2. ASSUME NEW n \in 1 .. pushed'
      PROVE  \E d \in Digests : Announces(d, n)' /\ Reached(d)'
  <2>1. pushed \in Nat /\ pushed' \in Nat
    BY Roles DEF PipelineTypeOK
  <2>2. PICK d \in Digests : Announces(d, n) /\ Reached(d)
    <3>1. CASE n > pushed
      BY <3>1
    <3>2. CASE ~(n > pushed)
      <4>1. n \in 1 .. pushed
        BY <2>1, <3>2
      <4>. QED
        BY <4>1 DEF PipelineCovered
    <3>. QED
      BY <3>1, <3>2
  <2>3. Announces(d, n)'
    BY <2>2 DEF Announces, Forward
  <2>. QED
    BY <2>2, <2>3, ReachedKept
<1>. QED
  BY <1>1, <1>2 DEF PipelineCovered

\* The workers' invariant, when a step touches neither them nor their jobs.
LEMMA WorkersCovered ==
  ASSUME TypeOK, TypeOK', PushCovered, NoneLost', HandledStay,
         DOMAIN job \subseteq DOMAIN job', held' = held,
         \A j \in DOMAIN job : job'[j] = job[j] /\ page'[j] = page[j],
         \A j \in DOMAIN job' \ DOMAIN job :
           job'[j].status = "queued" /\ page'[j].ckpt = 0,
         \A w \in Workers : /\ pc'[w] = pc[w] /\ task'[w] = task[w]
                            /\ cursor'[w] = cursor[w] /\ batch'[w] = batch[w]
  PROVE  PushCovered'
<1>1. DoneMeansNotified'
  <2>1. ASSUME NEW j \in DOMAIN job', NEW u \in Steady,
               InRange(u, page'[j].lo, page'[j].hi),
               job'[j].status = "done" \/ (page'[j].ckpt # 0 /\ u <= page'[j].ckpt)
        PROVE  \E d \in Digests : d = page'[j].digest /\ Handled(d, u)
    <3>1. j \in DOMAIN job /\ job'[j] = job[j] /\ page'[j] = page[j]
      BY <2>1
    <3>2. page[j].digest \in Digests
      BY <3>1, ResumePointType
    <3>3. Handled(page[j].digest, u)
      BY <2>1, <3>1, LeftBehind DEF PushCovered
    <3>. QED
      BY <3>1, <3>2, <3>3
  <2>. QED
    BY <2>1, StillNotified
<1>2. ASSUME NEW w \in Workers, pc'[w] # "idle" PROVE Assigned(w)'
  <2>1. held[w] \in DOMAIN job
    BY <1>2 DEF TypeOK
  <2>. QED
    BY <1>2, <2>1, StillAssigned DEF PushCovered
<1>. QED
  BY <1>1, <1>2 DEF PushCovered

\* The steps that are no step of a coordinator.
LEMMA SharedCovered ==
  ASSUME Reliable, PipelineTypeOK, PipelineTypeOK', PipelineCovered,
         \/ [Next]_vars /\ UNCHANGED coordination
         \/ NewPost \/ IntervalPasses
  PROVE  PipelineCovered'
<1>1. TypeOK /\ TypeOK' /\ [Next]_vars
  BY DEF PipelineTypeOK, NewPost, IntervalPasses
<1>2. PushCovered' /\ HandledStay
  BY <1>1, NextCovered DEF PipelineCovered
<1>3. UNCHANGED <<phase, digest, pushed, spans>>
  BY DEF NewPost, IntervalPasses, coordination, topic
<1>4. \A c \in Coordinators : Unmoved(c)
  BY <1>1, <1>3, NextOthers DEF Unmoved
<1>5. PagesKept
  <2>1. ASSUME NEW w \in Workers, Checkpoint(w) PROVE PagesKept
    BY <1>1, <2>1 DEF Checkpoint, PagesKept, TypeOK, Page
  <2>2. ASSUME \A w \in Workers : ~ Checkpoint(w) PROVE UNCHANGED page
    BY <1>1, <2>2 DEF Next, WorkerStep, ClaimPage, Deliver, CompletePage,
       FailPage, DeliveryRaises, Crash, Lapse, BackOff, Environment, jobs, vars
  <2>3. DOMAIN job' = DOMAIN job
    BY <1>1, NextKeepsJobs DEF vars, jobs
  <2>. QED
    BY <2>1, <2>2, <2>3 DEF PagesKept
<1>6. Forward
  BY <1>3, Roles DEF Forward, PipelineTypeOK
<1>7. \A n \in 1 .. pushed' : ~(n > pushed)
  BY <1>3, Roles DEF PipelineTypeOK
<1>. QED
  BY <1>2, <1>4, <1>5, <1>6, <1>7, CoveredStep

\* The other coordinators and the workers are where they were.
Alone(c) ==
  /\ UNCHANGED held
  /\ \A q \in Senders \ {c} : /\ pc'[q] = pc[q] /\ task'[q] = task[q]
                             /\ cursor'[q] = cursor[q] /\ batch'[q] = batch[q]
  /\ \A q \in Coordinators \ {c} : phase'[q] = phase[q] /\ digest'[q] = digest[q]

\* A step of one coordinator that leaves the jobs alone.
LEMMA AloneCovered ==
  ASSUME PipelineTypeOK, PipelineTypeOK', PipelineCovered,
         NEW c \in Coordinators, Alone(c), UNCHANGED <<job, page>>,
         NoneLost', HandledStay, Forward, Working(c)',
         \A n \in 1 .. pushed' : n > pushed =>
           \E d \in Digests : Announces(d, n) /\ Reached(d)
  PROVE  PipelineCovered'
<1>1. TypeOK /\ TypeOK' /\ PushCovered
  BY DEF PipelineTypeOK, PipelineCovered
<1>2. PagesKept
  BY DEF PagesKept
<1>3. \A q \in Coordinators : Unmoved(q) \/ Working(q)'
  BY Roles DEF Alone, Unmoved
<1>4. PushCovered'
  BY <1>1, Roles, WorkersCovered DEF Alone
<1>. QED
  BY <1>2, <1>3, <1>4, CoveredStep

\* A step of one coordinator that neither sends nor advances.
LEMMA SilentCovered ==
  ASSUME PipelineTypeOK, PipelineTypeOK', PipelineCovered,
         NEW c \in Coordinators, Alone(c), ~ Claiming(c), pc'[c] # "release",
         batch'[c] \in {batch[c], NoBatch},
         UNCHANGED <<world, markers, pushes>>
  PROVE  NoneLost' /\ HandledStay
<1>1. \A q \in Senders :
        \/ ~ Claiming(q) /\ pc'[q] # "release" /\ batch'[q] \in {batch[q], NoBatch}
        \/ pc'[q] = pc[q] /\ task'[q] = task[q] /\ batch'[q] = batch[q]
  BY DEF Alone
<1>. QED
  BY <1>1, QuietCoverage
    DEF world, PipelineTypeOK, TypeOK, PipelineCovered, PushCovered

\* A coordinator lists a digest or begins to deliver it.
LEMMA DispatchCovered ==
  ASSUME PipelineTypeOK, PipelineTypeOK', PipelineCovered,
         NEW c \in Coordinators,
         ListDigest(c) \/ DispatchCold(c) \/ DispatchHot(c)
  PROVE  PipelineCovered'
<1>0. Underway(c) /\ pc[c] = "idle" /\ c \in Senders
  BY AtWork, Roles
    DEF Underway, CoordinatorOK, ListDigest, DispatchCold, DispatchHot
<1>1. UNCHANGED <<world, markers, pushes, jobs, batch, pushed>>
  BY DEF ListDigest, DispatchCold, DispatchHot, vars, delivery, Start, topic,
         world, jobs
<1>2. Alone(c) /\ pc'[c] \in {"idle", "load"}
  BY <1>0, <1>1 DEF Alone, ListDigest, DispatchCold, DispatchHot, vars, delivery,
     jobs, Start, Goto, Enter, PipelineTypeOK, TypeOK, DeliveryTypeOK
<1>3. NoneLost' /\ HandledStay
  BY <1>0, <1>1, <1>2, SilentCovered DEF Claiming
<1>4. Forward
  <2>1. \A d \in Digests : spans[d] \subseteq spans'[d]
    BY DEF ListDigest, DispatchCold, DispatchHot, topic, PipelineTypeOK
  <2>. QED
    BY <1>0, <1>1, <2>1 DEF Forward, Underway
<1>5. Working(c)'
  <2>1. CASE ListDigest(c)
    <3>1. /\ pc'[c] = "idle" /\ phase'[c] = "listed" /\ pushed' = pushed
          /\ digest'[c] = [from |-> pushed, to |-> lastPost]
          /\ lastPost \in Digests
      BY <1>0, <2>1, Roles
        DEF ListDigest, Pending, Enter, vars, delivery, PipelineTypeOK
    <3>2. pushed \in spans'[lastPost]
      BY <2>1, <3>1 DEF ListDigest, PipelineTypeOK
    <3>3. pushed <= pushed'
      BY <1>0, <3>1 DEF Underway
    <3>. QED
      BY <3>1, <3>2, <3>3 DEF Working
  <2>2. CASE DispatchCold(c)
    <3>1. /\ pc'[c] = "load" /\ phase'[c] = "delivering" /\ cursor'[c] = 0
          /\ task'[c] = [digest |-> digest[c].to, upto |-> 0]
          /\ UNCHANGED <<digest, spans, pushed>> /\ phase[c] = "listed"
      BY <1>0, <2>2 DEF DispatchCold, Start, Goto, Enter, topic, PipelineTypeOK,
         TypeOK, DeliveryTypeOK
    <3>2. Covers(c, 0)'
      BY <3>1, DeliverPageAssumption DEF Covers, Coming, InRange, Steady
    <3>3. digest[c].from \in spans[digest[c].to] /\ digest[c].from <= pushed
      BY <3>1 DEF PipelineCovered, Working
    <3>. QED
      BY <3>1, <3>2, <3>3 DEF Working
  <2>3. CASE DispatchHot(c)
    <3>1. /\ pc'[c] = "idle" /\ phase'[c] = "hot"
          /\ UNCHANGED <<digest, spans, pushed>> /\ phase[c] = "listed"
      BY <1>0, <2>3 DEF DispatchHot, Enter, topic, vars, delivery, PipelineTypeOK
    <3>2. digest[c].from \in spans[digest[c].to] /\ digest[c].from <= pushed
      BY <3>1 DEF PipelineCovered, Working
    <3>. QED
      BY <3>1, <3>2 DEF Working
  <2>. QED
    BY <2>1, <2>2, <2>3
<1>6. \A n \in 1 .. pushed' : ~(n > pushed)
  BY <1>0, <1>1 DEF Underway
<1>. QED
  BY <1>1, <1>2, <1>3, <1>4, <1>5, <1>6, AloneCovered DEF jobs

\* A coordinator enqueues pages: they reach everybody.
LEMMA EnqueueCovered ==
  ASSUME PipelineTypeOK, PipelineTypeOK', FreshIds, PipelineCovered,
         NEW c \in Coordinators, EnqueuePages(c)
  PROVE  PipelineCovered'
<1>0. /\ Underway(c) /\ pc[c] = "idle" /\ c \in Senders /\ TypeOK /\ TypeOK'
      /\ PushCovered
  BY AtWork, Roles
    DEF Underway, CoordinatorOK, EnqueuePages, PipelineTypeOK, PipelineCovered
<1>1. PICK new :
        /\ new \cap DOMAIN job = {} /\ DOMAIN job' = DOMAIN job \cup new
        /\ \A j \in DOMAIN job : job'[j] = job[j] /\ page'[j] = page[j]
        /\ \A j \in new :
             /\ job'[j] = NewJob
             /\ \E hi \in PageEnds :
                  /\ j = <<Cardinality(DOMAIN job), hi>>
                  /\ page'[j] = [digest |-> digest[c].to,
                                 lo |-> PageStart(hi), hi |-> hi, ckpt |-> 0]
        /\ \A hi \in PageEnds : <<Cardinality(DOMAIN job), hi>> \in new
  BY <1>0, EnqueueEffect
<1>2. /\ UNCHANGED <<world, markers, pushes, pc, task, cursor, batch, held>>
      /\ UNCHANGED <<pushed, spans, digest>> /\ phase[c] = "hot"
      /\ phase'[c] = "dispatched"
      /\ \A q \in Coordinators \ {c} : phase'[q] = phase[q]
  BY DEF EnqueuePages, delivery, topic, Enter, PipelineTypeOK, world
<1>3. NoneLost' /\ HandledStay
  BY <1>0, <1>2, QuietCoverage DEF TypeOK, PushCovered, world
<1>4. PagesKept /\ Forward
  BY <1>0, <1>1, <1>2 DEF PagesKept, Forward, Underway
<1>5. PushCovered'
  <2>1. \A j \in DOMAIN job' \ DOMAIN job :
          job'[j].status = "queued" /\ page'[j].ckpt = 0
    <3>1. NewJob.status = "queued"
      BY DEF NewJob
    <3>2. ASSUME NEW j \in new PROVE page'[j].ckpt = 0
      <4>1. PICK hi \in PageEnds :
              page'[j] = [digest |-> digest[c].to,
                          lo |-> PageStart(hi), hi |-> hi, ckpt |-> 0]
        BY <1>1
      <4>. QED
        BY <4>1
    <3>3. \A j \in new : job'[j] = NewJob
      BY <1>1
    <3>. QED
      BY <1>1, <3>1, <3>2, <3>3
  <2>. QED
    BY <1>0, <1>1, <1>2, <1>3, <2>1, WorkersCovered
<1>6. Working(c)'
  <2>1. digest[c].from \in spans[digest[c].to] /\ digest[c].from <= pushed
    BY <1>2 DEF PipelineCovered, Working
  <2>2. ASSUME NEW u \in Steady
        PROVE  \E j \in DOMAIN job' : /\ page'[j].digest = digest[c].to
                                      /\ InRange(u, page'[j].lo, page'[j].hi)
    <3>1. PICK h \in PageEnds : InRange(u, PageStart(h), h)
      BY <1>0, PagesSplit DEF Steady
    <3>2. PICK j \in new : j = <<Cardinality(DOMAIN job), h>>
      BY <1>1
    <3>3. PICK hi \in PageEnds :
            /\ j = <<Cardinality(DOMAIN job), hi>>
            /\ page'[j] = [digest |-> digest[c].to,
                           lo |-> PageStart(hi), hi |-> hi, ckpt |-> 0]
      BY <1>1
    <3>4. hi = h
      BY <3>2, <3>3
    <3>. QED
      BY <1>1, <3>1, <3>3, <3>4
  <2>3. Reached(digest[c].to)'
    BY <1>2, <2>2 DEF Reached
  <2>. QED
    BY <1>0, <1>2, <2>1, <2>3 DEF Working
<1>7. \A q \in Coordinators : Unmoved(q) \/ Working(q)'
  BY <1>2, <1>6 DEF Unmoved
<1>8. \A n \in 1 .. pushed' : ~(n > pushed)
  BY <1>0, <1>2 DEF Underway
<1>. QED
  BY <1>3, <1>4, <1>5, <1>7, <1>8, CoveredStep

\* A coordinator delivers a digest itself, or fails to.
LEMMA ColdCovered ==
  ASSUME Reliable, PipelineTypeOK, PipelineTypeOK', PipelineCovered,
         NEW c \in Coordinators,
         DeliverCold(c) \/ (DeliveryFailure(c) /\ UNCHANGED <<jobs, coordination>>)
  PROVE  PipelineCovered'
<1>0. /\ Underway(c) /\ c \in Senders /\ DeliveryTypeOK /\ DeliveryTypeOK'
      /\ NoneLost
  BY AtWork, Roles DEF PipelineTypeOK, TypeOK, PipelineCovered, PushCovered
<1>1. LocalStep(c) /\ UNCHANGED <<jobs, coordination>>
  BY <1>0, ReliableSteps DEF DeliverCold, DeliveryFailure, LocalStep
<1>2. NoneLost' /\ HandledStay
  BY <1>0, <1>1, StepHandled, StepNoneLost
<1>3. pc[c] # "idle" /\ task' = task
  BY <1>0, <1>1, ReliableSteps DEF LocalStep, DeliveryStep, LoadNone, Load,
     ClaimNext, ClaimReply, Send, Prune, AfterCheckpoint, DatabaseRaises
<1>4. UNCHANGED <<job, page, held, pushed, spans, phase, digest>>
  BY <1>1 DEF jobs, coordination, topic
<1>5. Alone(c)
  BY <1>0, <1>1, <1>4, LocalOthers DEF Alone
<1>6. phase[c] = "delivering"
  BY <1>0, <1>3 DEF Underway, CoordinatorOK
<1>7. Working(c)'
  <2>1. /\ task[c] = [digest |-> digest[c].to, upto |-> 0] /\ Covers(c, 0)
        /\ digest[c].from \in spans[digest[c].to] /\ digest[c].from <= pushed
    BY <1>3, <1>6 DEF PipelineCovered, Working
  <2>2. Covers(c, 0)'
    BY <1>0, <1>1, <2>1, StepCovers
  <2>. QED
    BY <1>3, <1>4, <1>6, <2>1, <2>2 DEF Working
<1>8. Forward /\ \A n \in 1 .. pushed' : ~(n > pushed)
  BY <1>0, <1>4 DEF Forward, Underway
<1>. QED
  BY <1>2, <1>4, <1>5, <1>7, <1>8, AloneCovered

\* The end of a cycle, whether the digest state is advanced or not.
LEMMA LeaveCovered ==
  ASSUME PipelineTypeOK, PipelineTypeOK', PipelineCovered,
         NEW c \in Coordinators, LeaveCycle(c), ~ Claiming(c),
         UNCHANGED <<world, markers, pushes, jobs, spans>>,
         \/ UNCHANGED pushed
         \/ pushed' = Newer(c) /\ (phase[c] = "dispatched" \/ pc[c] = "returned")
  PROVE  PipelineCovered'
<1>0. Underway(c) /\ c \in Senders
  BY AtWork, Roles
<1>1. /\ Alone(c) /\ pc'[c] = "idle" /\ phase'[c] = "idle"
      /\ batch'[c] = NoBatch
  BY <1>0, Roles DEF Alone, LeaveCycle, Stop, Goto, Enter, jobs, PipelineTypeOK,
     TypeOK, DeliveryTypeOK
<1>2. NoneLost' /\ HandledStay
  BY <1>1, SilentCovered
<1>3. Working(c)'
  BY <1>1 DEF Working
<1>4. Forward
  BY <1>0 DEF Forward, Newer, Underway
<1>5. ASSUME NEW n \in 1 .. pushed', n > pushed
      PROVE  \E d \in Digests : Announces(d, n) /\ Reached(d)
  <2>1. /\ pushed' = Newer(c) /\ (phase[c] = "dispatched" \/ pc[c] = "returned")
        /\ phase[c] # "idle"
    BY <1>0, <1>5 DEF Underway, CoordinatorOK
  <2>2. /\ digest[c].from \in spans[digest[c].to] /\ digest[c].from <= pushed
        /\ digest[c].to \in Digests
    BY <1>0, <2>1 DEF PipelineCovered, Working, Underway
  <2>3. digest[c].from < n /\ n <= digest[c].to
    BY <1>0, <1>5, <2>1, <2>2 DEF Newer, Underway
  <2>4. Announces(digest[c].to, n)
    BY <2>2, <2>3 DEF Announces
  <2>5. Reached(digest[c].to)
    <3>1. CASE phase[c] = "dispatched"
      BY <3>1 DEF PipelineCovered, Working
    <3>2. CASE pc[c] = "returned"
      <4>1. /\ Covers(c, 0) /\ task[c] = [digest |-> digest[c].to, upto |-> 0]
        BY <3>2 DEF PipelineCovered, Working
      <4>2. \A u \in Steady : InRange(u, 0, 0)
        BY DeliverPageAssumption DEF Steady, InRange
      <4>. QED
        BY <3>2, <4>1, <4>2 DEF Covers, Coming, Reached
    <3>. QED
      BY <2>1, <3>1, <3>2
  <2>. QED
    BY <2>2, <2>4, <2>5
<1>. QED
  BY <1>1, <1>2, <1>3, <1>4, <1>5, AloneCovered DEF jobs

\* The invariant holds, whatever the coordinators and workers do side by side.
LEMMA PipelineCoverage ==
  ASSUME Reliable
  PROVE  PipelineSpec => []PipelineCovered
<1>1. PipelineInit => PipelineCovered
  <2> SUFFICES ASSUME PipelineInit PROVE PipelineCovered
    OBVIOUS
  <2>1. PushCovered
    BY InitCovered DEF PipelineInit
  <2>2. \A c \in Coordinators : pc[c] = "idle" /\ phase[c] = "idle"
    BY Roles DEF PipelineInit, Init, InitDelivery
  <2>3. pushed = 0
    BY DEF PipelineInit
  <2>. QED
    BY <2>1, <2>2, <2>3 DEF PipelineCovered, Working
<1>2. ASSUME PipelineInv, PipelineInv', PipelineCovered, [PipelineNext]_pipeline
      PROVE  PipelineCovered'
  <2> USE <1>2 DEF PipelineInv
  <2>1. ASSUME NEW c \in Coordinators, CoordinatorStep(c) \/ CoordinatorFailure(c)
        PROVE  PipelineCovered'
    <3>1. CASE ListDigest(c) \/ DispatchCold(c) \/ DispatchHot(c)
      BY <3>1, DispatchCovered
    <3>2. CASE EnqueuePages(c)
      BY <3>2, EnqueueCovered
    <3>3. CASE DeliverCold(c) \/ (DeliveryFailure(c) /\ UNCHANGED <<jobs, coordination>>)
      BY <3>3, ColdCovered
    <3>4. CASE Advance(c)
      <4>1. ~ Claiming(c)
        BY <3>4, AtWork DEF Advance, Claiming, Underway, CoordinatorOK
      <4>. QED
        BY <3>4, <4>1, LeaveCovered DEF Advance
    <3>5. CASE AbandonCycle(c) \/ CycleRaises(c)
      <4>1. ~ Claiming(c)
        BY <3>5, AtWork
          DEF AbandonCycle, CycleRaises, Claiming, Underway, CoordinatorOK
      <4>. QED
        BY <3>5, <4>1, LeaveCovered DEF AbandonCycle, CycleRaises, topic
    <3>6. ~ CoordinatorCrash(c)
      BY DEF CoordinatorCrash, Fault, Reliable
    <3>. QED
      BY <2>1, <3>1, <3>2, <3>3, <3>4, <3>5, <3>6
        DEF CoordinatorStep, CoordinatorFailure
  <2>2. CASE UNCHANGED pipeline
    BY <2>2, SharedCovered DEF pipeline
  <2>. QED
    BY <2>1, <2>2, SharedCovered DEF PipelineNext
<1>. QED
  BY <1>1, <1>2, PipelineInvariant, PTL DEF PipelineSpec

\* The attempts of the pages are paid for in the pipeline too: those that are
\* enqueued begin with none.
LEMMA PipelinePaid == PipelineSpec => []AttemptsPaid
<1>1. PipelineInit => AttemptsPaid
  BY InitPaid DEF PipelineInit
<1>2. ASSUME PipelineInv, AttemptsPaid, [PipelineNext]_pipeline
      PROVE  AttemptsPaid'
  <2>1. /\ TypeOK /\ FreshIds /\ PipelineTypeOK
        /\ \A n : n = faults \/ n = faults + 1 => n \in Nat /\ n >= faults
    BY <1>2 DEF PipelineInv, PipelineTypeOK, TypeOK, DeliveryTypeOK
  <2>2. ASSUME NEW c \in Coordinators, CoordinatorStep(c) \/ CoordinatorFailure(c)
        PROVE  AttemptsPaid'
    <3>1. /\ \A w \in Workers : pc'[w] = pc[w]
          /\ UNCHANGED <<held, seen>> /\ faults' \in {faults, faults + 1}
          /\ EnqueuePages(c) \/ UNCHANGED job
      BY <2>1, <2>2, CoordinatorKeeps
    <3>2. /\ DOMAIN job \subseteq DOMAIN job'
          /\ \A j \in DOMAIN job : job'[j] = job[j]
          /\ \A j \in DOMAIN job' : j \in DOMAIN job \/ job'[j] = NewJob
      <4>1. CASE EnqueuePages(c)
        BY <2>1, <4>1, EnqueueEffect
      <4>2. CASE UNCHANGED job
        BY <4>2
      <4>. QED
        BY <3>1, <4>1, <4>2
    <3>. QED
      BY <1>2, <2>1, <3>1, <3>2, StillPaid
  <2>3. CASE [Next]_vars
    BY <1>2, <2>1, <2>3, NextPaid
  <2>. QED
    BY <1>2, <2>2, <2>3 DEF PipelineNext, NewPost, IntervalPasses, pipeline
<1>. QED
  BY <1>1, <1>2, PipelineInvariant, PTL DEF PipelineSpec

\* A page that reaches a user and is not given up provides for the user.
LEMMA ReachedProvided ==
  ASSUME PipelineTypeOK, PipelineCovered, AttemptsPaid, NEW d \in Digests,
         Reached(d), NEW u \in Steady
  PROVE  Provided(d, u) \/ GivenUp(d, u)
<1>1. CASE Handled(d, u)
  BY <1>1 DEF Handled, Provided
<1>2. ASSUME NEW j \in DOMAIN job, page[j].digest = d,
             InRange(u, page[j].lo, page[j].hi)
      PROVE  Provided(d, u) \/ GivenUp(d, u)
  <2>1. job[j].status \in {"queued", "running", "done", "failed"}
    BY DEF PipelineTypeOK, TypeOK, JobRow, JobStatus
  <2>2. CASE job[j].status \in {"queued", "running"}
    BY <1>2, <2>2 DEF Provided, InJob
  <2>3. CASE job[j].status = "done"
    BY <1>2, <2>3, LeftBehind DEF PipelineCovered, PushCovered, Handled, Provided
  <2>4. CASE job[j].status = "failed"
    <3>1. job[j].attempts >= MaxAttempts /\ faults >= MaxAttempts
      BY <2>4 DEF AttemptsPaid, JobPaid
    <3>. QED
      BY <1>2, <2>4, <3>1 DEF GivenUp
  <2>. QED
    BY <2>1, <2>2, <2>3, <2>4
<1>. QED
  BY <1>1, <1>2 DEF Reached

\* Once the digest state has moved past a post, every steady subscriber has
\* been pushed a digest that counts it, is about to be, or is in the range of
\* a page job that is still queued or running; or of one that was given up,
\* after as many attempts and as many failures as max_attempts, and never for
\* less.  However many coordinators dispatch digests old and new, cold and hot,
\* whoever subscribes or leaves between their steps, whichever statements fail
\* or leases lapse, and however often: neither the dispatch nor the races over
\* the pages nor the advance of the digest state loses anybody (run_once,
\* which dispatches first, the WHERE clause of list_pending_digests, and
\* fail_push_page_job).
THEOREM NobodyIsPassedOver ==
  ASSUME Reliable
  PROVE  PipelineSpec => []NobodyPassedOver
<1>1. ASSUME PipelineTypeOK, PipelineCovered, AttemptsPaid PROVE NobodyPassedOver
  <2> SUFFICES ASSUME NEW n \in 1 .. pushed, NEW u \in Steady
               PROVE  \E d \in Digests :
                        Announces(d, n) /\ (Provided(d, u) \/ GivenUp(d, u))
    BY DEF NobodyPassedOver
  <2>1. PICK d \in Digests : Announces(d, n) /\ Reached(d)
    BY <1>1 DEF PipelineCovered
  <2>. QED
    BY <1>1, <2>1, ReachedProvided
<1>. QED
  BY <1>1, PipelineTypeCorrect, PipelineCoverage, PipelinePaid, PTL

\* A page job that is done has notified every steady user of its range, also
\* among coordinators that enqueue pages of overlapping digests, or deliver
\* one of them, while workers walk those that are there (DoneIsNotified is
\* about the pages that are there from the beginning).
THEOREM EnqueuedIsNotified ==
  ASSUME Reliable
  PROVE  PipelineSpec => []DoneMeansNotified
<1>1. PipelineCovered => DoneMeansNotified
  BY DEF PipelineCovered, PushCovered
<1>. QED
  BY <1>1, PipelineCoverage, PTL

-----------------------------------------------------------------------------
(* No post is announced twice. *)

\* One coordinator is running.
OneCoordinator == \A c, d \in Coordinators : c = d

\* What holds as long as nothing fails: no delivery raises, every digest that
\* was listed is behind the digest state or in progress, and each begins where
\* the ones before it end.
Undisturbed ==
  /\ \A c \in Coordinators : pc[c] \notin {"release", "raised"}
  /\ \A d \in Digests : spans[d] # {} =>
       d <= pushed \/ \E c \in Coordinators : phase[c] # "idle" /\ digest[c].to = d
  /\ \A d, e \in Digests : d < e /\ spans[d] # {} => \A from \in spans[e] : d <= from

\* The inductive invariant behind OncePerPost.
NothingTwice == faults = 0 => Undisturbed

\* A step that leaves the digests and the coordinators alone.
LEMMA QuietUndisturbed ==
  ASSUME PipelineTypeOK, Undisturbed,
         UNCHANGED <<spans, pushed, phase, digest>>,
         \A c \in Coordinators : pc'[c] = pc[c] \/ pc'[c] \notin {"release", "raised"}
  PROVE  Undisturbed'
  BY DEF Undisturbed

\* With one coordinator, a digest is listed when all before it are behind the
\* digest state.
LEMMA ListUndisturbed ==
  ASSUME OneCoordinator, PipelineTypeOK, Undisturbed,
         NEW c \in Coordinators, ListDigest(c)
  PROVE  Undisturbed'
<1>1. /\ phase[c] = "idle" /\ phase'[c] = "listed" /\ pushed' = pushed /\ pc' = pc
      /\ digest'[c].to = lastPost /\ pushed < lastPost
      /\ spans' = [spans EXCEPT ![lastPost] = @ \cup {pushed}]
  BY DEF ListDigest, Pending, Enter, vars, delivery, PipelineTypeOK
<1>2. pushed \in Nat /\ lastPost \in Nat /\ lastPost \in Digests
      /\ Digests \subseteq Nat
  BY <1>1, Roles DEF PipelineTypeOK
<1>3. \A d \in Digests : spans[d] # {} => d <= pushed
  BY <1>1 DEF Undisturbed, OneCoordinator
<1>4. /\ spans[lastPost] = {} /\ spans'[lastPost] = {pushed}
      /\ \A d \in Digests : d # lastPost => spans'[d] = spans[d]
  BY <1>1, <1>2, <1>3 DEF PipelineTypeOK
<1>5. ASSUME NEW d \in Digests, spans'[d] # {}
      PROVE  d <= pushed' \/ (phase'[c] # "idle" /\ digest'[c].to = d)
  BY <1>1, <1>3, <1>4, <1>5
<1>6. ASSUME NEW d \in Digests, NEW e \in Digests, d < e, spans'[d] # {},
             NEW from \in spans'[e]
      PROVE  d <= from
  <2>1. CASE e = lastPost
    <3>1. d # lastPost /\ spans[d] # {} /\ from = pushed
      BY <1>2, <1>4, <1>6, <2>1
    <3>. QED
      BY <1>3, <3>1
  <2>2. CASE e # lastPost
    <3>1. from \in spans[e] /\ e <= pushed
      BY <1>3, <1>4, <1>6, <2>2
    <3>2. d # lastPost
      BY <1>1, <1>2, <1>6, <3>1
    <3>. QED
      BY <1>4, <1>6, <3>1, <3>2 DEF Undisturbed
  <2>. QED
    BY <2>1, <2>2
<1>. QED
  BY <1>1, <1>5, <1>6 DEF Undisturbed

\* The digest state moves past the digest in progress.
LEMMA AdvanceUndisturbed ==
  ASSUME OneCoordinator, PipelineTypeOK, PipelineTypeOK', Undisturbed,
         NEW c \in Coordinators, Advance(c)
  PROVE  Undisturbed'
<1>1. pc'[c] = "idle" /\ spans' = spans /\ pushed' = Newer(c)
  BY Roles DEF Advance, LeaveCycle, Stop, Goto, PipelineTypeOK, TypeOK,
     DeliveryTypeOK
<1>2. Underway(c) /\ Digests \subseteq Nat
  BY AtWork, Roles
<1>3. ASSUME NEW d \in Digests, spans[d] # {} PROVE d <= pushed'
  <2>1. d <= pushed \/ digest[c].to = d
    BY <1>3 DEF Undisturbed, OneCoordinator
  <2>. QED
    BY <1>1, <1>2, <2>1 DEF Newer, Underway
<1>4. \A q \in Coordinators : pc'[q] \notin {"release", "raised"}
  BY <1>1 DEF OneCoordinator
<1>. QED
  BY <1>1, <1>3, <1>4 DEF Undisturbed

\* As long as nothing fails, no user is told of a post by two digests, though
\* digests of different ages are delivered side by side by any number of
\* workers: the digests of one coordinator do not overlap (the post_id_from
\* and post_id_to of list_pending_digests, advance_digest_state).
THEOREM EachPostOnce ==
  ASSUME OneCoordinator
  PROVE  PipelineSpec => []OncePerPost
<1>1. PipelineInit => NothingTwice
  <2> SUFFICES ASSUME PipelineInit PROVE Undisturbed
    BY DEF NothingTwice
  <2>. QED
    BY Roles DEF PipelineInit, Init, InitDelivery, Undisturbed
<1>2. ASSUME PipelineTypeOK, PipelineTypeOK', NothingTwice,
             [PipelineNext]_pipeline
      PROVE  NothingTwice'
  <2> SUFFICES ASSUME faults' = 0 PROVE Undisturbed'
    BY DEF NothingTwice
  <2>0. faults \in Nat
    BY <1>2 DEF PipelineTypeOK, TypeOK, DeliveryTypeOK
  <2>1. ASSUME NEW k PROVE ~ Fault(k)
    BY <2>0 DEF Fault
  <2>2. ASSUME NEW c \in Coordinators, CoordinatorStep(c) \/ CoordinatorFailure(c)
        PROVE  Undisturbed'
    <3>0. ~ CoordinatorFailure(c)
      BY <2>1 DEF CoordinatorFailure, DeliveryFailure, SendRaises, RedisRaises,
                  DatabaseRaises, CycleRaises, CoordinatorCrash
    <3>1. Undisturbed
      <4>1. faults' = faults
        BY <2>2, <3>0 DEF CoordinatorStep, ListDigest, DispatchCold, DispatchHot,
           EnqueuePages, DeliverCold, Advance, AbandonCycle, DeliveryStep,
           LoadNone, Load, ClaimNext, ClaimReply, Send, Prune, Release,
           AfterCheckpoint, vars, delivery
      <4>. QED
        BY <1>2, <4>1 DEF NothingTwice
    <3>2. CASE ListDigest(c)
      BY <1>2, <3>1, <3>2, ListUndisturbed
    <3>3. CASE Advance(c)
      BY <1>2, <3>1, <3>3, AdvanceUndisturbed
    <3>4. CASE DispatchCold(c) \/ DispatchHot(c) \/ EnqueuePages(c)
      <4>1. /\ UNCHANGED <<spans, pushed, digest>>
            /\ phase[c] # "idle" /\ phase'[c] # "idle"
            /\ \A q \in Coordinators \ {c} : phase'[q] = phase[q]
        BY <1>2, <3>4 DEF DispatchCold, DispatchHot, EnqueuePages, topic, Enter,
                          PipelineTypeOK
      <4>2. \A q \in Coordinators :
              pc'[q] = pc[q] \/ pc'[q] \notin {"release", "raised"}
        BY <1>2, <3>4, Roles DEF DispatchCold, DispatchHot, EnqueuePages, Start,
           Goto, vars, delivery, PipelineTypeOK, TypeOK, DeliveryTypeOK
      <4>. QED
        BY <3>1, <4>1, <4>2 DEF Undisturbed, OneCoordinator
    <3>5. CASE DeliverCold(c)
      <4>1. UNCHANGED <<spans, pushed, phase, digest>>
        BY <3>5 DEF DeliverCold, coordination, topic
      <4>2. \A q \in Coordinators :
              pc'[q] = pc[q] \/ pc'[q] \notin {"release", "raised"}
        BY <1>2, <3>1, <3>5, Roles
          DEF Undisturbed, DeliverCold, DeliveryStep, LoadNone, Load, ClaimNext,
              ClaimReply, Send, Prune, Release, AfterCheckpoint, Goto,
              PipelineTypeOK, TypeOK, DeliveryTypeOK
      <4>. QED
        BY <1>2, <3>1, <4>1, <4>2, QuietUndisturbed
    <3>6. ~ AbandonCycle(c)
      BY <3>1 DEF AbandonCycle, Undisturbed
    <3>. QED
      BY <2>2, <3>0, <3>2, <3>3, <3>4, <3>5, <3>6 DEF CoordinatorStep
  <2>3. CASE \/ [Next]_vars /\ UNCHANGED coordination
             \/ NewPost \/ IntervalPasses
    <3>1. UNCHANGED <<spans, pushed, phase, digest>> /\ [Next]_vars
      BY <2>3 DEF NewPost, IntervalPasses, coordination, topic
    <3>2. faults = 0
      BY <2>0, <2>1, <3>1 DEF Next, WorkerStep, ClaimPage, Deliver, Checkpoint,
         CompletePage, FailPage, DeliveryRaises, Crash, Lapse, BackOff,
         Environment, UserStep, ChangeActivity, RegisterDevice,
         ChangeSubscription, Forget, DeliveryFailure, SendRaises, RedisRaises,
         DatabaseRaises, DeliveryStep, LoadNone, Load, ClaimNext, ClaimReply,
         Send, Prune, Release, AfterCheckpoint, vars, delivery
    <3>3. \A q \in Coordinators : pc'[q] = pc[q]
      BY <1>2, <3>1, NextOthers DEF PipelineTypeOK
    <3>. QED
      BY <1>2, <3>1, <3>2, <3>3, QuietUndisturbed DEF NothingTwice
  <2>4. CASE UNCHANGED pipeline
    BY <2>3, <2>4 DEF pipeline
  <2>. QED
    BY <1>2, <2>2, <2>3, <2>4 DEF PipelineNext
<1>3. ASSUME PipelineTypeOK, NothingTwice PROVE OncePerPost
  <2> SUFFICES ASSUME Undisturbed, NEW c \in Digests, NEW d \in Digests, c < d,
                      NEW n \in Digests, Announces(c, n), Announces(d, n)
               PROVE  FALSE
    BY <1>3 DEF OncePerPost, NoPostTwice, NothingTwice
  <2>1. PICK from \in spans[d] : from < n /\ n <= d
    BY DEF Announces
  <2>2. n <= c /\ spans[c] # {}
    BY DEF Announces
  <2>3. c <= from
    BY <2>1, <2>2 DEF Undisturbed
  <2>4. c \in Nat /\ n \in Nat /\ from \in Nat
    BY <1>3, Roles DEF PipelineTypeOK
  <2>. QED
    BY <2>1, <2>2, <2>3, <2>4
<1>. QED
  BY <1>1, <1>2, <1>3, PipelineTypeCorrect, PTL DEF PipelineSpec
=============================================================================
