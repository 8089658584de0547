---------------------------- MODULE DeliveryProofs ----------------------------
(***************************************************************************)
(* Lemmas about the steps of DeliverPage, for the modules that compose them *)
(* with jobs.                                                               *)
(***************************************************************************)
EXTENDS DeliverPage, FiniteSetTheorems, WellFoundedInduction, TLAPS

-----------------------------------------------------------------------------
(* Types. *)

\* load_push_targets returns no more than multicast_batch_size users.
LEMMA FirstBatchBound ==
  ASSUME NEW S \in SUBSET Users
  PROVE  /\ FirstBatch(S) \subseteq S /\ IsFiniteSet(FirstBatch(S))
         /\ Cardinality(FirstBatch(S)) <= BatchSize
<1> USE DeliverPageAssumption
<1> DEFINE Below(u) == {v \in S : v < u}
           rank == [u \in FirstBatch(S) |-> Cardinality(Below(u))]
<1>1. IsFiniteSet(S)
  BY FS_Subset
<1>2. ASSUME NEW u \in S
      PROVE  IsFiniteSet(Below(u)) /\ Cardinality(Below(u)) \in Nat
  BY <1>1, FS_Subset, FS_CardinalityType
<1>3. FirstBatch(S) \subseteq S /\ IsFiniteSet(FirstBatch(S))
  BY <1>1, FS_Subset DEF FirstBatch
<1>4. S \subseteq Nat /\ FirstBatch(S) \subseteq Nat
  BY <1>3
<1>5. ASSUME NEW u \in FirstBatch(S), NEW v \in FirstBatch(S), u < v
      PROVE  Cardinality(Below(u)) # Cardinality(Below(v))
  <2>1. u \in S /\ u \in Nat /\ v \in Nat /\ v \in S
    BY <1>3, <1>4
  <2>2. u \in Below(v) /\ u \notin Below(u)
    BY <1>5, <2>1
  <2>3. Below(u) \subseteq Below(v)
    <3>1. \A x \in S : x < u => x < v
      BY <1>4, <1>5, <2>1
    <3>. QED
      BY <3>1
  <2>. QED
    BY <1>2, <2>1, <2>2, <2>3, FS_Subset
<1>6. rank \in Injection(FirstBatch(S), 0 .. BatchSize - 1)
  <2>1. \A u \in FirstBatch(S) : Cardinality(Below(u)) \in 0 .. BatchSize - 1
    BY <1>2, <1>3 DEF FirstBatch
  <2>2. \A u, v \in FirstBatch(S) : u # v => u < v \/ v < u
    BY <1>4
  <2>3. \A u, v \in FirstBatch(S) :
          Cardinality(Below(u)) = Cardinality(Below(v)) => u = v
    BY <1>5, <2>2
  <2>. HIDE DEF Below
  <2>4. rank \in [FirstBatch(S) -> 0 .. BatchSize - 1]
    BY <2>1
  <2>5. \A u, v \in FirstBatch(S) : rank[u] = rank[v] => u = v
    BY <2>3
  <2>. QED
    BY <2>4, <2>5 DEF Injection, IsInjective
<1>7. /\ IsFiniteSet(0 .. BatchSize - 1)
      /\ Cardinality(0 .. BatchSize - 1) = BatchSize
  BY FS_Interval
<1>8. Cardinality(FirstBatch(S)) <= BatchSize
  BY <1>6, <1>7, FS_Injection
<1>. QED
  BY <1>3, <1>8

\* The batch of a sender is a set of users, and a finite one.
LEMMA BatchSets ==
  ASSUME DeliveryTypeOK, NEW p \in Senders
  PROVE  /\ batch[p] \in Batch
         /\ IsFiniteSet(batch[p].left) /\ IsFiniteSet(batch[p].fresh)
         /\ batch[p].left \subseteq Users /\ batch[p].fresh \subseteq Users
         /\ batch[p].stale \subseteq Users
         /\ Cardinality(batch[p].left) \in Nat
         /\ Cardinality(batch[p].fresh) \in Nat
<1>1. batch[p] \in Batch
  BY DEF DeliveryTypeOK
<1>2. /\ batch[p].left \subseteq Users /\ batch[p].fresh \subseteq Users
      /\ batch[p].stale \subseteq Users
  BY <1>1 DEF Batch
<1>3. IsFiniteSet(batch[p].left) /\ IsFiniteSet(batch[p].fresh)
  BY <1>2, FS_Subset, DeliverPageAssumption
<1>. QED
  BY <1>1, <1>2, <1>3, FS_CardinalityType

LEMMA NoBatchType ==
  /\ NoBatch \in Batch /\ NoTask \in Task
  /\ Cardinality(NoBatch.left) + Cardinality(NoBatch.fresh) <= BatchSize
<1>1. Cardinality({}) = 0
  BY FS_EmptySet
<1>2. NoBatch \in Batch /\ NoTask \in Task
  BY DEF NoBatch, Batch, NoTask, Task
<1>3. NoBatch.left = {} /\ NoBatch.fresh = {}
  BY DEF NoBatch
<1>. QED
  BY <1>1, <1>2, <1>3, DeliverPageAssumption

LEMMA InitDeliveryType == InitDelivery => DeliveryTypeOK
<1> SUFFICES ASSUME InitDelivery PROVE DeliveryTypeOK
  OBVIOUS
<1>1. \A p \in Senders : batch[p] = NoBatch
  BY DEF InitDelivery
<1>2. \A p \in Senders :
        Cardinality(batch[p].left) + Cardinality(batch[p].fresh) <= BatchSize
  BY <1>1, NoBatchType
<1>. QED
  BY <1>2, NoBatchType, DeliverPageAssumption
    DEF InitDelivery, DeliveryTypeOK, Labels

LEMMA StartType ==
  ASSUME DeliveryTypeOK, NEW p \in Senders, NEW d \in Digests,
         NEW after \in Users \cup {0}, NEW upto \in Users \cup {0},
         Start(p, d, after, upto),
         UNCHANGED <<world, markers, pushes, faults>>
  PROVE  DeliveryTypeOK'
<1>1. [digest |-> d, upto |-> upto] \in Task
  BY DEF Task
<1>2. task' \in [Senders -> Task]
  BY <1>1 DEF Start, DeliveryTypeOK
<1>3. pc' \in [Senders -> Labels]
  BY DEF Start, Goto, DeliveryTypeOK, Labels
<1>4. \A q \in Senders : pc'[q] # "idle" => task'[q].digest \in Digests
  BY DEF Start, Goto, DeliveryTypeOK
<1>5. cursor' \in [Senders -> Users \cup {0}]
  BY DEF Start, DeliveryTypeOK
<1>. QED
  BY <1>2, <1>3, <1>4, <1>5 DEF Start, DeliveryTypeOK, world

LEMMA StopType ==
  ASSUME DeliveryTypeOK, NEW p \in Senders, Stop(p),
         UNCHANGED <<world, markers, pushes>>, faults' \in Nat
  PROVE  DeliveryTypeOK'
<1>1. task' \in [Senders -> Task] /\ batch' \in [Senders -> Batch]
  BY NoBatchType DEF Stop, DeliveryTypeOK
<1>2. pc' \in [Senders -> Labels] /\ cursor' \in [Senders -> Users \cup {0}]
  BY DEF Stop, Goto, DeliveryTypeOK, Labels
<1>3. \A q \in Senders : pc'[q] # "idle" => task'[q].digest \in Digests
  BY DEF Stop, Goto, DeliveryTypeOK
<1>4. \A q \in Senders : batch'[q] = batch[q] \/ batch'[q] = NoBatch
  BY DEF Stop, DeliveryTypeOK
<1>5. \A q \in Senders :
        Cardinality(batch'[q].left) + Cardinality(batch'[q].fresh) <= BatchSize
  BY <1>4, NoBatchType DEF DeliveryTypeOK
<1>. QED
  BY <1>1, <1>2, <1>3, <1>5 DEF DeliveryTypeOK, world

LEMMA AfterCheckpointType ==
  ASSUME DeliveryTypeOK, NEW p \in Senders, AfterCheckpoint(p)
  PROVE  DeliveryTypeOK'
<1>1. batch' \in [Senders -> Batch]
  BY NoBatchType DEF AfterCheckpoint, DeliveryTypeOK
<1>2. pc' \in [Senders -> Labels]
  BY DEF AfterCheckpoint, Goto, DeliveryTypeOK, Labels
<1>3. \A q \in Senders : pc'[q] # "idle" => task'[q].digest \in Digests
  BY DEF AfterCheckpoint, Goto, DeliveryTypeOK
<1>4. \A q \in Senders : batch'[q] = batch[q] \/ batch'[q] = NoBatch
  BY DEF AfterCheckpoint, DeliveryTypeOK
<1>5. \A q \in Senders :
        Cardinality(batch'[q].left) + Cardinality(batch'[q].fresh) <= BatchSize
  BY <1>4, NoBatchType DEF DeliveryTypeOK
<1>. QED
  BY <1>1, <1>2, <1>3, <1>5 DEF AfterCheckpoint, DeliveryTypeOK, world

\* A step that moves p in deliver_page and leaves its batch alone.
LEMMA GotoType ==
  ASSUME DeliveryTypeOK, NEW p \in Senders, pc[p] # "idle",
         NEW label \in Labels, Goto(p, label),
         UNCHANGED <<task, cursor, batch>>,
         token' \in [Users -> {"none", "live", "dead"}],
         UNCHANGED <<subscribed, active>>,
         markers' \subseteq Digests \X Users,
         pushes' \in [Digests -> [Users -> Nat]], faults' \in Nat
  PROVE  DeliveryTypeOK'
<1>1. pc' \in [Senders -> Labels]
  BY DEF Goto, DeliveryTypeOK
<1>2. \A q \in Senders : pc'[q] # "idle" => task'[q].digest \in Digests
  BY DEF Goto, DeliveryTypeOK
<1>. QED
  BY <1>1, <1>2 DEF DeliveryTypeOK

LEMMA PushedType ==
  ASSUME DeliveryTypeOK, NEW p \in Senders, pc[p] # "idle", NEW S
  PROVE  Pushed(p, S) \in [Digests -> [Users -> Nat]]
<1>1. task[p].digest \in Digests
  BY DEF DeliveryTypeOK
<1>2. [u \in Users |-> IF u \in S THEN pushes[task[p].digest][u] + 1
                                  ELSE pushes[task[p].digest][u]]
        \in [Users -> Nat]
  BY <1>1 DEF DeliveryTypeOK
<1>. QED
  BY <1>1, <1>2 DEF DeliveryTypeOK, Pushed

LEMMA LoadType ==
  ASSUME DeliveryTypeOK, NEW p \in Senders, Load(p)
  PROVE  DeliveryTypeOK'
<1>1. Targets(p) \subseteq Users /\ Cardinality(Targets(p)) <= BatchSize
  BY FirstBatchBound DEF Targets, DeliveryTypeOK
<1> DEFINE row == [left |-> Targets(p), fresh |-> {},
                   stale |-> {u \in Targets(p) : token[u] = "dead"},
                   short |-> IsShort(Targets(p))]
<1>2. /\ row \in Batch /\ batch' = [batch EXCEPT ![p] = row]
      /\ row.left = Targets(p) /\ row.fresh = {}
  BY <1>1 DEF Load, Batch, IsShort
<1> HIDE DEF row
<1>3. Cardinality({}) = 0 /\ Cardinality(Targets(p)) \in Nat
  BY <1>1, FS_EmptySet, FirstBatchBound, FS_CardinalityType, FS_Subset,
     DeliverPageAssumption
<1>4. batch' \in [Senders -> Batch]
  BY <1>2 DEF DeliveryTypeOK
<1>5. Cardinality(row.left) + Cardinality(row.fresh) <= BatchSize
  BY <1>1, <1>2, <1>3, DeliverPageAssumption
<1>6. \A q \in Senders :
        Cardinality(batch'[q].left) + Cardinality(batch'[q].fresh) <= BatchSize
  BY <1>2, <1>5 DEF DeliveryTypeOK
<1>7. cursor' \in [Senders -> Users \cup {0}]
  BY <1>1 DEF Load, DeliveryTypeOK
<1>8. pc' \in [Senders -> Labels]
  BY DEF Load, Goto, DeliveryTypeOK, Labels
<1>9. \A q \in Senders : pc'[q] # "idle" => task'[q].digest \in Digests
  BY DEF Load, Goto, DeliveryTypeOK
<1>. QED
  BY <1>4, <1>6, <1>7, <1>8, <1>9 DEF Load, DeliveryTypeOK, world

\* What a SET NX does to the batch of p, and to no other.
LEMMA ClaimNextEffect ==
  ASSUME DeliveryTypeOK, NEW p \in Senders, ClaimNext(p)
  PROVE  \E u \in batch[p].left :
           /\ markers' = markers \cup {Marker(p, u)}
           /\ batch' \in [Senders -> Batch]
           /\ batch'[p].left = batch[p].left \ {u}
           /\ batch'[p].fresh =
                IF Acquired(p, u) THEN batch[p].fresh \cup {u} ELSE batch[p].fresh
           /\ batch'[p].stale = batch[p].stale /\ batch'[p].short = batch[p].short
           /\ \A q \in Senders \ {p} : batch'[q] = batch[q]
<1>1. PICK u \in batch[p].left :
        /\ markers' = markers \cup {Marker(p, u)}
        /\ batch' = [batch EXCEPT ![p].left = @ \ {u},
             ![p].fresh = IF Acquired(p, u) THEN @ \cup {u} ELSE @]
  BY DEF ClaimNext
<1> DEFINE row == [batch[p] EXCEPT !.left = @ \ {u},
                     !.fresh = IF Acquired(p, u) THEN @ \cup {u} ELSE @]
<1>2. batch[p] \in Batch /\ u \in Users
  BY BatchSets
<1>3. /\ row \in Batch /\ row.left = batch[p].left \ {u}
      /\ row.fresh = IF Acquired(p, u) THEN batch[p].fresh \cup {u}
                                       ELSE batch[p].fresh
      /\ row.stale = batch[p].stale /\ row.short = batch[p].short
  BY <1>2 DEF Batch
<1>4. batch' = [batch EXCEPT ![p] = row]
  BY <1>1 DEF DeliveryTypeOK
<1>5. batch'[p] = row /\ batch' \in [Senders -> Batch]
      /\ \A q \in Senders \ {p} : batch'[q] = batch[q]
  BY <1>3, <1>4 DEF DeliveryTypeOK
<1>. QED
  BY <1>1, <1>3, <1>5

LEMMA ClaimNextType ==
  ASSUME DeliveryTypeOK, NEW p \in Senders, ClaimNext(p)
  PROVE  DeliveryTypeOK'
<1>1. PICK u \in batch[p].left :
        /\ markers' = markers \cup {Marker(p, u)}
        /\ batch' \in [Senders -> Batch]
        /\ batch'[p].left = batch[p].left \ {u}
        /\ batch'[p].fresh =
             IF Acquired(p, u) THEN batch[p].fresh \cup {u} ELSE batch[p].fresh
        /\ \A q \in Senders \ {p} : batch'[q] = batch[q]
  BY ClaimNextEffect
<1>2. u \in Users /\ task[p].digest \in Digests
  BY BatchSets DEF ClaimNext, DeliveryTypeOK
<1>3. markers' \subseteq Digests \X Users
  BY <1>1, <1>2 DEF Marker, DeliveryTypeOK
<1>4. Cardinality(batch[p].left \ {u}) = Cardinality(batch[p].left) - 1
  BY BatchSets, FS_RemoveElement
<1>5. Cardinality(batch[p].fresh \cup {u}) \in
        {Cardinality(batch[p].fresh), Cardinality(batch[p].fresh) + 1}
  BY BatchSets, FS_AddElement
<1>6. Cardinality(batch'[p].left) + Cardinality(batch'[p].fresh) <= BatchSize
  BY <1>1, <1>4, <1>5, BatchSets, DeliverPageAssumption DEF DeliveryTypeOK
<1>7. \A q \in Senders :
        Cardinality(batch'[q].left) + Cardinality(batch'[q].fresh) <= BatchSize
  BY <1>1, <1>6 DEF DeliveryTypeOK
<1>. QED
  BY <1>1, <1>3, <1>7 DEF ClaimNext, DeliveryTypeOK, world

\* The steps of deliver_page keep the types.
LEMMA DeliveryStepType ==
  ASSUME DeliveryTypeOK, NEW p \in Senders, DeliveryStep(p)
  PROVE  DeliveryTypeOK'
<1>1. CASE LoadNone(p) \/ ClaimReply(p)
  <2>1. /\ \E label \in Labels : Goto(p, label)
        /\ pc[p] # "idle"
    BY <1>1 DEF LoadNone, ClaimReply, Labels
  <2>. QED
    BY <1>1, <2>1, GotoType DEF LoadNone, ClaimReply, DeliveryTypeOK, world
<1>2. CASE Load(p)
  BY <1>2, LoadType
<1>3. CASE ClaimNext(p)
  BY <1>3, ClaimNextType
<1>4. CASE Send(p)
  <2>1. pushes' \in [Digests -> [Users -> Nat]] /\ pc[p] # "idle"
    BY <1>4, PushedType DEF Send
  <2>2. \E label \in Labels : Goto(p, label)
    BY <1>4 DEF Send, Labels
  <2>. QED
    BY <1>4, <2>1, <2>2, GotoType DEF Send, DeliveryTypeOK, world
<1>5. CASE Prune(p)
  <2>1. token' \in [Users -> {"none", "live", "dead"}]
    BY <1>5 DEF Prune, DeliveryTypeOK
  <2>2. pc[p] # "idle" /\ "checkpoint" \in Labels
    BY <1>5 DEF Prune, Labels
  <2>. QED
    BY <1>5, <2>1, <2>2, GotoType DEF Prune, DeliveryTypeOK
<1>6. CASE Release(p)
  <2>1. markers' \subseteq Digests \X Users
    BY <1>6 DEF Release, Released, DeliveryTypeOK
  <2>2. pc[p] # "idle" /\ "raised" \in Labels
    BY <1>6 DEF Release, Labels
  <2>. QED
    BY <1>6, <2>1, <2>2, GotoType DEF Release, DeliveryTypeOK, world
<1>. QED
  BY <1>1, <1>2, <1>3, <1>4, <1>5, <1>6 DEF DeliveryStep

LEMMA DeliveryFailureType ==
  ASSUME DeliveryTypeOK, NEW p \in Senders, DeliveryFailure(p)
  PROVE  DeliveryTypeOK'
<1>1. faults' \in Nat /\ pc[p] # "idle"
  BY DEF DeliveryFailure, SendRaises, RedisRaises, DatabaseRaises, Fault,
         DeliveryTypeOK
<1>2. pushes' \in [Digests -> [Users -> Nat]]
  BY PushedType, <1>1
    DEF DeliveryFailure, SendRaises, RedisRaises, DatabaseRaises, DeliveryTypeOK
<1>3. \E label \in Labels : Goto(p, label)
  BY DEF DeliveryFailure, SendRaises, RedisRaises, DatabaseRaises, Labels
<1>. QED
  BY <1>1, <1>2, <1>3, GotoType
    DEF DeliveryFailure, SendRaises, RedisRaises, DatabaseRaises,
        DeliveryTypeOK, world

LEMMA EnvironmentType ==
  ASSUME DeliveryTypeOK, Forget \/ \E u \in Users : UserStep(u)
  PROVE  DeliveryTypeOK'
<1>1. CASE Forget
  BY <1>1 DEF Forget, Fault, DeliveryTypeOK, world, sending
<1>2. ASSUME NEW u \in Users, UserStep(u) PROVE DeliveryTypeOK'
  <2>1. /\ token' \in [Users -> {"none", "live", "dead"}]
        /\ subscribed' \subseteq Users /\ active' \subseteq Users
    BY <1>2 DEF UserStep, ChangeActivity, RegisterDevice, ChangeSubscription,
                DeliveryTypeOK
  <2>. QED
    BY <1>2, <2>1
      DEF UserStep, ChangeActivity, RegisterDevice, ChangeSubscription,
          DeliveryTypeOK, sending
<1>. QED
  BY <1>1, <1>2

-----------------------------------------------------------------------------
(* Markers. *)

\* Without an ambiguous send and with a Redis that keeps its keys.
Dependable == Faults \cap {"ambiguous", "forget"} = {}

Once == MarkersGuard /\ AtMostOnce

\* A step that neither claims, pushes nor releases keeps the guard, if the
\* senders that hold claims held them before.
LEMMA QuietOnce ==
  ASSUME Once, UNCHANGED <<markers, pushes>>,
         \A q \in Senders : Claiming(q)' =>
           \/ batch'[q].fresh = {}
           \/ Claiming(q) /\ batch'[q].fresh = batch[q].fresh /\ task'[q] = task[q]
  PROVE  Once'
<1> USE DEF Once, MarkersGuard
<1>1. ClaimsMarked'
  BY DEF ClaimsMarked, Marker
<1>2. ClaimsApart'
  BY DEF ClaimsApart
<1>3. PushesMarked' /\ AtMostOnce'
  BY DEF PushesMarked, AtMostOnce
<1>. QED
  BY <1>1, <1>2, <1>3

LEMMA ClaimNextOnce ==
  ASSUME DeliveryTypeOK, Once, NEW p \in Senders, ClaimNext(p)
  PROVE  Once'
<1> USE DEF Once, MarkersGuard
<1>1. PICK u \in batch[p].left :
        /\ markers' = markers \cup {Marker(p, u)}
        /\ batch'[p].fresh =
             IF Acquired(p, u) THEN batch[p].fresh \cup {u} ELSE batch[p].fresh
        /\ \A q \in Senders \ {p} : batch'[q] = batch[q]
  BY ClaimNextEffect
<1>2. /\ pc[p] = "claim" /\ UNCHANGED <<pushes, pc, task>>
      /\ task[p].digest \in Digests /\ u \in Users
      /\ pushes[task[p].digest][u] \in Nat
  BY BatchSets DEF ClaimNext, DeliveryTypeOK
<1>3. \A q \in Senders : Claiming(q)' <=> Claiming(q)
  BY <1>2 DEF Claiming
<1>4. CASE ~ Acquired(p, u)
  BY <1>1, <1>2, <1>4, QuietOnce, <1>3 DEF Acquired
<1>5. CASE Acquired(p, u)
  <2>1. Marker(p, u) \notin markers /\ Claiming(p)
    BY <1>2, <1>5 DEF Acquired, Claiming
  <2>2. pushes[task[p].digest][u] = 0
    BY <1>2, <2>1 DEF PushesMarked, Marker
  <2>3. ClaimsMarked'
    BY <1>1, <1>2, <1>3, <1>5, <2>1, <2>2 DEF ClaimsMarked, Marker
  <2>4. ASSUME NEW q \in Senders \ {p}, Claiming(q),
               task[q].digest = task[p].digest
        PROVE  u \notin batch[q].fresh
    BY <2>1, <2>4 DEF ClaimsMarked, Marker
  <2>5. ClaimsApart'
    BY <1>1, <1>2, <1>3, <1>5, <2>1, <2>4 DEF ClaimsApart
  <2>6. PushesMarked' /\ AtMostOnce'
    BY <1>1, <1>2 DEF PushesMarked, AtMostOnce
  <2>. QED
    BY <2>3, <2>5, <2>6
<1>. QED
  BY <1>4, <1>5

\* A push to users whose claims p holds.
LEMMA SendOnce ==
  ASSUME DeliveryTypeOK, Once, NEW p \in Senders, Send(p)
  PROVE  Once'
<1> USE DEF Once, MarkersGuard
<1> DEFINE d == task[p].digest
<1>1. /\ d \in Digests /\ Claiming(p) /\ pc[p] = "send"
      /\ UNCHANGED <<markers, task, batch>>
  BY DEF Send, DeliveryTypeOK, Claiming
<1>2. \A q \in Senders : Claiming(q)' => Claiming(q) /\ q # p
  BY DEF Send, Goto, Claiming, DeliveryTypeOK
<1>3. \A c \in Digests, u \in Users :
        pushes'[c][u] = IF c = d /\ u \in Reachable(p) THEN pushes[c][u] + 1
                                                       ELSE pushes[c][u]
  BY <1>1 DEF Send, Pushed, DeliveryTypeOK
<1>4. \A u \in Reachable(p) : <<d, u>> \in markers /\ pushes[d][u] = 0
  BY <1>1 DEF ClaimsMarked, Reachable, Marker
<1>5. \A q \in Senders : batch[q].fresh \subseteq Users
  BY BatchSets
<1>6. \A q \in Senders : Claiming(q) => task[q].digest \in Digests
  BY DEF Claiming, DeliveryTypeOK
<1>7. ASSUME NEW q \in Senders \ {p}, Claiming(q), task[q].digest = d
      PROVE  batch[q].fresh \cap Reachable(p) = {}
  BY <1>1, <1>7 DEF ClaimsApart, Reachable
<1>8. ClaimsMarked'
  <2> SUFFICES ASSUME NEW q \in Senders, Claiming(q)', NEW u \in batch[q].fresh
               PROVE  <<task[q].digest, u>> \in markers /\
                      pushes'[task[q].digest][u] = 0
    BY <1>1 DEF ClaimsMarked, Marker
  <2>1. /\ Claiming(q) /\ q # p /\ u \in Users /\ task[q].digest \in Digests
        /\ <<task[q].digest, u>> \in markers /\ pushes[task[q].digest][u] = 0
    BY <1>2, <1>5, <1>6 DEF ClaimsMarked, Marker
  <2>. QED
    BY <1>3, <1>7, <2>1
<1>9. ClaimsApart'
  BY <1>1, <1>2 DEF ClaimsApart
<1>10. PushesMarked'
  BY <1>1, <1>3, <1>4 DEF PushesMarked
<1>11. ASSUME NEW c \in Digests, NEW u \in Users PROVE pushes'[c][u] <= 1
  <2>1. CASE c = d /\ u \in Reachable(p)
    <3>1. pushes'[c][u] = pushes[c][u] + 1
      BY <1>3, <2>1
    <3>2. pushes[c][u] = 0
      BY <1>4, <2>1
    <3>. QED
      BY <3>1, <3>2
  <2>2. CASE ~ (c = d /\ u \in Reachable(p))
    BY <1>3, <2>2 DEF AtMostOnce
  <2>. QED
    BY <2>1, <2>2
<1>. QED
  BY <1>8, <1>9, <1>10, <1>11 DEF AtMostOnce

\* The claims that are given back have not been pushed, and are nobody else's.
LEMMA ReleaseOnce ==
  ASSUME DeliveryTypeOK, Once, NEW p \in Senders, Release(p)
  PROVE  Once'
<1> USE DEF Once, MarkersGuard
<1>1. /\ Claiming(p) /\ UNCHANGED <<pushes, task, batch>>
      /\ markers' = markers \ {Marker(p, u) : u \in batch[p].fresh}
  BY DEF Release, Released, Claiming
<1>2. \A q \in Senders : Claiming(q)' => Claiming(q) /\ q # p
  BY DEF Release, Goto, Claiming, DeliveryTypeOK
<1>3. ClaimsMarked'
  BY <1>1, <1>2 DEF ClaimsMarked, ClaimsApart, Marker
<1>4. ClaimsApart'
  BY <1>1, <1>2 DEF ClaimsApart
<1>5. PushesMarked'
  <2>1. \A u \in batch[p].fresh : pushes[task[p].digest][u] = 0
    BY <1>1 DEF ClaimsMarked
  <2>. QED
    BY <1>1, <2>1 DEF PushesMarked, Marker
<1>. QED
  BY <1>1, <1>3, <1>4, <1>5 DEF AtMostOnce

LEMMA InitDeliveryOnce == InitDelivery => Once
<1> SUFFICES ASSUME InitDelivery PROVE Once
  OBVIOUS
<1>1. \A p \in Senders : ~ Claiming(p)
  BY DEF InitDelivery, Claiming
<1>2. \A d \in Digests, u \in Users : pushes[d][u] = 0
  BY DEF InitDelivery
<1>. QED
  BY <1>1, <1>2 DEF Once, MarkersGuard, ClaimsMarked, ClaimsApart,
                    PushesMarked, AtMostOnce

\* The steps of deliver_page never push a digest twice to a user.
LEMMA DeliveryStepOnce ==
  ASSUME DeliveryTypeOK, Once, NEW p \in Senders, DeliveryStep(p)
  PROVE  Once'
<1>1. CASE Load(p)
  <2>1. \A q \in Senders : Claiming(q)' =>
          \/ batch'[q].fresh = {}
          \/ Claiming(q) /\ batch'[q].fresh = batch[q].fresh /\ task'[q] = task[q]
    BY <1>1 DEF Load, Goto, Claiming, DeliveryTypeOK
  <2>. QED
    BY <1>1, <2>1, QuietOnce DEF Load
<1>2. CASE LoadNone(p) \/ ClaimReply(p) \/ Prune(p)
  <2>1. \A q \in Senders : Claiming(q)' => Claiming(q)
    BY <1>2 DEF LoadNone, ClaimReply, Prune, Goto, Claiming, DeliveryTypeOK
  <2>. QED
    BY <1>2, <2>1, QuietOnce DEF LoadNone, ClaimReply, Prune
<1>. QED
  BY <1>1, <1>2, ClaimNextOnce, SendOnce, ReleaseOnce DEF DeliveryStep

LEMMA DeliveryFailureOnce ==
  ASSUME Dependable, DeliveryTypeOK, Once, NEW p \in Senders,
         DeliveryFailure(p)
  PROVE  Once'
<1>1. UNCHANGED <<markers, pushes, task, batch>>
  BY DEF Dependable, DeliveryFailure, SendRaises, RedisRaises, DatabaseRaises,
         Fault
<1>2. \A q \in Senders : Claiming(q)' => Claiming(q)
  BY DEF DeliveryFailure, SendRaises, RedisRaises, DatabaseRaises, Goto,
         Claiming, DeliveryTypeOK
<1>. QED
  BY <1>1, <1>2, QuietOnce
-----------------------------------------------------------------------------
(* Fates of notifications. *)

Facts == DeliveryTypeOK /\ Once

\* The notifications told, and those in flight.
Told == {x \in Digests \X Users : pushes[x[1]][x[2]] = 1}

Flying == {x \in Digests \X Users : InFlight(x[1], x[2])}

\* The fates if T are told, F in flight and M marked.
Fates(T, F, M) ==
  [d \in Digests |-> [u \in Users |->
     IF <<d, u>> \in T THEN "told" ELSE IF <<d, u>> \in F THEN "taken"
     ELSE IF <<d, u>> \in M THEN "lost" ELSE "open"]]

\* Fate says that, and nothing else.
LEMMA FateIs ==
  ASSUME Facts
  PROVE  /\ Fate = Fates(Told, Flying, markers)
         /\ Told \cap Flying = {} /\ Told \cup Flying \subseteq markers
<1>1. ASSUME NEW d \in Digests, NEW u \in Users
      PROVE  /\ pushes[d][u] \in Nat /\ pushes[d][u] <= 1
             /\ <<d, u>> \in Told <=> pushes[d][u] = 1
             /\ <<d, u>> \in Flying <=> InFlight(d, u)
  BY DEF Facts, DeliveryTypeOK, Once, AtMostOnce, Told, Flying
<1>2. ASSUME NEW d \in Digests, NEW u \in Users
      PROVE  FateOf(d, u) =
               IF <<d, u>> \in Told THEN "told"
               ELSE IF <<d, u>> \in Flying THEN "taken"
               ELSE IF <<d, u>> \in markers THEN "lost" ELSE "open"
  BY <1>1 DEF FateOf
<1>3. Fate = Fates(Told, Flying, markers)
  BY <1>2 DEF Fate, Fates
<1>4. ASSUME NEW d \in Digests, NEW u \in Users, InFlight(d, u)
      PROVE  <<d, u>> \in markers /\ pushes[d][u] = 0
  BY <1>4 DEF Facts, Once, MarkersGuard, ClaimsMarked, InFlight, Marker
<1>5. ASSUME NEW d \in Digests, NEW u \in Users, pushes[d][u] = 1
      PROVE  <<d, u>> \in markers
  BY <1>5 DEF Facts, Once, MarkersGuard, PushesMarked
<1>. QED
  BY <1>1, <1>3, <1>4, <1>5 DEF Told, Flying

\* The same of the next state.
LEMMA FateNext ==
  ASSUME Facts'
  PROVE  Fate' = Fates(Told', Flying', markers')
<1>1. ASSUME NEW d \in Digests, NEW u \in Users
      PROVE  /\ pushes'[d][u] \in Nat /\ pushes'[d][u] <= 1
             /\ <<d, u>> \in Told' <=> pushes'[d][u] = 1
             /\ <<d, u>> \in Flying' <=> InFlight(d, u)'
  BY DEF Facts, DeliveryTypeOK, Once, AtMostOnce, Told, Flying
<1>2. ASSUME NEW d \in Digests, NEW u \in Users
      PROVE  FateOf(d, u)' =
               IF <<d, u>> \in Told' THEN "told"
               ELSE IF <<d, u>> \in Flying' THEN "taken"
               ELSE IF <<d, u>> \in markers' THEN "lost" ELSE "open"
  BY <1>1 DEF FateOf
<1>. QED
  BY <1>2 DEF Fate, Fates

\* One notification is taken.
LEMMA FatesTake ==
  ASSUME NEW T, NEW F, NEW M, NEW d \in Digests, NEW u \in Users,
         <<d, u>> \notin M, T \cup F \subseteq M,
         Fate = Fates(T, F, M),
         Fate' = Fates(T, F \cup {<<d, u>>}, M \cup {<<d, u>>})
  PROVE  N!Next
<1>1. Fate[d][u] = "open"
  BY DEF Fates
<1>2. Fate' = [Fate EXCEPT ![d] =
                 [v \in Users |-> IF v \in {u} THEN "taken" ELSE @[v]]]
  BY DEF Fates
<1>. QED
  BY <1>1, <1>2 DEF N!Next, N!Take, N!Become

\* Those of S are given back.
LEMMA FatesGiveBack ==
  ASSUME NEW T, NEW F, NEW M, NEW d \in Digests, NEW S \in SUBSET Users,
         {d} \X S \subseteq F, T \cap F = {}, T \cup F \subseteq M,
         Fate = Fates(T, F, M),
         Fate' = Fates(T, F \ ({d} \X S), M \ ({d} \X S))
  PROVE  N!Next
<1>1. \A u \in S : Fate[d][u] = "taken"
  BY DEF Fates
<1>2. Fate' = [Fate EXCEPT ![d] =
                 [v \in Users |-> IF v \in S THEN "open" ELSE @[v]]]
  BY DEF Fates
<1>. QED
  BY <1>1, <1>2 DEF N!Next, N!GiveBack, N!Become, N!Taken

\* Those of S are told, and the rest of R is lost.
LEMMA FatesSettle ==
  ASSUME Facts, Facts', UNCHANGED markers,
         NEW d \in Digests, NEW R \in SUBSET Users, NEW S \in SUBSET R,
         {d} \X R \subseteq Flying,
         Flying' = Flying \ ({d} \X R), Told' = Told \cup ({d} \X S)
  PROVE  N!Next
<1>1. /\ Fate = Fates(Told, Flying, markers)
      /\ Told \cap Flying = {} /\ Told \cup Flying \subseteq markers
      /\ Fate' = Fates(Told \cup ({d} \X S), Flying \ ({d} \X R), markers)
  BY FateIs, FateNext
<1>2. \A u \in R : Fate[d][u] = "taken"
  BY <1>1 DEF Fates
<1> DEFINE L == R \ S
<1>3. Fate' = [Fate EXCEPT ![d] = [u \in Users |->
         IF u \in S THEN "told" ELSE IF u \in L THEN "lost" ELSE @[u]]]
  BY <1>1 DEF Fates
<1>4. N!Settle(d, S, L)
  BY <1>2, <1>3 DEF N!Settle, N!Taken
<1>. QED
  BY <1>4 DEF N!Next

Holds(q, d, u) == Claiming(q) /\ task[q].digest = d /\ u \in batch[q].fresh

\* Neither markers nor pushes change, and senders hold what they held.
LEMMA QuietFate ==
  ASSUME Facts, Facts', UNCHANGED <<markers, pushes>>,
         \A q \in Senders, d \in Digests, u \in Users :
           Holds(q, d, u)' <=> Holds(q, d, u)
  PROVE  UNCHANGED Fate
<1>1. Told' = Told
  BY DEF Told
<1>2. Flying' = Flying
  BY DEF Flying, InFlight, Holds
<1>. QED
  BY <1>1, <1>2, FateIs, FateNext

\* The claims of p leave the air, if nobody else's do.
LEMMA LetGo ==
  ASSUME Facts, NEW p \in Senders, Claiming(p), ~Claiming(p)',
         \A q \in Senders \ {p}, d \in Digests, u \in Users :
           Holds(q, d, u)' <=> Holds(q, d, u)
  PROVE  /\ task[p].digest \in Digests /\ batch[p].fresh \subseteq Users
         /\ {task[p].digest} \X batch[p].fresh \subseteq Flying
         /\ Flying' = Flying \ ({task[p].digest} \X batch[p].fresh)
<1>1. task[p].digest \in Digests /\ batch[p].fresh \subseteq Users
  BY BatchSets DEF Facts, DeliveryTypeOK, Claiming
<1>2. \A d \in Digests, u \in Users :
        /\ Holds(p, d, u) <=> d = task[p].digest /\ u \in batch[p].fresh
        /\ ~ Holds(p, d, u)'
  BY DEF Holds
<1>3. \A q \in Senders \ {p}, d \in Digests, u \in Users :
        Holds(q, d, u) => ~ Holds(p, d, u)
  BY DEF Holds, Facts, Once, MarkersGuard, ClaimsApart
<1>4. /\ Flying = {x \in Digests \X Users :
                     \E q \in Senders : Holds(q, x[1], x[2])}
      /\ Flying' = {x \in Digests \X Users :
                     \E q \in Senders : Holds(q, x[1], x[2])'}
  BY DEF Flying, InFlight, Holds
<1>. QED
  BY <1>1, <1>2, <1>3, <1>4

LEMMA ClaimNextFate ==
  ASSUME Facts, Facts', NEW p \in Senders, ClaimNext(p)
  PROVE  N!Next \/ UNCHANGED Fate
<1> DEFINE d == task[p].digest
<1>1. PICK v \in batch[p].left :
        /\ markers' = markers \cup {Marker(p, v)}
        /\ batch'[p].fresh =
             IF Acquired(p, v) THEN batch[p].fresh \cup {v} ELSE batch[p].fresh
        /\ \A q \in Senders \ {p} : batch'[q] = batch[q]
  BY ClaimNextEffect DEF Facts
<1>2. /\ pc[p] = "claim" /\ UNCHANGED <<pushes, pc, task>>
      /\ d \in Digests /\ v \in Users
  BY BatchSets DEF ClaimNext, Facts, DeliveryTypeOK
<1>3. CASE ~Acquired(p, v)
  <2>1. UNCHANGED markers
    BY <1>1, <1>3 DEF Acquired
  <2>2. \A q \in Senders : batch'[q].fresh = batch[q].fresh
    BY <1>1, <1>3
  <2>. QED
    BY <1>2, <2>1, <2>2, QuietFate DEF Holds, Claiming
<1>4. CASE Acquired(p, v)
  <2>1. <<d, v>> \notin markers /\ markers' = markers \cup {<<d, v>>}
    BY <1>1, <1>4 DEF Acquired, Marker
  <2>2. Told' = Told
    BY <1>2 DEF Told
  <2>3. batch'[p].fresh = batch[p].fresh \cup {v}
    BY <1>1, <1>4
  <2>4. \A c \in Digests, u \in Users :
          InFlight(c, u)' <=> InFlight(c, u) \/ (c = d /\ u = v)
    BY <1>1, <1>2, <2>3 DEF InFlight, Claiming
  <2>5. Flying' = Flying \cup {<<d, v>>}
    BY <1>2, <2>4 DEF Flying
  <2> HIDE DEF d
  <2>. QED
    BY <1>2, <2>1, <2>2, <2>5, FateIs, FateNext, FatesTake
<1>. QED
  BY <1>3, <1>4

\* The batch of p ends: the users of S are told, the others not.
LEMMA SettleFate ==
  ASSUME Facts, Facts', NEW p \in Senders, Claiming(p), ~Claiming(p)',
         \A q \in Senders \ {p}, d \in Digests, u \in Users :
           Holds(q, d, u)' <=> Holds(q, d, u),
         UNCHANGED markers, NEW S \in SUBSET batch[p].fresh,
         \A d \in Digests, u \in Users :
           pushes'[d][u] = IF d = task[p].digest /\ u \in S
                             THEN pushes[d][u] + 1 ELSE pushes[d][u]
  PROVE  N!Next
<1> DEFINE d == task[p].digest
           R == batch[p].fresh
<1>1. /\ d \in Digests /\ R \subseteq Users /\ S \subseteq R
      /\ {d} \X R \subseteq Flying /\ Flying' = Flying \ ({d} \X R)
  BY LetGo
<1>2. \A u \in R : pushes[d][u] = 0
  <2>1. ClaimsMarked
    BY DEF Facts, Once, MarkersGuard
  <2>. QED
    BY <2>1 DEF ClaimsMarked
<1>3. \A c \in Digests, u \in Users :
        pushes'[c][u] = IF c = d /\ u \in S THEN pushes[c][u] + 1
                                            ELSE pushes[c][u]
  OBVIOUS
<1> HIDE DEF d, R
<1>4. \A c \in Digests, u \in Users :
        pushes'[c][u] = 1 <=> pushes[c][u] = 1 \/ (c = d /\ u \in S)
  BY <1>1, <1>2, <1>3
<1>5. Told' = Told \cup ({d} \X S)
  BY <1>1, <1>4 DEF Told
<1>6. R \in SUBSET Users /\ S \in SUBSET R
  BY <1>1
<1>. QED
  BY <1>1, <1>5, <1>6, FatesSettle

LEMMA SendFate ==
  ASSUME Facts, Facts', NEW p \in Senders, Send(p)
  PROVE  N!Next
<1>1. Claiming(p) /\ ~Claiming(p)' /\ UNCHANGED markers
  BY DEF Send, Goto, Claiming, Facts, DeliveryTypeOK
<1>2. \A q \in Senders \ {p}, d \in Digests, u \in Users :
        Holds(q, d, u)' <=> Holds(q, d, u)
  BY DEF Send, Goto, Claiming, Facts, DeliveryTypeOK, Holds
<1>3. \A d \in Digests, u \in Users :
        pushes'[d][u] = IF d = task[p].digest /\ u \in Reachable(p)
                          THEN pushes[d][u] + 1 ELSE pushes[d][u]
  BY DEF Send, Pushed, Facts, DeliveryTypeOK
<1>4. Reachable(p) \in SUBSET batch[p].fresh
  BY DEF Reachable
<1>. QED
  BY <1>1, <1>2, <1>3, <1>4, SettleFate

LEMMA ReleaseFate ==
  ASSUME Facts, Facts', NEW p \in Senders, Release(p)
  PROVE  N!Next
<1> DEFINE d == task[p].digest
           R == batch[p].fresh
<1>1. Claiming(p) /\ ~Claiming(p)' /\ UNCHANGED pushes
  BY DEF Release, Goto, Claiming, Facts, DeliveryTypeOK
<1>2. \A q \in Senders \ {p}, c \in Digests, u \in Users :
        Holds(q, c, u)' <=> Holds(q, c, u)
  BY DEF Release, Goto, Claiming, Facts, DeliveryTypeOK, Holds
<1>3. /\ d \in Digests /\ R \subseteq Users
      /\ {d} \X R \subseteq Flying /\ Flying' = Flying \ ({d} \X R)
  BY <1>1, <1>2, LetGo
<1>4. markers' = markers \ ({d} \X R)
  BY DEF Release, Released, Marker
<1>5. Told' = Told
  BY <1>1 DEF Told
<1> HIDE DEF d, R
<1>. QED
  BY <1>3, <1>4, <1>5, FateIs, FateNext, FatesGiveBack

\* The steps of deliver_page do what Notification allows.
LEMMA DeliveryStepFate ==
  ASSUME Facts, Facts', NEW p \in Senders, DeliveryStep(p)
  PROVE  N!Next \/ UNCHANGED Fate
<1>1. CASE LoadNone(p) \/ Load(p) \/ ClaimReply(p) \/ Prune(p)
  <2>1. UNCHANGED <<markers, pushes>>
    BY <1>1 DEF LoadNone, Load, ClaimReply, Prune
  <2>2. UNCHANGED task /\ \A q \in Senders :
          \/ Claiming(q)' /\ Claiming(q) /\ batch'[q].fresh = batch[q].fresh
          \/ ~ Claiming(q)' /\ (~ Claiming(q) \/ batch[q].fresh = {})
          \/ ~ Claiming(q) /\ batch'[q].fresh = {}
    BY <1>1 DEF LoadNone, Load, ClaimReply, Prune, Goto, Claiming,
                Facts, DeliveryTypeOK
  <2>3. \A q \in Senders, d \in Digests, u \in Users :
          Holds(q, d, u)' <=> Holds(q, d, u)
    BY <2>2 DEF Holds
  <2>. QED
    BY <2>1, <2>3, QuietFate
<1>. QED
  BY <1>1, ClaimNextFate, SendFate, ReleaseFate DEF DeliveryStep

LEMMA DeliveryFailureFate ==
  ASSUME Dependable, Facts, Facts', NEW p \in Senders, DeliveryFailure(p)
  PROVE  N!Next \/ UNCHANGED Fate
<1>1. UNCHANGED <<markers, pushes, task, batch>>
  BY DEF Dependable, DeliveryFailure, SendRaises, RedisRaises, DatabaseRaises,
         Fault
<1>2. CASE SendRaises(p) \/ DatabaseRaises(p)
  <2>1. \A q \in Senders : Claiming(q)' <=> Claiming(q)
    BY <1>2 DEF SendRaises, DatabaseRaises, Goto, Claiming, Facts, DeliveryTypeOK
  <2>. QED
    BY <1>1, <2>1, QuietFate DEF Holds
<1>3. CASE RedisRaises(p)
  <2>1. /\ Claiming(p) /\ ~Claiming(p)'
        /\ \A q \in Senders \ {p} : Claiming(q)' <=> Claiming(q)
    BY <1>3 DEF RedisRaises, Goto, Claiming, Facts, DeliveryTypeOK
  <2>2. \A q \in Senders \ {p}, d \in Digests, u \in Users :
          Holds(q, d, u)' <=> Holds(q, d, u)
    BY <1>1, <2>1 DEF Holds
  <2>3. /\ {} \in SUBSET batch[p].fresh
        /\ \A d \in Digests, u \in Users : pushes'[d][u] =
             IF d = task[p].digest /\ u \in {} THEN pushes[d][u] + 1
                                               ELSE pushes[d][u]
    BY <1>1
  <2>. QED
    BY <1>1, <2>1, <2>2, <2>3, SettleFate
<1>. QED
  BY <1>2, <1>3 DEF DeliveryFailure

-----------------------------------------------------------------------------
(* Coverage: no sender passes a steady user by. *)

\* Failures after which nobody is left with a marker and without a push: no
\* crash, no failed send and no claim pipeline that raises halfway.
Reliable == Faults \cap {"crash", "reject", "ambiguous", "claim"} = {}

\* User u has been pushed digest d or is about to be.
Handled(d, u) == pushes[d][u] > 0 \/ InFlight(d, u)

\* Whoever is handled stays so.
HandledStay ==
  \A d \in Digests, u \in Steady : Handled(d, u) => Handled(d, u)'

\* Steady users can be reached, and whoever of them is marked is handled.
NoneLost ==
  /\ \A u \in Steady :
       token[u] = "live" /\ u \in subscribed /\ u \in active
  /\ \A p \in Senders : pc[p] # "release" /\ batch[p].stale \cap Steady = {}
  /\ \A d \in Digests, u \in Steady : <<d, u>> \in markers => Handled(d, u)

\* User u is still to be loaded by p.
Coming(p, u) ==
  u > cursor[p] /\ pc[p] # "returned" /\ (pc[p] = "load" \/ ~batch[p].short)

\* Every steady user of the range after lo has been handled, waits for its
\* marker or is still to be loaded.
Covers(p, lo) ==
  pc[p] \notin {"idle", "raised"} =>
    \A u \in Steady : InRange(u, lo, task[p].upto) =>
      \/ Handled(task[p].digest, u) \/ Coming(p, u)
      \/ pc[p] = "claim" /\ u \in batch[p].left

\* A nonempty set of users has a first one.
LEMMA FirstUser ==
  ASSUME NEW S \in SUBSET Users, S # {}
  PROVE  \E m \in S : \A u \in S : ~ (u < m)
<1>1. S \subseteq Nat
  BY DeliverPageAssumption
<1>2. PICK m \in S : \A u \in S : <<u, m>> \notin OpToRel(<, Nat)
  BY <1>1, WFMin, NatLessThanWellFounded, Zenon
<1>. QED
  BY <1>1, <1>2, Zenon DEF OpToRel

\* load_push_targets leaves out nobody before the last user it returns, and
\* nobody at all if it returns fewer than multicast_batch_size.
LEMMA FirstBatchIsFirst ==
  ASSUME NEW S \in SUBSET Users, NEW u \in S, u \notin FirstBatch(S)
  PROVE  /\ \A v \in FirstBatch(S) : v < u
         /\ FirstBatch(S) # {} /\ ~ IsShort(FirstBatch(S))
<1> USE DeliverPageAssumption
<1> DEFINE Below(x) == {v \in S : v < x}
<1>1. ASSUME NEW x \in S
      PROVE  /\ IsFiniteSet(Below(x)) /\ Cardinality(Below(x)) \in Nat
             /\ x \in FirstBatch(S) <=> Cardinality(Below(x)) < BatchSize
  <2>1. IsFiniteSet(Below(x))
    BY FS_Subset
  <2>. QED
    BY <2>1, FS_CardinalityType DEF FirstBatch
<1>2. ASSUME NEW x \in S, NEW y \in S, x <= y
      PROVE  Cardinality(Below(x)) <= Cardinality(Below(y))
  <2>1. \A v \in S : v < x => v < y
    BY <1>2
  <2>2. Below(x) \subseteq Below(y)
    BY <2>1
  <2> HIDE DEF Below
  <2>. QED
    BY <1>1, <2>2, FS_Subset
<1>3. ASSUME NEW v \in FirstBatch(S) PROVE v < u
  <2>1. v \in S /\ Cardinality(Below(v)) < BatchSize
    BY DEF FirstBatch
  <2>2. ~ (u <= v)
    <3> HIDE DEF Below
    <3>. QED
      BY <1>1, <1>2, <2>1
  <2>. QED
    BY <2>1, <2>2
<1>4. PICK m \in S \ FirstBatch(S) : \A x \in S \ FirstBatch(S) : ~ (x < m)
  BY FirstUser
<1>5. Below(m) \subseteq FirstBatch(S)
  BY <1>4
<1>6. IsFiniteSet(FirstBatch(S)) /\ Cardinality(FirstBatch(S)) \in Nat
  BY FirstBatchBound, FS_CardinalityType
<1>7. Cardinality(FirstBatch(S)) >= BatchSize
  <2> HIDE DEF Below
  <2>1. ~ (Cardinality(Below(m)) < BatchSize) /\ Cardinality(Below(m)) \in Nat
    BY <1>1, <1>4
  <2>2. Cardinality(Below(m)) <= Cardinality(FirstBatch(S))
    BY <1>5, <1>6, FS_Subset
  <2>. QED
    BY <1>6, <2>1, <2>2
<1>8. FirstBatch(S) # {}
  BY <1>7, FS_EmptySet
<1>. QED
  BY <1>3, <1>6, <1>7, <1>8 DEF IsShort

\* A step keeps users handled if whom it lets go it has pushed.
LEMMA HandledKept ==
  ASSUME DeliveryTypeOK, DeliveryTypeOK',
         \A d \in Digests, u \in Users : pushes'[d][u] >= pushes[d][u],
         \A q \in Senders, d \in Digests, u \in Steady :
           Holds(q, d, u) => Holds(q, d, u)' \/ pushes'[d][u] > 0
  PROVE  HandledStay
<1> SUFFICES ASSUME NEW d \in Digests, NEW u \in Steady, Handled(d, u)
             PROVE  Handled(d, u)'
  BY DEF HandledStay
<1>1. InFlight(d, u) <=> \E q \in Senders : Holds(q, d, u)
  BY DEF InFlight, Holds
<1>2. InFlight(d, u)' <=> \E q \in Senders : Holds(q, d, u)'
  BY DEF InFlight, Holds
<1>3. pushes[d][u] \in Nat /\ pushes'[d][u] \in Nat /\ pushes'[d][u] >= pushes[d][u]
  BY DEF DeliveryTypeOK, Steady
<1>. QED
  BY <1>1, <1>2, <1>3 DEF Handled

\* Nothing is released, and no claim pipeline or send raises.
LEMMA ReliableSteps ==
  ASSUME Reliable, NoneLost, NEW p \in Senders
  PROVE  ~ Release(p) /\ ~ SendRaises(p) /\ ~ RedisRaises(p)
  BY DEF Reliable, NoneLost, Release, SendRaises, RedisRaises, Fault

LocalStep(p) == DeliveryStep(p) \/ AfterCheckpoint(p) \/ DatabaseRaises(p)

LEMMA StepHandled ==
  ASSUME Reliable, DeliveryTypeOK, DeliveryTypeOK', NoneLost,
         NEW p \in Senders, LocalStep(p)
  PROVE  HandledStay
<1>1. CASE LoadNone(p) \/ Load(p) \/ ClaimReply(p) \/ Prune(p)
             \/ AfterCheckpoint(p) \/ DatabaseRaises(p)
  <2>1. UNCHANGED <<pushes, task>> /\ \A q \in Senders : Claiming(q) =>
          \/ Claiming(q)' /\ batch'[q].fresh = batch[q].fresh
          \/ batch[q].fresh = {}
    BY <1>1 DEF LoadNone, Load, ClaimReply, Prune, AfterCheckpoint,
         DatabaseRaises, Goto, Claiming, DeliveryTypeOK
  <2>2. \A q \in Senders, d \in Digests, u \in Steady :
          Holds(q, d, u) => Holds(q, d, u)'
    BY <2>1 DEF Holds
  <2>3. \A d \in Digests, u \in Users : pushes'[d][u] >= pushes[d][u]
    BY <2>1 DEF DeliveryTypeOK
  <2>. QED
    BY <2>2, <2>3, HandledKept
<1>2. CASE ClaimNext(p)
  <2>1. \A q \in Senders : batch[q].fresh \subseteq batch'[q].fresh
    BY <1>2, ClaimNextEffect
  <2>2. UNCHANGED <<pushes, task, pc>>
    BY <1>2 DEF ClaimNext
  <2>3. \A q \in Senders, d \in Digests, u \in Steady :
          Holds(q, d, u) => Holds(q, d, u)'
    BY <2>1, <2>2 DEF Holds, Claiming
  <2>4. \A d \in Digests, u \in Users : pushes'[d][u] >= pushes[d][u]
    BY <2>2 DEF DeliveryTypeOK
  <2>. QED
    BY <2>3, <2>4, HandledKept
<1>3. CASE Send(p)
  <2>1. /\ pc[p] = "send" /\ task[p].digest \in Digests
        /\ UNCHANGED <<task, batch>>
        /\ \A q \in Senders \ {p} : pc'[q] = pc[q]
    BY <1>3 DEF Send, Goto, DeliveryTypeOK
  <2>2. \A d \in Digests, u \in Users : pushes'[d][u] =
          IF d = task[p].digest /\ u \in Reachable(p)
            THEN pushes[d][u] + 1 ELSE pushes[d][u]
    BY <1>3, <2>1 DEF Send, Pushed, DeliveryTypeOK
  <2>3. \A d \in Digests, u \in Users : pushes[d][u] \in Nat
    BY DEF DeliveryTypeOK
  <2>4. \A d \in Digests, u \in Users : pushes'[d][u] >= pushes[d][u]
    BY <2>2, <2>3
  <2>5. ASSUME NEW q \in Senders, NEW d \in Digests, NEW u \in Steady,
               Holds(q, d, u)
        PROVE  Holds(q, d, u)' \/ pushes'[d][u] > 0
    <3>1. CASE q = p
      <4>1. d = task[p].digest /\ u \in Reachable(p) /\ u \in Users
        BY <2>5, <3>1 DEF Holds, Reachable, NoneLost, Steady
      <4>. QED
        BY <2>2, <2>3, <4>1
    <3>2. CASE q # p
      BY <2>1, <2>5, <3>2 DEF Holds, Claiming
    <3>. QED
      BY <3>1, <3>2
  <2>. QED
    BY <2>4, <2>5, HandledKept
<1>. QED
  BY <1>1, <1>2, <1>3, ReliableSteps DEF LocalStep, DeliveryStep

\* A marker is set for a user whom its sender now holds, or who was marked.
LEMMA StepNoneLost ==
  ASSUME Reliable, DeliveryTypeOK, DeliveryTypeOK', NoneLost,
         NEW p \in Senders, LocalStep(p)
  PROVE  NoneLost'
<1>1. ASSUME NEW u \in Steady
      PROVE  token'[u] = "live" /\ u \in subscribed' /\ u \in active'
  <2>1. token[u] = "live" /\ u \in subscribed /\ u \in active /\ u \in Users
    BY DEF NoneLost, Steady
  <2>2. UNCHANGED <<subscribed, active>> /\ token'[u] = token[u]
    BY <2>1, ReliableSteps DEF LocalStep, DeliveryStep, LoadNone, Load,
         ClaimNext, ClaimReply, Send, Prune, Pruned, AfterCheckpoint,
         DatabaseRaises, world
  <2>. QED
    BY <2>1, <2>2
<1>2. \A q \in Senders : pc'[q] # "release"
  BY ReliableSteps DEF NoneLost, LocalStep, DeliveryStep, LoadNone, Load,
     ClaimNext, ClaimReply, Send, Prune, AfterCheckpoint, DatabaseRaises,
     Goto, DeliveryTypeOK
<1>3. ASSUME NEW q \in Senders PROVE batch'[q].stale \cap Steady = {}
  <2>1. CASE Load(p)
    <3>1. batch'[q].stale = batch[q].stale
            \/ \A u \in batch'[q].stale : token[u] = "dead"
      BY <2>1 DEF Load, DeliveryTypeOK
    <3>. QED
      BY <3>1 DEF NoneLost
  <2>2. CASE ClaimNext(p)
    BY <2>2, ClaimNextEffect DEF NoneLost
  <2>3. CASE ~ Load(p) /\ ~ ClaimNext(p)
    <3>1. batch'[q] = batch[q] \/ batch'[q] = NoBatch
      BY <2>3, ReliableSteps DEF LocalStep, DeliveryStep, LoadNone,
         ClaimReply, Send, Prune, AfterCheckpoint, DatabaseRaises,
         DeliveryTypeOK
    <3>. QED
      BY <3>1 DEF NoneLost, NoBatch
  <2>. QED
    BY <2>1, <2>2, <2>3
<1>4. ASSUME NEW d \in Digests, NEW u \in Steady, <<d, u>> \in markers'
      PROVE  Handled(d, u)'
  <2>1. CASE <<d, u>> \in markers
    BY <2>1, StepHandled DEF NoneLost, HandledStay
  <2>2. CASE <<d, u>> \notin markers
    <3>1. ClaimNext(p)
      BY <1>4, <2>2, ReliableSteps DEF LocalStep, DeliveryStep, LoadNone,
         Load, ClaimReply, Send, Prune, AfterCheckpoint, DatabaseRaises
    <3>2. PICK v \in batch[p].left :
            /\ markers' = markers \cup {Marker(p, v)}
            /\ batch'[p].fresh = IF Acquired(p, v) THEN batch[p].fresh \cup {v}
                                                   ELSE batch[p].fresh
      BY <3>1, ClaimNextEffect
    <3>3. d = task[p].digest /\ u = v /\ Acquired(p, v)
      BY <1>4, <2>2, <3>2 DEF Marker, Acquired
    <3>4. u \in batch'[p].fresh /\ pc'[p] = "claim" /\ task' = task
      BY <3>1, <3>2, <3>3 DEF ClaimNext
    <3>. QED
      BY <3>3, <3>4 DEF Handled, InFlight, Claiming
  <2>. QED
    BY <2>1, <2>2
<1>. QED
  BY <1>1, <1>2, <1>3, <1>4 DEF NoneLost

\* A sender at work passes no steady user by: the claim pipeline takes or
\* finds a marker for everyone who is loaded, the cursor moves to the last
\* user loaded, and a batch that is not full is the last.
LEMMA StepCovers ==
  ASSUME Reliable, DeliveryTypeOK, DeliveryTypeOK', NoneLost,
         NEW p \in Senders, LocalStep(p), NEW lo, Covers(p, lo)
  PROVE  Covers(p, lo)'
<1>1. task' = task
  BY ReliableSteps DEF LocalStep, DeliveryStep, LoadNone, Load, ClaimNext,
     ClaimReply, Send, Prune, AfterCheckpoint, DatabaseRaises
<1>2. pc[p] \notin {"idle", "raised"}
  BY ReliableSteps DEF LocalStep, DeliveryStep, LoadNone, Load, ClaimNext,
     ClaimReply, Send, Prune, AfterCheckpoint, DatabaseRaises
<1>3. PICK d \in Digests : d = task[p].digest
  BY <1>2 DEF DeliveryTypeOK
<1> SUFFICES ASSUME pc'[p] \notin {"idle", "raised"},
                    NEW u \in Steady, InRange(u, lo, task[p].upto)
             PROVE  \/ Handled(d, u)' \/ Coming(p, u)'
                    \/ pc'[p] = "claim" /\ u \in batch'[p].left
  <2>1. \A u : Handled(d, u)' => Handled(task[p].digest, u)'
    BY <1>1, <1>3 DEF Handled, InFlight
  <2>. QED
    BY <1>1, <2>1 DEF Covers
<1>4. /\ \/ Handled(d, u) \/ Coming(p, u)
         \/ pc[p] = "claim" /\ u \in batch[p].left
      /\ Handled(d, u) => Handled(d, u)'
  BY <1>2, <1>3, StepHandled DEF Covers, HandledStay
<1>5. u \in Users /\ u \in Nat /\ cursor[p] \in Nat
  <2>1. u \in Users /\ cursor[p] \in Users \cup {0}
    BY DEF Steady, DeliveryTypeOK
  <2>2. Users \subseteq Nat /\ Users \cup {0} \subseteq Nat
    BY DeliverPageAssumption
  <2>. QED
    BY <2>1, <2>2, Zenon
<1> DEFINE S == {v \in subscribed \cap active :
                   token[v] # "none" /\ InRange(v, cursor[p], task[p].upto)}
<1>6. /\ Targets(p) = FirstBatch(S) /\ S \in SUBSET Users
      /\ u > cursor[p] => u \in S
  BY <1>5 DEF Targets, NoneLost, InRange, DeliveryTypeOK
<1> HIDE DEF S
<1>7. CASE LoadNone(p)
  <2>1. pc[p] = "load" /\ FirstBatch(S) = {}
    BY <1>6, <1>7 DEF LoadNone
  <2>2. u \notin S
    BY <1>6, <2>1, FirstBatchIsFirst, FirstBatchBound
  <2>. QED
    BY <1>4, <1>6, <2>1, <2>2 DEF Coming
<1>8. CASE Load(p)
  <2>1. PICK last \in FirstBatch(S) : cursor' = [cursor EXCEPT ![p] = last]
    BY <1>6, <1>8 DEF Load
  <2>2. /\ pc[p] = "load" /\ pc'[p] = "claim" /\ cursor'[p] = last
        /\ batch'[p].left = FirstBatch(S)
        /\ batch'[p].short = IsShort(FirstBatch(S))
    BY <1>6, <1>8, <2>1 DEF Load, Goto, DeliveryTypeOK
  <2>3. CASE Coming(p, u) /\ u \notin FirstBatch(S)
    <3>1. last < u /\ ~ IsShort(FirstBatch(S))
      BY <1>6, <2>1, <2>3, FirstBatchIsFirst DEF Coming
    <3>2. last \in Nat
      BY <1>6, <2>1, FirstBatchBound, DeliverPageAssumption
    <3>. QED
      BY <1>5, <2>2, <3>1, <3>2 DEF Coming
  <2>. QED
    BY <1>4, <2>2, <2>3
<1>9. CASE ClaimNext(p)
  <2>1. PICK v \in batch[p].left :
          /\ markers' = markers \cup {Marker(p, v)}
          /\ batch'[p].left = batch[p].left \ {v}
          /\ batch'[p].short = batch[p].short
    BY <1>9, ClaimNextEffect
  <2>2. pc[p] = "claim" /\ UNCHANGED <<pc, cursor>>
    BY <1>9 DEF ClaimNext
  <2>3. CASE u = v
    <3>1. <<d, u>> \in markers'
      BY <1>3, <2>1, <2>3 DEF Marker
    <3>2. NoneLost'
      BY StepNoneLost
    <3>. QED
      BY <3>1, <3>2 DEF NoneLost
  <2>4. CASE u # v
    BY <1>4, <2>1, <2>2, <2>4 DEF Coming
  <2>. QED
    BY <2>3, <2>4
<1>10. CASE ClaimReply(p) \/ Send(p) \/ Prune(p)
  <2>1. /\ pc[p] = "claim" => batch[p].left = {}
        /\ UNCHANGED <<cursor, batch>>
        /\ pc[p] \notin {"load", "returned"} /\ pc'[p] # "returned"
    BY <1>10 DEF ClaimReply, Send, Prune, Goto, DeliveryTypeOK
  <2>. QED
    BY <1>4, <2>1 DEF Coming
<1>11. CASE AfterCheckpoint(p)
  <2>1. /\ pc[p] = "checkpoint" /\ cursor' = cursor
        /\ pc'[p] = IF batch[p].short THEN "returned" ELSE "load"
    BY <1>11 DEF AfterCheckpoint, Goto, DeliveryTypeOK
  <2>. QED
    BY <1>4, <2>1 DEF Coming
<1>12. CASE DatabaseRaises(p)
  BY <1>12 DEF DatabaseRaises, Goto, DeliveryTypeOK
<1>. QED
  BY <1>7, <1>8, <1>9, <1>10, <1>11, <1>12, ReliableSteps
    DEF LocalStep, DeliveryStep

\* What another sender covers it goes on to cover.
LEMMA OthersCover ==
  ASSUME NEW p \in Senders, NEW lo, Covers(p, lo),
         DeliveryTypeOK,
         HandledStay,
         pc'[p] = pc[p], task'[p] = task[p], cursor'[p] = cursor[p],
         batch'[p] = batch[p]
  PROVE  Covers(p, lo)'
<1> SUFFICES ASSUME pc[p] \notin {"idle", "raised"} PROVE Covers(p, lo)'
  BY DEF Covers
<1>1. PICK d \in Digests : d = task[p].digest
  BY DEF DeliveryTypeOK
<1>2. \A u : Handled(d, u)' => Handled(task[p].digest, u)'
  BY <1>1 DEF Handled, InFlight
<1>3. \A u : Coming(p, u) => Coming(p, u)'
  BY DEF Coming
<1>. QED
  BY <1>1, <1>2, <1>3 DEF Covers, HandledStay

\* A sender changes no other sender's variables.
LEMMA LocalOthers ==
  ASSUME DeliveryTypeOK, NEW p \in Senders, LocalStep(p) \/ DeliveryFailure(p),
         NEW q \in Senders, q # p
  PROVE  /\ pc'[q] = pc[q] /\ task'[q] = task[q] /\ cursor'[q] = cursor[q]
         /\ batch'[q] = batch[q]
<1>1. pc'[q] = pc[q] /\ task'[q] = task[q] /\ cursor'[q] = cursor[q]
  BY DEF LocalStep, DeliveryStep, LoadNone, Load, ClaimNext, ClaimReply, Send,
     Prune, Release, AfterCheckpoint, DeliveryFailure, SendRaises,
     RedisRaises, DatabaseRaises, Goto, DeliveryTypeOK
<1>2. batch'[q] = batch[q]
  BY ClaimNextEffect DEF LocalStep, DeliveryStep, LoadNone, Load, ClaimReply,
     Send, Prune, Release, AfterCheckpoint, DeliveryFailure, SendRaises,
     RedisRaises, DatabaseRaises, DeliveryTypeOK
<1>. QED
  BY <1>1, <1>2

\* Other steps: what a sender at rest does to its own variables, the users
\* who come and go, and a Redis that forgets.
LEMMA QuietCoverage ==
  ASSUME DeliveryTypeOK, DeliveryTypeOK', NoneLost,
         pushes' = pushes, markers' \subseteq markers,
         \A u \in Steady :
           /\ token'[u] = token[u]
           /\ u \in subscribed => u \in subscribed'
           /\ u \in active => u \in active',
         \A q \in Senders :
           \/ ~ Claiming(q) /\ pc'[q] # "release" /\ batch'[q] \in {batch[q], NoBatch}
           \/ pc'[q] = pc[q] /\ task'[q] = task[q] /\ batch'[q] = batch[q]
  PROVE  /\ NoneLost'
         /\ HandledStay
<1>1. \A q \in Senders, d \in Digests, u \in Steady :
        Holds(q, d, u) => Holds(q, d, u)'
  BY DEF Holds, Claiming
<1>2. \A d \in Digests, u \in Users : pushes'[d][u] >= pushes[d][u]
  BY DEF DeliveryTypeOK
<1>3. HandledStay
  BY <1>1, <1>2, HandledKept
<1>4. \A q \in Senders : pc'[q] # "release" /\ batch'[q].stale \cap Steady = {}
  BY DEF NoneLost, NoBatch
<1>. QED
  BY <1>3, <1>4 DEF NoneLost, HandledStay

LEMMA EnvironmentCoverage ==
  ASSUME DeliveryTypeOK, DeliveryTypeOK', NoneLost,
         Forget \/ \E u \in Users : UserStep(u)
  PROVE  /\ NoneLost' /\ UNCHANGED sending
         /\ HandledStay
<1>1. UNCHANGED <<pushes, sending>> /\ markers' \subseteq markers
  BY DEF Forget, UserStep, ChangeActivity, RegisterDevice, ChangeSubscription
<1>2. \A u \in Steady :
        /\ token'[u] = token[u]
        /\ u \in subscribed => u \in subscribed'
        /\ u \in active => u \in active'
  BY DEF Forget, UserStep, ChangeActivity, RegisterDevice, ChangeSubscription,
         world, Steady, DeliveryTypeOK
<1>. QED
  BY <1>1, <1>2, QuietCoverage DEF sending


-----------------------------------------------------------------------------
(* What it takes to push a digest twice. *)

\* The senders that hold the claim of user u for digest d.
Claimers(d, u) == {q \in Senders : Holds(q, d, u)}

\* The pushes made, and those that may follow.
Charged(d, u) == pushes[d][u] + Cardinality(Claimers(d, u))

\* All of them but one are paid with a fault, and a marker that is free has
\* been paid for too.
PairPaid(d, u) ==
  /\ IsFiniteSet(Claimers(d, u)) /\ Charged(d, u) <= faults + 1
  /\ <<d, u>> \notin markers => Charged(d, u) <= faults

AllPaid == \A d \in Digests, u \in Users : PairPaid(d, u)

\* The counts of a pair are numbers, and fewer claimers count less.
LEMMA PairType ==
  ASSUME DeliveryTypeOK, NEW d \in Digests, NEW u \in Users, PairPaid(d, u),
         NEW S \in SUBSET Claimers(d, u)
  PROVE  /\ pushes[d][u] \in Nat /\ faults \in Nat
         /\ Cardinality(Claimers(d, u)) \in Nat
         /\ IsFiniteSet(S) /\ Cardinality(S) \in Nat
         /\ Cardinality(S) <= Cardinality(Claimers(d, u))
<1>1. pushes[d][u] \in Nat /\ faults \in Nat
  BY DEF DeliveryTypeOK
<1>2. IsFiniteSet(Claimers(d, u))
  BY DEF PairPaid
<1>3. IsFiniteSet(S) /\ Cardinality(S) <= Cardinality(Claimers(d, u))
  BY <1>2, FS_Subset
<1>. QED
  BY <1>1, <1>2, <1>3, FS_CardinalityType

\* A step that pushes nothing and drops no marker.
LEMMA KeptPaid ==
  ASSUME DeliveryTypeOK, NEW d \in Digests, NEW u \in Users, PairPaid(d, u),
         faults' \in Nat, faults' >= faults, pushes'[d][u] = pushes[d][u],
         Claimers(d, u)' \subseteq Claimers(d, u),
         <<d, u>> \in markers => <<d, u>> \in markers'
  PROVE  PairPaid(d, u)'
<1>1. PICK S \in SUBSET Claimers(d, u) : S = Claimers(d, u)'
  OBVIOUS
<1>2. /\ IsFiniteSet(S) /\ Cardinality(S) \in Nat /\ faults \in Nat
      /\ pushes[d][u] \in Nat /\ Cardinality(Claimers(d, u)) \in Nat
      /\ Cardinality(S) <= Cardinality(Claimers(d, u))
  BY PairType
<1>3. Charged(d, u)' = pushes[d][u] + Cardinality(S)
  BY <1>1 DEF Charged
<1>. QED
  BY <1>1, <1>2, <1>3 DEF PairPaid, Charged

\* A fault that pushes once more, or loses the marker.
LEMMA FaultPaid ==
  ASSUME DeliveryTypeOK, NEW d \in Digests, NEW u \in Users, PairPaid(d, u),
         faults' = faults + 1, Claimers(d, u)' \subseteq Claimers(d, u),
         \/ pushes'[d][u] = pushes[d][u]
         \/ pushes'[d][u] = pushes[d][u] + 1 /\ markers' = markers
  PROVE  PairPaid(d, u)'
<1>1. PICK S \in SUBSET Claimers(d, u) : S = Claimers(d, u)'
  OBVIOUS
<1>2. /\ IsFiniteSet(S) /\ Cardinality(S) \in Nat /\ faults \in Nat
      /\ pushes[d][u] \in Nat /\ Cardinality(Claimers(d, u)) \in Nat
      /\ Cardinality(S) <= Cardinality(Claimers(d, u))
  BY PairType
<1>3. Charged(d, u)' = pushes'[d][u] + Cardinality(S)
  BY <1>1 DEF Charged
<1>. QED
  BY <1>1, <1>2, <1>3 DEF PairPaid, Charged

\* A sender that lets its claim go has pushed once, or frees the marker.
LEMMA ClaimSpent ==
  ASSUME DeliveryTypeOK, NEW d \in Digests, NEW u \in Users, PairPaid(d, u),
         NEW p \in Claimers(d, u), faults' = faults,
         Claimers(d, u)' = Claimers(d, u) \ {p},
         \/ pushes'[d][u] = pushes[d][u]
         \/ pushes'[d][u] = pushes[d][u] + 1 /\ markers' = markers
  PROVE  PairPaid(d, u)'
<1>1. PICK S \in SUBSET Claimers(d, u) :
        S = Claimers(d, u) \ {p} /\ S = Claimers(d, u)'
  OBVIOUS
<1>2. /\ IsFiniteSet(S) /\ Cardinality(S) \in Nat /\ faults \in Nat
      /\ pushes[d][u] \in Nat /\ Cardinality(Claimers(d, u)) \in Nat
  BY PairType
<1>3. Cardinality(S) = Cardinality(Claimers(d, u)) - 1
  BY <1>1, FS_RemoveElement DEF PairPaid
<1>4. Charged(d, u)' = pushes'[d][u] + Cardinality(S)
  BY <1>1 DEF Charged
<1>. QED
  BY <1>1, <1>2, <1>3, <1>4 DEF PairPaid, Charged

\* A claim takes a marker that was free.
LEMMA ClaimTaken ==
  ASSUME DeliveryTypeOK, NEW d \in Digests, NEW u \in Users, PairPaid(d, u),
         NEW p, p \notin Claimers(d, u), Claimers(d, u)' = Claimers(d, u) \cup {p},
         faults' = faults, pushes'[d][u] = pushes[d][u],
         <<d, u>> \notin markers, <<d, u>> \in markers'
  PROVE  PairPaid(d, u)'
<1>1. /\ IsFiniteSet(Claimers(d, u)) /\ faults \in Nat /\ pushes[d][u] \in Nat
      /\ Cardinality(Claimers(d, u)) \in Nat
  BY PairType
<1>2. PICK S : S = Claimers(d, u) \cup {p} /\ S = Claimers(d, u)'
  OBVIOUS
<1>3. IsFiniteSet(S) /\ Cardinality(S) = Cardinality(Claimers(d, u)) + 1
  BY <1>1, <1>2, FS_AddElement
<1>4. Charged(d, u)' = pushes[d][u] + Cardinality(S)
  BY <1>2 DEF Charged
<1>. QED
  BY <1>1, <1>2, <1>3, <1>4 DEF PairPaid, Charged

\* The steps of deliver_page.
LEMMA DeliveryStepPaid ==
  ASSUME DeliveryTypeOK, AllPaid, NEW p \in Senders, DeliveryStep(p)
  PROVE  AllPaid'
<1> SUFFICES ASSUME NEW d \in Digests, NEW u \in Users PROVE PairPaid(d, u)'
  BY DEF AllPaid
<1>0. /\ PairPaid(d, u) /\ task' = task
      /\ \A q \in Senders \ {p} : pc'[q] = pc[q]
      /\ faults' = faults /\ faults' \in Nat /\ faults' >= faults
  <2>1. PairPaid(d, u) /\ faults \in Nat
    BY DEF AllPaid, DeliveryTypeOK
  <2>2. /\ faults' = faults /\ task' = task
        /\ \A q \in Senders \ {p} : pc'[q] = pc[q]
    BY DEF DeliveryTypeOK, DeliveryStep, LoadNone, Load, ClaimNext, ClaimReply,
       Send, Prune, Release, Goto
  <2>. QED
    BY <2>1, <2>2
<1>1. CASE LoadNone(p) \/ Load(p) \/ ClaimReply(p) \/ Prune(p)
  <2>1. /\ UNCHANGED <<markers, pushes>>
        /\ Claimers(d, u)' \subseteq Claimers(d, u)
    BY <1>1 DEF LoadNone, Load, ClaimReply, Prune, Goto, Claiming, Holds,
                Claimers, DeliveryTypeOK
  <2>. QED
    BY <1>0, <2>1, KeptPaid
<1>2. CASE ClaimNext(p)
  <2>1. PICK v \in batch[p].left :
          /\ markers' = markers \cup {Marker(p, v)}
          /\ batch'[p].fresh =
               IF Acquired(p, v) THEN batch[p].fresh \cup {v} ELSE batch[p].fresh
          /\ \A q \in Senders \ {p} : batch'[q] = batch[q]
    BY <1>2, ClaimNextEffect
  <2>2. /\ pc[p] = "claim" /\ UNCHANGED <<pushes, pc>>
        /\ \A q \in Senders : Claiming(q)' <=> Claiming(q)
    BY <1>2 DEF ClaimNext, Claiming
  <2>3. CASE <<d, u>> = Marker(p, v) /\ <<d, u>> \notin markers
    <3>1. task[p].digest = d /\ u = v /\ Acquired(p, v) /\ Claiming(p)
      BY <2>2, <2>3 DEF Marker, Acquired, Claiming
    <3>2. Claimers(d, u)' = Claimers(d, u) \cup {p}
      BY <1>0, <2>1, <2>2, <3>1 DEF Claimers, Holds
    <3>3. CASE p \in Claimers(d, u)
      BY <1>0, <2>1, <2>2, <3>2, <3>3, KeptPaid
    <3>4. CASE p \notin Claimers(d, u)
      BY <1>0, <2>1, <2>2, <2>3, <3>2, <3>4, ClaimTaken
    <3>. QED
      BY <3>3, <3>4
  <2>4. CASE ~ (<<d, u>> = Marker(p, v) /\ <<d, u>> \notin markers)
    <3>1. Claimers(d, u)' \subseteq Claimers(d, u)
      BY <1>0, <2>1, <2>2, <2>4 DEF Claimers, Holds, Marker, Acquired
    <3>. QED
      BY <1>0, <2>1, <2>2, <3>1, KeptPaid
  <2>. QED
    BY <2>3, <2>4
<1>3. CASE Send(p)
  <2>1. /\ Claiming(p) /\ ~ Claiming(p)' /\ UNCHANGED <<markers, batch>>
        /\ pushes'[d][u] = IF d = task[p].digest /\ u \in Reachable(p)
                             THEN pushes[d][u] + 1 ELSE pushes[d][u]
    BY <1>3 DEF Send, Pushed, Goto, Claiming, DeliveryTypeOK
  <2>2. Claimers(d, u)' = Claimers(d, u) \ {p}
    BY <1>0, <2>1 DEF Claimers, Holds, Claiming
  <2>3. CASE d = task[p].digest /\ u \in Reachable(p)
    <3>1. p \in Claimers(d, u)
      BY <2>1, <2>3 DEF Claimers, Holds, Reachable
    <3>. QED
      BY <1>0, <2>1, <2>2, <2>3, <3>1, ClaimSpent
  <2>4. CASE ~ (d = task[p].digest /\ u \in Reachable(p))
    BY <1>0, <2>1, <2>2, <2>4, KeptPaid
  <2>. QED
    BY <2>3, <2>4
<1>4. CASE Release(p)
  <2>1. /\ Claiming(p) /\ ~ Claiming(p)' /\ UNCHANGED <<pushes, batch>>
        /\ markers' = markers \ {Marker(p, v) : v \in batch[p].fresh}
    BY <1>4 DEF Release, Released, Goto, Claiming, DeliveryTypeOK
  <2>2. Claimers(d, u)' = Claimers(d, u) \ {p}
    BY <1>0, <2>1 DEF Claimers, Holds, Claiming
  <2>3. CASE p \in Claimers(d, u)
    BY <1>0, <2>1, <2>2, <2>3, ClaimSpent
  <2>4. CASE p \notin Claimers(d, u)
    <3>1. <<d, u>> \in markers => <<d, u>> \in markers'
      BY <2>1, <2>4 DEF Claimers, Holds, Marker
    <3>. QED
      BY <1>0, <2>1, <2>2, <3>1, KeptPaid
  <2>. QED
    BY <2>3, <2>4
<1>. QED
  BY <1>1, <1>2, <1>3, <1>4 DEF DeliveryStep

\* Its failures.
LEMMA DeliveryFailurePaid ==
  ASSUME DeliveryTypeOK, AllPaid, NEW p \in Senders, DeliveryFailure(p)
  PROVE  AllPaid'
<1> SUFFICES ASSUME NEW d \in Digests, NEW u \in Users PROVE PairPaid(d, u)'
  BY DEF AllPaid
<1>1. /\ PairPaid(d, u) /\ faults' = faults + 1
      /\ UNCHANGED <<markers, task, batch>>
  BY DEF AllPaid, DeliveryFailure, SendRaises, RedisRaises, DatabaseRaises, Fault
<1>2. \A q \in Senders : Claiming(q)' => Claiming(q)
  BY DEF DeliveryFailure, SendRaises, RedisRaises, DatabaseRaises, Goto,
         Claiming, DeliveryTypeOK
<1>3. Claimers(d, u)' \subseteq Claimers(d, u)
  BY <1>1, <1>2 DEF Claimers, Holds
<1>4. pushes'[d][u] \in {pushes[d][u], pushes[d][u] + 1}
  <2>1. ASSUME NEW S PROVE Pushed(p, S)[d][u] \in {pushes[d][u], pushes[d][u] + 1}
    BY DEF Pushed, DeliveryTypeOK
  <2>2. pushes' = pushes \/ \E S : pushes' = Pushed(p, S)
    BY DEF DeliveryFailure, SendRaises, RedisRaises, DatabaseRaises
  <2>. QED
    BY <2>1, <2>2
<1>. QED
  BY <1>1, <1>3, <1>4, FaultPaid

\* Redis loses markers.
LEMMA ForgetPaid ==
  ASSUME DeliveryTypeOK, AllPaid, Forget
  PROVE  AllPaid'
<1> SUFFICES ASSUME NEW d \in Digests, NEW u \in Users PROVE PairPaid(d, u)'
  BY DEF AllPaid
<1>1. /\ PairPaid(d, u) /\ faults' = faults + 1 /\ pushes' = pushes
      /\ Claimers(d, u)' = Claimers(d, u)
  BY DEF AllPaid, Forget, Fault, sending, Claimers, Holds, Claiming
<1>. QED
  BY <1>1, FaultPaid

\* A step that claims and pushes nothing.
LEMMA QuietPaid ==
  ASSUME DeliveryTypeOK, AllPaid, faults' \in Nat, faults' >= faults,
         UNCHANGED <<markers, pushes>>,
         \A q \in Senders : Claiming(q)' =>
           Claiming(q) /\ batch'[q].fresh = batch[q].fresh /\ task'[q] = task[q]
  PROVE  AllPaid'
<1> SUFFICES ASSUME NEW d \in Digests, NEW u \in Users PROVE PairPaid(d, u)'
  BY DEF AllPaid
<1>1. PairPaid(d, u) /\ Claimers(d, u)' \subseteq Claimers(d, u)
  BY DEF AllPaid, Claimers, Holds
<1>. QED
  BY <1>1, KeptPaid

LEMMA InitDeliveryPaid == InitDelivery => AllPaid
<1> SUFFICES ASSUME InitDelivery, NEW d \in Digests, NEW u \in Users
             PROVE  PairPaid(d, u)
  BY DEF AllPaid
<1>1. Claimers(d, u) = {} /\ pushes[d][u] = 0 /\ faults = 0
  BY DEF InitDelivery, Claimers, Holds, Claiming
<1>2. IsFiniteSet({}) /\ Cardinality({}) = 0
  BY FS_EmptySet
<1>. QED
  BY <1>1, <1>2 DEF PairPaid, Charged

\* The account bounds the pushes.
LEMMA PaidRepeats == DeliveryTypeOK /\ AllPaid => RepeatsPaid
<1> SUFFICES ASSUME DeliveryTypeOK, AllPaid, NEW d \in Digests, NEW u \in Users
             PROVE  pushes[d][u] <= 1 + faults
  BY DEF RepeatsPaid
<1>1. PairPaid(d, u)
  BY DEF AllPaid
<1>2. /\ pushes[d][u] \in Nat /\ Cardinality(Claimers(d, u)) \in Nat
      /\ faults \in Nat
  BY <1>1, PairType
<1>. QED
  BY <1>1, <1>2 DEF PairPaid, Charged
=============================================================================
