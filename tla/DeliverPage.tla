----------------------------- MODULE DeliverPage -----------------------------
(***************************************************************************)
(* DigestDispatcher.deliver_page: a sender walks the subscribers of a topic *)
(* in batches, claims a Redis marker for each user of a batch, pushes to    *)
(* the users whose marker was free, prunes the device tokens the provider   *)
(* rejects and checkpoints its cursor.  Each round trip to PostgreSQL,      *)
(* Redis or the push provider is a step of its own; the pipelined SET NX    *)
(* commands are one step each, as the pipeline is no transaction.           *)
(*                                                                         *)
(* This module has no specification of its own: PushWorkers composes its    *)
(* actions with the jobs that senders work on.  One topic is modelled; its  *)
(* digests are told apart by their post_id_to, as in the dedup key.  Users  *)
(* are the ranks, from 1, of the user ids, and 0 stands for None.           *)
(***************************************************************************)
EXTENDS Naturals, FiniteSets

CONSTANTS
  Senders,    \* the coroutines that call deliver_page
  Users,      \* ranks of the user ids
  Movers,     \* the users who subscribe and unsubscribe,
  Sleepers,   \* those who fall idle and come back,
  Renewers,   \* and those whose device token is absent, dead or renewed
  Digests,    \* the digests of the topic
  BatchSize,  \* multicast_batch_size
  Faults,     \* the kinds of fault that may happen
  MaxFaults   \* bound: how many may

FaultKinds ==
  { "crash",      \* a process dies or is cancelled
    "lapse",      \* a lease is too short for the work
    "reject",     \* the provider raises and has pushed to nobody
    "ambiguous",  \* the provider raises and has pushed to some
    "claim",      \* the claim pipeline raises
    "release",    \* the release of the claims raises
    "db",         \* a database statement raises
    "forget" }    \* Redis loses markers

ASSUME DeliverPageAssumption ==
  /\ Users \subseteq Nat \ {0} /\ IsFiniteSet(Users)
  /\ Movers \cup Sleepers \cup Renewers \subseteq Users
  /\ BatchSize \in Nat \ {0}
  /\ Faults \subseteq FaultKinds /\ MaxFaults \in Nat

VARIABLES
  token,     \* users.device_token: "none", "live", or "dead" (the provider
             \* reports it invalid)
  subscribed, \* the subscribers of the topic
  active,    \* the users seen within active_user_window_days
  markers,   \* the Redis keys <<digest, user>>
  pushes,    \* history: pushes[d][u] counts what u was pushed of digest d
  pc,        \* where a sender is in deliver_page
  task,      \* the digest it delivers, up to which user
  cursor,    \* the last user of the batch loaded last
  batch,     \* the batch: see NoBatch
  faults     \* faults so far

world == <<token, subscribed, active>>
sending == <<pc, task, cursor, batch>>

\* The users who are subscribed, active and reachable throughout.
Steady == Users \ (Movers \cup Sleepers \cup Renewers)

NoTask == [digest |-> 0, upto |-> 0]

\* left: users not yet asked for their marker; fresh: users whose marker this
\* sender has set; stale: users whose token was dead when it was loaded;
\* short: the batch was not full.
NoBatch == [left |-> {}, fresh |-> {}, stale |-> {}, short |-> FALSE]

InitDelivery ==
  /\ token \in {t \in [Users -> {"none", "live", "dead"}] :
                  \A u \in Users \ Renewers : t[u] = "live"}
  /\ subscribed \in {S \in SUBSET Users : Users \ Movers \subseteq S}
  /\ active \in {S \in SUBSET Users : Users \ Sleepers \subseteq S}
  /\ markers = {} /\ pushes = [d \in Digests |-> [u \in Users |-> 0]]
  /\ pc = [p \in Senders |-> "idle"]
  /\ task = [p \in Senders |-> NoTask]
  /\ cursor = [p \in Senders |-> 0]
  /\ batch = [p \in Senders |-> NoBatch]
  /\ faults = 0

\* What a fault needs, and costs.
Fault(kind) == kind \in Faults /\ faults < MaxFaults /\ faults' = faults + 1

Goto(p, label) == pc' = [pc EXCEPT ![p] = label]

-----------------------------------------------------------------------------
(* One call. *)

\* The call begins at the checkpoint, or else at user_id_from.
Start(p, d, after, upto) ==
  /\ Goto(p, "load")
  /\ task' = [task EXCEPT ![p] = [digest |-> d, upto |-> upto]]
  /\ cursor' = [cursor EXCEPT ![p] = after]
  /\ UNCHANGED batch

\* The call is over, or its process is gone: the local variables are lost.
Stop(p) ==
  /\ Goto(p, "idle")
  /\ task' = [task EXCEPT ![p] = NoTask]
  /\ cursor' = [cursor EXCEPT ![p] = 0]
  /\ batch' = [batch EXCEPT ![p] = NoBatch]

InRange(u, after, upto) == u > after /\ (upto = 0 \/ u <= upto)

\* Mutant: one user too many.
MutFirstBatch(S) == {u \in S : Cardinality({v \in S : v < u}) <= BatchSize}

\* The LIMIT of load_push_targets.
FirstBatch(S) == {u \in S : Cardinality({v \in S : v < u}) < BatchSize}

Targets(p) ==
  FirstBatch({u \in subscribed \cap active :
                token[u] # "none" /\ InRange(u, cursor[p], task[p].upto)})

\* Mutant: a full batch is taken for the last.
MutIsShort(S) == Cardinality(S) <= BatchSize

\* A batch that is not full is the last.
IsShort(S) == Cardinality(S) < BatchSize

LoadNone(p) ==
  /\ pc[p] = "load" /\ Targets(p) = {}
  /\ Goto(p, "returned")
  /\ UNCHANGED <<world, markers, pushes, task, cursor, batch, faults>>

Load(p) ==
  /\ pc[p] = "load"
  /\ \E last \in Targets(p) :
       /\ \A u \in Targets(p) : u <= last
       /\ cursor' = [cursor EXCEPT ![p] = last]
  /\ batch' = [batch EXCEPT ![p] =
       [left |-> Targets(p), fresh |-> {},
        stale |-> {u \in Targets(p) : token[u] = "dead"},
        short |-> IsShort(Targets(p))]]
  /\ Goto(p, "claim")
  /\ UNCHANGED <<world, markers, pushes, task, faults>>

Marker(p, u) == <<task[p].digest, u>>

\* Mutant: SET without NX.
MutAcquired(p, u) == TRUE

\* SET NX succeeds.
Acquired(p, u) == Marker(p, u) \notin markers

ClaimNext(p) ==
  /\ pc[p] = "claim"
  /\ \E u \in batch[p].left :
       /\ \A v \in batch[p].left : u <= v
       /\ markers' = markers \cup {Marker(p, u)}
       /\ batch' = [batch EXCEPT ![p].left = @ \ {u},
            ![p].fresh = IF Acquired(p, u) THEN @ \cup {u} ELSE @]
  /\ UNCHANGED <<world, pushes, pc, task, cursor, faults>>

\* The reply of the pipeline: with no fresh user there is nothing to send.
ClaimReply(p) ==
  /\ pc[p] = "claim" /\ batch[p].left = {}
  /\ Goto(p, IF batch[p].fresh = {} THEN "checkpoint" ELSE "send")
  /\ UNCHANGED <<world, markers, pushes, task, cursor, batch, faults>>

\* pushes after the provider has pushed to the users of S.
Pushed(p, S) ==
  [pushes EXCEPT ![task[p].digest] =
     [u \in Users |-> IF u \in S THEN @[u] + 1 ELSE @[u]]]

Reachable(p) == batch[p].fresh \ batch[p].stale

Send(p) ==
  /\ pc[p] = "send"
  /\ pushes' = Pushed(p, Reachable(p))
  /\ Goto(p, IF batch[p].fresh \cap batch[p].stale = {}
               THEN "checkpoint" ELSE "prune")
  /\ UNCHANGED <<world, markers, task, cursor, batch, faults>>

\* Mutant: the prune goes by user instead of by token.
MutPruned(p, u) == u \in batch[p].fresh \cap batch[p].stale

\* The token that was sent to and reported invalid is still the user's.
Pruned(p, u) == u \in batch[p].fresh \cap batch[p].stale /\ token[u] = "dead"

Prune(p) ==
  /\ pc[p] = "prune"
  /\ token' = [u \in Users |-> IF Pruned(p, u) THEN "none" ELSE token[u]]
  /\ Goto(p, "checkpoint")
  /\ UNCHANGED <<subscribed, active, markers, pushes, task, cursor, batch, faults>>

\* What follows the checkpoint.
AfterCheckpoint(p) ==
  /\ pc[p] = "checkpoint"
  /\ Goto(p, IF batch[p].short THEN "returned" ELSE "load")
  /\ batch' = [batch EXCEPT ![p] = NoBatch]
  /\ UNCHANGED <<world, markers, pushes, task, cursor, faults>>

-----------------------------------------------------------------------------
(* Failures. *)

\* The send raises: the provider may or may not have pushed.
SendRaises(p) ==
  /\ pc[p] = "send"
  /\ \/ Fault("reject") /\ UNCHANGED pushes
     \/ Fault("ambiguous") /\
        \E S \in SUBSET Reachable(p) : pushes' = Pushed(p, S)
  /\ Goto(p, "release")
  /\ UNCHANGED <<world, markers, task, cursor, batch>>

\* Mutant: the claims are not given back.
MutReleased(p) == markers

\* Mutant: all claims of the digest are given back.
MutReleasedAll(p) == {m \in markers : m[1] # task[p].digest}

\* The markers when the claims of the batch are given back.
Released(p) == markers \ {Marker(p, u) : u \in batch[p].fresh}

Release(p) ==
  /\ pc[p] = "release"
  /\ markers' = Released(p)
  /\ Goto(p, "raised")
  /\ UNCHANGED <<world, pushes, task, cursor, batch, faults>>

\* The pipeline raises after some of its commands, or the release raises: the
\* markers set so far remain.
RedisRaises(p) ==
  /\ \/ pc[p] = "claim" /\ Fault("claim")
     \/ pc[p] = "release" /\ Fault("release")
  /\ Goto(p, "raised")
  /\ UNCHANGED <<world, markers, pushes, task, cursor, batch>>

\* A statement of deliver_page, or the one after it, raises.
DatabaseRaises(p) ==
  /\ pc[p] \in {"load", "prune", "checkpoint", "returned"}
  /\ Fault("db")
  /\ Goto(p, "raised")
  /\ UNCHANGED <<world, markers, pushes, task, cursor, batch>>

\* Redis restarts without its markers, or the TTL of some of them ends while
\* their job is retried.
Forget ==
  /\ Fault("forget")
  /\ markers' \in SUBSET markers
  /\ UNCHANGED <<world, pushes, sending>>

DeliveryStep(p) ==
  \/ LoadNone(p) \/ Load(p) \/ ClaimNext(p) \/ ClaimReply(p) \/ Send(p)
  \/ Prune(p) \/ Release(p)

DeliveryFailure(p) == SendRaises(p) \/ RedisRaises(p) \/ DatabaseRaises(p)

-----------------------------------------------------------------------------
(* Users come and go through the API while pages are delivered. *)

\* Any request of the user (touch_user), or a month without one.
ChangeActivity(u) ==
  /\ u \in Sleepers
  /\ active' = IF u \in active THEN active \ {u} ELSE active \cup {u}
  /\ UNCHANGED <<token, subscribed, markers, pushes, sending, faults>>

\* POST /devices: the user registers the token of a working device.
RegisterDevice(u) ==
  /\ u \in Renewers \cap active /\ token[u] # "live"
  /\ token' = [token EXCEPT ![u] = "live"]
  /\ UNCHANGED <<subscribed, active, markers, pushes, sending, faults>>

\* POST /subscribe and /unsubscribe.
ChangeSubscription(u) ==
  /\ u \in Movers \cap active
  /\ subscribed' =
       IF u \in subscribed THEN subscribed \ {u} ELSE subscribed \cup {u}
  /\ UNCHANGED <<token, active, markers, pushes, sending, faults>>

UserStep(u) == ChangeActivity(u) \/ RegisterDevice(u) \/ ChangeSubscription(u)

-----------------------------------------------------------------------------
(* Properties. *)

Labels ==
  {"idle", "load", "claim", "send", "release", "prune", "checkpoint",
   "returned", "raised"}

Task == [digest : Digests \cup {0}, upto : Users \cup {0}]

Batch == [left : SUBSET Users, fresh : SUBSET Users, stale : SUBSET Users,
          short : BOOLEAN]

\* Types; a multicast never exceeds multicast_batch_size.
DeliveryTypeOK ==
  /\ token \in [Users -> {"none", "live", "dead"}]
  /\ subscribed \subseteq Users /\ active \subseteq Users
  /\ markers \subseteq Digests \X Users
  /\ pushes \in [Digests -> [Users -> Nat]]
  /\ pc \in [Senders -> Labels]
  /\ task \in [Senders -> Task]
  /\ \A p \in Senders : pc[p] # "idle" => task[p].digest \in Digests
  /\ cursor \in [Senders -> Users \cup {0}]
  /\ batch \in [Senders -> Batch]
  /\ \A p \in Senders :
       Cardinality(batch[p].left) + Cardinality(batch[p].fresh) <= BatchSize
  /\ faults \in Nat

\* Holding claims that no push has followed yet.
Claiming(p) == pc[p] \in {"claim", "send", "release"}

\* The claims of a sender are marked, and their users not yet pushed.
ClaimsMarked ==
  \A p \in Senders : Claiming(p) => \A u \in batch[p].fresh :
    Marker(p, u) \in markers /\ pushes[task[p].digest][u] = 0

\* No two senders hold the claim of one user for one digest.
ClaimsApart ==
  \A p, q \in Senders :
    p # q /\ Claiming(p) /\ Claiming(q) /\ task[p].digest = task[q].digest
      => batch[p].fresh \cap batch[q].fresh = {}

\* A push leaves its marker.
PushesMarked == \A d \in Digests, u \in Users : pushes[d][u] > 0 => <<d, u>> \in markers

\* The inductive invariant behind AtMostOnce.
MarkersGuard == ClaimsMarked /\ ClaimsApart /\ PushesMarked

\* Nobody is pushed a digest twice, whatever workers race over it and however
\* often its pages are retried (PushDedupStore).
AtMostOnce == \A d \in Digests, u \in Users : pushes[d][u] <= 1

\* The pushes of a digest to a user are at most one more than the faults: where
\* sends raise after they have pushed, or Redis loses markers (the cases that
\* AtMostOnce excludes), each fault costs one push, and no race or retry adds
\* one of its own (deliver_page claims before it sends).
RepeatsPaid == \A d \in Digests, u \in Users : pushes[d][u] <= 1 + faults

\* A sender at work holds the claim of user u for digest d.
InFlight(d, u) ==
  \E p \in Senders : Claiming(p) /\ task[p].digest = d /\ u \in batch[p].fresh

\* The notification of user u for digest d.  A marker that no push has followed
\* and that nobody works on is a notification lost: the process died between
\* the claim and the send, Redis raised, or the token was dead.
FateOf(d, u) ==
  IF pushes[d][u] > 1 THEN "twice"
  ELSE IF pushes[d][u] = 1 THEN "told"
  ELSE IF InFlight(d, u) THEN "taken"
  ELSE IF <<d, u>> \in markers THEN "lost" ELSE "open"

Fate == [d \in Digests |-> [u \in Users |-> FateOf(d, u)]]

N == INSTANCE Notification WITH fate <- Fate

\* The senders, with their batches, retries and faults, implement what the
\* markers promise, as long as Redis keeps them and a send that raises has
\* pushed to nobody (PushDedupStore, deliver_page).
ImplementsNotification == N!Spec

\* A prune never erases the token of a working device, even one registered
\* while the multicast to the old token was on its way.
PruneSparesLive ==
  [][\A u \in Users : token[u] = "live" => token'[u] = "live"]_token
=============================================================================
