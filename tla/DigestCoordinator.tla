-------------------------- MODULE DigestCoordinator --------------------------
(***************************************************************************)
(* The push coordinators, composed with the push workers.  A coordinator    *)
(* lists the posts of the topic that no digest has announced yet, and       *)
(* dispatches them as one digest: with few subscribers it delivers the      *)
(* digest itself (DeliverPage, without checkpoints), with many it enqueues  *)
(* one page job per range of subscribers.  Only then, in a transaction of   *)
(* its own, it advances topic_digest_state.                                 *)
(*                                                                         *)
(* The topic is an append-only log (TopicLog), so its visible posts are     *)
(* given by the number of the last one, and a digest by its post_id_to.     *)
(* It is any one of the topics that a cycle goes through in turn: the       *)
(* others take time while it is listed, or end the cycle with an exception. *)
(***************************************************************************)
EXTENDS PushWorkers

CONSTANTS
  Coordinators,  \* the push coordinators, among the senders
  ColdMax,       \* cold_topic_max_subscribers
  PageSize,      \* subscriber_page_size
  MaxPosts       \* bound: the posts that appear in the topic

ASSUME CoordinatorAssumption ==
  /\ Senders = Workers \cup Coordinators /\ Workers \cap Coordinators = {}
  /\ Digests = 1 .. MaxPosts /\ DOMAIN InitialPages = {}
  /\ ColdMax \in Nat /\ PageSize \in Nat \ {0} /\ MaxPosts \in Nat

VARIABLES
  lastPost,  \* the last visible post of the topic
  pushed,    \* topic_digest_state.last_pushed_post_id, 0 without a row
  recent,    \* last_pushed_at is within digest_interval_seconds
  phase,     \* what a coordinator does: "idle", "listed", "hot" (between the
             \* count and the enqueuing), "delivering" or "dispatched"
  digest,    \* the digest it dispatches
  spans      \* history: spans[d] are the post_id_from's listed with digest d

topic == <<lastPost, pushed, recent, spans>>
coordination == <<topic, phase, digest>>
pipeline == <<vars, coordination>>

NoDigest == [from |-> 0, to |-> 0]

PipelineInit ==
  /\ Init
  /\ lastPost = 0 /\ pushed = 0 /\ recent = FALSE
  /\ phase = [c \in Coordinators |-> "idle"]
  /\ digest = [c \in Coordinators |-> NoDigest]
  /\ spans = [d \in Digests |-> {}]

Enter(c, label) == phase' = [phase EXCEPT ![c] = label]

\* Mutant: the last post announced counts as new.
MutPending == lastPost > 0 /\ lastPost >= pushed /\ ~recent

\* The WHERE clause of list_pending_digests: there is something new since the
\* last digest, and that is not too recent.
Pending == lastPost > pushed /\ ~recent

ListDigest(c) ==
  /\ phase[c] = "idle"
  /\ Pending
  /\ digest' = [digest EXCEPT ![c] = [from |-> pushed, to |-> lastPost]]
  /\ spans' = [spans EXCEPT ![lastPost] = @ \cup {pushed}]
  /\ Enter(c, "listed")
  /\ UNCHANGED <<vars, lastPost, pushed, recent>>

\* count_subscribers_capped: few subscribers, and one call reaches them all.
DispatchCold(c) ==
  /\ phase[c] = "listed"
  /\ Cardinality(subscribed) <= ColdMax
  /\ Start(c, digest[c].to, 0, 0)
  /\ Enter(c, "delivering")
  /\ UNCHANGED <<world, markers, pushes, faults, jobs, topic, digest>>

DispatchHot(c) ==
  /\ phase[c] = "listed"
  /\ Cardinality(subscribed) > ColdMax
  /\ Enter(c, "hot")
  /\ UNCHANGED <<vars, topic, digest>>

\* Every page_size-th subscriber.
Boundaries ==
  {u \in subscribed : Cardinality({v \in subscribed : v <= u}) % PageSize = 0}

\* The upper ends of the pages: the boundaries, and None for the last.
PageEnds == Boundaries \cup {0}

\* Mutant: every page begins at None.
MutPageStart(hi) == 0

\* The page that ends at hi begins after the boundary before it, or at None.
PageStart(hi) ==
  CHOOSE lo \in Boundaries \cup {0} :
    /\ hi # 0 => lo < hi
    /\ \A b \in Boundaries : (hi = 0 \/ b < hi) => b <= lo

\* subscriber_page_ranges and enqueue_push_page_jobs, in one transaction.
EnqueuePages(c) ==
  /\ phase[c] = "hot"
  /\ LET id(hi) == <<Cardinality(DOMAIN job), hi>>
         new == {id(hi) : hi \in PageEnds}
         spec == [j \in new |-> [digest |-> digest[c].to, lo |-> PageStart(j[2]),
                                 hi |-> j[2], ckpt |-> 0]]
     IN  /\ job' = [j \in DOMAIN job \cup new |->
                      IF j \in new THEN NewJob ELSE job[j]]
         /\ page' = [j \in DOMAIN job \cup new |->
                       IF j \in new THEN spec[j] ELSE page[j]]
  /\ Enter(c, "dispatched")
  /\ UNCHANGED <<delivery, held, seen, topic, digest>>

\* deliver_page for the coordinator: on_checkpoint is None.
DeliverCold(c) ==
  /\ DeliveryStep(c) \/ AfterCheckpoint(c)
  /\ UNCHANGED <<jobs, coordination>>

\* The cycle is over, and its digest forgotten.
LeaveCycle(c) ==
  /\ Stop(c)
  /\ Enter(c, "idle")
  /\ digest' = [digest EXCEPT ![c] = NoDigest]

\* Mutant: the digest state may go back.
MutNewer(c) == digest[c].to

\* Mutant: post_id_from is passed for post_id_to.
MutNewerFrom(c) == IF digest[c].from > pushed THEN digest[c].from ELSE pushed

\* The GREATEST of advance_digest_state.
Newer(c) == IF digest[c].to > pushed THEN digest[c].to ELSE pushed

\* advance_digest_state.
Advance(c) ==
  /\ phase[c] = "dispatched" \/ pc[c] = "returned"
  /\ pushed' = Newer(c)
  /\ recent' = TRUE
  /\ LeaveCycle(c)
  /\ UNCHANGED <<world, markers, pushes, faults, jobs, lastPost, spans>>

-----------------------------------------------------------------------------
(* Failures. *)

\* Mutant: an exception ends the coordinator's loop.
MutAbandonCycle(c) == pc[c] = "raised" /\ UNCHANGED pipeline

\* An exception of deliver_page leaves run_once, but not run_loop.
AbandonCycle(c) ==
  /\ pc[c] = "raised"
  /\ LeaveCycle(c)
  /\ UNCHANGED <<world, markers, pushes, faults, jobs, topic>>

\* Another statement raises, and so does the call that it is in; or, before it
\* is the topic's turn, the send for another topic of the cycle raises.
CycleRaises(c) ==
  /\ \/ phase[c] \in {"listed", "hot", "dispatched"} /\ Fault("db")
     \/ phase[c] = "listed" /\ Fault("reject")
  /\ LeaveCycle(c)
  /\ UNCHANGED <<world, markers, pushes, jobs, topic>>

\* The process dies or is cancelled.
CoordinatorCrash(c) ==
  /\ phase[c] # "idle"
  /\ Fault("crash")
  /\ LeaveCycle(c)
  /\ UNCHANGED <<world, markers, pushes, jobs, topic>>

-----------------------------------------------------------------------------
(* The rest of the system. *)

\* The classifier commits a post.
NewPost ==
  /\ lastPost < MaxPosts
  /\ lastPost' = lastPost + 1
  /\ UNCHANGED <<vars, pushed, recent, phase, digest, spans>>

\* digest_interval_seconds pass.
IntervalPasses ==
  /\ recent /\ recent' = FALSE
  /\ UNCHANGED <<vars, lastPost, pushed, phase, digest, spans>>

CoordinatorStep(c) ==
  \/ ListDigest(c) \/ DispatchCold(c) \/ DispatchHot(c) \/ EnqueuePages(c)
  \/ DeliverCold(c) \/ Advance(c) \/ AbandonCycle(c)

CoordinatorFailure(c) ==
  \/ DeliveryFailure(c) /\ UNCHANGED <<jobs, coordination>>
  \/ CycleRaises(c)
  \/ CoordinatorCrash(c)

PipelineNext ==
  \/ \E c \in Coordinators : CoordinatorStep(c) \/ CoordinatorFailure(c)
  \/ Next /\ UNCHANGED coordination
  \/ NewPost
  \/ IntervalPasses

PipelineSpec == PipelineInit /\ [][PipelineNext]_pipeline

\* Loops run forever and time passes.
PipelineFairness ==
  /\ \A c \in Coordinators : WF_pipeline(CoordinatorStep(c))
  /\ \A w \in Workers : WF_pipeline(WorkerStep(w) /\ UNCHANGED coordination)
  /\ WF_pipeline(\E j \in DOMAIN job : (Lapse(j) \/ BackOff(j))
                                       /\ UNCHANGED coordination)
  /\ WF_pipeline(IntervalPasses)

FairPipelineSpec == PipelineSpec /\ PipelineFairness

-----------------------------------------------------------------------------
(* Properties. *)

\* Types; the digest state never passes the last post.
PipelineTypeOK ==
  /\ TypeOK
  /\ lastPost \in Digests \cup {0} /\ pushed \in 0 .. lastPost
  /\ recent \in BOOLEAN
  /\ phase \in [Coordinators ->
                  {"idle", "listed", "hot", "delivering", "dispatched"}]
  /\ digest \in [Coordinators -> [from : Nat, to : Digests \cup {0}]]
  /\ \A c \in Coordinators :
       /\ digest[c].to <= lastPost
       /\ phase[c] # "idle" => digest[c].from < digest[c].to
       /\ pc[c] # "idle" <=> phase[c] = "delivering"
  /\ spans \in [Digests -> SUBSET Nat]

\* Digest d announces post n.
Announces(d, n) == \E from \in spans[d] : from < n /\ n <= d

\* A page job with a status of S has user u and digest d to deliver.
InJob(d, u, S) ==
  \E j \in DOMAIN job :
    page[j].digest = d /\ InRange(u, page[j].lo, page[j].hi) /\ job[j].status \in S

\* User u has been pushed digest d, or a sender is about to push it, or a page
\* job that will is still queued or running.
Provided(d, u) ==
  pushes[d][u] > 0 \/ InFlight(d, u) \/ InJob(d, u, {"queued", "running"})

\* A page job that had user u and digest d to deliver has used up max_attempts
\* and was given up, as many failures having happened.
GivenUp(d, u) ==
  /\ faults >= MaxAttempts
  /\ \E j \in DOMAIN job :
       /\ page[j].digest = d /\ InRange(u, page[j].lo, page[j].hi)
       /\ job[j].status = "failed" /\ job[j].attempts >= MaxAttempts

\* Once the digest state has moved past a post, which nothing lists again then,
\* every steady subscriber is provided with a digest that counts it, and stays
\* so, failures notwithstanding: nobody is passed over but users of a page that
\* used up its attempts, and not even they while failures are fewer than that.
NobodyPassedOver ==
  \A n \in 1 .. pushed : \A u \in Steady : \E d \in Digests :
    Announces(d, n) /\ (Provided(d, u) \/ GivenUp(d, u))

\* No user is told of a post by two digests (the markers of DigestDispatcher,
\* which are per digest).
NoPostTwice ==
  \A c, d \in Digests : c < d =>
    \A u \in Users : pushes[c][u] > 0 /\ pushes[d][u] > 0 =>
      ~ \E n \in Digests : Announces(c, n) /\ Announces(d, n)

\* As long as nothing fails, no user is told of a post by two digests, though
\* digests of different ages are delivered side by side: the digests of one
\* coordinator do not overlap, and users that come and go meet each post once.
OncePerPost == faults = 0 => NoPostTwice

\* The pages enqueued for a digest are a partition of all users, those who
\* subscribe later included (subscriber_page_ranges).
PagesPartition ==
  [][LET new == DOMAIN page' \ DOMAIN page
     IN  new # {} => \A u \in Users :
           \E j \in new : \A k \in new :
             InRange(u, page'[k].lo, page'[k].hi) <=> k = j]_page

\* The digest state only moves forward, although a slower coordinator may
\* report an older digest.
DigestStateMonotone == [][pushed' >= pushed]_pushed

\* Every post is eventually covered by the digest state: coordinators that
\* fail leave the work to the next cycle.
EveryPostAnnounced == \A n \in Digests : lastPost >= n ~> pushed >= n
=============================================================================
