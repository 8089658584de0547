--------------------------- MODULE Classification ---------------------------
(***************************************************************************)
(* The classifier workers: they lease classification jobs in batches, ask   *)
(* the classifier for the topics of each article, and publish the article   *)
(* to those topics.  One job is one transaction: for each topic, in topic   *)
(* order, it takes the topic's advisory lock, draws a post_id from the      *)
(* sequence and inserts the row; it then marks the job done and commits.    *)
(*                                                                         *)
(* A topic is represented by its rank in the order of topic ids.  A job and *)
(* its article are one to one (classify_jobs.article_id is UNIQUE), so both *)
(* are named by the article.                                                *)
(***************************************************************************)
EXTENDS Integers, FiniteSets, Sequences, JobTable

CONSTANTS
  Workers,      \* classifier workers, over all processes
  Articles,     \* the articles ingested, one classify job each
  Topics,       \* ranks of the topic ids
  HashText,     \* hashtext(topic_id): the key of the topic's advisory lock
  Answers,      \* the answers the classifier may give: sequences of topics
                \* above min_confidence, the most confident first
  MaxTopics,    \* max_topics_per_article
  BatchSize,    \* batch_size
  MaxAttempts,  \* max_attempts
  MaxFaults,    \* bound: errors, crashes and leases too short for the work
  NoArticle

ASSUME ClassificationAssumption ==
  /\ Topics \subseteq Nat
  /\ HashText \in [Topics -> Int]
  /\ Answers \in [Articles -> SUBSET Seq(Topics)]
  /\ MaxTopics \in Nat /\ BatchSize \in Nat /\ MaxAttempts \in Nat
  /\ MaxFaults \in Nat
  /\ NoArticle \notin Articles

VARIABLES
  job,      \* classify_jobs
  posts,    \* articles_by_topic, as committed
  seq,      \* the last value of article_post_id_seq
  pc,       \* a worker is "ready" (between jobs), "publish" (in the
            \* transaction of cur) or "fail" (after its rollback)
  seen,     \* seen[w][a]: attempts of job a when w claimed it, 0 if a is
            \* not in the batch w is working through
  cur,      \* the article whose job a worker works on
  todo,     \* the accepted topics its transaction has still to insert
  locked,   \* the topics whose advisory lock its transaction holds
  rows,     \* the rows its transaction has inserted
  faults    \* faults so far

db == <<job, posts, seq>>
txn == <<cur, todo, locked, rows>>
vars == <<job, posts, seq, pc, seen, cur, todo, locked, rows, faults>>

Log == INSTANCE TopicLog

Init ==
  /\ job = [a \in Articles |-> NewJob]
  /\ posts = {} /\ seq = 0
  /\ pc = [w \in Workers |-> "ready"]
  /\ seen = [w \in Workers |-> [a \in Articles |-> 0]]
  /\ cur = [w \in Workers |-> NoArticle]
  /\ todo = [w \in Workers |-> {}]
  /\ locked = [w \in Workers |-> {}]
  /\ rows = [w \in Workers |-> {}]
  /\ faults = 0

Batch(w) == {a \in Articles : seen[w][a] > 0}

\* What a fault needs, and costs.
Fault == faults < MaxFaults /\ faults' = faults + 1

-----------------------------------------------------------------------------
(* The claim. *)

\* Jobs of one ingested page have one created_at: any of them come first.
Oldest(claimable) ==
  {S \in SUBSET claimable :
     \/ Cardinality(S) = BatchSize
     \/ Cardinality(S) < BatchSize /\ S = claimable}

Claim(w) ==
  /\ pc[w] = "ready" /\ Batch(w) = {}
  /\ \E S \in Oldest({a \in Articles : Claimable(job[a])}) \ {{}} :
       /\ job' = [a \in Articles |->
                    IF a \in S THEN Claimed(job[a]) ELSE job[a]]
       /\ seen' = [seen EXCEPT ![w] = [a \in Articles |->
                    IF a \in S THEN job[a].attempts + 1 ELSE 0]]
  /\ UNCHANGED <<posts, seq, pc, txn, faults>>

-----------------------------------------------------------------------------
(* The transaction of one job. *)

\* Mutant: the answer is not cut to max_topics_per_article.
MutAcceptAll(answer) == {answer[i] : i \in 1 .. Len(answer)}

\* The topics kept of an answer.
Accepted(answer) == {answer[i] : i \in {n \in 1 .. Len(answer) : n <= MaxTopics}}

Classify(w) ==
  /\ pc[w] = "ready"
  /\ \E a \in Batch(w) : \E answer \in Answers[a] :
       /\ cur' = [cur EXCEPT ![w] = a]
       /\ todo' = [todo EXCEPT ![w] = Accepted(answer)]
  /\ pc' = [pc EXCEPT ![w] = "publish"]
  /\ UNCHANGED <<db, seen, locked, rows, faults>>

\* Mutant: the topics are not sorted before they are locked.
MutNextTopics(w) == todo[w]

\* publish_article_topics goes through the topics in the order of their ids.
NextTopics(w) == {t \in todo[w] : \A u \in todo[w] : t <= u}

\* Mutant: no advisory lock.
MutFree(w, t) == TRUE

\* No other transaction holds the advisory lock of topic t.
Free(w, t) ==
  \A v \in Workers \ {w} : \A u \in locked[v] : HashText[u] # HashText[t]

PublishNext(w) ==
  /\ pc[w] = "publish"
  /\ \E t \in NextTopics(w) :
       /\ Free(w, t)
       /\ locked' = [locked EXCEPT ![w] = @ \cup {t}]
       /\ todo' = [todo EXCEPT ![w] = @ \ {t}]
       \* The default nextval() is drawn even if the row then conflicts.
       /\ seq' = seq + 1
       /\ IF \E p \in posts : p.topic = t /\ p.article = cur[w]
            THEN UNCHANGED rows
            ELSE rows' = [rows EXCEPT ![w] = @ \cup
                   {[topic |-> t, post_id |-> seq + 1, article |-> cur[w]]}]
  /\ UNCHANGED <<job, posts, pc, seen, cur, faults>>

\* Mutant: a session-level lock, which outlives the transaction.
MutEndTransaction(w) ==
  /\ todo' = [todo EXCEPT ![w] = {}]
  /\ rows' = [rows EXCEPT ![w] = {}]
  /\ UNCHANGED locked

\* The transaction of w ends, one way or the other; its locks go with it.
EndTransaction(w) ==
  /\ todo' = [todo EXCEPT ![w] = {}]
  /\ locked' = [locked EXCEPT ![w] = {}]
  /\ rows' = [rows EXCEPT ![w] = {}]

\* w is done with its job and turns to the next of its batch.
NextJob(w) ==
  /\ pc' = [pc EXCEPT ![w] = "ready"]
  /\ seen' = [seen EXCEPT ![w][cur[w]] = 0]
  /\ cur' = [cur EXCEPT ![w] = NoArticle]

\* complete_classify_job and the commit.
Commit(w) ==
  /\ pc[w] = "publish" /\ todo[w] = {}
  /\ posts' = posts \cup rows[w]
  /\ job' = [job EXCEPT ![cur[w]] = Completed(@)]
  /\ EndTransaction(w) /\ NextJob(w)
  /\ UNCHANGED <<seq, faults>>

-----------------------------------------------------------------------------
(* Failures. *)

\* Mutant: what the transaction had inserted is kept.
MutRollback(w) ==
  /\ pc' = [pc EXCEPT ![w] = "fail"]
  /\ todo' = [todo EXCEPT ![w] = {}]
  /\ locked' = [locked EXCEPT ![w] = {}]
  /\ rows' = [rows EXCEPT ![w] = {}]
  /\ posts' = posts \cup rows[w]
  /\ UNCHANGED <<job, seq, seen, cur>>

\* An exception while the job is processed: the transaction is rolled back.
Rollback(w) ==
  /\ pc' = [pc EXCEPT ![w] = "fail"]
  /\ EndTransaction(w)
  /\ UNCHANGED <<job, posts, seq, seen, cur>>

\* The classifier or the database raises.
Error(w) == pc[w] = "publish" /\ Rollback(w) /\ Fault

\* The transaction of w waits for a lock that the one of v holds.
WaitsFor(w, v) ==
  /\ pc[w] = "publish" /\ v # w
  /\ \E t \in NextTopics(w), u \in locked[v] : HashText[u] = HashText[t]

\* Every member of S waits for one of S, and one of S waits for it.
WaitCycle(S) ==
  /\ \A w \in S : \E v \in S : WaitsFor(w, v)
  /\ \A v \in S : \E w \in S : WaitsFor(w, v)

\* PostgreSQL's deadlock detector cancels a member of the cycle.
DeadlockAbort(w) ==
  /\ \E S \in SUBSET Workers : w \in S /\ WaitCycle(S)
  /\ Rollback(w)
  /\ UNCHANGED faults

\* fail_classify_job, in a transaction of its own.
Fail(w) ==
  /\ pc[w] = "fail"
  /\ job' = [job EXCEPT ![cur[w]] =
               FailedAttempt(@, seen[w][cur[w]], MaxAttempts)]
  /\ NextJob(w)
  /\ UNCHANGED <<posts, seq, todo, locked, rows, faults>>

\* The process dies, is cancelled at shutdown, or an exception escapes
\* run_once: the rest of the batch is forgotten, its jobs stay running.
Crash(w) ==
  /\ Batch(w) # {}
  /\ pc' = [pc EXCEPT ![w] = "ready"]
  /\ seen' = [seen EXCEPT ![w] = [a \in Articles |-> 0]]
  /\ cur' = [cur EXCEPT ![w] = NoArticle]
  /\ EndTransaction(w)
  /\ Fault
  /\ UNCHANGED db

-----------------------------------------------------------------------------
(* Time. *)

\* The lease of a running job runs out.  This is a fault only if a worker
\* still has the job in its batch.
Lapse(a) ==
  /\ job[a].status = "running" /\ job[a].leased
  /\ IF \E w \in Workers : seen[w][a] = job[a].attempts
       THEN Fault ELSE UNCHANGED faults
  /\ job' = [job EXCEPT ![a] = Lapsed(@)]
  /\ UNCHANGED <<posts, seq, pc, seen, txn>>

BackOff(a) ==
  /\ ~job[a].due
  /\ job' = [job EXCEPT ![a] = BackedOff(@)]
  /\ UNCHANGED <<posts, seq, pc, seen, txn, faults>>

WorkerStep(w) ==
  Claim(w) \/ Classify(w) \/ PublishNext(w) \/ Commit(w) \/ Fail(w)
    \/ DeadlockAbort(w)

Next ==
  \/ \E w \in Workers : WorkerStep(w) \/ Error(w) \/ Crash(w)
  \/ \E a \in Articles : Lapse(a) \/ BackOff(a)

Spec == Init /\ [][Next]_vars

\* The loops run forever and time passes; nothing obliges a fault to happen.
Fairness ==
  /\ \A w \in Workers : WF_vars(WorkerStep(w))
  /\ \A a \in Articles : WF_vars(Lapse(a)) /\ WF_vars(BackOff(a))

FairSpec == Spec /\ Fairness

-----------------------------------------------------------------------------
(* Properties. *)

\* Types; a transaction accepts at most max_topics_per_article topics.
TypeOK ==
  /\ job \in [Articles -> JobRow]
  /\ posts \subseteq Log!Post /\ seq \in Nat
  /\ pc \in [Workers -> {"ready", "publish", "fail"}]
  /\ seen \in [Workers -> [Articles -> Nat]]
  /\ cur \in [Workers -> Articles \cup {NoArticle}]
  /\ \A w \in Workers : pc[w] # "ready" => cur[w] \in Articles
  /\ todo \in [Workers -> SUBSET Topics]
  /\ \A w \in Workers : IsFiniteSet(todo[w]) /\ Cardinality(todo[w]) <= MaxTopics
  /\ locked \in [Workers -> SUBSET Topics]
  /\ rows \in [Workers -> SUBSET Log!Post]
  /\ faults \in Nat

\* Locks and uncommitted rows exist only inside a transaction.
CleanOutside ==
  \A w \in Workers : pc[w] # "publish" =>
    todo[w] = {} /\ locked[w] = {} /\ rows[w] = {}

\* One transaction holds the advisory lock of a key.
ExclusiveLocks ==
  \A v, w \in Workers : v # w =>
    \A t \in locked[v], u \in locked[w] : HashText[t] # HashText[u]

\* The locks are taken in the order of the topics.
LockOrder ==
  \A w \in Workers : \A t \in locked[w], u \in todo[w] : t < u

\* An uncommitted row is protected by its topic's lock, and when it becomes
\* visible it will be the newest post of its topic and no repetition.
PendingFollows ==
  \A w \in Workers : \A p \in rows[w] :
    /\ p.topic \in locked[w]
    /\ p.article = cur[w]
    /\ p.post_id <= seq
    /\ \A q \in rows[w] : q.topic = p.topic => q = p
    /\ Log!Follows(p)

\* The sequence is ahead of every visible post.
SequenceAhead == \A p \in posts : p.post_id <= seq

\* The inductive invariant behind the append-only log and the lock order.
LogInv ==
  /\ CleanOutside /\ ExclusiveLocks /\ LockOrder
  /\ PendingFollows /\ SequenceAhead

\* Every topic is an append-only log of distinct articles, whatever workers
\* race, crash or process an article twice (publish_article_topics).
ImplementsTopicLog == Log!Spec

\* Some transaction of S waits for another topic than the one that is locked:
\* their ids have the same hash.
Collision(S) ==
  \E v, w \in S : \E t \in NextTopics(w), u \in locked[v] :
    t # u /\ HashText[t] = HashText[u]

\* Publishing transactions wait for each other in a circle only by accident of
\* the hash, never because of the topics they share (the sorted() in
\* publish_article_topics).
NoWaitCycle ==
  \A S \in (SUBSET Workers) \ {{}} : WaitCycle(S) => Collision(S)

PostedTo(a) == {p.topic : p \in {q \in posts : q.article = a}}

\* What is visible of an article is nothing or one whole answer of the
\* classifier, and a job that is done has published one: processing an
\* article again is harmless, and half of it is never committed.
OneAnswer ==
  \A a \in Articles :
    \/ PostedTo(a) \in {Accepted(answer) : answer \in Answers[a]}
    \/ PostedTo(a) = {} /\ job[a].status # "done"

\* Every job comes to rest, done or failed, despite crashes and leases that
\* run out (the lapsed-lease clause of the claim, the retries, max_attempts).
EveryJobSettles ==
  \A a \in Articles : <>[](job[a].status \in {"done", "failed"})
=============================================================================
