------------------------ MODULE ClassificationProofs ------------------------
(***************************************************************************)
(* Theorems about Classification, for any number of workers, articles,      *)
(* topics and faults.                                                       *)
(***************************************************************************)
EXTENDS Classification, JobTableProofs, FiniteSetTheorems,
        WellFoundedInduction, TLAPS

\* No answer yields more than max_topics_per_article topics.
LEMMA AcceptedType ==
  ASSUME NEW answer \in Seq(Topics)
  PROVE  /\ Accepted(answer) \subseteq Topics
         /\ IsFiniteSet(Accepted(answer))
         /\ Cardinality(Accepted(answer)) <= MaxTopics
<1> USE ClassificationAssumption
<1> DEFINE idx == {n \in 1 .. Len(answer) : n <= MaxTopics}
<1>1. idx \subseteq 1 .. MaxTopics
  OBVIOUS
<1>2. IsFiniteSet(1 .. MaxTopics) /\ Cardinality(1 .. MaxTopics) = MaxTopics
  BY FS_Interval
<1>3. IsFiniteSet(idx) /\ Cardinality(idx) <= MaxTopics
  BY <1>1, <1>2, FS_Subset
<1>4. Accepted(answer) = {answer[i] : i \in idx}
  BY DEF Accepted
<1>5. /\ IsFiniteSet({answer[i] : i \in idx})
      /\ Cardinality({answer[i] : i \in idx}) <= Cardinality(idx)
  <2> HIDE DEF idx
  <2>. DEFINE f == [i \in idx |-> answer[i]]
  <2>1. f \in Surjection(idx, {answer[i] : i \in idx})
    BY DEF Surjection
  <2>. QED
    BY <2>1, <1>3, FS_Surjection
<1>6. Cardinality({answer[i] : i \in idx}) \in Nat /\ Cardinality(idx) \in Nat
  BY <1>3, <1>5, FS_CardinalityType
<1>7. Accepted(answer) \subseteq Topics
  BY <1>4
<1>. QED
  BY <1>3, <1>4, <1>5, <1>6, <1>7

-----------------------------------------------------------------------------
(* Types. *)

\* The accepted topics of a worker keep to their bound when one is inserted.
LEMMA TodoShrinks ==
  ASSUME NEW S, NEW t, IsFiniteSet(S), Cardinality(S) <= MaxTopics
  PROVE  IsFiniteSet(S \ {t}) /\ Cardinality(S \ {t}) <= MaxTopics
<1>1. IsFiniteSet(S \ {t}) /\ Cardinality(S \ {t}) <= Cardinality(S)
  BY FS_Subset
<1>2. Cardinality(S \ {t}) \in Nat /\ Cardinality(S) \in Nat
  BY <1>1, FS_CardinalityType
<1>. QED
  BY <1>1, <1>2, ClassificationAssumption

\* Ending a transaction leaves well-typed, empty sets behind.
LEMMA EndTransactionType ==
  ASSUME TypeOK, NEW w \in Workers, EndTransaction(w)
  PROVE  /\ todo' \in [Workers -> SUBSET Topics]
         /\ \A v \in Workers :
              IsFiniteSet(todo'[v]) /\ Cardinality(todo'[v]) <= MaxTopics
         /\ locked' \in [Workers -> SUBSET Topics]
         /\ rows' \in [Workers -> SUBSET Log!Post]
<1>1. IsFiniteSet({}) /\ Cardinality({}) <= MaxTopics
  BY FS_EmptySet, ClassificationAssumption
<1>2. todo' \in [Workers -> SUBSET Topics]
  BY DEF TypeOK, EndTransaction
<1>3. locked' \in [Workers -> SUBSET Topics]
  BY DEF TypeOK, EndTransaction
<1>4. rows' \in [Workers -> SUBSET Log!Post]
  BY DEF TypeOK, EndTransaction
<1>5. ASSUME NEW v \in Workers
      PROVE  IsFiniteSet(todo'[v]) /\ Cardinality(todo'[v]) <= MaxTopics
  BY <1>1 DEF TypeOK, EndTransaction
<1>. QED
  BY <1>2, <1>3, <1>4, <1>5

\* Turning to the next job keeps the worker's own variables well typed.
LEMMA NextJobType ==
  ASSUME TypeOK, NEW w \in Workers, NextJob(w)
  PROVE  /\ pc' \in [Workers -> {"ready", "publish", "fail"}]
         /\ seen' \in [Workers -> [Articles -> Nat]]
         /\ cur' \in [Workers -> Articles \cup {NoArticle}]
         /\ \A v \in Workers : pc'[v] # "ready" => cur'[v] \in Articles
<1>1. pc' \in [Workers -> {"ready", "publish", "fail"}]
  BY DEF TypeOK, NextJob
<1>2. seen' \in [Workers -> [Articles -> Nat]]
  BY DEF TypeOK, NextJob
<1>3. cur' \in [Workers -> Articles \cup {NoArticle}]
  BY DEF TypeOK, NextJob
<1>4. \A v \in Workers : pc'[v] # "ready" => cur'[v] \in Articles
  BY DEF TypeOK, NextJob
<1>. QED
  BY <1>1, <1>2, <1>3, <1>4

\* Every variable keeps its type, and no transaction accepts more topics
\* than max_topics_per_article, for any number of workers and articles.
THEOREM TypeCorrect == Spec => []TypeOK
<1>1. Init => TypeOK
  <2> SUFFICES ASSUME Init PROVE TypeOK
    OBVIOUS
  <2>1. IsFiniteSet({}) /\ Cardinality({}) <= MaxTopics
    BY FS_EmptySet, ClassificationAssumption
  <2>2. NewJob \in JobRow
    BY DEF NewJob, JobRow, JobStatus
  <2>. QED
    BY <2>1, <2>2 DEF Init, TypeOK, Log!Post
<1>2. TypeOK /\ [Next]_vars => TypeOK'
  <2> SUFFICES ASSUME TypeOK, [Next]_vars PROVE TypeOK'
    OBVIOUS
  <2>1. ASSUME NEW w \in Workers, Claim(w) PROVE TypeOK'
    <3>1. PICK S \in SUBSET Articles :
            /\ job' = [a \in Articles |->
                         IF a \in S THEN Claimed(job[a]) ELSE job[a]]
            /\ seen' = [seen EXCEPT ![w] = [a \in Articles |->
                          IF a \in S THEN job[a].attempts + 1 ELSE 0]]
      BY <2>1 DEF Claim, Oldest
    <3>2. \A a \in Articles : job[a] \in JobRow /\ job[a].attempts \in Nat
      BY DEF TypeOK, JobRow
    <3>3. \A a \in Articles : Claimed(job[a]) \in JobRow
      BY <3>2, JobRowTypes
    <3>4. job' \in [Articles -> JobRow]
      BY <3>1, <3>2, <3>3
    <3>5. [a \in Articles |-> IF a \in S THEN job[a].attempts + 1 ELSE 0]
            \in [Articles -> Nat]
      BY <3>2
    <3>6. seen' \in [Workers -> [Articles -> Nat]]
      BY <3>1, <3>5 DEF TypeOK
    <3>. QED
      BY <2>1, <3>4, <3>6 DEF Claim, TypeOK, txn
  <2>2. ASSUME NEW w \in Workers, Classify(w) PROVE TypeOK'
    <3>1. PICK a \in Articles, answer \in Seq(Topics) :
            /\ cur' = [cur EXCEPT ![w] = a]
            /\ todo' = [todo EXCEPT ![w] = Accepted(answer)]
      BY <2>2, ClassificationAssumption DEF Classify, Batch
    <3>3. /\ Accepted(answer) \subseteq Topics
          /\ IsFiniteSet(Accepted(answer))
          /\ Cardinality(Accepted(answer)) <= MaxTopics
      BY AcceptedType
    <3>4. /\ todo' \in [Workers -> SUBSET Topics]
          /\ \A v \in Workers :
               IsFiniteSet(todo'[v]) /\ Cardinality(todo'[v]) <= MaxTopics
      BY <3>1, <3>3 DEF TypeOK
    <3>5. /\ pc' \in [Workers -> {"ready", "publish", "fail"}]
          /\ cur' \in [Workers -> Articles \cup {NoArticle}]
          /\ \A v \in Workers : pc'[v] # "ready" => cur'[v] \in Articles
      BY <2>2, <3>1 DEF Classify, TypeOK
    <3>. QED
      BY <2>2, <3>4, <3>5 DEF Classify, TypeOK, db
  <2>3. ASSUME NEW w \in Workers, PublishNext(w) PROVE TypeOK'
    <3>1. PICK t \in Topics :
            /\ locked' = [locked EXCEPT ![w] = @ \cup {t}]
            /\ todo' = [todo EXCEPT ![w] = @ \ {t}]
            /\ \/ rows' = rows
               \/ rows' = [rows EXCEPT ![w] = @ \cup
                    {[topic |-> t, post_id |-> seq + 1, article |-> cur[w]]}]
      BY <2>3 DEF PublishNext, NextTopics, TypeOK
    <3>2. cur[w] \in Articles
      BY <2>3 DEF PublishNext, TypeOK
    <3>3. [topic |-> t, post_id |-> seq + 1, article |-> cur[w]] \in Log!Post
      BY <3>2 DEF TypeOK, Log!Post
    <3>4. rows' \in [Workers -> SUBSET Log!Post]
      BY <3>1, <3>3 DEF TypeOK
    <3>5. \A v \in Workers :
            IsFiniteSet(todo'[v]) /\ Cardinality(todo'[v]) <= MaxTopics
      BY <3>1, TodoShrinks DEF TypeOK
    <3>6. /\ todo' \in [Workers -> SUBSET Topics]
          /\ locked' \in [Workers -> SUBSET Topics]
          /\ seq' \in Nat
      BY <2>3, <3>1 DEF PublishNext, TypeOK
    <3>. QED
      BY <2>3, <3>4, <3>5, <3>6 DEF PublishNext, TypeOK
  <2>4. ASSUME NEW w \in Workers, Commit(w) PROVE TypeOK'
    <3>1. cur[w] \in Articles
      BY <2>4 DEF Commit, TypeOK
    <3>2. job[cur[w]] \in JobRow
      BY <3>1 DEF TypeOK
    <3>3. Completed(job[cur[w]]) \in JobRow
      BY <3>2, JobRowTypes
    <3>4. job' \in [Articles -> JobRow] /\ posts' \subseteq Log!Post
      BY <2>4, <3>3 DEF Commit, TypeOK
    <3>. QED
      BY <2>4, <3>4, EndTransactionType, NextJobType DEF Commit, TypeOK
  <2>5. ASSUME NEW w \in Workers, Rollback(w), pc[w] = "publish",
               faults' \in Nat
        PROVE  TypeOK'
    <3>1. /\ pc' \in [Workers -> {"ready", "publish", "fail"}]
          /\ \A v \in Workers : pc'[v] # "ready" => cur'[v] \in Articles
      BY <2>5 DEF Rollback, TypeOK
    <3>. QED
      BY <2>5, <3>1, EndTransactionType DEF Rollback, TypeOK
  <2>6. ASSUME NEW w \in Workers, Error(w) PROVE TypeOK'
    BY <2>5, <2>6 DEF Error, Fault, TypeOK
  <2>7. ASSUME NEW w \in Workers, DeadlockAbort(w) PROVE TypeOK'
    BY <2>5, <2>7 DEF DeadlockAbort, WaitCycle, WaitsFor, TypeOK
  <2>8. ASSUME NEW w \in Workers, Fail(w) PROVE TypeOK'
    <3>1. cur[w] \in Articles
      BY <2>8 DEF Fail, TypeOK
    <3>2. job[cur[w]] \in JobRow /\ seen[w][cur[w]] \in Nat
      BY <3>1 DEF TypeOK
    <3>3. FailedAttempt(job[cur[w]], seen[w][cur[w]], MaxAttempts) \in JobRow
      BY <3>2, JobRowTypes, ClassificationAssumption
    <3>4. job' \in [Articles -> JobRow]
      BY <2>8, <3>3 DEF Fail, TypeOK
    <3>. QED
      BY <2>8, <3>4, NextJobType DEF Fail, TypeOK
  <2>9. ASSUME NEW w \in Workers, Crash(w) PROVE TypeOK'
    <3>1. /\ pc' \in [Workers -> {"ready", "publish", "fail"}]
          /\ seen' \in [Workers -> [Articles -> Nat]]
          /\ cur' \in [Workers -> Articles \cup {NoArticle}]
          /\ \A v \in Workers : pc'[v] # "ready" => cur'[v] \in Articles
          /\ faults' \in Nat
      BY <2>9 DEF Crash, TypeOK, Fault
    <3>. QED
      BY <2>9, <3>1, EndTransactionType DEF Crash, TypeOK, db
  <2>10. ASSUME NEW a \in Articles, Lapse(a) \/ BackOff(a) PROVE TypeOK'
    <3>1. Lapsed(job[a]) \in JobRow /\ BackedOff(job[a]) \in JobRow
      BY JobRowTypes DEF TypeOK
    <3>2. job' \in [Articles -> JobRow]
      BY <2>10, <3>1 DEF Lapse, BackOff, TypeOK
    <3>3. faults' \in Nat
      BY <2>10 DEF Lapse, BackOff, Fault, TypeOK
    <3>. QED
      BY <2>10, <3>2, <3>3 DEF Lapse, BackOff, TypeOK, txn
  <2>11. CASE UNCHANGED vars
    BY <2>11 DEF vars, TypeOK
  <2>. QED
    BY <2>1, <2>2, <2>3, <2>4, <2>6, <2>7, <2>8, <2>9, <2>10, <2>11
      DEF Next, WorkerStep
<1>. QED
  BY <1>1, <1>2, PTL DEF Spec

-----------------------------------------------------------------------------
(* The append-only log. *)

\* What EndTransaction does, worker by worker.
LEMMA EndTransactionEffect ==
  ASSUME TypeOK, NEW w \in Workers, EndTransaction(w)
  PROVE  /\ todo'[w] = {} /\ locked'[w] = {} /\ rows'[w] = {}
         /\ \A v \in Workers \ {w} :
              todo'[v] = todo[v] /\ locked'[v] = locked[v] /\ rows'[v] = rows[v]
  BY DEF TypeOK, EndTransaction

\* Ending a transaction without publishing its rows keeps the invariant.
LEMMA EndTransactionKeepsLogInv ==
  ASSUME TypeOK, LogInv, NEW w \in Workers, EndTransaction(w),
         posts' = posts, seq' = seq,
         \A v \in Workers \ {w} : pc'[v] = pc[v] /\ cur'[v] = cur[v]
  PROVE  LogInv'
<1> USE EndTransactionEffect DEF LogInv
<1>1. CleanOutside'
  BY DEF CleanOutside
<1>2. ExclusiveLocks'
  BY DEF ExclusiveLocks
<1>3. LockOrder'
  BY DEF LockOrder
<1>4. PendingFollows'
  BY DEF PendingFollows, Log!Follows
<1>5. SequenceAhead'
  BY DEF SequenceAhead
<1>. QED
  BY <1>1, <1>2, <1>3, <1>4, <1>5

\* Inserting the next row keeps the invariant: the lock keeps every other
\* transaction out of the topic, and the post_id is above all it contains.
LEMMA PublishNextKeepsLogInv ==
  ASSUME TypeOK, LogInv, NEW w \in Workers, PublishNext(w)
  PROVE  LogInv'
<1> USE DEF LogInv
<1> DEFINE row(t) == [topic |-> t, post_id |-> seq + 1, article |-> cur[w]]
<1>1. PICK t \in todo[w] :
        /\ \A u \in todo[w] : t <= u
        /\ Free(w, t)
        /\ locked' = [locked EXCEPT ![w] = @ \cup {t}]
        /\ todo' = [todo EXCEPT ![w] = @ \ {t}]
        /\ \/ rows' = rows
           \/ /\ ~ \E p \in posts : p.topic = t /\ p.article = cur[w]
              /\ rows' = [rows EXCEPT ![w] = @ \cup {row(t)}]
  BY DEF PublishNext, NextTopics
<1>2. /\ pc' = pc /\ cur' = cur /\ posts' = posts /\ seq' = seq + 1
      /\ pc[w] = "publish"
  BY DEF PublishNext
<1>3. /\ todo[w] \subseteq Nat /\ seq \in Nat /\ t \in Nat
      /\ \A v \in Workers : locked[v] \subseteq Topics /\ todo[v] \subseteq Topics
      /\ \A p \in posts : p.post_id \in Nat
      /\ \A v \in Workers : \A p \in rows[v] : p.post_id \in Nat
  <2>1. \A p \in Log!Post : p.post_id \in Nat
    BY DEF Log!Post
  <2>2. /\ \A p \in posts : p \in Log!Post
        /\ \A v \in Workers : \A p \in rows[v] : p \in Log!Post
    BY DEF TypeOK
  <2>3. /\ \A v \in Workers : locked[v] \subseteq Topics /\ todo[v] \subseteq Topics
        /\ seq \in Nat
    BY DEF TypeOK
  <2>. QED
    BY <1>1, <2>1, <2>2, <2>3, ClassificationAssumption
<1>4. /\ locked'[w] = locked[w] \cup {t}
      /\ todo'[w] = todo[w] \ {t}
      /\ \A v \in Workers \ {w} :
           todo'[v] = todo[v] /\ locked'[v] = locked[v] /\ rows'[v] = rows[v]
  BY <1>1 DEF TypeOK
<1>5. \/ rows'[w] = rows[w]
      \/ /\ ~ \E p \in posts : p.topic = t /\ p.article = cur[w]
         /\ rows'[w] = rows[w] \cup {row(t)}
  BY <1>1 DEF TypeOK
<1> HIDE DEF row
<1>6. CleanOutside'
  BY <1>2, <1>4 DEF CleanOutside
<1>7. ExclusiveLocks'
  <2>1. \A v \in Workers \ {w} : \A u \in locked[v] : HashText[u] # HashText[t]
    BY <1>1 DEF Free
  <2>. QED
    BY <1>4, <2>1 DEF ExclusiveLocks
<1>8. LockOrder'
  <2>1. \A u \in todo'[w] : t < u
    BY <1>1, <1>3, <1>4
  <2>. QED
    BY <1>4, <2>1 DEF LockOrder
<1>9. PendingFollows'
  <2>1. t \notin locked[w]
    BY <1>1, <1>3 DEF LockOrder
  <2>2. \A v \in Workers : \A p \in rows[v] :
          /\ p.topic \in locked'[v] /\ p.article = cur'[v] /\ p.post_id <= seq'
          /\ (Log!Follows(p))'
    BY <1>2, <1>3, <1>4 DEF PendingFollows, Log!Follows
  <2>3. \A p \in rows[w] : p.topic # t
    BY <2>1 DEF PendingFollows
  <2>4. /\ row(t).topic = t /\ row(t).article = cur[w]
        /\ row(t).post_id = seq + 1
    BY DEF row
  <2>5. \A q \in posts' : q.topic = t => q.post_id < seq + 1
    BY <1>2, <1>3 DEF SequenceAhead
  <2>6. ASSUME NEW v \in Workers, NEW p \in rows'[v]
        PROVE  /\ p.topic \in locked'[v] /\ p.article = cur'[v]
               /\ p.post_id <= seq' /\ (Log!Follows(p))'
    <3>1. CASE p \in rows[v]
      BY <2>2, <3>1
    <3>2. CASE p \notin rows[v]
      <4>1. v = w /\ p = row(t) /\ rows'[w] = rows[w] \cup {row(t)}
            /\ ~ \E q \in posts : q.topic = t /\ q.article = cur[w]
        BY <1>4, <1>5, <2>6, <3>2
      <4>2. p.topic \in locked'[v]
        BY <4>1, <2>4, <1>4
      <4>3. p.article = cur'[v]
        BY <4>1, <2>4, <1>2
      <4>4. p.post_id <= seq'
        BY <4>1, <2>4, <1>2, <1>3
      <4>5. (Log!Follows(p))'
        BY <4>1, <2>4, <2>5, <1>2 DEF Log!Follows
      <4>. QED
        BY <4>2, <4>3, <4>4, <4>5
    <3>. QED
      BY <3>1, <3>2
  <2>7. ASSUME NEW v \in Workers, NEW p \in rows'[v], NEW q \in rows'[v],
               q.topic = p.topic
        PROVE  q = p
    BY <1>4, <1>5, <2>3, <2>4, <2>7 DEF PendingFollows
  <2>. QED
    BY <2>6, <2>7 DEF PendingFollows
<1>10. SequenceAhead'
  BY <1>2, <1>3 DEF SequenceAhead
<1>. QED
  BY <1>6, <1>7, <1>8, <1>9, <1>10

\* The commit keeps the invariant: the rows it makes visible are in topics
\* no other transaction holds.
LEMMA CommitKeepsLogInv ==
  ASSUME TypeOK, LogInv, NEW w \in Workers, Commit(w)
  PROVE  LogInv'
<1> USE DEF LogInv
<1>1. /\ EndTransaction(w) /\ seq' = seq /\ posts' = posts \cup rows[w]
      /\ \A v \in Workers \ {w} : pc'[v] = pc[v] /\ cur'[v] = cur[v]
  BY DEF Commit, NextJob, TypeOK
<1>2. CleanOutside'
  BY <1>1, EndTransactionEffect DEF CleanOutside
<1>3. ExclusiveLocks'
  BY <1>1, EndTransactionEffect DEF ExclusiveLocks
<1>4. LockOrder'
  BY <1>1, EndTransactionEffect DEF LockOrder
<1>5. PendingFollows'
  <2>1. ASSUME NEW v \in Workers \ {w}, NEW p \in rows[v], NEW q \in rows[w]
        PROVE  q.topic # p.topic
    BY <2>1 DEF PendingFollows, ExclusiveLocks
  <2>2. \A v \in Workers \ {w} : \A p \in rows[v] : (Log!Follows(p))'
    BY <1>1, <2>1 DEF PendingFollows, Log!Follows
  <2>. QED
    BY <1>1, <2>2, EndTransactionEffect DEF PendingFollows
<1>6. SequenceAhead'
  BY <1>1 DEF SequenceAhead, PendingFollows
<1>. QED
  BY <1>2, <1>3, <1>4, <1>5, <1>6

\* The invariant behind the append-only log: whatever workers race, crash or
\* process an article twice, an uncommitted row of publish_article_topics is
\* guarded by its topic's lock and newer than all that readers see there.
THEOREM LogInvariant == Spec => []LogInv
<1>1. Init => LogInv
  BY DEF Init, LogInv, CleanOutside, ExclusiveLocks, LockOrder,
         PendingFollows, SequenceAhead
<1>2. TypeOK /\ LogInv /\ [Next]_vars => LogInv'
  <2> SUFFICES ASSUME TypeOK, LogInv, [Next]_vars PROVE LogInv'
    OBVIOUS
  <2>1. ASSUME NEW w \in Workers, Claim(w) PROVE LogInv'
    BY <2>1 DEF Claim, txn, LogInv, CleanOutside, ExclusiveLocks, LockOrder,
                PendingFollows, SequenceAhead, Log!Follows
  <2>2. ASSUME NEW w \in Workers, Classify(w) PROVE LogInv'
    <3>1. /\ todo[w] = {} /\ locked[w] = {} /\ rows[w] = {}
          /\ UNCHANGED <<posts, seq, locked, rows>>
          /\ pc' = [pc EXCEPT ![w] = "publish"]
          /\ \A v \in Workers \ {w} : todo'[v] = todo[v] /\ cur'[v] = cur[v]
      BY <2>2 DEF Classify, LogInv, CleanOutside, TypeOK, db
    <3>2. CleanOutside'
      BY <3>1 DEF LogInv, CleanOutside, TypeOK
    <3>3. PendingFollows'
      BY <3>1 DEF LogInv, PendingFollows, Log!Follows
    <3>. QED
      BY <3>1, <3>2, <3>3
        DEF LogInv, ExclusiveLocks, LockOrder, SequenceAhead
  <2>3. ASSUME NEW w \in Workers, PublishNext(w) PROVE LogInv'
    BY <2>3, PublishNextKeepsLogInv
  <2>4. ASSUME NEW w \in Workers, Commit(w) PROVE LogInv'
    BY <2>4, CommitKeepsLogInv
  <2>5. ASSUME NEW w \in Workers, Rollback(w) PROVE LogInv'
    <3>1. \A v \in Workers \ {w} : pc'[v] = pc[v] /\ cur'[v] = cur[v]
      BY <2>5 DEF Rollback, TypeOK
    <3>. QED
      BY <2>5, <3>1, EndTransactionKeepsLogInv DEF Rollback
  <2>6. ASSUME NEW w \in Workers, Error(w) \/ DeadlockAbort(w) PROVE LogInv'
    BY <2>5, <2>6 DEF Error, DeadlockAbort
  <2>7. ASSUME NEW w \in Workers, Fail(w) PROVE LogInv'
    <3>1. todo[w] = {} /\ locked[w] = {} /\ rows[w] = {}
      BY <2>7 DEF Fail, LogInv, CleanOutside
    <3>2. EndTransaction(w)
      BY <2>7, <3>1 DEF Fail, EndTransaction, TypeOK
    <3>3. \A v \in Workers \ {w} : pc'[v] = pc[v] /\ cur'[v] = cur[v]
      BY <2>7 DEF Fail, NextJob, TypeOK
    <3>. QED
      BY <2>7, <3>2, <3>3, EndTransactionKeepsLogInv DEF Fail
  <2>8. ASSUME NEW w \in Workers, Crash(w) PROVE LogInv'
    <3>1. \A v \in Workers \ {w} : pc'[v] = pc[v] /\ cur'[v] = cur[v]
      BY <2>8 DEF Crash, TypeOK
    <3>. QED
      BY <2>8, <3>1, EndTransactionKeepsLogInv DEF Crash, db
  <2>9. CASE \/ \E a \in Articles : Lapse(a) \/ BackOff(a)
             \/ UNCHANGED vars
    BY <2>9 DEF Lapse, BackOff, vars, txn, LogInv, CleanOutside,
                ExclusiveLocks, LockOrder, PendingFollows, SequenceAhead,
                Log!Follows
  <2>. QED
    BY <2>1, <2>2, <2>3, <2>4, <2>6, <2>7, <2>8, <2>9 DEF Next, WorkerStep
<1>. QED
  BY <1>1, <1>2, TypeCorrect, PTL DEF Spec

\* Every topic is an append-only log of distinct articles: the readers' marks
\* last_pushed_post_id and last_seen_post_id never overtake a post that is
\* still to appear (publish_article_topics).
THEOREM TopicLogImplemented == Spec => ImplementsTopicLog
<1>1. Init => Log!Init
  BY DEF Init, Log!Init
<1>2. TypeOK /\ LogInv /\ [Next]_vars => [Log!Next]_posts
  <2> SUFFICES ASSUME TypeOK, LogInv, [Next]_vars PROVE [Log!Next]_posts
    OBVIOUS
  <2>1. ASSUME NEW w \in Workers, Commit(w) PROVE Log!Next
    <3> DEFINE new == posts' \ posts
    <3>1. posts' = posts \cup rows[w] /\ cur[w] \in Articles
      BY <2>1 DEF Commit, TypeOK
    <3>2. new \subseteq rows[w] /\ posts' = posts \cup new
      BY <3>1
    <3>3. new \subseteq Log!Post
      BY <3>2 DEF TypeOK
    <3>4. \A p \in new : p.article = cur[w] /\ Log!Follows(p)
      BY <3>2 DEF LogInv, PendingFollows
    <3>5. \A p, q \in new : p.topic = q.topic => p = q
      BY <3>2 DEF LogInv, PendingFollows
    <3>6. Log!Publish(cur[w], new)
      BY <3>2, <3>3, <3>4, <3>5 DEF Log!Publish
    <3>. QED
      BY <3>1, <3>6 DEF Log!Next
  <2>2. ASSUME NEW w \in Workers,
               Claim(w) \/ Classify(w) \/ PublishNext(w) \/ Fail(w)
                 \/ DeadlockAbort(w) \/ Error(w) \/ Crash(w)
        PROVE  posts' = posts
    BY <2>2 DEF Claim, Classify, PublishNext, Fail, DeadlockAbort, Error,
                Crash, Rollback, db
  <2>3. CASE \/ \E a \in Articles : Lapse(a) \/ BackOff(a)
             \/ UNCHANGED vars
    BY <2>3 DEF Lapse, BackOff, vars
  <2>. QED
    BY <2>1, <2>2, <2>3 DEF Next, WorkerStep
<1>. QED
  BY <1>1, <1>2, TypeCorrect, LogInvariant, PTL
    DEF Spec, ImplementsTopicLog, Log!Spec

-----------------------------------------------------------------------------
(* The order of the locks. *)

\* Unless two topics collide under hashtext, publishing transactions never
\* wait for each other in a circle: who waits for the least of the topics
\* waited for is itself waited for, so it holds one of them, which, as topics
\* are locked in order, is even less (the sorted() in publish_article_topics).
THEOREM LockOrderPreventsDeadlock == Spec => []NoWaitCycle
<1>1. TypeOK /\ LogInv => NoWaitCycle
  <2> SUFFICES ASSUME TypeOK, LogInv,
                      NEW S \in SUBSET Workers, S # {}, WaitCycle(S),
                      ~Collision(S)
               PROVE  FALSE
    BY DEF NoWaitCycle
  <2> DEFINE Awaited(w, v) == NextTopics(w) \cap locked[v]
             awaited == {t \in Topics : \E w, v \in S : t \in Awaited(w, v)}
  <2>1. ASSUME NEW v \in S, NEW w \in S, WaitsFor(w, v)
        PROVE  Awaited(w, v) # {}
    <3>1. NextTopics(w) \subseteq Topics /\ locked[v] \subseteq Topics
      BY DEF NextTopics, TypeOK
    <3>. QED
      BY <2>1, <3>1 DEF WaitsFor, Collision
  <2>2. \A w, v \in S : Awaited(w, v) \subseteq awaited
    BY DEF NextTopics, TypeOK
  <2>3. awaited # {}
    <3>1. PICK w \in S, v \in S : WaitsFor(w, v)
      BY DEF WaitCycle
    <3>. QED
      BY <3>1, <2>1, <2>2
  <2>4. awaited \subseteq Nat
    BY ClassificationAssumption
  <2>5. PICK least \in awaited : \A t \in awaited : ~ (t < least)
    <3> HIDE DEF awaited
    <3>1. PICK m \in awaited :
            \A t \in awaited : <<t, m>> \notin OpToRel(<, Nat)
      BY <2>3, <2>4, WFMin, NatLessThanWellFounded, Zenon
    <3>. QED
      BY <2>4, <3>1, Zenon DEF OpToRel
  <2>6. PICK w \in S, v \in S : least \in Awaited(w, v)
    BY <2>5
  <2>7. PICK x \in S : WaitsFor(x, w)
    BY <2>6 DEF WaitCycle
  <2>8. PICK t \in Awaited(x, w) : TRUE
    BY <2>1, <2>7
  <2>9. t \in awaited /\ t \in locked[w] /\ least \in todo[w]
    BY <2>2, <2>6, <2>8 DEF NextTopics
  <2>10. t < least
    BY <2>9 DEF LogInv, LockOrder
  <2>. QED
    BY <2>4, <2>5, <2>9, <2>10
<1>. QED
  BY <1>1, TypeCorrect, LogInvariant, PTL

-----------------------------------------------------------------------------
(* Whole answers. *)

\* A classifier that repeats itself: what it says of an article when its job
\* is processed again is cut to the same topics as before.
Repeats ==
  \A a \in Articles : \A x, y \in Answers[a] : Accepted(x) = Accepted(y)

IsAnswer(a, S) == \E answer \in Answers[a] : S = Accepted(answer)

\* The topics that the article of w is visible in once w commits.
Covered(w) ==
  PostedTo(cur[w]) \cup todo[w] \cup {p.topic : p \in rows[w]}

\* Whatever is visible of an article by the time its transaction commits, the
\* commit makes it a whole answer.
AnswerInv ==
  /\ \A a \in Articles : PostedTo(a) # {} \/ job[a].status = "done"
       => IsAnswer(a, PostedTo(a))
  /\ \A w \in Workers : pc[w] = "publish" => IsAnswer(cur[w], Covered(w))

\* A step that publishes nothing, completes no job and begins no transaction.
LEMMA QuietAnswers ==
  ASSUME AnswerInv, posts' = posts,
         \A a \in Articles : job'[a].status = "done" => job[a].status = "done",
         \A w \in Workers : pc'[w] = "publish" =>
           pc[w] = "publish" /\ cur'[w] = cur[w] /\ Covered(w)' = Covered(w)
  PROVE  AnswerInv'
<1>1. \A a : PostedTo(a)' = PostedTo(a)
  BY DEF PostedTo
<1>2. \A a \in Articles : PostedTo(a)' # {} \/ job'[a].status = "done"
        => IsAnswer(a, PostedTo(a)')
  BY <1>1 DEF AnswerInv
<1>3. \A w \in Workers : pc'[w] = "publish" => IsAnswer(cur'[w], Covered(w)')
  BY DEF AnswerInv
<1>. QED
  BY <1>2, <1>3 DEF AnswerInv, IsAnswer

\* The next topic is inserted, or is visible already.
LEMMA PublishNextCovers ==
  ASSUME TypeOK, NEW w \in Workers, PublishNext(w), NEW v \in Workers
  PROVE  Covered(v)' = Covered(v)
<1> DEFINE row(t) == [topic |-> t, post_id |-> seq + 1, article |-> cur[w]]
<1>1. PICK t \in todo[w] :
        /\ todo' = [todo EXCEPT ![w] = @ \ {t}]
        /\ \/ rows' = rows /\ \E p \in posts : p.topic = t /\ p.article = cur[w]
           \/ rows' = [rows EXCEPT ![w] = @ \cup {row(t)}]
  BY DEF PublishNext, NextTopics
<1>2. UNCHANGED <<posts, cur>>
  BY DEF PublishNext
<1>3. Covered(v)' =
        PostedTo(cur[v]) \cup todo'[v] \cup {p.topic : p \in rows'[v]}
  BY <1>2 DEF Covered, PostedTo
<1>4. CASE v # w
  <2>1. todo'[v] = todo[v] /\ rows'[v] = rows[v]
    BY <1>1, <1>4 DEF TypeOK
  <2>. QED
    BY <1>3, <2>1 DEF Covered
<1>5. CASE v = w
  <2>1. todo'[w] = todo[w] \ {t}
    BY <1>1 DEF TypeOK
  <2>2. CASE rows' = rows /\ t \in PostedTo(cur[w])
    BY <1>3, <1>5, <2>1, <2>2 DEF Covered
  <2>3. CASE rows' = [rows EXCEPT ![w] = @ \cup {row(t)}]
    <3>1. rows'[w] = rows[w] \cup {row(t)} /\ row(t).topic = t
      BY <2>3 DEF TypeOK
    <3>2. {p.topic : p \in rows'[w]} = {p.topic : p \in rows[w]} \cup {t}
      BY <3>1
    <3>. QED
      BY <1>3, <1>5, <2>1, <3>2 DEF Covered
  <2>4. rows' = rows => t \in PostedTo(cur[w]) \/ rows' # rows \/
                        rows' = [rows EXCEPT ![w] = @ \cup {row(t)}]
    BY <1>1 DEF PostedTo
  <2>. QED
    BY <1>1, <2>2, <2>3, <2>4
<1>. QED
  BY <1>4, <1>5

\* The commit completes the answer, and adds nothing to what other
\* transactions for the article are to complete.
LEMMA CommitAnswers ==
  ASSUME Repeats, TypeOK, LogInv, AnswerInv, NEW w \in Workers, Commit(w)
  PROVE  AnswerInv'
<1>0. PICK a \in Articles : a = cur[w]
  BY DEF Commit, TypeOK
<1>1. /\ todo[w] = {} /\ pc[w] = "publish"
      /\ posts' = posts \cup rows[w]
      /\ \A p \in rows[w] : p.article = a
      /\ \A b \in Articles \ {a} : job'[b] = job[b]
      /\ pc'[w] = "ready"
      /\ \A v \in Workers \ {w} :
           /\ pc'[v] = pc[v] /\ cur'[v] = cur[v]
           /\ todo'[v] = todo[v] /\ rows'[v] = rows[v]
  BY <1>0 DEF Commit, NextJob, EndTransaction, TypeOK, LogInv, PendingFollows
<1>2. \A b : PostedTo(b)' = PostedTo(b) \cup
              {p.topic : p \in {q \in rows[w] : q.article = b}}
  BY <1>1 DEF PostedTo
<1>6. /\ \A b \in Articles \ {a} : PostedTo(b)' = PostedTo(b)
      /\ PostedTo(a)' = PostedTo(a) \cup {p.topic : p \in rows[w]}
  <2>1. {q \in rows[w] : q.article = a} = rows[w]
    BY <1>1
  <2>2. \A b \in Articles \ {a} : {q \in rows[w] : q.article = b} = {}
    BY <1>1
  <2>. QED
    BY <1>2, <2>1, <2>2
<1>3. IsAnswer(a, Covered(w)) /\ PostedTo(a)' = Covered(w)
  BY <1>0, <1>1, <1>6 DEF AnswerInv, Covered
<1>4. ASSUME NEW b \in Articles, PostedTo(b)' # {} \/ job'[b].status = "done"
      PROVE  IsAnswer(b, PostedTo(b)')
  BY <1>1, <1>3, <1>4, <1>6 DEF AnswerInv
<1>5. ASSUME NEW v \in Workers, pc'[v] = "publish"
      PROVE  IsAnswer(cur'[v], Covered(v)')
  <2>1. v # w /\ pc[v] = "publish" /\ IsAnswer(cur[v], Covered(v))
    BY <1>1, <1>5 DEF AnswerInv
  <2>2. cur[v] \in Articles
    BY <2>1 DEF TypeOK
  <2>3. CASE cur[v] = a
    <3>1. Covered(v) = Covered(w)
      BY <1>1, <1>3, <2>1, <2>3 DEF Repeats, IsAnswer
    <3>2. Covered(v)' = Covered(v)
      BY <1>1, <1>3, <2>1, <2>3, <3>1 DEF Covered
    <3>. QED
      BY <1>1, <2>1, <3>2
  <2>4. CASE cur[v] # a
    BY <1>1, <1>2, <2>1, <2>2, <2>4 DEF Covered, PostedTo
  <2>. QED
    BY <2>3, <2>4
<1>. QED
  BY <1>4, <1>5 DEF AnswerInv, IsAnswer

\* If the classifier repeats itself, an article is visible in all the topics
\* it was accepted to or in none, and in all once its job is done: whichever
\* workers process it at the same time, fail, crash or do so again, half an
\* answer is never committed and no answer is added to (publish_article_topics
\* and complete_classify_job in one transaction).
THEOREM AnswersWhole ==
  ASSUME Repeats
  PROVE  Spec => []OneAnswer
<1>1. Init => AnswerInv
  <2> SUFFICES ASSUME Init PROVE AnswerInv
    OBVIOUS
  <2>1. \A a \in Articles : PostedTo(a) = {} /\ job[a].status # "done"
    BY DEF Init, PostedTo, NewJob
  <2>. QED
    BY <2>1 DEF Init, AnswerInv
<1>2. TypeOK /\ LogInv /\ AnswerInv /\ [Next]_vars => AnswerInv'
  <2> SUFFICES ASSUME TypeOK, LogInv, AnswerInv, [Next]_vars PROVE AnswerInv'
    OBVIOUS
  <2>1. ASSUME NEW w \in Workers, Classify(w) PROVE AnswerInv'
    <3>0. PICK a \in Articles : \E answer \in Answers[a] :
            /\ cur' = [cur EXCEPT ![w] = a]
            /\ todo' = [todo EXCEPT ![w] = Accepted(answer)]
      BY <2>1 DEF Classify, Batch
    <3>1. PICK answer \in Answers[a] :
            /\ cur' = [cur EXCEPT ![w] = a]
            /\ todo' = [todo EXCEPT ![w] = Accepted(answer)]
      BY <3>0
    <3>2. /\ UNCHANGED <<posts, job, rows>> /\ rows[w] = {}
          /\ pc' = [pc EXCEPT ![w] = "publish"]
      BY <2>1 DEF Classify, db, LogInv, CleanOutside
    <3>3. \A b : PostedTo(b)' = PostedTo(b)
      BY <3>2 DEF PostedTo
    <3>4. PostedTo(a) \subseteq Accepted(answer)
      BY <3>1 DEF AnswerInv, IsAnswer, Repeats
    <3>5. Covered(w)' = Accepted(answer) /\ cur'[w] = a
      BY <3>1, <3>2, <3>3, <3>4 DEF Covered, TypeOK
    <3>6. \A v \in Workers \ {w} :
            pc'[v] = pc[v] /\ cur'[v] = cur[v] /\ Covered(v)' = Covered(v)
      BY <3>1, <3>2, <3>3 DEF Covered, TypeOK
    <3>. QED
      BY <3>1, <3>2, <3>3, <3>5, <3>6 DEF AnswerInv, IsAnswer
  <2>2. ASSUME NEW w \in Workers, PublishNext(w) PROVE AnswerInv'
    BY <2>2, PublishNextCovers, QuietAnswers DEF PublishNext
  <2>3. ASSUME NEW w \in Workers, Commit(w) PROVE AnswerInv'
    BY <2>3, CommitAnswers
  <2>4. ASSUME NEW w \in Workers, pc'[w] # "publish", posts' = posts,
               \A a \in Articles :
                 job'[a].status = "done" => job[a].status = "done",
               \A v \in Workers \ {w} :
                 /\ pc'[v] = pc[v] /\ cur'[v] = cur[v]
                 /\ todo'[v] = todo[v] /\ rows'[v] = rows[v]
        PROVE  AnswerInv'
    <3>1. \A v \in Workers \ {w} : Covered(v)' = Covered(v)
      BY <2>4 DEF Covered, PostedTo
    <3>. QED
      BY <2>4, <3>1, QuietAnswers
  <2>5. ASSUME NEW w \in Workers, Error(w) \/ DeadlockAbort(w) \/ Crash(w)
        PROVE  AnswerInv'
    BY <2>4, <2>5 DEF Error, DeadlockAbort, Crash, Rollback, EndTransaction,
                      db, TypeOK
  <2>6. ASSUME NEW w \in Workers, Claim(w) \/ Fail(w) PROVE AnswerInv'
    <3>1. \A a \in Articles :
            job'[a].status = "done" => job[a].status = "done"
      <4>1. CASE Claim(w)
        <5>1. \A a \in Articles : Claimed(job[a]).status # "done"
          BY DEF Claimed, TypeOK, JobRow
        <5>. QED
          BY <4>1, <5>1 DEF Claim
      <4>2. CASE Fail(w)
        <5> DEFINE row ==
              FailedAttempt(job[cur[w]], seen[w][cur[w]], MaxAttempts)
        <5>1. row.status # "done"
          BY <4>2 DEF Fail, FailedAttempt, TypeOK, JobRow
        <5> HIDE DEF row
        <5>2. job' = [job EXCEPT ![cur[w]] = row]
          BY <4>2 DEF Fail, row
        <5>. QED
          BY <5>1, <5>2 DEF TypeOK
      <4>. QED
        BY <2>6, <4>1, <4>2
    <3>. QED
      BY <2>4, <2>6, <3>1 DEF Claim, Fail, NextJob, txn, TypeOK
  <2>7. ASSUME NEW a \in Articles, Lapse(a) \/ BackOff(a) PROVE AnswerInv'
    <3>1. \A b \in Articles : job'[b].status = job[b].status
      <4>1. /\ Lapsed(job[a]).status = job[a].status
            /\ BackedOff(job[a]).status = job[a].status
        BY DEF Lapsed, BackedOff, TypeOK, JobRow
      <4>. QED
        BY <2>7, <4>1 DEF Lapse, BackOff, TypeOK
    <3>. QED
      BY <2>7, <3>1, QuietAnswers
        DEF Lapse, BackOff, txn, Covered, PostedTo
  <2>8. CASE UNCHANGED vars
    BY <2>8, QuietAnswers DEF vars, Covered, PostedTo
  <2>. QED
    BY <2>1, <2>2, <2>3, <2>5, <2>6, <2>7, <2>8 DEF Next, WorkerStep
<1>3. AnswerInv => OneAnswer
  BY DEF AnswerInv, OneAnswer, IsAnswer
<1>. QED
  BY <1>1, <1>2, <1>3, TypeCorrect, LogInvariant, PTL DEF Spec
=============================================================================
