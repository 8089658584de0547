---------------------------- MODULE ServiceProofs ----------------------------
(***************************************************************************)
(* Theorems about Service and its rate limiter, for any number of processes *)
(* and tasks, any rate and any size of multicast.                           *)
(***************************************************************************)
EXTENDS Service, SequenceTheorems, TLAPS

LimiterOK == LimiterTypeOK /\ RateInv /\ SleepSuffices

\* The bucket holds a second's worth, and anything that is asked for.
LEMMA CapFacts ==
  /\ Cap \in Nat /\ Burst <= Cap /\ MaxAmount <= Cap
  /\ \A n \in 1 .. MaxAmount : Capacity(n) \in 1 .. Cap /\ n <= Capacity(n)
  BY RateLimiterAssumption DEF Cap, Capacity, Larger

\* A new limiter is in order.
LEMMA InitOK == LimiterInit => LimiterOK
<1> SUFFICES ASSUME LimiterInit PROVE LimiterOK
  OBVIOUS
<1>1. <<>> \in Seq(Call)
  BY EmptySeq
<1>. QED
  BY <1>1, CapFacts, RateLimiterAssumption
    DEF LimiterInit, Awake, LimiterOK, LimiterTypeOK, RateInv, RateHolds, Saved,
        SleepSuffices

LEMMA EndOK == LimiterEnds => LimiterOK'
<1> SUFFICES ASSUME LimiterEnds PROVE LimiterOK'
  OBVIOUS
<1>1. queue' \in Seq(Call)
  BY EmptySeq DEF LimiterEnds
<1>. QED
  BY <1>1, CapFacts, RateLimiterAssumption
    DEF LimiterEnds, Awake, LimiterOK, LimiterTypeOK, RateInv, RateHolds, Saved,
        SleepSuffices

\* A call that joins the queue leaves its head alone.
LEMMA AcquireOK ==
  ASSUME LimiterOK, NEW c \in Callers, Acquire(c)
  PROVE  LimiterOK'
<1>1. PICK n \in 1 .. MaxAmount :
        queue' = Append(queue, [caller |-> c, amount |-> n])
  BY DEF Acquire
<1>2. queue \in Seq(Call) /\ [caller |-> c, amount |-> n] \in Call
  BY DEF LimiterOK, LimiterTypeOK, Call
<1>3. /\ queue' \in Seq(Call) /\ queue' # <<>>
      /\ queue # <<>> => Head(queue') = Head(queue)
  BY <1>1, <1>2, AppendProperties
<1>. QED
  BY <1>3 DEF Acquire, LimiterOK, LimiterTypeOK, RateInv, RateHolds, Saved,
              SleepSuffices, Refilled

\* What is left when a call is removed from the queue.
LEMMA RemoveCall ==
  ASSUME NEW q \in Seq(Call), NEW i \in DOMAIN q
  PROVE  /\ RemoveAt(q, i) \in Seq(Call) /\ Len(RemoveAt(q, i)) = Len(q) - 1
         /\ \A k \in 1 .. Len(q) - 1 :
              RemoveAt(q, i)[k] = IF k < i THEN q[k] ELSE q[k + 1]
<1> DEFINE a == SubSeq(q, 1, i - 1)
           b == SubSeq(q, i + 1, Len(q))
<1>1. i \in 1 .. Len(q) /\ Len(q) \in Nat
  OBVIOUS
<1>2. /\ a \in Seq(Call) /\ Len(a) = i - 1
      /\ \A k \in 1 .. i - 1 : a[k] = q[k]
  <2>1. \A k \in 1 .. i - 1 : q[k] \in Call
    BY <1>1
  <2>. QED
    BY <1>1, <2>1, SubSeqProperties
<1>3. /\ b \in Seq(Call) /\ Len(b) = Len(q) - i
      /\ \A k \in 1 .. Len(q) - i : b[k] = q[k + i]
  <2>1. \A k \in i + 1 .. Len(q) : q[k] \in Call
    BY <1>1
  <2>. QED
    BY <1>1, <2>1, SubSeqProperties
<1>4. /\ a \o b \in Seq(Call) /\ Len(a \o b) = Len(a) + Len(b)
      /\ \A k \in 1 .. Len(a) + Len(b) :
           (a \o b)[k] = IF k <= Len(a) THEN a[k] ELSE b[k - Len(a)]
  BY <1>2, <1>3, ConcatProperties
<1> HIDE DEF a, b
<1>5. ASSUME NEW k \in 1 .. Len(q) - 1
      PROVE  (a \o b)[k] = IF k < i THEN q[k] ELSE q[k + 1]
  <2>0. k \in 1 .. Len(a) + Len(b)
    BY <1>1, <1>2, <1>3
  <2>1. CASE k < i
    <3>1. k \in 1 .. i - 1 /\ k <= Len(a)
      BY <1>1, <1>2, <2>1
    <3>. QED
      BY <1>2, <1>4, <2>0, <2>1, <3>1
  <2>2. CASE ~ k < i
    <3>1. /\ k - Len(a) \in 1 .. Len(q) - i /\ (k - Len(a)) + i = k + 1
          /\ ~ k <= Len(a)
      BY <1>1, <1>2, <2>2
    <3>2. b[k - Len(a)] = q[k + 1]
      BY <1>3, <3>1
    <3>. QED
      BY <1>4, <2>0, <2>2, <3>1, <3>2
  <2>. QED
    BY <2>1, <2>2
<1>6. Len(a) + Len(b) = Len(q) - 1
  BY <1>1, <1>2, <1>3
<1>. QED
  BY <1>4, <1>5, <1>6 DEF RemoveAt, a, b

LEMMA CancelOK ==
  ASSUME LimiterOK, NEW c \in Callers, CancelCall(c)
  PROVE  LimiterOK'
<1>1. PICK i \in DOMAIN queue :
        /\ queue' = RemoveAt(queue, i)
        /\ sleep' = IF i = 1 THEN Awake ELSE sleep
  BY DEF CancelCall
<1>2. queue \in Seq(Call)
  BY DEF LimiterOK, LimiterTypeOK, Call
<1>3. /\ queue' \in Seq(Call)
      /\ i # 1 => queue' # <<>> /\ Head(queue') = Head(queue)
  <2>1. i \in 1 .. Len(queue) /\ Len(queue) \in Nat
    BY <1>2
  <2>2. queue' \in Seq(Call) /\ Len(queue') = Len(queue) - 1
    BY <1>1, <1>2, RemoveCall
  <2>3. i # 1 => 1 \in 1 .. Len(queue) - 1
    BY <2>1
  <2>4. i # 1 => queue'[1] = queue[1]
    <3>1. \A k \in 1 .. Len(queue) - 1 :
            queue'[k] = IF k < i THEN queue[k] ELSE queue[k + 1]
      BY <1>1, <1>2, RemoveCall
    <3>. QED
      BY <2>1, <2>3, <3>1
  <2>5. i # 1 => queue # <<>> /\ queue' # <<>>
    BY <2>1, <2>2, <2>3
  <2>. QED
    BY <1>2, <2>2, <2>4, <2>5
<1>. QED
  BY <1>1, <1>3, RateLimiterAssumption
    DEF CancelCall, LimiterOK, LimiterTypeOK, RateInv, RateHolds, Saved,
        SleepSuffices, Refilled, Awake

\* Time that passes is no more than the window grows older.
LEMMA TickOK ==
  ASSUME LimiterOK, Tick
  PROVE  LimiterOK'
<1> USE CapFacts, RateLimiterAssumption DEF Awake
<1>1. LimiterTypeOK'
  BY DEF Tick, LimiterOK, LimiterTypeOK, Larger, Smaller
<1>2. RateInv'
  BY DEF Tick, LimiterOK, LimiterTypeOK, RateInv, RateHolds, Saved, Smaller
<1>3. SleepSuffices'
  <2> SUFFICES ASSUME sleep # Awake PROVE SleepSuffices'
    BY DEF Tick, SleepSuffices
  <2> DEFINE n == Head(queue).amount
  <2>1. queue # <<>> /\ Refilled(n) + sleep >= n
    BY DEF LimiterOK, SleepSuffices
  <2>2. n \in 1 .. MaxAmount
    <3>1. queue \in Seq(Call)
      BY DEF LimiterOK, LimiterTypeOK
    <3>2. Head(queue) \in Call
      BY <2>1, <3>1, HeadTailProperties
    <3>. QED
      BY <3>2 DEF Call
  <2>3. Capacity(n) \in 1 .. Cap /\ n <= Capacity(n)
    BY <2>2
  <2> HIDE DEF n
  <2>4. Smaller(Capacity(n), allowance + Smaller(elapsed + 1, Cap))
          + (IF sleep > 0 THEN sleep - 1 ELSE sleep) >= n
    BY <2>1, <2>2, <2>3 DEF LimiterOK, LimiterTypeOK, Refilled, Smaller, Awake
  <2>. QED
    BY <2>1, <2>4 DEF Tick, SleepSuffices, Refilled, n, Capacity
<1>. QED
  BY <1>1, <1>2, <1>3 DEF LimiterOK

\* What is granted was in the bucket, and what is in the bucket was saved up.
LEMMA RefillOK ==
  ASSUME LimiterOK, Refill
  PROVE  LimiterOK'
<1> USE CapFacts, RateLimiterAssumption DEF Awake
<1> DEFINE n == Head(queue).amount
           tokens == Refilled(n)
<1>1. /\ queue # <<>> /\ queue \in Seq(Call)
      /\ Head(queue) \in Call /\ Tail(queue) \in Seq(Call)
  BY HeadTailProperties DEF Refill, LimiterOK, LimiterTypeOK, Call
<1>2. n \in 1 .. MaxAmount
  BY <1>1 DEF Call
<1>3. /\ Capacity(n) \in 1 .. Cap /\ n <= Capacity(n)
      /\ allowance \in 0 .. Cap /\ elapsed \in 0 .. Cap
      /\ age \in 0 .. MaxAge /\ granted \in Nat
  BY <1>2 DEF LimiterOK, LimiterTypeOK
<1>4. /\ tokens \in 0 .. Cap /\ tokens <= allowance + elapsed
      /\ tokens <= Capacity(n)
  BY <1>3 DEF Refilled, Smaller
<1>5. granted + tokens <= Cap + age
  BY <1>3, <1>4 DEF LimiterOK, RateInv, Saved
<1>6. elapsed' = 0 /\ UNCHANGED age
  BY DEF Refill, SinceUpdate
<1>7. CASE tokens >= n
  <2>1. /\ allowance' = tokens - n /\ granted' = granted + n
        /\ queue' = Tail(queue) /\ sleep' = Awake
    BY <1>2, <1>4, <1>7 DEF Refill
  <2> HIDE DEF n, tokens
  <2>. QED
    BY <1>1, <1>2, <1>3, <1>4, <1>5, <1>6, <1>7, <2>1
      DEF LimiterOK, LimiterTypeOK, RateInv, RateHolds, Saved, SleepSuffices
<1>8. CASE tokens < n
  <2>1. /\ allowance' = tokens /\ sleep' = n - tokens
        /\ UNCHANGED <<granted, queue>>
    BY <1>2, <1>4, <1>8 DEF Refill
  <2>2. SleepSuffices'
    BY <1>1, <1>2, <1>4, <1>6, <2>1 DEF SleepSuffices, Refilled, Smaller, Capacity
  <2> HIDE DEF n, tokens
  <2>. QED
    BY <1>1, <1>2, <1>3, <1>4, <1>5, <1>6, <1>8, <2>1, <2>2
      DEF LimiterOK, LimiterTypeOK, RateInv, RateHolds, Saved
<1>. QED
  BY <1>2, <1>4, <1>7, <1>8

\* Every step of a process keeps the limiter in order.
LEMMA LimiterInvariant == Spec => []LimiterOK
<1>1. Init => LimiterOK /\ tasks \subseteq Callers
  BY InitOK DEF Init
<1>2. tasks \subseteq Callers /\ [Next]_service => (tasks \subseteq Callers)'
  BY DEF Next, Boot, Lock, Migrate, Shutdown, Close, Exit, Crash, End, TaskEnds,
         Sending, service
<1>3. LimiterOK /\ tasks \subseteq Callers /\ [Next]_service => LimiterOK'
  <2> SUFFICES ASSUME LimiterOK, tasks \subseteq Callers, [Next]_service
      PROVE  LimiterOK'
    OBVIOUS
  <2>1. UNCHANGED limiter => LimiterOK'
    BY DEF limiter, LimiterOK, LimiterTypeOK, RateInv, RateHolds, Saved,
           SleepSuffices, Refilled
  <2>2. ASSUME NEW p \in Processes, End(p) PROVE LimiterOK'
    BY <2>1, <2>2, EndOK DEF End
  <2>3. ASSUME NEW p \in Processes,
               \/ Boot(p) \/ Lock(p) \/ Migrate(p) \/ Shutdown(p) \/ Close(p)
               \/ Exit(p) \/ Crash(p)
        PROVE  LimiterOK'
    BY <2>1, <2>2, <2>3 DEF Boot, Lock, Migrate, Shutdown, Close, Exit, Crash
  <2>4. ASSUME NEW c \in Callers, TaskEnds(c) PROVE LimiterOK'
    BY <2>1, <2>4, CancelOK DEF TaskEnds
  <2>5. CASE Sending
    BY <2>5, AcquireOK, RefillOK, TickOK DEF Sending
  <2>. QED
    BY <2>1, <2>3, <2>4, <2>5 DEF Next, service
<1>. QED
  BY <1>1, <1>2, <1>3, PTL DEF Spec

\* Over every window of time, no more tokens are granted than the rate and one
\* full bucket allow, whatever is asked for, cancelled or restarted (acquire).
THEOREM RateNeverExceeded == Spec => []RateInv
<1>1. LimiterOK => RateInv
  BY DEF LimiterOK
<1>. QED
  BY <1>1, LimiterInvariant, PTL

\* No caller sleeps twice (acquire).
THEOREM SleepsOnce == Spec => []SleepSuffices
<1>1. LimiterOK => SleepSuffices
  BY DEF LimiterOK
<1>. QED
  BY <1>1, LimiterInvariant, PTL

\* One transaction at a time runs the script, and if it has found no schema,
\* there is still none.
OneStarts ==
  /\ stage \in [Processes -> Stages]
  /\ \A p, q \in Processes :
       {stage[p], stage[q]} \subseteq {"creating", "checking"} => p = q
  /\ \A p \in Processes : ~Clash(p)

\* However many processes start at once, and whichever are killed on the way,
\* nobody's script meets the tables of another (apply_schema).
THEOREM StartsApart == Spec => []NoStartFails
<1>1. Init => OneStarts /\ NoStartFails
  BY DEF Init, OneStarts, NoStartFails, Stages, Clash
<1>2. OneStarts /\ NoStartFails /\ [Next]_service => (OneStarts /\ NoStartFails)'
  <2> SUFFICES ASSUME OneStarts, NoStartFails, [Next]_service
      PROVE  (OneStarts /\ NoStartFails)'
    OBVIOUS
  <2> USE DEF OneStarts, NoStartFails, Stages, Clash
  <2>1. UNCHANGED <<stage, schema>> => (OneStarts /\ NoStartFails)'
    OBVIOUS
  <2>2. ASSUME NEW p \in Processes, NEW label \in Stages,
               Enter(p, label), UNCHANGED schema,
               label \notin {"creating", "checking", "failed"}
        PROVE  (OneStarts /\ NoStartFails)'
    BY <2>2 DEF Enter
  <2>3. ASSUME NEW p \in Processes, Lock(p) PROVE (OneStarts /\ NoStartFails)'
    BY <2>3 DEF Lock, LockFree, Enter
  <2>4. ASSUME NEW p \in Processes, Migrate(p) PROVE (OneStarts /\ NoStartFails)'
    BY <2>4 DEF Migrate, Enter
  <2>5. ASSUME NEW p \in Processes,
               Boot(p) \/ Shutdown(p) \/ Close(p) \/ Exit(p) \/ Crash(p)
        PROVE  (OneStarts /\ NoStartFails)'
    BY <2>2, <2>5 DEF Boot, Shutdown, Close, Exit, Crash, End
  <2>6. CASE Sending \/ \E c \in Callers : TaskEnds(c)
    BY <2>1, <2>6 DEF Sending, TaskEnds
  <2>. QED
    BY <2>1, <2>3, <2>4, <2>5, <2>6 DEF Next, service
<1>. QED
  BY <1>1, <1>2, PTL DEF Spec

-----------------------------------------------------------------------------
(* Tasks and connections. *)

\* A task has one call at a time.
OneCallEach ==
  \A i, j \in DOMAIN queue : queue[i].caller = queue[j].caller => i = j

\* What a step of the limiter does to the calls that wait.
LEMMA AcquireWaits ==
  ASSUME LimiterTypeOK, OneCallEach, NEW c \in Callers, Acquire(c)
  PROVE  OneCallEach' /\ Waiting' \subseteq Waiting \cup {c}
<1>1. PICK n \in 1 .. MaxAmount :
        queue' = Append(queue, [caller |-> c, amount |-> n])
  BY DEF Acquire
<1> DEFINE call == [caller |-> c, amount |-> n]
<1>2. queue \in Seq(Call) /\ call \in Call /\ call.caller = c
  BY DEF LimiterTypeOK, Call
<1> HIDE DEF call
<1>3. /\ Len(queue) \in Nat /\ DOMAIN queue = 1 .. Len(queue)
      /\ DOMAIN queue' = 1 .. Len(queue) + 1
      /\ \A k \in 1 .. Len(queue) : queue'[k] = queue[k]
      /\ queue'[Len(queue) + 1].caller = c
  BY <1>1, <1>2, AppendProperties DEF call
<1>4. \A k \in 1 .. Len(queue) : queue[k].caller # c
  BY <1>3 DEF Acquire, Waiting
<1>. QED
  BY <1>3, <1>4 DEF OneCallEach, Waiting

LEMMA CallRemoved ==
  ASSUME OneCallEach, queue \in Seq(Call), NEW i \in DOMAIN queue,
         DOMAIN queue' = 1 .. Len(queue) - 1,
         \A k \in 1 .. Len(queue) - 1 :
           queue'[k] = IF k < i THEN queue[k] ELSE queue[k + 1]
  PROVE  OneCallEach' /\ Waiting' \subseteq Waiting \ {queue[i].caller}
<1> DEFINE old(k) == IF k < i THEN k ELSE k + 1
<1>1. DOMAIN queue = 1 .. Len(queue) /\ Len(queue) \in Nat
  OBVIOUS
<1>2. ASSUME NEW k \in DOMAIN queue'
      PROVE  /\ k \in Nat /\ old(k) \in DOMAIN queue /\ old(k) # i
             /\ queue'[k] = queue[old(k)]
  BY <1>1
<1>3. \A j, k \in Nat : old(j) = old(k) => j = k
  BY <1>1
<1> HIDE DEF old
<1>4. OneCallEach'
  BY <1>2, <1>3 DEF OneCallEach
<1>5. ASSUME NEW k \in DOMAIN queue'
      PROVE  queue'[k].caller \in Waiting \ {queue[i].caller}
  BY <1>2 DEF OneCallEach, Waiting
<1>. QED
  BY <1>4, <1>5 DEF Waiting

LEMMA RefillWaits ==
  ASSUME LimiterTypeOK, OneCallEach, Refill
  PROVE  OneCallEach' /\ Waiting' \subseteq Waiting
<1>1. CASE queue' = queue
  BY <1>1 DEF OneCallEach, Waiting
<1>2. CASE queue' = Tail(queue)
  <2>1. queue \in Seq(Call) /\ queue # <<>>
    BY DEF LimiterTypeOK, Refill
  <2>2. /\ 1 \in DOMAIN queue /\ DOMAIN queue' = 1 .. Len(queue) - 1
        /\ \A k \in 1 .. Len(queue) - 1 :
             queue'[k] = IF k < 1 THEN queue[k] ELSE queue[k + 1]
    BY <1>2, <2>1, HeadTailProperties
  <2>. QED
    BY <2>1, <2>2, CallRemoved
<1>. QED
  BY <1>1, <1>2 DEF Refill

LEMMA CancelWaits ==
  ASSUME LimiterTypeOK, OneCallEach, NEW c \in Callers, CancelCall(c)
  PROVE  OneCallEach' /\ Waiting' \subseteq Waiting \ {c}
<1>1. PICK i \in DOMAIN queue :
        queue[i].caller = c /\ queue' = RemoveAt(queue, i)
  BY DEF CancelCall
<1>2. queue \in Seq(Call)
  BY DEF LimiterTypeOK
<1>3. /\ queue' \in Seq(Call) /\ Len(queue') = Len(queue) - 1
      /\ \A k \in 1 .. Len(queue) - 1 :
           queue'[k] = IF k < i THEN queue[k] ELSE queue[k + 1]
  BY <1>1, <1>2, RemoveCall
<1>4. DOMAIN queue' = 1 .. Len(queue) - 1
  BY <1>3
<1>. QED
  BY <1>1, <1>2, <1>3, <1>4, CallRemoved

\* The part of TypeOK that is about the tasks of Self, made inductive.
TasksOK ==
  /\ stage \in [Processes -> Stages] /\ schema \in BOOLEAN
  /\ tasks \subseteq Callers
  /\ tasks # {} => stage[Self] \in {"serving", "stopping"}
  /\ OneCallEach /\ Waiting \subseteq tasks

\* Types; a shutdown closes the connections only when every task has ended,
\* and a task that ends leaves no call behind in the limiter (lifespan).
THEOREM ServiceTypeCorrect == Spec => []TypeOK
<1> USE ServiceAssumption
<1>1. Init => TasksOK
  <2> SUFFICES ASSUME Init PROVE TasksOK
    OBVIOUS
  <2>1. DOMAIN queue = {}
    BY DEF Init, LimiterInit
  <2>2. OneCallEach /\ Waiting = {}
    BY <2>1 DEF OneCallEach, Waiting
  <2>. QED
    BY <2>2 DEF Init, TasksOK, Stages
<1>2. LimiterTypeOK /\ TasksOK /\ [Next]_service => TasksOK'
  <2> SUFFICES ASSUME LimiterTypeOK, TasksOK, [Next]_service PROVE TasksOK'
    OBVIOUS
  <2>1. UNCHANGED queue => OneCallEach' /\ Waiting' = Waiting
    BY DEF OneCallEach, Waiting, TasksOK
  <2>2. ASSUME NEW p \in Processes, End(p) PROVE TasksOK'
    <3>1. p = Self => OneCallEach' /\ Waiting' = {}
      BY <2>2 DEF End, LimiterEnds, OneCallEach, Waiting
    <3>. QED
      BY <2>1, <2>2, <3>1 DEF End, Enter, TasksOK, Stages, limiter
  <2>3. ASSUME NEW p \in Processes, Boot(p) \/ Lock(p) \/ Migrate(p)
        PROVE  TasksOK'
    BY <2>1, <2>3 DEF Boot, Lock, Migrate, Enter, TasksOK, Stages, limiter
  <2>4. ASSUME NEW p \in Processes, Shutdown(p) \/ Close(p) PROVE TasksOK'
    BY <2>1, <2>4 DEF Shutdown, Close, Awaited, Enter, TasksOK, Stages, limiter
  <2>5. ASSUME NEW c \in Callers, TaskEnds(c) PROVE TasksOK'
    <3>1. OneCallEach' /\ Waiting' \subseteq Waiting \ {c}
      <4>1. CASE c \in Waiting
        BY <2>5, <4>1, CancelWaits DEF TaskEnds, TasksOK
      <4>2. CASE c \notin Waiting
        BY <2>1, <2>5, <4>2 DEF TaskEnds, limiter
      <4>. QED
        BY <4>1, <4>2
    <3>. QED
      BY <2>5, <3>1 DEF TaskEnds, TasksOK
  <2>6. CASE Sending
    <3>1. OneCallEach' /\ Waiting' \subseteq tasks
      BY <2>1, <2>6, AcquireWaits, RefillWaits DEF Sending, Tick, TasksOK
    <3>. QED
      BY <2>6, <3>1 DEF Sending, TasksOK
  <2>7. CASE UNCHANGED service
    BY <2>1, <2>7 DEF service, limiter, TasksOK
  <2>. QED
    BY <2>2, <2>3, <2>4, <2>5, <2>6, <2>7 DEF Next, Exit, Crash
<1>3. LimiterOK => LimiterTypeOK
  BY DEF LimiterOK
<1>4. LimiterTypeOK /\ TasksOK => TypeOK
  BY DEF TasksOK, TypeOK
<1>. QED
  BY <1>1, <1>2, <1>3, <1>4, LimiterInvariant, PTL DEF Spec
=============================================================================
