---------------------------- MODULE RateLimiter ----------------------------
(***************************************************************************)
(* The token bucket that the tasks of one process share: acquire takes an   *)
(* asyncio.Lock, refills the bucket by the time since the last refill, and  *)
(* with too few tokens sleeps, holding the lock, until there are enough.    *)
(*                                                                         *)
(* The unit of time is the time one token takes, so the rate is one token   *)
(* a tick, and Burst is both the tokens and the ticks of a second.          *)
(***************************************************************************)
EXTENDS Integers, Sequences, SequencesExt

CONSTANTS
  Callers,    \* the tasks that send: coordinator and workers
  Burst,      \* rate_per_second, positive
  MaxAmount,  \* the largest amount asked for: multicast_batch_size
  MaxAge      \* bound: how long a window is watched

ASSUME RateLimiterAssumption ==
  Burst \in Nat \ {0} /\ MaxAmount \in Nat \ {0} /\ MaxAge \in Nat

VARIABLES
  allowance,  \* _allowance
  elapsed,    \* time since _updated, counted no further than Cap
  queue,      \* the calls of acquire in the order of the lock: the first one
              \* holds it, the others wait for it
  sleep,      \* how long the first one still sleeps, or Awake
  age,        \* history: the age of the window that is watched,
  granted     \* and the tokens granted since it began

limiter == <<allowance, elapsed, queue, sleep, age, granted>>

Awake == -1

Larger(m, n) == IF m > n THEN m ELSE n
Smaller(m, n) == IF m < n THEN m ELSE n

\* The largest capacity that a call gives the bucket.
Cap == Larger(Burst, MaxAmount)

\* RateLimiter.__init__; a window begins.
LimiterInit ==
  /\ allowance = Burst /\ elapsed = 0
  /\ queue = <<>> /\ sleep = Awake
  /\ age = 0 /\ granted = 0

\* The process has ended: the next one makes a new limiter.
LimiterEnds ==
  /\ allowance' = Burst /\ elapsed' = 0
  /\ queue' = <<>> /\ sleep' = Awake
  /\ age' = 0 /\ granted' = 0

Waiting == {queue[i].caller : i \in DOMAIN queue}

\* A call joins the queue of the lock.
Acquire(c) ==
  /\ c \notin Waiting
  /\ \E n \in 1 .. MaxAmount :
       queue' = Append(queue, [caller |-> c, amount |-> n])
  /\ UNCHANGED <<allowance, elapsed, sleep, age, granted>>

\* Mutant: the capacity does not grow with the amount.
MutCapacity(n) == Burst

Capacity(n) == Larger(Burst, n)

Refilled(n) == Smaller(Capacity(n), allowance + elapsed)

\* Mutant: _updated is only set when tokens are granted.
MutSinceUpdate(enough) == IF enough THEN 0 ELSE elapsed

\* self._updated = now.
SinceUpdate(enough) == 0

\* One round of the loop, by the holder of the lock.
Refill ==
  /\ queue # <<>> /\ sleep <= 0
  /\ LET n == Head(queue).amount
         tokens == Refilled(n)
     IN  /\ elapsed' = SinceUpdate(tokens >= n)
         /\ \/ /\ tokens >= n
               /\ allowance' = tokens - n
               /\ granted' = granted + n
               /\ queue' = Tail(queue)
               /\ sleep' = Awake
            \/ /\ tokens < n
               /\ allowance' = tokens
               /\ sleep' = n - tokens
               /\ UNCHANGED <<granted, queue>>
  /\ UNCHANGED age

\* Time passes, and the window grows older, or a new one is watched.
Tick ==
  /\ elapsed' = Smaller(elapsed + 1, Cap)
  /\ sleep' = IF sleep > 0 THEN sleep - 1 ELSE sleep
  /\ \/ age < MaxAge /\ age' = age + 1 /\ UNCHANGED granted
     \/ age' = 0 /\ granted' = 0
  /\ UNCHANGED <<allowance, queue>>

\* The task is cancelled while it waits or sleeps.
CancelCall(c) ==
  /\ \E i \in DOMAIN queue :
       /\ queue[i].caller = c
       /\ queue' = RemoveAt(queue, i)
       /\ sleep' = IF i = 1 THEN Awake ELSE sleep
  /\ UNCHANGED <<allowance, elapsed, age, granted>>

-----------------------------------------------------------------------------
(* Properties. *)

Call == [caller : Callers, amount : 1 .. MaxAmount]

LimiterTypeOK ==
  /\ allowance \in 0 .. Cap /\ elapsed \in 0 .. Cap
  /\ queue \in Seq(Call)
  /\ sleep \in Awake .. MaxAmount
  /\ age \in 0 .. MaxAge /\ granted \in Nat

\* Over every window of time, however it lies, no more tokens are granted than
\* the window has ticks and the bucket may hold; the bucket holds a second's
\* worth or the largest multicast (acquire).
RateHolds == granted <= Cap + age

\* What is in the bucket was saved up before the window or during it.
Saved ==
  IF age < elapsed THEN granted = 0 ELSE granted + allowance <= Cap + age - elapsed

\* The inductive invariant behind RateHolds.
RateInv == RateHolds /\ Saved

\* A caller that has slept wakes to all it asked for: nobody sleeps twice while
\* the others wait behind it.
SleepSuffices ==
  sleep # Awake => /\ queue # <<>>
                   /\ Refilled(Head(queue).amount) + sleep >= Head(queue).amount
=============================================================================
