---------------------------- MODULE MCPushWorkers ----------------------------
(***************************************************************************)
(* PushWorkers for TLC: two or three subscribers of one topic, of whom user *)
(* 2 may come and go, and multicasts of at most two users.                  *)
(***************************************************************************)
EXTENDS PushWorkers, TLC

CONSTANTS w1, w2

\* The push workers are interchangeable.
MCWorkerSymmetry == Permutations({w1, w2})

Digest == 7

PageOf(from, to) == [digest |-> Digest, lo |-> from, hi |-> to, ckpt |-> 0]

\* A digest that two coordinators have dispatched, one to two pages and one,
\* while there was a subscriber less, to a single page.
MCTwicePaged == (1 :> PageOf(0, 1)) @@ (2 :> PageOf(1, 0)) @@ (3 :> PageOf(0, 0))

\* One page that takes two multicasts.
MCOnePage == (1 :> PageOf(0, 0))

MCDigests == {Digest}
=============================================================================
