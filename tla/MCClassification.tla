-------------------------- MODULE MCClassification --------------------------
(***************************************************************************)
(* Classification for TLC: two articles with overlapping topics.            *)
(***************************************************************************)
EXTENDS Classification, TLC

\* Three topics; the first article belongs to 1 and 2, the second to 2 and 3
\* (and to 1, which is cut: the answer is longer than MaxTopics).
CONSTANTS a1, a2

MCAnswers == (a1 :> {<<2, 1>>}) @@ (a2 :> {<<2, 3, 1>>})

\* Topics 1 and 3 share a lock.
MCHashes == [t \in Topics |-> t % 2]
=============================================================================
