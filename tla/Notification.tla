---------------------------- MODULE Notification ----------------------------
(***************************************************************************)
(* What the markers promise, whoever delivers a digest and however often:   *)
(* a notification of a user is taken by one sender, who tells the user,     *)
(* gives it back, or loses it.  A user who has been told is never told      *)
(* again, and nothing is told that was not taken.                           *)
(***************************************************************************)
CONSTANTS Digests, Users

VARIABLE fate  \* fate[d][u]: "open", "taken", "told" or "lost"

Init == fate = [d \in Digests |-> [u \in Users |-> "open"]]

Taken(d) == {u \in Users : fate[d][u] = "taken"}

\* The notifications of the users of S, for digest d, get the fate f.
Become(d, S, f) ==
  fate' = [fate EXCEPT ![d] = [u \in Users |-> IF u \in S THEN f ELSE @[u]]]

Take(d, u) == fate[d][u] = "open" /\ Become(d, {u}, "taken")

GiveBack(d, S) == S \subseteq Taken(d) /\ Become(d, S, "open")

\* Those in S are told; those in L are not, and nobody will return to them.
Settle(d, S, L) ==
  /\ S \cup L \subseteq Taken(d) /\ S \cap L = {}
  /\ fate' = [fate EXCEPT ![d] = [u \in Users |->
       IF u \in S THEN "told" ELSE IF u \in L THEN "lost" ELSE @[u]]]

Next ==
  \E d \in Digests :
    \/ \E u \in Users : Take(d, u)
    \/ \E S \in SUBSET Users : GiveBack(d, S)
    \/ \E S, L \in SUBSET Users : Settle(d, S, L)

Spec == Init /\ [][Next]_fate
=============================================================================
