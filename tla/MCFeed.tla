------------------------------- MODULE MCFeed -------------------------------
(***************************************************************************)
(* Feed for TLC: two clients and two topics.                                *)
(***************************************************************************)
EXTENDS Feed, TLC

CONSTANTS c1, c2, a1, a2, a3

\* Clients are interchangeable, and so are articles.
MCSymmetry == Permutations({c1, c2}) \cup Permutations({a1, a2, a3})
=============================================================================
