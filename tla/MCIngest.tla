------------------------------ MODULE MCIngest ------------------------------
(***************************************************************************)
(* Ingest for TLC: two replicas, two sources of three articles, and pages   *)
(* of two.                                                                  *)
(***************************************************************************)
EXTENDS Ingest

CONSTANTS p1, p2, s1, s2
=============================================================================
