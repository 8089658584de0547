----------------------------- MODULE MCService -----------------------------
(***************************************************************************)
(* Service for TLC: a process with two sending tasks beside a "migrate"     *)
(* command.                                                                 *)
(***************************************************************************)
EXTENDS Service

CONSTANTS p1, p2, t1, t2
=============================================================================
