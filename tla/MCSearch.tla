------------------------------ MODULE MCSearch ------------------------------
(***************************************************************************)
(* Search, beside the feed, for TLC.                                        *)
(***************************************************************************)
EXTENDS Search, MCFeed
=============================================================================
