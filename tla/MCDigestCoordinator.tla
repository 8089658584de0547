------------------------ MODULE MCDigestCoordinator ------------------------
(***************************************************************************)
(* DigestCoordinator for TLC: two or three subscribers and two posts.       *)
(***************************************************************************)
EXTENDS DigestCoordinator, TLC

CONSTANTS c1, c2

\* The coordinators are interchangeable.
MCCoordinatorSymmetry == Permutations({c1, c2})

MCNoPages == <<>>

MCDigests == 1 .. MaxPosts
=============================================================================
