------------------------------ MODULE MCReviews ------------------------------
(***************************************************************************)
(* A small instance of Reviews for TLC: two seekers, three sessions, two   *)
(* of them with the same expert, and ratings on both sides of the limits.  *)
(***************************************************************************)
EXTENDS Reviews, TLC

CONSTANTS s1, s2, s3, ann, bob, chess, go

SessionSeeker == (s1 :> ann) @@ (s2 :> bob) @@ (s3 :> ann)

SessionExpert == (s1 :> chess) @@ (s2 :> chess) @@ (s3 :> go)

CallSymmetry == Permutations(Calls)
=============================================================================
