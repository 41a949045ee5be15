-------------------------- MODULE MCExpertDirectory --------------------------
(***************************************************************************)
(* A small instance of ExpertDirectory for TLC: one wallet registers twice *)
(* and is booked, another is only known to the chain, and a booking of a   *)
(* second expert carries no address.  Bookings may be handled repeatedly.  *)
(* The chain's registrations come without a name.                          *)
(***************************************************************************)
EXTENDS ExpertDirectory, TLC

CONSTANTS c1, c2, ann, bob, b1, b2, x1, x2

RegisteredBy == (c1 :> ann) @@ (c2 :> ann)

BookedId == (b1 :> x1) @@ (b2 :> x2)

BookedAddress == (b1 :> ann) @@ (b2 :> DefaultWallet)

\* Limits below, at and above the clamp.
AskedLimits == {-1, 9}

\* The two calls of ann are alike.
Alike == Permutations(Calls)
=============================================================================
