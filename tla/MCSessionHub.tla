---------------------------- MODULE MCSessionHub ----------------------------
(***************************************************************************)
(* A small instance of SessionHub for TLC: a peer with two sockets, one to *)
(* come back with, and a second peer.                                      *)
(***************************************************************************)
EXTENDS SessionHub, TLC

CONSTANTS k1, k2, k3, seeker, expert

SocketOwner == (k1 :> seeker) @@ (k2 :> seeker) @@ (k3 :> expert)
=============================================================================
