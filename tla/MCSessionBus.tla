---------------------------- MODULE MCSessionBus ----------------------------
(***************************************************************************)
(* A small instance of SessionBus for TLC: a subscription to one of two    *)
(* sessions, and sockets that may be in both rooms.                        *)
(***************************************************************************)
EXTENDS SessionBus, TLC

CONSTANTS i1, s1, s2

IteratorTopic == i1 :> s1
=============================================================================
