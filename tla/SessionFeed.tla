----------------------------- MODULE SessionFeed -----------------------------
(***************************************************************************)
(* What the status bus promises its subscribers, whatever carries the      *)
(* messages: a subscriber receives the messages that are posted in its own *)
(* process to a session it follows, each at once, at the end of what it    *)
(* has received before, and nothing else ever changes what it received.    *)
(* A subscriber may be cut off.  It then receives nothing any more, and    *)
(* the log tells which messages about its sessions it missed.              *)
(***************************************************************************)
EXTENDS Naturals, Sequences

CONSTANTS
    Processes, Sessions, Subscribers, Types,
    Home         \* the process a subscriber lives in

VARIABLES
    log,         \* every message posted, with its process, session, type and
                 \* audience, and those of the audience who were cut off
    following,   \* the sessions each subscriber follows
    deaf,        \* the subscribers that were cut off
    stream       \* the messages each subscriber was given, as indices in log

vars == <<log, following, deaf, stream>>

Init ==
    /\ log = << >>
    /\ following = [x \in Subscribers |-> {}]
    /\ deaf = {}
    /\ stream = [x \in Subscribers |-> << >>]

\* A message of process p about session s.
Post(p, s, type) ==
    /\ LET audience == {x \in Subscribers : s \in following[x]}
       IN  log' = Append(log, [from |-> p, session |-> s, type |-> type,
                               audience |-> audience, missed |-> audience \cap deaf])
    /\ stream' = [x \in Subscribers |->
                     IF Home[x] = p /\ s \in following[x] /\ x \notin deaf
                     THEN Append(stream[x], Len(log) + 1) ELSE stream[x]]
    /\ UNCHANGED <<following, deaf>>

\* Subscribers choose other sessions to follow; one that was cut off only gives up.
Refollow ==
    /\ following' \in [Subscribers -> SUBSET Sessions]
    /\ \A x \in deaf : following'[x] \subseteq following[x]
    /\ UNCHANGED <<log, deaf, stream>>

\* Subscribers are cut off, for good.
CutOff ==
    /\ deaf \subseteq deaf' /\ deaf' \subseteq Subscribers
    /\ UNCHANGED <<log, following, stream>>

Next ==
    \/ \E p \in Processes, s \in Sessions, type \in Types : Post(p, s, type)
    \/ Refollow \/ CutOff

Spec == Init /\ [][Next]_vars
=============================================================================
