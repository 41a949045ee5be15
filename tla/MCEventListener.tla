--------------------------- MODULE MCEventListener ---------------------------
(***************************************************************************)
(* Small instances of EventListener for TLC.                               *)
(***************************************************************************)
EXTENDS EventListener

CONSTANTS s1, s2

\* What the contracts emit: every kind of event, well formed.
WellFormed ==
    {[type |-> t, sid |-> s, amount |-> "good", named |-> TRUE, text |-> TRUE] :
        t \in EventTypes \ {"EXPERT_REGISTERED"}, s \in {s1, s2}}
    \cup {[type |-> "SESSION_COMPLETED", sid |-> s, amount |-> "missing",
           named |-> TRUE, text |-> TRUE] : s \in {s1, s2}}

\* Malformed payloads beside well-formed ones, with and without a session; the
\* second session is completed under a numeric sessionId.
Mixed ==
    {[type |-> t, sid |-> s1, amount |-> "good", named |-> TRUE, text |-> TRUE] :
        t \in EventTypes \ {"EXPERT_REGISTERED"}}
    \cup {[type |-> t, sid |-> s1, amount |-> "bad", named |-> TRUE, text |-> TRUE] :
        t \in {"SESSION_BOOKED", "SESSION_COMPLETED"}}
    \cup {[type |-> t, sid |-> s1, amount |-> "missing", named |-> FALSE, text |-> TRUE] :
        t \in {"SESSION_BOOKED", "SESSION_REFUNDED"}}
    \cup {[type |-> t, sid |-> NoSession, amount |-> "good", named |-> TRUE, text |-> FALSE] :
        t \in {"EXPERT_REGISTERED", "SESSION_BOOKED"}}
    \cup {[type |-> t, sid |-> s2, amount |-> "good", named |-> TRUE,
            text |-> t = "SESSION_BOOKED"] :
        t \in {"SESSION_BOOKED", "SESSION_COMPLETED"}}
=============================================================================
