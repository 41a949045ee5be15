------------------------ MODULE NotificationsProofs ------------------------
(***************************************************************************)
(* The safety properties of Notifications, for any channels and settings.  *)
(* What a channel's outcome says of its settings and its server, and how   *)
(* far the tasks are for each answer, is what makes reports true.          *)
(***************************************************************************)
EXTENDS Notifications, TLAPS

\* What is known of a channel by its outcome, and while it is being asked.
ChannelInv ==
    \A c \in Channels :
        /\ outcome[c] = "accepted" => config[c] = "set" /\ webhook[c] = "accepted"
        /\ outcome[c] = "refused" => webhook[c] = "refused"
        /\ outcome[c] = "skipped" => config[c] = "none"
        /\ outcome[c] = "noChat" => config[c] = "noChat"
        /\ stage[c] \in {"sent", "reading"} => config[c] = "set"
        /\ stage[c] = "reading" => webhook[c] = "refused"

\* What was to be sent to somebody.
Configured == {c \in Channels : outcome[c] # "skipped"}

\* How far the tasks are for each answer.
AnswerInv ==
    /\ answer = "none" => \A c \in Channels : stage[c] = "idle"
    /\ answer \in {"ok", "failed"} => \A c \in Channels : stage[c] = "settled"
    /\ answer = "ok" => AllAccepted(Configured)
    /\ answer = "failed" => ~ AllAccepted(Configured)

IInv == TypeOK /\ WaitsAreTimed /\ ChannelInv /\ AnswerInv

LEMMA InitInv == Init => IInv
<1> SUFFICES ASSUME Init PROVE IInv
  OBVIOUS
<1>1. config \in [Channels -> Settings]
  BY ConfigsAssumption DEF Init
<1>2. TypeOK
  BY <1>1 DEF Init, TypeOK, Outcomes
<1>3. WaitsAreTimed /\ ChannelInv /\ AnswerInv
  BY DEF Init, WaitsAreTimed, ChannelInv, AnswerInv
<1> QED
  BY <1>2, <1>3 DEF IInv

\* A task resolves with what its settings and its server agree to.
LEMMA SettleInv ==
    ASSUME IInv, NEW c \in Channels, NEW how \in {"accepted", "refused", "failed"},
           stage[c] \in {"sent", "reading"}, Settle(c, how),
           how \in {"accepted", "refused"} => webhook[c] = how
    PROVE  IInv'
<1> USE DEF IInv, Settle
<1>1. TypeOK'
  BY DEF TypeOK, Outcomes
<1>2. WaitsAreTimed'
  BY DEF TypeOK, WaitsAreTimed
<1>3. ChannelInv'
  BY DEF TypeOK, ChannelInv
<1>4. AnswerInv'
  BY DEF TypeOK, AnswerInv
<1> QED
  BY <1>1, <1>2, <1>3, <1>4

LEMMA DispatchInv == ASSUME IInv, Dispatch PROVE IInv'
<1> USE DEF IInv, Dispatch, AtOnce
<1>1. TypeOK'
  BY DEF TypeOK, Outcomes, Settings
<1>2. WaitsAreTimed'
  BY DEF WaitsAreTimed
<1>3. ChannelInv'
  BY DEF TypeOK, ChannelInv, Settings
<1>4. AnswerInv'
  BY DEF AnswerInv
<1> QED
  BY <1>1, <1>2, <1>3, <1>4

LEMMA CollectInv == ASSUME IInv, Collect PROVE IInv'
<1> USE DEF IInv, Collect
<1>1. TypeOK' /\ WaitsAreTimed' /\ ChannelInv'
  BY DEF TypeOK, WaitsAreTimed, ChannelInv
<1>2. AnswerInv'
  BY DEF AnswerInv, AllAccepted, Configured
<1> QED
  BY <1>1, <1>2

LEMMA WebhookActsInv ==
    ASSUME IInv, NEW c \in Channels, WebhookActs(c)
    PROVE  IInv'
<1> USE DEF IInv, WebhookActs
<1>1. TypeOK' /\ WaitsAreTimed'
  BY DEF TypeOK, WaitsAreTimed
<1>2. ChannelInv'
  BY DEF TypeOK, ChannelInv
<1>3. AnswerInv'
  BY DEF AnswerInv, AllAccepted, Configured
<1> QED
  BY <1>1, <1>2, <1>3

LEMMA HeadersInv ==
    ASSUME IInv, NEW c \in Channels, Headers(c)
    PROVE  IInv'
<1>1. CASE webhook[c] = "accepted" /\ Settle(c, "accepted")
  BY <1>1, SettleInv DEF Headers
<1>2. CASE /\ webhook[c] = "refused"
           /\ stage' = [stage EXCEPT ![c] = "reading"]
           /\ timer' = ReadTimed(c)
           /\ UNCHANGED <<config, outcome, webhook, answer>>
  <2> USE <1>2 DEF IInv, ReadTimed
  <2>1. stage[c] = "sent"
    BY DEF Headers
  <2>2. TypeOK' /\ WaitsAreTimed'
    BY <2>1 DEF TypeOK, WaitsAreTimed
  <2>3. ChannelInv'
    BY <2>1 DEF TypeOK, ChannelInv
  <2>4. AnswerInv'
    BY <2>1 DEF TypeOK, AnswerInv, AllAccepted, Configured
  <2> QED
    BY <2>2, <2>3, <2>4
<1> QED
  BY <1>1, <1>2 DEF Headers

LEMMA TimerFiresInv ==
    ASSUME IInv, NEW c \in Channels, TimerFires(c)
    PROVE  IInv'
<1> USE DEF IInv, TimerFires
<1>1. TypeOK' /\ WaitsAreTimed'
  BY DEF TypeOK, WaitsAreTimed
<1>2. ChannelInv' /\ AnswerInv'
  BY DEF ChannelInv, AnswerInv, AllAccepted, Configured
<1> QED
  BY <1>1, <1>2

LEMMA StepInv == IInv /\ [Next]_vars => IInv'
<1> SUFFICES ASSUME IInv, [Next]_vars PROVE IInv'
  OBVIOUS
<1>1. CASE Dispatch
  BY <1>1, DispatchInv
<1>2. CASE Collect
  BY <1>2, CollectInv
<1>3. ASSUME NEW c \in Channels, WebhookActs(c) PROVE IInv'
  BY <1>3, WebhookActsInv
<1>4. ASSUME NEW c \in Channels, Headers(c) PROVE IInv'
  BY <1>4, HeadersInv
<1>5. ASSUME NEW c \in Channels, Body(c) PROVE IInv'
  <2>1. stage[c] = "reading" /\ webhook[c] = "refused" /\ Settle(c, "refused")
    BY <1>5 DEF Body, IInv, ChannelInv
  <2> QED
    BY <2>1, SettleInv
<1>6. ASSUME NEW c \in Channels, NetworkFails(c) PROVE IInv'
  BY <1>6, SettleInv DEF NetworkFails
<1>7. ASSUME NEW c \in Channels, TimerFires(c) PROVE IInv'
  BY <1>7, TimerFiresInv
<1>8. ASSUME NEW c \in Channels, Abort(c) PROVE IInv'
  <2>1. Aborted(c) \in {"refused", "failed"}
    BY DEF Aborted
  <2>2. Aborted(c) = "refused" => webhook[c] = "refused"
    BY <1>8 DEF Abort, Aborted, IInv, ChannelInv
  <2> QED
    BY <1>8, <2>1, <2>2, SettleInv DEF Abort
<1>9. CASE UNCHANGED vars
  BY <1>9 DEF vars, IInv, TypeOK, WaitsAreTimed, ChannelInv, AnswerInv, AllAccepted,
              Configured
<1> QED
  BY <1>1, <1>2, <1>3, <1>4, <1>5, <1>6, <1>7, <1>8, <1>9 DEF Next, Service

\* What the theorems below rest on.
THEOREM Invariant == Spec => []IInv
BY InitInv, StepInv, PTL DEF Spec

\* The notifier's state is well typed, and a channel is settled exactly when
\* its outcome is known.
THEOREM TypeCorrect == Spec => []TypeOK
BY Invariant, PTL DEF IInv

\* A webhook is waited for only under a timer (postJson's abort controller),
\* which is cleared when, and only when, the request is over.
THEOREM TimedWaits == Spec => []WaitsAreTimed
BY Invariant, PTL DEF IInv

\* Whatever the servers, the network and the timers do, a notification reported
\* as sent was accepted by every channel that is set up, and one reported as
\* failed has a channel to blame.
THEOREM TrueReports == Spec => []ReportsAreTrue
<1>1. ASSUME IInv PROVE ReportsAreTrue
  <2> USE <1>1 DEF IInv
  <2>1. ASSUME answer = "ok", NEW c \in Channels
        PROVE  config[c] = "none" \/ (config[c] = "set" /\ webhook[c] = "accepted")
    <3>1. outcome[c] = "skipped" \/ outcome[c] = "accepted"
      BY <2>1 DEF AnswerInv, AllAccepted, Configured
    <3> QED
      BY <3>1 DEF ChannelInv
  <2>2. ASSUME answer = "failed"
        PROVE  \E c \in Channels : config[c] = "noChat" \/ outcome[c] \in {"refused", "failed"}
    <3>1. PICK c \in Channels : outcome[c] # "skipped" /\ outcome[c] # "accepted"
      BY <2>2 DEF AnswerInv, AllAccepted, Configured
    <3>2. outcome[c] # "pending"
      BY <2>2 DEF AnswerInv, TypeOK
    <3>3. outcome[c] \in {"noChat", "refused", "failed"}
      BY <3>1, <3>2 DEF TypeOK, Outcomes
    <3> QED
      BY <3>3 DEF ChannelInv
  <2> QED
    BY <2>1, <2>2 DEF ReportsAreTrue, ChannelInv
<1> QED
  BY <1>1, Invariant, PTL
=============================================================================
