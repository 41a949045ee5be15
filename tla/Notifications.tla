---------------------------- MODULE Notifications ----------------------------
(***************************************************************************)
(* One notification of the notifier (src/backend/src/                      *)
(* notificationService.ts): notifyBooking and notifyArbitration format an  *)
(* embed and dispatch it to every configured channel at once.  A channel's *)
(* webhook gets one HTTP request, whose answer and, when it is a refusal,  *)
(* whose body are awaited under one abort timer.  The caller never waits:  *)
(* it is told nothing, and a failure is logged.                            *)
(*                                                                         *)
(* The webhooks are other people's servers: they may accept or refuse at   *)
(* any time, also after the request was given up, or never answer.         *)
(*                                                                         *)
(* Abstractions.  The texts of embeds and errors are left out; how a       *)
(* request ended is one of Outcomes.  Notifications share no state: one    *)
(* is enough.                                                              *)
(***************************************************************************)
CONSTANTS
    Channels,     \* discord and telegram
    Configs       \* the settings the service may have been built with

Settings == {"none", "noChat", "set"}

ASSUME ConfigsAssumption == Configs \subseteq [Channels -> Settings]

VARIABLES
    config,     \* per channel: no webhook, a webhook without chat_id, or both
    stage,      \* per channel: idle, sent, reading a refusal's body, settled
    timer,      \* per channel: off, armed, or fired (the request is aborted)
    outcome,    \* per channel: what the task resolved with
    webhook,    \* what the channel's server did with the request
    answer      \* what notifyBooking resolved with

vars == <<config, stage, timer, outcome, webhook, answer>>

Outcomes == {"pending", "skipped", "accepted", "refused", "noChat", "failed"}

\* constructor, fromEnv: settings are read once, blank ones count as missing.
Init ==
    /\ config \in Configs
    /\ stage = [c \in Channels |-> "idle"]
    /\ timer = [c \in Channels |-> "off"]
    /\ outcome = [c \in Channels |-> "pending"]
    /\ webhook = [c \in Channels |-> "silent"]
    /\ answer = "none"

-----------------------------------------------------------------------------

\* Seeded fault: a missing chat_id is found out and not reported.
AtOnceUntold(c) == IF config[c] = "none" THEN "skipped" ELSE "pending"

\* What dispatch knows of a channel before it has sent anything.
AtOnce(c) ==
    CASE config[c] = "none" -> "skipped"
      [] config[c] = "noChat" -> "noChat"
      [] OTHER -> "pending"

\* dispatch: a task for every channel; postJson arms the timer and sends.
Dispatch ==
    /\ answer = "none"
    /\ answer' = "pending"
    /\ stage' = [c \in Channels |-> IF config[c] = "set" THEN "sent" ELSE "settled"]
    /\ timer' = [c \in Channels |-> IF config[c] = "set" THEN "armed" ELSE "off"]
    /\ outcome' = [c \in Channels |-> AtOnce(c)]
    /\ UNCHANGED <<config, webhook>>

\* The server acts on the request, whoever still waits for it.
WebhookActs(c) ==
    /\ config[c] = "set" /\ stage[c] # "idle" /\ webhook[c] = "silent"
    /\ \E act \in {"accepted", "refused"} : webhook' = [webhook EXCEPT ![c] = act]
    /\ UNCHANGED <<config, stage, timer, outcome, answer>>

\* The task of c resolves: the finally clause clears the timer.
Settle(c, how) ==
    /\ stage' = [stage EXCEPT ![c] = "settled"]
    /\ timer' = [timer EXCEPT ![c] = "off"]
    /\ outcome' = [outcome EXCEPT ![c] = how]
    /\ UNCHANGED <<config, webhook, answer>>

\* Seeded fault: the timer is cleared when the headers are there.
ReadUntimed(c) == [timer EXCEPT ![c] = "off"]

\* The timer goes on while the body of a refusal is read.
ReadTimed(c) == timer

\* fetch resolves with the headers of the answer.
Headers(c) ==
    /\ stage[c] = "sent" /\ timer[c] = "armed"
    /\ \/ webhook[c] = "accepted" /\ Settle(c, "accepted")
       \/ /\ webhook[c] = "refused"
          /\ stage' = [stage EXCEPT ![c] = "reading"]
          /\ timer' = ReadTimed(c)
          /\ UNCHANGED <<config, outcome, webhook, answer>>

\* response.text() resolves, or throws into the inner catch.
Body(c) == stage[c] = "reading" /\ timer[c] = "armed" /\ Settle(c, "refused")

\* fetch rejects: no connection, or one that broke.
NetworkFails(c) == stage[c] = "sent" /\ timer[c] = "armed" /\ Settle(c, "failed")

\* setTimeout: controller.abort().
TimerFires(c) ==
    /\ timer[c] = "armed"
    /\ timer' = [timer EXCEPT ![c] = "fired"]
    /\ UNCHANGED <<config, stage, outcome, webhook, answer>>

\* An aborted fetch is a timeout; an aborted read is still a refusal.
Aborted(c) == IF stage[c] = "sent" THEN "failed" ELSE "refused"

\* The abort rejects what the task awaits, the fetch or the body.
Abort(c) ==
    /\ timer[c] = "fired" /\ stage[c] \in {"sent", "reading"}
    /\ Settle(c, Aborted(c))

\* Seeded fault: one channel is enough.
SomeAccepted(cs) == \E c \in cs : outcome[c] = "accepted"

\* configured.every(ok), also when nothing is configured.
AllAccepted(cs) == \A c \in cs : outcome[c] = "accepted"

\* Promise.all resolves when every task has; a failure is logged.
Collect ==
    /\ answer = "pending"
    /\ \A c \in Channels : stage[c] = "settled"
    /\ LET configured == {c \in Channels : outcome[c] # "skipped"}
       IN  answer' = IF AllAccepted(configured) THEN "ok" ELSE "failed"
    /\ UNCHANGED <<config, stage, timer, outcome, webhook>>

\* What the service itself does; the webhooks and the network do the rest.
Service(c) == TimerFires(c) \/ Abort(c)

Next ==
    \/ Dispatch \/ Collect
    \/ \E c \in Channels :
          \/ WebhookActs(c) \/ Headers(c) \/ Body(c) \/ NetworkFails(c) \/ Service(c)

Spec == Init /\ [][Next]_vars

\* Timers fire and promises that are settled run their continuations; nothing
\* is assumed of the webhooks and the network.
FairSpec ==
    /\ Spec
    /\ WF_vars(Collect)
    /\ \A c \in Channels : WF_vars(Service(c))

-----------------------------------------------------------------------------
(* Properties *)

\* Every variable keeps its type; a channel is settled once its outcome is known.
TypeOK ==
    /\ config \in [Channels -> Settings]
    /\ stage \in [Channels -> {"idle", "sent", "reading", "settled"}]
    /\ timer \in [Channels -> {"off", "armed", "fired"}]
    /\ outcome \in [Channels -> Outcomes]
    /\ webhook \in [Channels -> {"silent", "accepted", "refused"}]
    /\ answer \in {"none", "pending", "ok", "failed"}
    /\ \A c \in Channels : stage[c] = "settled" <=> outcome[c] # "pending"

\* The service waits for a webhook only under a running or expired timer, and
\* a timer never outlives the request it was armed for.
WaitsAreTimed ==
    \A c \in Channels : stage[c] \in {"sent", "reading"} <=> timer[c] # "off"

\* What is reported is true whatever raced: a notification reported as sent was
\* accepted by every channel that is set up, and one reported as failed was
\* refused, given up or misconfigured in at least one.  (One that was given up
\* may have been accepted all the same.)
ReportsAreTrue ==
    /\ answer = "ok" =>
          \A c \in Channels :
             config[c] = "none" \/ (config[c] = "set" /\ webhook[c] = "accepted")
    /\ answer = "failed" =>
          \E c \in Channels :
             config[c] = "noChat" \/ outcome[c] \in {"refused", "failed"}
    /\ \A c \in Channels : outcome[c] = "refused" => webhook[c] = "refused"

\* A notification that was dispatched is over in the end, even if no webhook
\* ever answers or finishes its answer.
NotificationsEnd == (answer = "pending") ~> (answer \in {"ok", "failed"})
=============================================================================
