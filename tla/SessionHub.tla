----------------------------- MODULE SessionHub -----------------------------
(***************************************************************************)
(* The WebSocket hub of the API process (src/backend/src/ws/sessionHub.ts) *)
(* with the settlement it is given by src/backend/src/index.ts.  Wallets   *)
(* connect with sockets and subscribe them to sessions.  When a subscribed *)
(* socket disconnects, the hub arms a timer for each of its sessions; any  *)
(* subscription to the session disarms it; when it fires, the session's    *)
(* row is moved from ACTIVE to COMPLETED and SESSION_ENDED is published.   *)
(*                                                                         *)
(* The handlers run to completion one at a time; the settlement is a       *)
(* database call in flight while they go on.  The indexer process writes   *)
(* Session.status concurrently: what the chain did next, or the booking    *)
(* again when its EventLog row is processed a second time.  The API        *)
(* process may be restarted.                                               *)
(*                                                                         *)
(* Abstractions.  A socket is one connection: a client that comes back     *)
(* does so with another socket of its wallet, and the hub learns of a lost *)
(* client when the engine's heartbeat gives up, at any later time.  Time   *)
(* is not modelled: an armed timer fires at any later time.                *)
(***************************************************************************)
EXTENDS Naturals, FiniteSets

CONSTANTS
    Sockets, Wallets, Sessions,
    Owner,        \* the wallet each socket authenticates as
    NoWallet,
    MaxRestarts, MaxDbFaults, MaxRebooked    \* bounds of the instance

ASSUME OwnerAssumption == Owner \in [Sockets -> Wallets] /\ NoWallet \notin Wallets

ASSUME BoundsAssumption == {MaxRestarts, MaxDbFaults, MaxRebooked} \subseteq Nat

VARIABLES
    unused,       \* sockets that have not connected yet
    open,         \* sockets the hub takes for connected
    subscribed,   \* the sessions each open socket is subscribed to
    timers,       \* the sessions with an armed settlement timer
    settling,     \* settlement calls in flight, per session
    settled,      \* settlement calls that moved the row, not yet published
    status,       \* Session.status
    chain,        \* the last status the indexer took from the chain
    rebooked,     \* how often a booking was processed again (bounded)
    ended,        \* how often SESSION_ENDED was published
    closing,      \* close() has been called
    left,         \* history: the wallet whose socket last disconnected from the
                  \* session, or NoWallet if somebody subscribed since
    restarts, dbFaults    \* faults so far (bounded)

sockets == <<unused, open, subscribed>>
settlement == <<timers, settling, settled>>
indexer == <<chain, rebooked>>
vars == <<sockets, settlement, status, indexer, ended, closing, left,
          restarts, dbFaults>>

Statuses == {"ACTIVE", "PAUSED", "COMPLETED", "REFUNDED"}

Init ==
    /\ unused = Sockets /\ open = {}
    /\ subscribed = [k \in Sockets |-> {}]
    /\ timers = {}
    /\ settling = [s \in Sessions |-> 0] /\ settled = [s \in Sessions |-> 0]
    /\ status = [s \in Sessions |-> "ACTIVE"]
    /\ chain = status /\ rebooked = [s \in Sessions |-> 0]
    /\ ended = [s \in Sessions |-> 0]
    /\ closing = FALSE
    /\ left = [s \in Sessions |-> NoWallet]
    /\ restarts = 0 /\ dbFaults = 0

-----------------------------------------------------------------------------
(* Socket handlers *)

\* A connection that passes authenticateConnection.
Connect(k) ==
    /\ k \in unused /\ ~ closing
    /\ unused' = unused \ {k}
    /\ open' = open \cup {k}
    /\ UNCHANGED <<subscribed, settlement, status, indexer, ended, closing,
                   left, restarts, dbFaults>>

\* Seeded fault: the timer is left running.
KeepTimer(s) == timers

\* cancelSettlement.
Cancel(s) == timers \ {s}

\* subscribe: whoever subscribes disarms the session's timer.
Subscribe(k, s) ==
    /\ k \in open
    /\ subscribed' = [subscribed EXCEPT ![k] = @ \cup {s}]
    /\ timers' = Cancel(s)
    /\ left' = [left EXCEPT ![s] = NoWallet]
    /\ UNCHANGED <<unused, open, settling, settled, status, indexer, ended,
                   closing, restarts, dbFaults>>

\* unsubscribe.
Unsubscribe(k, s) ==
    /\ k \in open
    /\ subscribed' = [subscribed EXCEPT ![k] = @ \ {s}]
    /\ UNCHANGED <<unused, open, settlement, status, indexer, ended, closing,
                   left, restarts, dbFaults>>

\* Seeded fault: a session somebody else is still subscribed to gets no timer.
ScheduleIfLast(ks) ==
    timers \cup {s \in UNION {subscribed[k] : k \in ks} :
                    \A k \in open \ ks : s \notin subscribed[k]}

\* scheduleSettlement for every session of the sockets that went away.
Schedule(ks) == timers \cup UNION {subscribed[k] : k \in ks}

\* Seeded fault: the subscriptions of a closed socket are kept.
KeepSubscriptions(ks) == subscribed

\* The subscription sets of closed sockets are gone with their handlers.
DropSubscriptions(ks) ==
    [k \in Sockets |-> IF k \in ks THEN {} ELSE subscribed[k]]

\* The sessions that learn of a disconnection, and by whom it was.
LeftBy(ks) ==
    [s \in Sessions |->
        IF \E k \in ks : s \in subscribed[k]
        THEN Owner[CHOOSE k \in ks : s \in subscribed[k]] ELSE left[s]]

\* disconnect, by the client, the network or the heartbeat timeout.
Disconnect(k) ==
    /\ k \in open
    /\ open' = open \ {k}
    /\ subscribed' = DropSubscriptions({k})
    /\ timers' = Schedule({k})
    /\ left' = LeftBy({k})
    /\ UNCHANGED <<unused, settling, settled, status, indexer, ended, closing,
                   restarts, dbFaults>>

\* close(): the timers are cleared and the bus listener is detached; then the
\* server disconnects every socket, whose handlers arm timers again.
Close ==
    /\ ~ closing
    /\ closing' = TRUE
    /\ open' = {}
    /\ subscribed' = DropSubscriptions(open)
    /\ timers' = UNION {subscribed[k] : k \in open}
    /\ left' = LeftBy(open)
    /\ UNCHANGED <<unused, settling, settled, status, indexer, ended, restarts,
                   dbFaults>>

-----------------------------------------------------------------------------
(* Settlement *)

\* The grace period is over: fallbackSettlement issues its update.
TimerFires(s) ==
    /\ s \in timers
    /\ timers' = timers \ {s}
    /\ settling' = [settling EXCEPT ![s] = @ + 1]
    /\ UNCHANGED <<sockets, settled, status, indexer, ended, closing, left,
                   restarts, dbFaults>>

\* Seeded fault: the update does not ask for the status.
AnyStatus(s) == TRUE

\* updateMany({ where: { sessionId, status: "ACTIVE" } }) matches.
Settleable(s) == status[s] = "ACTIVE"

\* updateMany runs; its count decides whether there is anything to publish.
SettleWrite(s) ==
    /\ settling[s] > 0
    /\ settling' = [settling EXCEPT ![s] = @ - 1]
    /\ IF Settleable(s)
       THEN /\ status' = [status EXCEPT ![s] = "COMPLETED"]
            /\ settled' = [settled EXCEPT ![s] = @ + 1]
       ELSE UNCHANGED <<status, settled>>
    /\ UNCHANGED <<sockets, timers, indexer, ended, closing, left, restarts,
                   dbFaults>>

\* updateMany throws, before or after the row was written: the error is logged
\* and the settlement forgotten.
SettleFail(s) ==
    /\ settling[s] > 0 /\ dbFaults < MaxDbFaults
    /\ settling' = [settling EXCEPT ![s] = @ - 1]
    /\ \/ UNCHANGED status
       \/ Settleable(s) /\ status' = [status EXCEPT ![s] = "COMPLETED"]
    /\ dbFaults' = dbFaults + 1
    /\ UNCHANGED <<sockets, timers, settled, indexer, ended, closing, left,
                   restarts>>

\* publishSessionStatus("SESSION_ENDED").
SettlePublish(s) ==
    /\ settled[s] > 0
    /\ settled' = [settled EXCEPT ![s] = @ - 1]
    /\ ended' = [ended EXCEPT ![s] = @ + 1]
    /\ UNCHANGED <<sockets, timers, settling, status, indexer, closing, left,
                   restarts, dbFaults>>

-----------------------------------------------------------------------------
(* The surroundings *)

\* What the chain may do to a session after it was booked.
NextOnChain(from) ==
    CASE from = "ACTIVE" -> {"PAUSED", "COMPLETED", "REFUNDED"}
      [] from = "PAUSED" -> {"COMPLETED", "REFUNDED"}
      [] OTHER -> {}

\* The indexer process applies the session's next event: its updateMany does
\* not look at the status it replaces.
ChainWrites(s) ==
    /\ \E next \in NextOnChain(chain[s]) :
          /\ chain' = [chain EXCEPT ![s] = next]
          /\ status' = [status EXCEPT ![s] = next]
    /\ UNCHANGED <<sockets, settlement, rebooked, ended, closing, left,
                   restarts, dbFaults>>

\* The indexer process handles the booking again, after a failure between the
\* session's upsert and the row's "processed".  (The upsert itself writes ACTIVE
\* over any status: that no later row of the session was handled in between is
\* the order that module EventListener has as StatusesInChainOrder.)
Rebook(s) ==
    /\ chain[s] = "ACTIVE" /\ rebooked[s] < MaxRebooked
    /\ rebooked' = [rebooked EXCEPT ![s] = @ + 1]
    /\ status' = [status EXCEPT ![s] = "ACTIVE"]
    /\ UNCHANGED <<sockets, settlement, chain, ended, closing, left, restarts,
                   dbFaults>>

\* The API process dies, or exits after close(), and is started again: sockets,
\* timers and calls not yet sent are gone.
Restart ==
    /\ restarts < MaxRestarts
    /\ restarts' = restarts + 1
    /\ open' = {} /\ subscribed' = [k \in Sockets |-> {}]
    /\ timers' = {}
    /\ settling' = [s \in Sessions |-> 0] /\ settled' = [s \in Sessions |-> 0]
    /\ closing' = FALSE
    /\ left' = [s \in Sessions |-> NoWallet]
    /\ UNCHANGED <<unused, status, indexer, ended, dbFaults>>

Next ==
    \/ \E k \in Sockets : Connect(k) \/ Disconnect(k)
    \/ \E k \in Sockets, s \in Sessions : Subscribe(k, s) \/ Unsubscribe(k, s)
    \/ \E s \in Sessions :
          \/ TimerFires(s) \/ SettleWrite(s) \/ SettleFail(s) \/ SettlePublish(s)
          \/ ChainWrites(s) \/ Rebook(s)
    \/ Close \/ Restart

Spec == Init /\ [][Next]_vars

\* Timers fire, database calls return and their continuations run.
FairSpec ==
    /\ Spec
    /\ \A s \in Sessions :
          WF_vars(TimerFires(s)) /\ WF_vars(SettleWrite(s)) /\ WF_vars(SettlePublish(s))

-----------------------------------------------------------------------------
(* Properties *)

\* Every variable keeps its type; only open sockets hold subscriptions.
TypeOK ==
    /\ unused \subseteq Sockets /\ open \subseteq Sockets \ unused
    /\ subscribed \in [Sockets -> SUBSET Sessions]
    /\ \A k \in Sockets \ open : subscribed[k] = {}
    /\ timers \subseteq Sessions
    /\ settling \in [Sessions -> Nat] /\ settled \in [Sessions -> Nat]
    /\ status \in [Sessions -> Statuses] /\ chain \in [Sessions -> Statuses]
    /\ rebooked \in [Sessions -> 0..MaxRebooked]
    /\ ended \in [Sessions -> Nat]
    /\ closing \in BOOLEAN
    /\ left \in [Sessions -> Wallets \cup {NoWallet}]
    /\ restarts \in 0..MaxRestarts /\ dbFaults \in 0..MaxDbFaults

\* A grace period only runs while the last thing that happened to the session
\* is a disconnection: a subscription, whichever socket and wallet it comes
\* from, ends every grace period that was running.
GraceOnlyAfterLeaving == \A s \in timers : left[s] # NoWallet

\* However many grace periods of a session run out, and however their updates
\* interleave with each other and with the indexer's, SESSION_ENDED is owed at
\* most once for each time the booking made the session ACTIVE; while it is owed
\* for the last time and the chain is silent, the session is settled.
EndedOncePerBooking ==
    \A s \in Sessions :
        LET times == ended[s] + settled[s] IN
        /\ times <= 1 + rebooked[s]
        /\ times = 1 + rebooked[s] /\ chain[s] = "ACTIVE" => status[s] = "COMPLETED"

\* What the chain decided stands: a settlement that was issued before the
\* indexer wrote COMPLETED or REFUNDED, and lands after, does not undo it.
ChainOutcomeKept ==
    \A s \in Sessions :
        chain[s] \in {"COMPLETED", "REFUNDED"} => status[s] = chain[s]

\* What AbandonedSessionsSettled rests on: an ACTIVE session that a peer has left
\* is always in somebody's hands.  Whether one peer leaves or both, while a timer
\* runs or an update is in flight, and whatever the indexer writes, it is never
\* left without either.  A closing hub, a replayed booking and a failed update do
\* leave it so.
AbandonedSessionsInHand ==
    \A s \in Sessions :
        left[s] # NoWallet /\ status[s] = "ACTIVE" =>
            \/ s \in timers \/ settling[s] > 0
            \/ closing \/ rebooked[s] > 0 \/ dbFaults > 0

\* A session a peer has left does not stay ACTIVE: it is settled or moved on
\* by the chain, unless somebody subscribes to it, the API process stops, its
\* booking is replayed, or an update of a settlement throws (it is not retried).
AbandonedSessionsSettled ==
    \A s \in Sessions :
        (left[s] # NoWallet) ~>
            \/ status[s] # "ACTIVE"
            \/ left[s] = NoWallet \/ closing
            \/ rebooked[s] > 0 \/ dbFaults > 0

\* What the test "cancels the settlement when a disconnected peer reconnects"
\* says (sessionHub.test.ts): no grace period runs for a peer who is back.  The
\* disconnection of the peer's old socket may come after the subscription of
\* the new one.
GraceOnlyWhileAway ==
    \A s \in timers :
        ~ \E k \in open : Owner[k] = left[s] /\ s \in subscribed[k]
=============================================================================
