---------------------------- MODULE EventListener ----------------------------
(***************************************************************************)
(* The event processor (src/backend/src/eventListener.ts).  The indexer    *)
(* process appends rows to EventLog and then calls processEvents, which    *)
(* walks the unprocessed rows in creation order and runs the handler of    *)
(* each: it upserts users, experts, the session and the transaction, pings *)
(* the notification channels, publishes to the session's room and marks    *)
(* the row processed.  A row whose handler throws is skipped and tried     *)
(* again by the next pass; the pass itself goes on.                        *)
(*                                                                         *)
(* Every await is a step: the process may die there, and a database call   *)
(* may throw there, and the API process may settle a session its peers     *)
(* have left, whose row both processes write.                              *)
(*                                                                         *)
(* Abstractions.  A payload is what the handlers tell apart: the session,  *)
(* whether the amount is missing, a number or not a number, whether the    *)
(* field that names the expert is there, and whether the sessionId is a    *)
(* string: handlers turn one that is not into a string, the broadcast does *)
(* not.  Transaction rows are keyed by the EventLog row whose txHash they  *)
(* carry.                                                                  *)
(***************************************************************************)
EXTENDS Naturals, Sequences, FiniteSets

CONSTANTS
    Sessions,      \* on-chain session identifiers
    NoSession,     \* a payload without a sessionId
    Payloads,      \* what the indexer may append
    Deserted,      \* the sessions whose peers may leave them for good
    MaxRows, MaxCrashes, MaxDbFaults    \* bounds of the instance

EventTypes ==
    {"EXPERT_REGISTERED", "SESSION_BOOKED", "SESSION_COMPLETED",
     "PAYMENT_RELEASED", "PAYMENT_STREAMED", "SESSION_PAUSED",
     "SESSION_REFUNDED"}

Payload == [type : EventTypes, sid : Sessions \cup {NoSession},
            amount : {"missing", "good", "bad"}, named : BOOLEAN, text : BOOLEAN]

ASSUME PayloadsAssumption == NoSession \notin Sessions /\ Payloads \subseteq Payload

ASSUME DesertedAssumption == Deserted \subseteq Sessions

ASSUME BoundsAssumption ==
    MaxRows \in Nat /\ MaxCrashes \in Nat /\ MaxDbFaults \in Nat

VARIABLES
    log,        \* EventLog payloads, in creation order
    processed,  \* the rows marked processed
    parties,    \* the rows whose users and expert profile have been upserted
    sessions,   \* Session.status, NONE while there is no session row
    txs,        \* the rows whose Transaction row exists
    notified,   \* how often the booking of a session was announced
    published,  \* the rows that have been published to their session's room
    pc, row, isNewSession,   \* the pass: where it is, at which row, one local
    failed,                  \* history: the rows a failed database call has cost
                             \* their turn
    crashes, dbFaults        \* faults so far (bounded)

tables == <<log, processed, parties, sessions, txs>>
sent == <<notified, published>>
pass == <<pc, row, isNewSession>>
vars == <<tables, sent, pass, crashes, dbFaults, failed>>

Statuses == {"NONE", "ACTIVE", "PAUSED", "COMPLETED", "REFUNDED"}
Points == {"idle", "scan", "handle", "parties", "lookup", "status", "notify",
           "transaction", "publish", "mark"}

Init ==
    /\ log = << >> /\ processed = {} /\ parties = {}
    /\ sessions = [s \in Sessions |-> "NONE"] /\ txs = {}
    /\ notified = [s \in Sessions |-> 0] /\ published = {}
    /\ pc = "idle" /\ row = 0 /\ isNewSession = FALSE
    /\ crashes = 0 /\ dbFaults = 0 /\ failed = {}

-----------------------------------------------------------------------------
(* The rows *)

\* A contract announces a session with its booking, unless the booking lies
\* before the ledger the indexer started from.
Lifecycle(p) ==
    LET earlier == {i \in DOMAIN log : log[i].sid = p.sid}
    IN  \/ p.sid = NoSession
        \/ earlier = {}
        \/ p.type # "SESSION_BOOKED"
        \/ \E i \in earlier : log[i].type = "SESSION_BOOKED"

\* ingestEvent: pollOnce appends only between two passes (one process).
IngestRow ==
    /\ pc = "idle" /\ Len(log) < MaxRows
    /\ \E p \in Payloads : Lifecycle(p) /\ log' = Append(log, p)
    /\ UNCHANGED <<processed, parties, sessions, txs, sent, pass, crashes, dbFaults, failed>>

\* The status a handler writes.
Effect(type) ==
    CASE type = "SESSION_BOOKED" -> "ACTIVE"
      [] type = "SESSION_PAUSED" -> "PAUSED"
      [] type = "SESSION_REFUNDED" -> "REFUNDED"
      [] type \in {"SESSION_COMPLETED", "PAYMENT_RELEASED"} -> "COMPLETED"

\* The payloads a handler throws on before it touches the database.
Rejects(e) ==
    \/ e.type \in {"EXPERT_REGISTERED", "SESSION_BOOKED"} /\ ~ e.named
    \/ /\ e.type \in {"SESSION_COMPLETED", "PAYMENT_STREAMED", "SESSION_PAUSED",
                      "SESSION_REFUNDED"}
       /\ e.sid = NoSession
    \/ e.type \in {"PAYMENT_RELEASED", "PAYMENT_STREAMED"} /\ e.amount # "good"

\* SESSION_BOOKED and PAYMENT_RELEASED without a session have nothing to do.
Sessionless(e) ==
    e.type \in {"SESSION_BOOKED", "PAYMENT_RELEASED"} /\ e.sid = NoSession

\* The handler of e writes a Transaction row.
HasTransaction(e) ==
    \/ e.type \in {"SESSION_BOOKED", "PAYMENT_RELEASED", "PAYMENT_STREAMED"}
    \/ e.type \in {"SESSION_COMPLETED", "SESSION_REFUNDED"} /\ e.amount # "missing"

-----------------------------------------------------------------------------
(* processEvents *)

Goto(point) == pc' = point

\* Seeded fault: a row whose handler throws ends the pass.
SkipPass ==
    Goto("idle") /\ row' = 0 /\ UNCHANGED <<tables, sent, isNewSession>>

\* Seeded fault: the handler's error is swallowed and the row goes on.
SkipSwallowed == Goto("publish") /\ UNCHANGED <<tables, sent, row, isNewSession>>

\* The handler throws: the row is counted as skipped and the pass goes on.
Skip == Goto("scan") /\ UNCHANGED <<tables, sent, row, isNewSession>>

\* findMany: the rows this pass will look at.
Begin ==
    /\ pc = "idle"
    /\ Goto("scan")
    /\ UNCHANGED <<tables, sent, row, isNewSession, crashes, dbFaults, failed>>

\* Seeded fault: the rows are walked in no particular order.
NextInAnyOrder ==
    {r \in 1..Len(log) : r \notin processed /\ r # row}

\* Seeded fault: the rows are walked from the newest to the oldest.
NextNewestFirst ==
    LET before == IF row = 0 THEN Len(log) ELSE row - 1
    IN  {r \in 1..before : r \notin processed /\ r + 1 .. before \subseteq processed}

\* Seeded fault: the walk leaves the last row for the next pass.
NextButLast ==
    {r \in row + 1 .. Len(log) - 1 :
        r \notin processed /\ row + 1 .. r - 1 \subseteq processed}

\* Seeded fault: the walk runs past the last row.
NextPastEnd ==
    {r \in row + 1 .. Len(log) + 1 :
        r \notin processed /\ row + 1 .. r - 1 \subseteq processed}

\* The rows that may come next: the oldest unprocessed one not yet visited.
Upcoming ==
    {r \in row + 1 .. Len(log) :
        r \notin processed /\ row + 1 .. r - 1 \subseteq processed}

\* The next unprocessed row by createdAt.
NextRow ==
    /\ pc = "scan"
    /\ \E r \in Upcoming : row' = r
    /\ Goto("handle") /\ isNewSession' = FALSE
    /\ UNCHANGED <<tables, sent, crashes, dbFaults, failed>>

EndPass ==
    /\ pc = "scan"
    /\ Upcoming = {}
    /\ Goto("idle") /\ row' = 0 /\ isNewSession' = FALSE
    /\ UNCHANGED <<tables, sent, crashes, dbFaults, failed>>

\* The payload of the row the pass is at.
cur == log[row]

\* handleEvent dispatches, and the handler validates the payload.
Handle ==
    /\ pc = "handle"
    /\ \/ Rejects(cur) /\ Skip
       \/ /\ ~ Rejects(cur)
          /\ Goto(CASE Sessionless(cur) -> "publish"
                    [] cur.type \in {"EXPERT_REGISTERED", "SESSION_BOOKED"}
                         /\ ~ Sessionless(cur) -> "parties"
                    [] cur.type = "PAYMENT_STREAMED" -> "lookup"
                    [] OTHER -> "status")
          /\ UNCHANGED <<tables, sent, row, isNewSession>>
    /\ UNCHANGED <<crashes, dbFaults, failed>>

\* user.upsert and expert.upsert of an EXPERT_REGISTERED event, idempotent.
RegisterExpert ==
    /\ pc = "parties" /\ cur.type = "EXPERT_REGISTERED"
    /\ parties' = parties \cup {row}
    /\ Goto("publish")
    /\ UNCHANGED <<log, processed, sessions, txs, sent, row, isNewSession,
                   crashes, dbFaults, failed>>

\* The seeker, the expert's user and the expert profile of a booking, all
\* idempotent; then its amount is parsed (a missing one is 0) and may throw.
UpsertParties ==
    /\ pc = "parties" /\ cur.type = "SESSION_BOOKED"
    /\ parties' = parties \cup {row}
    /\ Goto(IF cur.amount = "bad" THEN "scan" ELSE "lookup")
    /\ UNCHANGED <<log, processed, sessions, txs, sent, row, isNewSession,
                   crashes, dbFaults, failed>>

\* Seeded fault: every booking is taken for a first one.
AlwaysNew == TRUE

\* findUnique found no session row.
NoSessionRow == sessions[cur.sid] = "NONE"

\* A booking looks the session up, to remember whether it is new.
LookupBooked ==
    /\ pc = "lookup" /\ cur.type = "SESSION_BOOKED"
    /\ isNewSession' = NoSessionRow
    /\ Goto("status")
    /\ UNCHANGED <<tables, sent, row, crashes, dbFaults, failed>>

\* A streamed payment needs its session to be there.
LookupStreamed ==
    /\ pc = "lookup" /\ cur.type = "PAYMENT_STREAMED"
    /\ \/ NoSessionRow /\ Skip
       \/ /\ ~ NoSessionRow
          /\ Goto("transaction")
          /\ UNCHANGED <<tables, sent, row, isNewSession>>
    /\ UNCHANGED <<crashes, dbFaults, failed>>

\* session.upsert of a booking: ACTIVE whether the row is new or not.
BookSession ==
    /\ pc = "status" /\ cur.type = "SESSION_BOOKED"
    /\ sessions' = [sessions EXCEPT ![cur.sid] = Effect(cur.type)]
    /\ Goto(IF isNewSession THEN "notify" ELSE "transaction")
    /\ UNCHANGED <<log, processed, parties, txs, sent, row, isNewSession,
                   crashes, dbFaults, failed>>

\* session.updateMany of the others touches the row if there is one; then a
\* completion or a refund parses its amount, if it has any, and may throw.
UpdateStatus ==
    /\ pc = "status" /\ cur.type # "SESSION_BOOKED"
    /\ sessions' = IF NoSessionRow THEN sessions
                   ELSE [sessions EXCEPT ![cur.sid] = Effect(cur.type)]
    /\ Goto(CASE ~ HasTransaction(cur) -> "publish"
              [] HasTransaction(cur) /\ cur.amount = "bad" -> "scan"
              [] OTHER -> "transaction")
    /\ UNCHANGED <<log, processed, parties, txs, sent, row, isNewSession,
                   crashes, dbFaults, failed>>

\* expert.findUnique, then notifyBookingAsync, which is not awaited.
Notify ==
    /\ pc = "notify"
    /\ notified' = [notified EXCEPT ![cur.sid] = @ + 1]
    /\ Goto("transaction")
    /\ UNCHANGED <<tables, published, row, isNewSession, crashes, dbFaults, failed>>

\* transaction.upsert: its foreign key needs the session row.
WriteTransaction ==
    /\ pc = "transaction"
    /\ \/ /\ ~ NoSessionRow
          /\ txs' = txs \cup {row}
          /\ Goto("publish")
          /\ UNCHANGED <<log, processed, parties, sessions, sent, row, isNewSession>>
       \/ NoSessionRow /\ Skip
    /\ UNCHANGED <<crashes, dbFaults, failed>>

\* The event belongs in a session's room, which only a string names.
Scoped == cur.sid # NoSession /\ cur.type # "EXPERT_REGISTERED" /\ cur.text

\* maybeBroadcastSessionStatus.
Publish ==
    /\ pc = "publish"
    /\ published' = IF Scoped THEN published \cup {row} ELSE published
    /\ Goto("mark")
    /\ UNCHANGED <<tables, notified, row, isNewSession, crashes, dbFaults, failed>>

\* eventLog.update: processed.
Mark ==
    /\ pc = "mark"
    /\ processed' = processed \cup {row}
    /\ Goto("scan")
    /\ UNCHANGED <<log, parties, sessions, txs, sent, row, isNewSession,
                   crashes, dbFaults, failed>>

\* A database call throws: inside the loop it costs this row its turn.
DbFault ==
    /\ pc \in {"parties", "lookup", "status", "notify", "transaction", "mark"}
    /\ dbFaults < MaxDbFaults
    /\ dbFaults' = dbFaults + 1
    /\ failed' = failed \cup {row}
    /\ Skip
    /\ UNCHANGED crashes

\* The process dies and is started again.
Crash ==
    /\ pc # "idle" /\ crashes < MaxCrashes
    /\ crashes' = crashes + 1
    /\ Goto("idle") /\ row' = 0 /\ isNewSession' = FALSE
    /\ UNCHANGED <<tables, sent, dbFaults, failed>>

\* The API process: the grace period of a session that was left has run out.
\* Its updateMany matches only a row that is ACTIVE.
FallbackSettlement(s) ==
    /\ sessions[s] = "ACTIVE"
    /\ sessions' = [sessions EXCEPT ![s] = "COMPLETED"]
    /\ UNCHANGED <<log, processed, parties, txs, sent, pass, crashes, dbFaults, failed>>

Pass ==
    \/ Begin \/ NextRow \/ EndPass
    \/ Handle \/ RegisterExpert \/ UpsertParties
    \/ LookupBooked \/ LookupStreamed \/ BookSession \/ UpdateStatus \/ Notify
    \/ WriteTransaction \/ Publish \/ Mark

Next ==
    \/ IngestRow \/ Pass \/ DbFault \/ Crash
    \/ \E s \in Deserted : FallbackSettlement(s)

Spec == Init /\ [][Next]_vars

\* The indexer's loop keeps calling processEvents and every await returns.
FairSpec == Spec /\ WF_vars(Pass)

-----------------------------------------------------------------------------
(* Properties *)

\* Every variable keeps its type; what is recorded of rows is of rows there are.
TypeOK ==
    /\ log \in Seq(Payload)
    /\ processed \subseteq DOMAIN log /\ parties \subseteq DOMAIN log
    /\ txs \subseteq DOMAIN log /\ published \subseteq DOMAIN log
    /\ sessions \in [Sessions -> Statuses]
    /\ notified \in [Sessions -> Nat]
    /\ pc \in Points /\ row \in 0..Len(log) /\ isNewSession \in BOOLEAN
    /\ crashes \in Nat /\ dbFaults \in Nat /\ failed \subseteq DOMAIN log

\* The rows that write the status of s.
Setters(s) ==
    {i \in DOMAIN log : /\ log[i].sid = s /\ ~ Rejects(log[i])
                        /\ log[i].type \notin {"EXPERT_REGISTERED",
                                               "PAYMENT_STREAMED"}}

\* The status of s after the first k rows of the log, applied in order: that of
\* the last row that sets it, once the session has been booked.
StatusAt(s, k) ==
    LET upto == {i \in Setters(s) : i <= k}
        last == CHOOSE i \in upto : \A j \in upto : j <= i
    IN  IF \E i \in upto : log[i].type = "SESSION_BOOKED"
        THEN Effect(log[last].type) ELSE "NONE"

\* No row of s has to be tried again for an error: none of its handlers' database
\* calls threw, and no payload of s is malformed.  What happens to the rows of
\* other sessions does not matter.
Steady(s) ==
    \A i \in DOMAIN log :
        log[i].sid = s => i \notin failed /\ ~ Rejects(log[i]) /\ log[i].amount # "bad"

\* What the row of s may show when the chain has it in a status: a session that
\* was left is COMPLETED by the settlement before the chain says so.
Shown(s, st) ==
    IF st = "ACTIVE" /\ s \in Deserted THEN {"ACTIVE", "COMPLETED"} ELSE {st}

\* A session row mirrors the chain: its status is the one the chain's events
\* had given the session at some point, or that of a settlement while this was
\* ACTIVE, and that point is not before any row that has been marked processed.
\* No crash between two awaits, replay, settlement in the other process or
\* event of another session sets a session back, unless one of its own rows has
\* to be tried again for an error.
SessionsMirrorLog ==
    \A s \in Sessions :
        Steady(s) =>
           \E k \in 0..Len(log) :
              /\ \A i \in Setters(s) \cap processed : i <= k
              /\ sessions[s] \in Shown(s, StatusAt(s, k))

\* What SessionHub takes for granted of the indexer process: it writes each
\* session's statuses in chain order and skips none.  Whoever changes the
\* status of a session is either the settlement, or writes what the oldest row
\* of the session that is not processed says.
StatusesInChainOrder ==
    [][\A s \in Sessions :
          Steady(s) /\ sessions'[s] # sessions[s] =>
             \/ s \in Deserted /\ FallbackSettlement(s)
             \/ \E k \in Setters(s) \ processed :
                   /\ sessions'[s] = Effect(log[k].type)
                   /\ \A i \in Setters(s) : i < k => i \in processed]_vars

\* What schema.prisma says of Session ("mirrors the on-chain session record"):
\* once every row is processed, every session has the status the chain gave it
\* last.  A failing call breaks it, and so does a settlement, on purpose.
DrainedMirror ==
    processed = DOMAIN log =>
        \A s \in Sessions : sessions[s] = StatusAt(s, Len(log))

\* The effects of row r on the tables are complete.
Committed(r) ==
    /\ log[r].type \in {"EXPERT_REGISTERED", "SESSION_BOOKED"}
          /\ ~ Sessionless(log[r]) => r \in parties
    /\ HasTransaction(log[r]) /\ log[r].sid # NoSession =>
          r \in txs /\ sessions[log[r].sid] # "NONE"

\* A client that is told of an event finds it in the database: rows are
\* published, and marked processed, only after all their effects are written.
\* And the client is told: a session's event that is marked processed has been
\* published, unless its sessionId is not a string.  Such an event has all its
\* effects, on the session of that number, and is never published.
PublishedAfterCommitted ==
    /\ \A r \in published \cup processed : Committed(r)
    /\ \A r \in processed :
          log[r].sid # NoSession /\ log[r].type # "EXPERT_REGISTERED" =>
             IF log[r].text THEN r \in published ELSE r \notin published

\* However often a booking is replayed after a crash or a failed call, the
\* channels hear of a session at most once, and only of one that is there.
NotifiedAtMostOnce ==
    \A s \in Sessions :
        /\ notified[s] <= 1
        /\ notified[s] = 1 => sessions[s] # "NONE"

\* The payload of row r is well formed.
WellFormedRow(r) ==
    /\ ~ Rejects(log[r])
    /\ log[r].amount = "bad" => log[r].type \in {"EXPERT_REGISTERED", "SESSION_PAUSED"}

\* The handler of row r has all it needs when its turn comes, and its calls did
\* not fail: the session of a row that is not a booking has been booked, and none
\* of its rows throws.
Placed(r) ==
    /\ WellFormedRow(r) /\ r \notin failed
    /\ \/ log[r].sid = NoSession
       \/ log[r].type \in {"EXPERT_REGISTERED", "SESSION_BOOKED"}
       \/ /\ Steady(log[r].sid)
          /\ \E b \in Setters(log[r].sid) : log[b].type = "SESSION_BOOKED"

\* One pass is enough.  A pass that gets to its end leaves no row behind whose
\* handler had all it needed: whichever rows before it threw, for their payloads
\* or for failed calls, wherever earlier passes died, and whatever the settlement
\* wrote meanwhile.
OnePassSuffices ==
    [][EndPass => \A r \in DOMAIN log : Placed(r) => r \in processed]_vars

\* The handler of row r cannot throw by itself: the payload is well formed and
\* the session it refers to is there.
Sound(r) ==
    /\ WellFormedRow(r)
    /\ \/ log[r].sid = NoSession
       \/ log[r].type \in {"EXPERT_REGISTERED", "SESSION_BOOKED"}
       \/ sessions[log[r].sid] # "NONE"

\* Rows that throw for ever do not hold up the others: every row whose handler
\* can succeed is processed in the end.
SoundRowsProcessed ==
    \A r \in 1..MaxRows :
        (r \in DOMAIN log /\ Sound(r)) ~> (r \in processed)
=============================================================================
