--------------------------- MODULE SorobanIndexer ---------------------------
(***************************************************************************)
(* The chain poller (src/backend/src/sorobanIndexer.ts).  One process      *)
(* calls pollOnce() again and again: it reads its persisted position,      *)
(* pages through the RPC server's getEvents from that position, stores     *)
(* every event it can classify in the EventLog table, hands over to        *)
(* processEvents, and only then saves the position it reached.             *)
(*                                                                         *)
(* The network keeps closing ledgers meanwhile.  The process may be killed *)
(* at any await, a database call may throw, and an RPC call may fail.      *)
(*                                                                         *)
(* Abstractions.  The contract events of the network form one sequence,    *)
(* chain; an opaque getEvents cursor is the number of events it has passed.*)
(* A row of EventLog is the index in chain of the event it was made from.  *)
(* Every getEvents response carries a cursor, as the RPC protocol says,    *)
(* and every event a transaction hash or an id, without which ingestTxHash *)
(* would throw in each tick.  processEvents is the subject of module       *)
(* EventListener.                                                          *)
(***************************************************************************)
EXTENDS Naturals, Sequences

CONSTANTS
    PageLimit,   \* GET_EVENTS_LIMIT
    MaxPages,    \* MAX_PAGES_PER_TICK
    Lookback,    \* LOOKBACK_LEDGERS
    NoCursor,    \* the null lastCursor
    Retention,   \* how many ledgers back the RPC server still serves events
    MaxLedger, MaxEvents, MaxPerLedger, MaxFaults   \* bounds of the instance

ASSUME LimitsAssumption ==
    PageLimit \in Nat \ {0} /\ MaxPages \in Nat \ {0} /\ Lookback \in Nat \ {0}

ASSUME CursorAssumption == NoCursor \notin Nat

ASSUME BoundsAssumption ==
    /\ Retention \in Nat \ {0} /\ MaxLedger \in Nat /\ MaxEvents \in Nat
    /\ MaxPerLedger \in Nat /\ MaxFaults \in Nat

VARIABLES
    chain,          \* the network's contract events, in ledger order
    latest,         \* the sequence number of the last closed ledger
    eventLog,       \* the EventLog rows, in the order they were created
    savedLedger,    \* IndexerState.lastLedger (0 also when there is no row)
    savedCursor,    \* IndexerState.lastCursor (null also when there is no row)
    origin,         \* history: the ledger the first tick settled on, 0 before
    pc,             \* where pollOnce is
    lastLedger, cursor, knownLatest, startLedger,   \* locals of pollOnce
    newLastLedger, newCursor, page,
    at,             \* the last event the ingest loop has gone past
    faults          \* how many faults there have been (bounded by MaxFaults)

network == <<chain, latest>>
saved == <<savedLedger, savedCursor>>
locals == <<lastLedger, cursor, knownLatest, startLedger,
            newLastLedger, newCursor, page, at>>
vars == <<network, eventLog, saved, origin, pc, locals, faults>>

Points == {"idle", "bootstrap", "seed", "prepare", "fetch", "ingest", "save"}
Cursors == Nat \cup {NoCursor}
Event == [ledger : Nat, txHash : Nat, classified : BOOLEAN]

MaxOf(a, b) == IF a >= b THEN a ELSE b
MinOf(a, b) == IF a <= b THEN a ELSE b

\* The events the indexer has promised to keep: those it can classify, in
\* ledgers after the one it started from.
Due == {p \in DOMAIN chain : chain[p].classified /\ chain[p].ledger > origin}

\* Seeded fault: rows are not looked up before one is created.
NeverStored(p) == FALSE

\* findUnique({ where: { txHash } }) finds a row for the event at p.
Stored(p) == \E i \in DOMAIN eventLog :
                chain[eventLog[i]].txHash = chain[p].txHash

\* A tick has nothing on its stack: the locals of pollOnce have no value.
NoLocals ==
    /\ lastLedger' = 0 /\ cursor' = NoCursor /\ knownLatest' = 0
    /\ startLedger' = 0 /\ newLastLedger' = 0 /\ newCursor' = NoCursor
    /\ page' = 0 /\ at' = 0

Init ==
    /\ chain = << >> /\ latest = 1
    /\ eventLog = << >>
    /\ savedLedger = 0 /\ savedCursor = NoCursor /\ origin = 0
    /\ pc = "idle"
    /\ lastLedger = 0 /\ cursor = NoCursor /\ knownLatest = 0
    /\ startLedger = 0 /\ newLastLedger = 0 /\ newCursor = NoCursor
    /\ page = 0 /\ at = 0
    /\ faults = 0

-----------------------------------------------------------------------------
(* The network *)

\* A ledger closes with the events of its transactions, in order.  The hash
\* of a transaction is named by the position of its first event.
Ledger(n) ==
    {es \in [1..n -> [ledger : {latest + 1},
                      txHash : Len(chain) + 1 .. Len(chain) + n,
                      classified : BOOLEAN]] :
        \A i \in 1..n : \/ es[i].txHash = Len(chain) + i
                        \/ i > 1 /\ es[i].txHash = es[i - 1].txHash}

CloseLedger ==
    /\ latest < MaxLedger
    /\ \E n \in 0..MaxPerLedger :
          /\ Len(chain) + n <= MaxEvents
          /\ \E es \in Ledger(n) : chain' = chain \o es
    /\ latest' = latest + 1
    /\ UNCHANGED <<eventLog, saved, origin, pc, locals, faults>>

\* The first ledger whose events the RPC server still has.
Oldest == IF latest > Retention THEN latest - Retention + 1 ELSE 1

\* The RPC server accepts a request that resumes after the event `from`: by
\* cursor, or by a ledger inside the range it serves.
Serves(from) ==
    IF newCursor # NoCursor
    THEN /\ from = newCursor
         /\ \A p \in DOMAIN chain : p > from => chain[p].ledger >= Oldest
    ELSE /\ startLedger \in Oldest..latest
         /\ \A p \in DOMAIN chain : p <= from <=> chain[p].ledger < startLedger

-----------------------------------------------------------------------------
(* pollOnce, one action per stretch between two awaits *)

\* Seeded fault: a position without a cursor is taken for a fresh deployment.
FreshWithoutCursor == savedLedger = 0 \/ savedCursor = NoCursor

\* There is no IndexerState row yet, or one that says nothing.
Fresh == savedLedger = 0 /\ savedCursor = NoCursor

\* getIndexerState; a fresh deployment goes on to choose its first ledger.
ReadState ==
    /\ pc = "idle"
    /\ lastLedger' = savedLedger
    /\ cursor' = savedCursor
    /\ pc' = IF Fresh THEN "bootstrap" ELSE "prepare"
    /\ UNCHANGED <<network, eventLog, saved, origin, knownLatest, startLedger,
                   newLastLedger, newCursor, page, at, faults>>

\* getLatestLedger answers: start a little before the present.
Bootstrap ==
    /\ pc = "bootstrap"
    /\ knownLatest' = latest
    /\ lastLedger' = IF latest > Lookback THEN latest - Lookback ELSE 1
    /\ pc' = "seed"
    /\ UNCHANGED <<network, eventLog, saved, origin, cursor, startLedger,
                   newLastLedger, newCursor, page, at, faults>>

\* getLatestLedger fails: start from ledger 1.
BootstrapFail ==
    /\ pc = "bootstrap" /\ faults < MaxFaults
    /\ lastLedger' = 1
    /\ pc' = "seed"
    /\ faults' = faults + 1
    /\ UNCHANGED <<network, eventLog, saved, origin, cursor, knownLatest,
                   startLedger, newLastLedger, newCursor, page, at>>

\* saveLastProcessedLedger(lastLedger, null).
Seed ==
    /\ pc = "seed"
    /\ savedLedger' = lastLedger
    /\ savedCursor' = NoCursor
    /\ origin' = lastLedger
    /\ pc' = "prepare"
    /\ UNCHANGED <<network, eventLog, locals, faults>>

\* Seeded faults: the null cursor is not told apart; the event after the cursor
\* is taken to have been seen.
ResumeNull == cursor
ResumeLate == IF cursor = NoCursor THEN 0 ELSE cursor + 1

\* The last event before the ones this tick will collect.
Resume == IF cursor = NoCursor THEN 0 ELSE cursor

\* The values the page loop starts from.  Without a cursor, startLedger is
\* kept inside the network's range; sequence is the latest ledger, if known.
StartFrom(sequence) ==
    /\ pc = "prepare"
    /\ newLastLedger' = lastLedger
    /\ newCursor' = cursor
    /\ startLedger' = IF cursor = NoCursor
                      THEN MinOf(MaxOf(1, lastLedger + 1), sequence)
                      ELSE lastLedger + 1
    /\ at' = Resume
    /\ page' = 0
    /\ pc' = "fetch"
    /\ UNCHANGED <<network, eventLog, saved, origin, lastLedger, cursor,
                   knownLatest>>

Prepare ==
    /\ StartFrom(IF knownLatest # 0 THEN knownLatest ELSE latest)
    /\ UNCHANGED faults

\* getLatestLedger fails: startLedger keeps its unclamped value.
PrepareFail ==
    /\ faults < MaxFaults /\ cursor = NoCursor /\ knownLatest = 0
    /\ StartFrom(lastLedger + 1)
    /\ faults' = faults + 1

\* getEvents answers with the events from+1..to, at most PageLimit of them
\* and possibly fewer than there are.  A full page asks for another one.
Fetch(from, to) ==
    /\ pc = "fetch"
    /\ Serves(from)
    /\ newCursor' = to
    /\ at' = IF newCursor = NoCursor THEN from ELSE at
    /\ newLastLedger' =
          MaxOf(newLastLedger, IF to = from THEN latest ELSE chain[to].ledger)
    /\ page' = page + 1
    /\ pc' = IF to < from + PageLimit \/ page + 1 = MaxPages
             THEN "ingest" ELSE "fetch"
    /\ UNCHANGED <<network, eventLog, saved, origin, lastLedger, cursor,
                   knownLatest, startLedger, faults>>

EmptyPage == \E from \in 0..Len(chain) : Fetch(from, from)

EventPage ==
    \E from \in 0..Len(chain) :
       \E to \in from + 1 .. MinOf(from + PageLimit, Len(chain)) :
          Fetch(from, to)

\* getEvents fails or is refused: the loop keeps what it has collected.
FetchFail ==
    /\ pc = "fetch"
    /\ \/ /\ ~ \E from \in 0..Len(chain) : Serves(from)
          /\ UNCHANGED faults
       \/ /\ faults < MaxFaults
          /\ faults' = faults + 1
    /\ pc' = "ingest"
    /\ UNCHANGED <<network, eventLog, saved, origin, locals>>

\* Seeded fault: the loop stops one event short.
PendingShort == newCursor # NoCursor /\ at + 1 < newCursor

\* The ingest loop has events of this tick left to look at.
Pending == newCursor # NoCursor /\ at < newCursor

\* One round of the ingest loop: an event that cannot be classified is passed
\* over; ingestEvent stores the others unless a row has the same txHash.
Ingest ==
    /\ pc = "ingest" /\ Pending
    /\ at' = at + 1
    /\ eventLog' = IF chain[at + 1].classified /\ ~ Stored(at + 1)
                   THEN Append(eventLog, at + 1) ELSE eventLog
    /\ UNCHANGED <<network, saved, origin, pc, lastLedger, cursor, knownLatest,
                   startLedger, newLastLedger, newCursor, page, faults>>

\* Seeded fault: only a later ledger counts as progress.
MovedLedger == newLastLedger > lastLedger

\* The tick has moved past the saved position.
Moved ==
    \/ newLastLedger > lastLedger
    \/ newCursor # NoCursor /\ newCursor # cursor

\* processEvents returns; the position is saved only if it has moved.
Process ==
    /\ pc = "ingest" /\ ~ Pending
    /\ IF Moved
       THEN pc' = "save" /\ UNCHANGED locals
       ELSE pc' = "idle" /\ NoLocals
    /\ UNCHANGED <<network, eventLog, saved, origin, faults>>

\* saveLastProcessedLedger(newLastLedger, newCursor).
Save ==
    /\ pc = "save"
    /\ savedLedger' = newLastLedger
    /\ savedCursor' = newCursor
    /\ pc' = "idle"
    /\ NoLocals
    /\ UNCHANGED <<network, eventLog, origin, faults>>

\* The tick ends early: a database call throws out of pollOnce (the main loop
\* catches it), or the process dies and is started again.
GiveUp ==
    /\ faults < MaxFaults
    /\ faults' = faults + 1
    /\ pc' = "idle"
    /\ NoLocals
    /\ UNCHANGED <<network, eventLog, saved, origin>>

DatabaseThrows == pc \in {"seed", "ingest", "save"} /\ GiveUp
Crash == pc # "idle" /\ GiveUp

-----------------------------------------------------------------------------
Tick ==
    \/ ReadState \/ Bootstrap \/ Seed \/ Prepare
    \/ EmptyPage \/ EventPage \/ FetchFail
    \/ Ingest \/ Process \/ Save

Next ==
    \/ CloseLedger
    \/ Tick
    \/ BootstrapFail \/ PrepareFail \/ DatabaseThrows \/ Crash

Spec == Init /\ [][Next]_vars

\* The poll loop never stops, and a server that has events to return keeps
\* returning some of them: it does not answer with empty pages for ever.
Fairness == WF_vars(Tick) /\ SF_vars(EventPage)

FairSpec == Spec /\ Fairness

-----------------------------------------------------------------------------
(* Properties *)

\* Every variable keeps its type, and rows only ever point into the chain.
TypeOK ==
    /\ chain \in Seq(Event) /\ latest \in Nat \ {0}
    /\ eventLog \in Seq(Nat)
    /\ \A i \in DOMAIN eventLog : eventLog[i] \in DOMAIN chain
    /\ savedLedger \in Nat /\ savedCursor \in Cursors /\ origin \in Nat
    /\ pc \in Points
    /\ lastLedger \in Nat /\ cursor \in Cursors
    /\ knownLatest \in Nat /\ startLedger \in Nat
    /\ newLastLedger \in Nat /\ newCursor \in Cursors
    /\ page \in Nat /\ at \in Nat
    /\ faults \in Nat

\* No event is lost: whatever faults there have been, every event the indexer
\* has promised to keep and whose place the persisted cursor has passed has a
\* row with its txHash (save after ingest, sorobanIndexer.ts:418-449).
NoGap ==
    savedCursor # NoCursor =>
        \A p \in Due : p <= savedCursor => Stored(p)

\* What the name of the table says (schema.prisma: EventLog holds the raw
\* on-chain events): every event due that the cursor has passed has a row of
\* its own.  The code keeps one row per transaction hash.
OneRowPerEvent ==
    savedCursor # NoCursor =>
        \A p \in Due : p <= savedCursor =>
            \E i \in DOMAIN eventLog : eventLog[i] = p

\* An event is the first of its transaction that is due.
FirstOfHash(p) ==
    p \in Due /\ \A q \in Due : q < p => chain[q].txHash # chain[p].txHash

\* What is kept of a transaction with several events: exactly the first one due
\* has a row, as soon as the persisted cursor has passed it, and every row is
\* such an event's, wherever a page, a retry or the starting ledger cut the
\* transaction in two.
FirstOfEach ==
    /\ \A i \in DOMAIN eventLog : FirstOfHash(eventLog[i])
    /\ savedCursor # NoCursor =>
          \A p \in Due : p <= savedCursor /\ FirstOfHash(p) =>
             \E i \in DOMAIN eventLog : eventLog[i] = p

\* Only a fault makes a tick fetch again what an earlier tick has ingested: until
\* the first one, EventLog is between two ticks exactly what the persisted cursor
\* has passed.  A tick that ended inside a ledger, ran out of pages or found only
\* empty ones has saved how far it got.
ExactBetweenTicks ==
    pc = "idle" /\ faults = 0 =>
        \A p \in DOMAIN chain :
            (\E i \in DOMAIN eventLog : eventLog[i] = p) <=>
                FirstOfHash(p) /\ savedCursor # NoCursor /\ p <= savedCursor

\* Rows are created in chain order and once each, however often a page is
\* fetched again: processEvents replays them by createdAt, so a row out of
\* order would apply a session's events out of order.
RowsInChainOrder ==
    \A i, j \in DOMAIN eventLog : i < j => eventLog[i] < eventLog[j]

\* The persisted position never moves backwards and a cursor, once there, is
\* never dropped (sorobanIndexer.ts:443-450).
PositionNeverRegresses ==
    [][ /\ savedLedger' >= savedLedger
        /\ savedCursor # NoCursor =>
              savedCursor' # NoCursor /\ savedCursor' >= savedCursor ]_saved

\* The server no longer has what the saved position asks for, because the poller
\* was down for too long, or settled on ledger 1 when getLatestLedger failed.
\* Nothing in the code falls back to another position.
Stranded ==
    IF savedCursor # NoCursor
    THEN \E p \in DOMAIN chain : p > savedCursor /\ chain[p].ledger < Oldest
    ELSE savedLedger # 0 /\ savedLedger + 1 < Oldest

\* Unless the poller ends up stranded, every event the indexer has promised to
\* keep gets its row: faults that stop, a page limit, a truncated scan or a
\* tick's page budget delay it and nothing more.
EveryEventIngested ==
    \A p \in 1..MaxEvents :
        (origin # 0 /\ p \in Due) ~> ((p \in DOMAIN chain /\ Stored(p)) \/ []Stranded)

\* The poller implements EventMirror: rows are the chain's events in order,
\* once per transaction hash, none skipped, through every page boundary,
\* failed call, refused request, crash and restart.
Abstract == INSTANCE EventMirror
    WITH chain <- chain, origin <- origin, eventLog <- eventLog
Mirror == Abstract!Spec
=============================================================================
