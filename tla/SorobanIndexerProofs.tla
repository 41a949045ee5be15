------------------------ MODULE SorobanIndexerProofs ------------------------
(***************************************************************************)
(* Proofs about SorobanIndexer for every value of its constants: the       *)
(* persisted cursor never passes an event that has no row, rows are in     *)
(* chain order, and the poller implements EventMirror.                     *)
(***************************************************************************)
EXTENDS SorobanIndexer, SequenceTheorems, TLAPS

-----------------------------------------------------------------------------
(* The inductive invariant *)

\* The chain is in ledger order; the genesis ledger has no events.
ChainInv ==
    /\ \A p \in DOMAIN chain : chain[p].ledger > 1 /\ chain[p].ledger <= latest
    /\ \A p, q \in DOMAIN chain : p < q => chain[p].ledger <= chain[q].ledger

\* Nothing is stored before a first ledger is settled on, and that ledger is
\* the first or one that has a later one.
OriginInv ==
    /\ origin = 0 => /\ savedLedger = 0 /\ savedCursor = NoCursor
                     /\ eventLog = << >>
                     /\ pc \in {"idle", "bootstrap", "seed"}
    /\ origin > 1 => origin < latest

\* The persisted position: no cursor means the starting ledger, a cursor is a
\* place in the chain with everything due before it stored.
SavedInv ==
    /\ savedCursor = NoCursor => savedLedger = origin
    /\ savedCursor # NoCursor =>
          /\ savedCursor <= Len(chain)
          /\ \A p \in DOMAIN chain : p > savedCursor => chain[p].ledger > origin
          /\ \A p \in Due : p <= savedCursor => Stored(p)

\* Rows are in chain order; a row is made from an event that was due, after
\* every earlier one that was.
RowsInv ==
    /\ RowsInChainOrder
    /\ \A i \in DOMAIN eventLog :
          /\ eventLog[i] \in Due
          /\ \A p \in Due : p < eventLog[i] => Stored(p)

\* Up to the choice of the first ledger.
BootInv ==
    /\ pc \in {"bootstrap", "seed"} =>
          savedLedger = 0 /\ savedCursor = NoCursor /\ origin = 0
          /\ cursor = NoCursor
    /\ pc \in {"idle", "bootstrap"} => knownLatest = 0
    /\ pc = "seed" => lastLedger > 0 /\ (lastLedger > 1 => lastLedger < latest)
    /\ pc \in {"seed", "prepare"} /\ knownLatest > 0 /\ lastLedger > 1 =>
          lastLedger < knownLatest

\* Once the tick knows its position, it is the persisted one.
PositionInv ==
    pc \in {"prepare", "fetch", "ingest", "save"} =>
        lastLedger = savedLedger /\ cursor = savedCursor /\ origin > 0

\* What the page loop and the ingest loop have done so far.
ProgressInv ==
    pc \in {"fetch", "ingest", "save"} =>
        /\ newLastLedger >= lastLedger
        /\ newCursor = NoCursor => /\ cursor = NoCursor
                                   /\ newLastLedger = lastLedger
        /\ cursor # NoCursor => newCursor # NoCursor /\ newCursor >= cursor
        /\ newCursor # NoCursor =>
              /\ at <= newCursor /\ newCursor <= Len(chain)
              /\ \A p \in DOMAIN chain : p > at => chain[p].ledger > origin
              /\ \A p \in Due : p <= at => Stored(p)
        /\ pc = "fetch" /\ newCursor = NoCursor =>
              /\ startLedger <= origin + 1
              /\ origin > 1 => startLedger = origin + 1
        /\ pc = "save" /\ newCursor # NoCursor => at = newCursor

IInv ==
    /\ TypeOK /\ ChainInv /\ OriginInv /\ SavedInv /\ RowsInv
    /\ BootInv /\ PositionInv /\ ProgressInv

-----------------------------------------------------------------------------
(* Type correctness *)

\* The network only appends: the events that were there keep their places and
\* the new ones belong to the ledger that has closed.
LEMMA ChainGrows ==
    ASSUME TypeOK, CloseLedger
    PROVE  /\ chain' \in Seq(Event) /\ Len(chain') >= Len(chain)
           /\ \A p \in DOMAIN chain : p \in DOMAIN chain' /\ chain'[p] = chain[p]
           /\ \A p \in DOMAIN chain' :
                 p \notin DOMAIN chain => /\ p > Len(chain)
                                        /\ chain'[p].ledger = latest + 1
           /\ latest' = latest + 1
<1>0. PICK n \in 0..MaxPerLedger : \E es \in Ledger(n) : chain' = chain \o es
  BY DEF CloseLedger
<1>1. PICK es \in Ledger(n) : chain' = chain \o es
  BY <1>0
<1>2. n \in Nat /\ chain \in Seq(Event) /\ latest \in Nat
  BY BoundsAssumption DEF TypeOK
<1>3. es \in [1..n -> Event] /\ \A i \in 1..n : es[i].ledger = latest + 1
  BY <1>2 DEF Ledger, Event
<1>4. es \in Seq(Event) /\ Len(es) = n
  BY <1>2, <1>3
<1>5. chain' \in Seq(Event) /\ Len(chain') = Len(chain) + n
  BY <1>1, <1>2, <1>4, ConcatProperties
<1>6. \A p \in DOMAIN chain : p \in DOMAIN chain' /\ chain'[p] = chain[p]
  BY <1>1, <1>2, <1>4, <1>5, ConcatProperties
<1>7. \A p \in DOMAIN chain' : p \notin DOMAIN chain =>
         p > Len(chain) /\ chain'[p].ledger = latest + 1
  BY <1>1, <1>2, <1>3, <1>4, <1>5, ConcatProperties
<1> QED BY <1>2, <1>5, <1>6, <1>7 DEF CloseLedger

LEMMA EventTypes ==
    ASSUME TypeOK
    PROVE  /\ Len(chain) \in Nat /\ DOMAIN chain = 1..Len(chain)
           /\ \A p \in DOMAIN chain : chain[p] \in Event /\ chain[p].ledger \in Nat
<1>1. chain \in Seq(Event)
  BY DEF TypeOK
<1>2. \A e \in Event : e.ledger \in Nat
  BY DEF Event
<1> QED BY <1>1, <1>2

\* A page moves the cursor forward inside the chain, from the place the
\* request resumed at.
LEMMA FetchMoves ==
    ASSUME TypeOK, EmptyPage \/ EventPage
    PROVE  \E from, to \in 0..Len(chain) : from <= to /\ Fetch(from, to)
<1>1. Len(chain) \in Nat
  BY DEF TypeOK
<1>2. CASE EmptyPage
  BY <1>1, <1>2 DEF EmptyPage
<1>3. CASE EventPage
  <2>0. PICK from \in 0..Len(chain) :
             \E to \in from + 1 .. MinOf(from + PageLimit, Len(chain)) :
                Fetch(from, to)
    BY <1>3 DEF EventPage
  <2>1. PICK to \in from + 1 .. MinOf(from + PageLimit, Len(chain)) :
                Fetch(from, to)
    BY <2>0
  <2>2. to \in 0..Len(chain) /\ from <= to
    BY <1>1, <2>1, LimitsAssumption DEF MinOf
  <2> QED BY <2>1, <2>2
<1> QED BY <1>2, <1>3

\* Types survive every step; that the ingest loop stays inside the chain needs
\* the rest of the invariant.
LEMMA TypeStep == IInv /\ [Next]_vars => TypeOK'
<1> SUFFICES ASSUME IInv, [Next]_vars PROVE TypeOK'
  OBVIOUS
<1>0. TypeOK
  BY DEF IInv
<1> USE <1>0, CursorAssumption, LimitsAssumption, BoundsAssumption
<1>1. CASE CloseLedger
  <2>1. /\ chain' \in Seq(Event) /\ latest' = latest + 1
        /\ \A p \in DOMAIN chain : p \in DOMAIN chain'
    BY ChainGrows, <1>1
  <2>2. \A i \in DOMAIN eventLog : eventLog[i] \in DOMAIN chain'
    BY <2>1 DEF TypeOK
  <2> QED BY <1>1, <2>1, <2>2 DEF CloseLedger, TypeOK, locals, saved
<1>2. CASE ReadState
  BY <1>2 DEF ReadState, TypeOK, network, saved, Points, Cursors
<1>3. CASE Bootstrap
  BY <1>3 DEF Bootstrap, TypeOK, network, saved, Points
<1>4. CASE BootstrapFail
  BY <1>4 DEF BootstrapFail, TypeOK, network, saved, Points
<1>5. CASE Seed
  BY <1>5 DEF Seed, TypeOK, network, locals, Points, Cursors
<1>6. CASE Prepare \/ PrepareFail
  <2>1. PICK s \in Nat : StartFrom(s) /\ faults' \in Nat
    BY <1>6 DEF Prepare, PrepareFail, TypeOK
  <2>2. startLedger' \in Nat /\ at' \in Nat
    BY <2>1 DEF StartFrom, Resume, MinOf, MaxOf, TypeOK, Cursors
  <2> QED BY <2>1, <2>2 DEF StartFrom, TypeOK, network, saved, Points, Cursors
<1>7. CASE EmptyPage \/ EventPage
  <2>1. PICK from \in 0..Len(chain), to \in 0..Len(chain) :
             from <= to /\ Fetch(from, to)
    BY <1>7, FetchMoves
  <2>2. to # from => chain[to] \in Event
    BY <2>1 DEF TypeOK
  <2>3. newLastLedger' \in Nat
    BY <2>1, <2>2 DEF Fetch, TypeOK, MaxOf, Event
  <2>4. Len(chain) \in Nat
    BY DEF TypeOK
  <2> QED BY <2>1, <2>3, <2>4
        DEF Fetch, TypeOK, network, saved, Points, Cursors
<1>8. CASE FetchFail
  BY <1>8 DEF FetchFail, TypeOK, network, saved, locals, Points
<1>9. CASE Ingest
  <2>1. at + 1 \in DOMAIN chain /\ at' \in Nat
    BY <1>0, <1>9 DEF IInv, ProgressInv, Ingest, Pending, TypeOK, Cursors
  <2>2. /\ eventLog' \in Seq(Nat)
        /\ \A i \in DOMAIN eventLog' : eventLog'[i] \in DOMAIN chain
    BY <1>0, <1>9, <2>1 DEF Ingest, TypeOK
  <2> QED BY <1>0, <1>9, <2>1, <2>2 DEF Ingest, TypeOK, network, saved
<1>10. CASE Process
  BY <1>10 DEF Process, NoLocals, TypeOK, network, saved, locals, Points, Cursors
<1>11. CASE Save
  BY <1>11 DEF Save, NoLocals, TypeOK, network, Points, Cursors
<1>12. CASE DatabaseThrows \/ Crash
  BY <1>12 DEF DatabaseThrows, Crash, GiveUp, NoLocals, TypeOK, network, saved,
               Points, Cursors
<1>13. CASE UNCHANGED vars
  BY <1>13 DEF vars, network, saved, locals, TypeOK
<1> QED BY <1>1, <1>2, <1>3, <1>4, <1>5, <1>6, <1>7, <1>8, <1>9, <1>10, <1>11,
           <1>12, <1>13 DEF Next, Tick

-----------------------------------------------------------------------------
(* Preservation of the invariant *)

\* While the chain, the rows and the starting ledger stand still, so does
\* everything said of them.
LEMMA Still ==
    ASSUME UNCHANGED <<network, eventLog, origin>>
    PROVE  /\ Due' = Due
           /\ \A p : Stored(p)' <=> Stored(p)
           /\ ChainInv => ChainInv'
           /\ RowsInv => RowsInv'
BY DEF network, Due, Stored, ChainInv, RowsInv, RowsInChainOrder

LEMMA CloseLedgerStep == IInv /\ CloseLedger => IInv'
<1> SUFFICES ASSUME IInv, CloseLedger PROVE IInv'
  OBVIOUS
<1> USE CursorAssumption
<1>1. TypeOK /\ TypeOK'
  BY TypeStep DEF IInv, Next
<1>2. /\ chain' \in Seq(Event) /\ Len(chain') >= Len(chain)
      /\ \A p \in DOMAIN chain : p \in DOMAIN chain' /\ chain'[p] = chain[p]
      /\ \A p \in DOMAIN chain' :
            p \notin DOMAIN chain => p > Len(chain) /\ chain'[p].ledger = latest + 1
      /\ latest' = latest + 1
  BY <1>1, ChainGrows
<1>3. UNCHANGED <<eventLog, saved, origin, pc, locals, faults>>
  BY DEF CloseLedger
<1>4. Len(chain) \in Nat /\ Len(chain') \in Nat /\ latest \in Nat \ {0}
      /\ origin \in Nat
  <2>1. chain \in Seq(Event) /\ latest \in Nat \ {0} /\ origin \in Nat
    BY <1>1 DEF TypeOK
  <2> QED BY <1>2, <2>1
<1>5. \A p \in DOMAIN chain : (p \in Due' <=> p \in Due) /\ (Stored(p)' <=> Stored(p))
  <2>1. \A i \in DOMAIN eventLog : eventLog[i] \in DOMAIN chain
    BY <1>1 DEF TypeOK
  <2> QED BY <1>2, <1>3, <2>1 DEF Due, Stored
<1>6. \A p \in Due' : p \in Nat /\ (p \in DOMAIN chain \/ p > Len(chain))
  BY <1>2 DEF Due
<1>7. origin <= latest
  BY <1>1, <1>4 DEF IInv, OriginInv, TypeOK
<1>8. ChainInv'
  <2>1. \A p \in DOMAIN chain' : chain'[p].ledger > 1 /\ chain'[p].ledger <= latest + 1
    <3>1. \A p \in DOMAIN chain : chain[p].ledger \in Nat
      BY <1>1, EventTypes
    <3>2. \A p \in DOMAIN chain :
             chain[p].ledger > 1 /\ chain[p].ledger <= latest + 1
      BY <1>4, <3>1 DEF IInv, ChainInv
    <3> QED BY <1>2, <1>4, <3>2
  <2>2. ASSUME NEW p \in DOMAIN chain', NEW q \in DOMAIN chain', p < q
        PROVE  chain'[p].ledger <= chain'[q].ledger
    <3>1. CASE q \in DOMAIN chain
      <4>1. p \in DOMAIN chain
        BY <1>2, <1>4, <2>2, <3>1
      <4> QED BY <1>2, <2>2, <3>1, <4>1 DEF IInv, ChainInv
    <3>2. CASE q \notin DOMAIN chain
      BY <1>2, <2>1, <3>2
    <3> QED BY <3>1, <3>2
  <2> QED BY <1>2, <2>1, <2>2 DEF ChainInv
<1>9. OriginInv'
  BY <1>2, <1>3, <1>4 DEF IInv, OriginInv, saved
<1>10. \A c \in Nat : (\A p \in DOMAIN chain : p > c => chain[p].ledger > origin)
          => (\A p \in DOMAIN chain' : p > c => chain'[p].ledger > origin)
  BY <1>2, <1>4, <1>7
<1>11. SavedInv'
  <2>1. CASE savedCursor = NoCursor
    BY <1>3, <2>1 DEF IInv, SavedInv, saved
  <2>2. CASE savedCursor # NoCursor
    <3>1. savedCursor \in Nat /\ savedCursor <= Len(chain)
      BY <1>1, <2>2 DEF IInv, SavedInv, TypeOK, Cursors
    <3>2. \A p \in DOMAIN chain' : p > savedCursor => chain'[p].ledger > origin
      BY <1>10, <2>2, <3>1 DEF IInv, SavedInv
    <3>3. \A p \in Due' : p <= savedCursor => Stored(p)'
      BY <1>4, <1>5, <1>6, <2>2, <3>1 DEF IInv, SavedInv
    <3> QED BY <1>2, <1>3, <1>4, <2>2, <3>1, <3>2, <3>3 DEF SavedInv, saved
  <2> QED BY <2>1, <2>2
<1>12. RowsInv'
  <2> SUFFICES ASSUME NEW i \in DOMAIN eventLog
               PROVE  /\ eventLog[i] \in Due'
                      /\ \A p \in Due' : p < eventLog[i] => Stored(p)'
    BY <1>3 DEF IInv, RowsInv, RowsInChainOrder
  <2>1. eventLog[i] \in Due /\ eventLog[i] \in DOMAIN chain
    BY <1>1 DEF IInv, RowsInv, TypeOK
  <2> QED BY <1>4, <1>5, <1>6, <2>1 DEF IInv, RowsInv
<1>13. BootInv' /\ PositionInv'
  BY <1>1, <1>2, <1>3
     DEF IInv, BootInv, PositionInv, saved, locals, TypeOK
<1>14. ProgressInv'
  <2>1. CASE newCursor = NoCursor \/ pc \notin {"fetch", "ingest", "save"}
    BY <1>3, <2>1 DEF IInv, ProgressInv, locals
  <2>2. CASE newCursor # NoCursor /\ pc \in {"fetch", "ingest", "save"}
    <3>1. /\ newCursor \in Nat /\ at \in Nat
          /\ at <= newCursor /\ newCursor <= Len(chain)
      BY <1>1, <2>2 DEF IInv, ProgressInv, TypeOK, Cursors
    <3>2. \A p \in DOMAIN chain' : p > at => chain'[p].ledger > origin
      BY <1>10, <2>2, <3>1 DEF IInv, ProgressInv
    <3>3. \A p \in Due' : p <= at => Stored(p)'
      BY <1>4, <1>5, <1>6, <2>2, <3>1 DEF IInv, ProgressInv
    <3> QED BY <1>2, <1>3, <1>4, <2>2, <3>1, <3>2, <3>3
            DEF IInv, ProgressInv, locals
  <2> QED BY <2>1, <2>2
<1> QED BY <1>1, <1>8, <1>9, <1>11, <1>12, <1>13, <1>14 DEF IInv

\* The actions that choose where a tick starts: nothing is fetched or stored.
LEMMA StartStep ==
    IInv /\ (ReadState \/ Bootstrap \/ BootstrapFail \/ Seed) => IInv'
<1> SUFFICES ASSUME IInv, ReadState \/ Bootstrap \/ BootstrapFail \/ Seed
             PROVE IInv'
  OBVIOUS
<1> USE CursorAssumption, LimitsAssumption
<1>1. TypeOK /\ TypeOK'
  BY TypeStep DEF IInv, Next, Tick
<1>2. /\ latest \in Nat \ {0} /\ lastLedger \in Nat /\ savedLedger \in Nat
      /\ origin \in Nat
  BY <1>1 DEF TypeOK
<1>3. CASE ReadState
  <2>1. ChainInv' /\ RowsInv' /\ OriginInv' /\ SavedInv'
    BY <1>3, Still
       DEF IInv, ReadState, Fresh, OriginInv, SavedInv, network, saved
  <2>2. BootInv' /\ PositionInv' /\ ProgressInv'
    BY <1>2, <1>3 DEF IInv, ReadState, Fresh, OriginInv, SavedInv, BootInv,
                      PositionInv, ProgressInv, saved
  <2> QED BY <1>1, <2>1, <2>2 DEF IInv
<1>4. CASE Bootstrap \/ BootstrapFail
  <2>1. UNCHANGED <<network, eventLog, origin, saved, cursor>> /\ pc' = "seed"
    BY <1>4 DEF Bootstrap, BootstrapFail
  <2>2. ChainInv' /\ RowsInv' /\ OriginInv' /\ SavedInv'
    BY <1>4, <2>1, Still
       DEF IInv, OriginInv, SavedInv, BootInv, network, saved, Bootstrap,
           BootstrapFail
  <2>3. BootInv' /\ PositionInv' /\ ProgressInv'
    BY <1>2, <1>4, <2>1
       DEF IInv, Bootstrap, BootstrapFail, BootInv, PositionInv, ProgressInv,
           network, saved
  <2> QED BY <1>1, <2>2, <2>3 DEF IInv
<1>5. CASE Seed
  <2>1. /\ savedCursor' = NoCursor /\ origin' = lastLedger
        /\ savedLedger' = lastLedger /\ cursor = NoCursor /\ eventLog = << >>
        /\ lastLedger > 0 /\ (lastLedger > 1 => lastLedger < latest)
        /\ UNCHANGED <<network, eventLog, locals>> /\ pc' = "prepare"
    BY <1>5 DEF IInv, Seed, BootInv, OriginInv
  <2>2. ChainInv' /\ RowsInv' /\ OriginInv' /\ SavedInv'
    BY <1>2, <2>1
       DEF IInv, ChainInv, RowsInv, RowsInChainOrder, OriginInv, SavedInv,
           network
  <2>3. BootInv' /\ PositionInv' /\ ProgressInv'
    BY <1>2, <1>5, <2>1
       DEF IInv, Seed, BootInv, PositionInv, ProgressInv, locals
  <2> QED BY <1>1, <2>2, <2>3 DEF IInv
<1> QED BY <1>3, <1>4, <1>5

\* The first request of a tick resumes at the persisted cursor or, without
\* one, no later than just after the starting ledger.
LEMMA PrepareStep == IInv /\ (Prepare \/ PrepareFail) => IInv'
<1> SUFFICES ASSUME IInv, Prepare \/ PrepareFail PROVE IInv'
  OBVIOUS
<1> USE CursorAssumption
<1>1. TypeOK /\ TypeOK'
  BY TypeStep DEF IInv, Next, Tick
<1>2. /\ latest \in Nat \ {0} /\ lastLedger \in Nat /\ origin \in Nat
      /\ knownLatest \in Nat /\ cursor \in Cursors
  BY <1>1 DEF TypeOK
<1>3. PICK s \in Nat :
         /\ StartFrom(s)
         /\ \/ s = knownLatest /\ knownLatest # 0
            \/ s = latest
            \/ s = lastLedger + 1
  BY <1>2 DEF Prepare, PrepareFail
<1>4. /\ pc = "prepare" /\ pc' = "fetch"
      /\ UNCHANGED <<network, eventLog, saved, origin, lastLedger, cursor,
                     knownLatest>>
      /\ newLastLedger' = lastLedger /\ newCursor' = cursor /\ at' = Resume
  BY <1>3 DEF StartFrom
<1>5. ChainInv' /\ RowsInv' /\ OriginInv' /\ SavedInv'
  BY <1>4, Still DEF IInv, OriginInv, SavedInv, network, saved
<1>6. lastLedger = savedLedger /\ cursor = savedCursor /\ origin > 0
  BY <1>4 DEF IInv, PositionInv
<1>7. BootInv' /\ PositionInv'
  BY <1>4, <1>6 DEF BootInv, PositionInv, saved
<1>8. cursor = NoCursor =>
         startLedger' <= origin + 1 /\ (origin > 1 => startLedger' = origin + 1)
  <2>1. cursor = NoCursor => lastLedger = origin
    BY <1>6 DEF IInv, SavedInv
  <2>2. origin > 1 => origin < latest
    BY DEF IInv, OriginInv
  <2>3. knownLatest # 0 /\ lastLedger > 1 => lastLedger < knownLatest
    BY <1>2, <1>4 DEF IInv, BootInv
  <2> QED BY <1>2, <1>3, <2>1, <2>2, <2>3 DEF StartFrom, MinOf, MaxOf
<1>9. cursor # NoCursor =>
         /\ at' = cursor /\ cursor \in Nat /\ cursor <= Len(chain)
         /\ \A p \in DOMAIN chain : p > cursor => chain[p].ledger > origin
         /\ \A p \in Due : p <= cursor => Stored(p)
  BY <1>2, <1>4, <1>6 DEF IInv, SavedInv, Resume, Cursors
<1>10. ProgressInv'
  <2>1. Due' = Due /\ (\A p : Stored(p)' <=> Stored(p)) /\ chain' = chain
    BY <1>4, Still DEF network
  <2> QED BY <1>2, <1>4, <1>8, <1>9, <2>1 DEF ProgressInv
<1> QED BY <1>1, <1>5, <1>7, <1>10 DEF IInv

\* A page extends what the tick has collected without a hole: the request
\* resumes where the last one ended, or at a ledger not after the first due.
LEMMA PageStep == IInv /\ (EmptyPage \/ EventPage) => IInv'
<1> SUFFICES ASSUME IInv, EmptyPage \/ EventPage PROVE IInv'
  OBVIOUS
<1> USE CursorAssumption
<1>1. TypeOK /\ TypeOK'
  BY TypeStep DEF IInv, Next, Tick
<1>2. /\ latest \in Nat \ {0} /\ origin \in Nat /\ newLastLedger \in Nat
      /\ lastLedger \in Nat /\ newCursor \in Cursors /\ cursor \in Cursors
      /\ at \in Nat /\ startLedger \in Nat
  BY <1>1 DEF TypeOK
<1>3. /\ Len(chain) \in Nat /\ DOMAIN chain = 1..Len(chain)
      /\ \A p \in DOMAIN chain : chain[p].ledger \in Nat
  BY <1>1, EventTypes
<1>4. PICK from \in 0..Len(chain), to \in 0..Len(chain) :
         from <= to /\ Fetch(from, to)
  BY <1>1, FetchMoves
<1>5. /\ pc = "fetch" /\ pc' \in {"fetch", "ingest"} /\ newCursor' = to
      /\ at' = IF newCursor = NoCursor THEN from ELSE at
      /\ UNCHANGED <<network, eventLog, saved, origin, lastLedger, cursor,
                     knownLatest, startLedger>>
  BY <1>4 DEF Fetch
<1>6. Due' = Due /\ (\A p : Stored(p)' <=> Stored(p)) /\ chain' = chain
  BY <1>5, Still DEF network
<1>7. ChainInv' /\ RowsInv' /\ OriginInv' /\ SavedInv'
  BY <1>5, Still DEF IInv, OriginInv, SavedInv, network, saved
<1>8. BootInv' /\ PositionInv'
  BY <1>5 DEF IInv, BootInv, PositionInv, saved
<1>9. newLastLedger' >= lastLedger
  <2>1. newLastLedger' = MaxOf(newLastLedger,
                               IF to = from THEN latest ELSE chain[to].ledger)
    BY <1>4 DEF Fetch
  <2>2. to # from => to \in DOMAIN chain
    BY <1>3, <1>4
  <2>3. newLastLedger >= lastLedger
    BY <1>5 DEF IInv, ProgressInv
  <2> QED BY <1>2, <1>3, <2>1, <2>2, <2>3 DEF MaxOf
<1>10. cursor # NoCursor => to >= cursor
  BY <1>2, <1>4, <1>5 DEF IInv, ProgressInv, Fetch, Serves, Cursors
<1>11. /\ at' <= to
       /\ \A p \in DOMAIN chain : p > at' => chain[p].ledger > origin
       /\ \A p \in Due : p <= at' => Stored(p)
  <2>1. CASE newCursor # NoCursor
    BY <1>2, <1>4, <1>5, <2>1 DEF IInv, ProgressInv, Fetch, Serves, Cursors
  <2>2. CASE newCursor = NoCursor
    <3>1. \A p \in DOMAIN chain : p <= from <=> chain[p].ledger < startLedger
      BY <1>4, <2>2 DEF Fetch, Serves
    <3>2. startLedger <= origin + 1 /\ (origin > 1 => startLedger = origin + 1)
      BY <1>5, <2>2 DEF IInv, ProgressInv
    <3>3. \A p \in DOMAIN chain : chain[p].ledger > 1
      BY DEF IInv, ChainInv
    <3>4. \A p \in DOMAIN chain : p > from => chain[p].ledger > origin
      BY <1>2, <1>3, <3>1, <3>2, <3>3
    <3>5. \A p \in Due : p > from
      BY <1>2, <1>3, <3>1, <3>2 DEF Due
    <3> QED BY <1>3, <1>4, <1>5, <2>2, <3>4, <3>5 DEF Due
  <2> QED BY <2>1, <2>2
<1>12. ProgressInv'
  BY <1>4, <1>5, <1>6, <1>9, <1>10, <1>11 DEF ProgressInv
<1> QED BY <1>1, <1>7, <1>8, <1>12 DEF IInv

\* One round of the ingest loop adds at most the event it looks at, and every
\* event due before that one already has its row.
LEMMA IngestStep == IInv /\ Ingest => IInv'
<1> SUFFICES ASSUME IInv, Ingest PROVE IInv'
  OBVIOUS
<1> USE CursorAssumption
<1>1. TypeOK /\ TypeOK'
  BY TypeStep DEF IInv, Next, Tick
<1>2. /\ eventLog \in Seq(Nat) /\ origin \in Nat /\ at \in Nat
      /\ newCursor \in Cursors /\ savedCursor \in Cursors
  BY <1>1 DEF TypeOK
<1>3. /\ Len(chain) \in Nat /\ DOMAIN chain = 1..Len(chain)
      /\ \A p \in DOMAIN chain : chain[p].ledger \in Nat
  BY <1>1, EventTypes
<1>4. /\ pc = "ingest" /\ newCursor # NoCursor /\ at < newCursor
      /\ newCursor \in Nat /\ at' = at + 1
      /\ UNCHANGED <<network, saved, origin, pc, lastLedger, cursor, knownLatest,
                     startLedger, newLastLedger, newCursor, page>>
  BY <1>2 DEF Ingest, Pending, Cursors
<1>5. /\ newCursor <= Len(chain)
      /\ \A p \in DOMAIN chain : p > at => chain[p].ledger > origin
      /\ \A p \in Due : p <= at => Stored(p)
  BY <1>4 DEF IInv, ProgressInv
<1>6. at + 1 \in DOMAIN chain
  BY <1>2, <1>3, <1>4, <1>5
<1>7. Due' = Due /\ chain' = chain
  BY <1>4 DEF Due, network
<1>8. \A p : Stored(p) => Stored(p)'
  BY <1>2, <1>6, <1>7 DEF Ingest, Stored
<1>9. ASSUME NEW p \in Due, p = at + 1 PROVE Stored(p)'
  <2>1. CASE Stored(p)
    BY <1>8, <2>1
  <2>2. CASE ~ Stored(p)
    <3>1. eventLog' = Append(eventLog, p)
      BY <1>9, <2>2 DEF Ingest, Due
    <3>2. /\ Len(eventLog) + 1 \in DOMAIN eventLog'
          /\ eventLog'[Len(eventLog) + 1] = p
      BY <1>2, <1>9, <3>1
    <3> QED BY <1>7, <3>2 DEF Stored
  <2> QED BY <2>1, <2>2
<1>10. \A p \in Due : p <= at' => Stored(p)'
  <2>1. \A p \in Due : p \in Nat
    BY <1>3 DEF Due
  <2> QED BY <1>2, <1>4, <1>5, <1>8, <1>9, <2>1
<1>11. RowsInv'
  <2>1. CASE eventLog' = eventLog
    BY <1>7, <1>8, <2>1 DEF IInv, RowsInv, RowsInChainOrder
  <2>2. CASE /\ chain[at + 1].classified /\ ~ Stored(at + 1)
             /\ eventLog' = Append(eventLog, at + 1)
    <3>1. at + 1 \in Due
      BY <1>2, <1>5, <1>6, <2>2 DEF Due
    <3>2. \A p \in Due : p < at + 1 => Stored(p)'
      BY <1>3, <1>2, <1>4, <1>10 DEF Due
    <3>3. ASSUME NEW i \in DOMAIN eventLog'
          PROVE  /\ eventLog'[i] \in Due
                 /\ \A p \in Due : p < eventLog'[i] => Stored(p)'
      <4>1. CASE i \in DOMAIN eventLog
        BY <1>2, <1>8, <2>2, <4>1 DEF IInv, RowsInv
      <4>2. CASE i \notin DOMAIN eventLog
        <5>1. eventLog'[i] = at + 1
          BY <1>2, <2>2, <3>3, <4>2
        <5> QED BY <3>1, <3>2, <5>1
      <4> QED BY <4>1, <4>2
    <3>4. \A i \in DOMAIN eventLog : eventLog[i] < at + 1
      <4>1. ASSUME NEW i \in DOMAIN eventLog, eventLog[i] = at + 1 PROVE FALSE
        BY <2>2, <4>1 DEF Stored
      <4>2. ASSUME NEW i \in DOMAIN eventLog, at + 1 < eventLog[i] PROVE FALSE
        BY <2>2, <3>1, <4>2 DEF IInv, RowsInv
      <4> QED BY <1>2, <4>1, <4>2
    <3>5. RowsInChainOrder'
      BY <1>2, <2>2, <3>4 DEF IInv, RowsInv, RowsInChainOrder
    <3> QED BY <1>7, <3>3, <3>5 DEF RowsInv
  <2> QED BY <2>1, <2>2 DEF Ingest
<1>12. ChainInv' /\ OriginInv' /\ BootInv' /\ PositionInv'
  BY <1>4 DEF IInv, ChainInv, OriginInv, BootInv, PositionInv, network, saved
<1>13. SavedInv'
  BY <1>4, <1>7, <1>8 DEF IInv, SavedInv, saved
<1>14. ProgressInv'
  BY <1>2, <1>3, <1>4, <1>5, <1>7, <1>10 DEF IInv, ProgressInv
<1> QED BY <1>1, <1>11, <1>12, <1>13, <1>14 DEF IInv

\* The end of a tick: only now, with every collected event stored, does the
\* persisted position move.
LEMMA EndStep ==
    IInv /\ (FetchFail \/ Process \/ Save \/ DatabaseThrows \/ Crash) => IInv'
<1> SUFFICES ASSUME IInv,
                    FetchFail \/ Process \/ Save \/ DatabaseThrows \/ Crash
             PROVE IInv'
  OBVIOUS
<1> USE CursorAssumption
<1>1. TypeOK /\ TypeOK'
  BY TypeStep DEF IInv, Next, Tick
<1>2. UNCHANGED <<network, eventLog, origin>>
  BY DEF FetchFail, Process, Save, DatabaseThrows, Crash, GiveUp
<1>3. /\ Due' = Due /\ (\A p : Stored(p)' <=> Stored(p)) /\ chain' = chain
      /\ ChainInv' /\ RowsInv'
  BY <1>2, Still DEF IInv, network
<1>4. CASE FetchFail
  BY <1>1, <1>3, <1>4
     DEF IInv, FetchFail, OriginInv, SavedInv, BootInv, PositionInv,
         ProgressInv, network, saved, locals
<1>5. CASE Process
  <2>1. pc = "ingest" /\ ~ Pending /\ UNCHANGED saved
    BY <1>5 DEF Process
  <2>2. CASE pc' = "idle" /\ NoLocals
    BY <1>1, <1>2, <1>3, <2>1, <2>2
       DEF IInv, OriginInv, SavedInv, BootInv, PositionInv, ProgressInv,
           NoLocals, network, saved
  <2>3. CASE pc' = "save" /\ UNCHANGED locals
    <3>1. at \in Nat /\ newCursor \in Cursors
      BY <1>1 DEF TypeOK
    <3>2. newCursor # NoCursor => at = newCursor
      BY <2>1, <3>1 DEF IInv, ProgressInv, Pending, Cursors
    <3> QED BY <1>1, <1>2, <1>3, <2>1, <2>3, <3>2
       DEF IInv, OriginInv, SavedInv, BootInv, PositionInv, ProgressInv,
           network, saved, locals
  <2> QED BY <1>5, <2>2, <2>3 DEF Process
<1>6. CASE Save
  <2>1. /\ savedLedger' = newLastLedger /\ savedCursor' = newCursor
        /\ pc = "save" /\ pc' = "idle" /\ NoLocals
    BY <1>6 DEF Save
  <2>2. OriginInv' /\ BootInv' /\ PositionInv' /\ ProgressInv'
    BY <1>2, <2>1 DEF IInv, OriginInv, BootInv, PositionInv, ProgressInv,
                      NoLocals, network
  <2>3. SavedInv'
    <3>1. newCursor = NoCursor => newLastLedger = origin
      BY <2>1 DEF IInv, ProgressInv, PositionInv, SavedInv
    <3>2. newCursor # NoCursor =>
             /\ newCursor <= Len(chain)
             /\ \A p \in DOMAIN chain : p > newCursor => chain[p].ledger > origin
             /\ \A p \in Due : p <= newCursor => Stored(p)
      BY <2>1 DEF IInv, ProgressInv
    <3> QED BY <1>2, <1>3, <2>1, <3>1, <3>2 DEF SavedInv
  <2> QED BY <1>1, <1>3, <2>2, <2>3 DEF IInv
<1>7. CASE DatabaseThrows \/ Crash
  <2>1. UNCHANGED saved /\ NoLocals /\ pc' = "idle" /\ pc # "idle"
    BY <1>7 DEF DatabaseThrows, Crash, GiveUp
  <2> QED BY <1>1, <1>2, <1>3, <2>1
     DEF IInv, OriginInv, SavedInv, BootInv, PositionInv, ProgressInv,
         NoLocals, network, saved
<1> QED BY <1>4, <1>5, <1>6, <1>7

LEMMA InvariantStep == IInv /\ [Next]_vars => IInv'
<1> SUFFICES ASSUME IInv, [Next]_vars PROVE IInv'
  OBVIOUS
<1>1. CASE UNCHANGED vars
  <2>1. UNCHANGED <<network, eventLog, origin, saved, locals, pc>>
    BY <1>1 DEF vars
  <2> QED BY <2>1, TypeStep, Still
      DEF IInv, OriginInv, SavedInv, BootInv, PositionInv, ProgressInv,
          network, saved, locals
<1> QED BY <1>1, CloseLedgerStep, StartStep, PrepareStep, PageStep, IngestStep,
           EndStep DEF Next, Tick

LEMMA InvariantInit == Init => IInv
BY CursorAssumption
   DEF Init, IInv, TypeOK, ChainInv, OriginInv, SavedInv, RowsInv,
       RowsInChainOrder, BootInv, PositionInv, ProgressInv, Due, Points, Cursors

-----------------------------------------------------------------------------
(* Theorems *)

\* Every reachable state satisfies the inductive invariant.
THEOREM Invariant == Spec => []IInv
BY InvariantInit, InvariantStep, PTL DEF Spec

\* Every reachable state is well typed.
THEOREM TypeCorrect == Spec => []TypeOK
<1>1. IInv => TypeOK
  BY DEF IInv
<1> QED BY <1>1, Invariant, PTL

\* No event is lost, for every page size, page budget, lookback, retention and
\* number of faults: the persisted cursor passes an event that is due only
\* when the event's transaction hash has a row.
THEOREM NoEventLost == Spec => []NoGap
<1>1. IInv => NoGap
  BY DEF IInv, SavedInv, NoGap
<1> QED BY <1>1, Invariant, PTL

\* Rows are created in chain order, whatever is fetched a second time after a
\* failure.
THEOREM RowsOrdered == Spec => []RowsInChainOrder
<1>1. IInv => RowsInChainOrder
  BY DEF IInv, RowsInv
<1> QED BY <1>1, Invariant, PTL

\* The persisted position never moves backwards and keeps its cursor.
THEOREM PositionMonotone == Spec => PositionNeverRegresses
<1> DEFINE Forward ==
              /\ savedLedger' >= savedLedger
              /\ savedCursor # NoCursor =>
                    savedCursor' # NoCursor /\ savedCursor' >= savedCursor
<1>1. IInv /\ [Next]_vars => [Forward]_saved
  <2> SUFFICES ASSUME IInv, [Next]_vars, saved' # saved PROVE Forward
    OBVIOUS
  <2>1. Seed \/ Save
    BY DEF Next, Tick, CloseLedger, ReadState, Bootstrap, BootstrapFail, Prepare,
           PrepareFail, StartFrom, EmptyPage, EventPage, Fetch, FetchFail, Ingest,
           Process, DatabaseThrows, Crash, GiveUp, vars
  <2>2. CASE Seed
    BY <2>2 DEF IInv, TypeOK, Seed, BootInv
  <2>3. CASE Save
    BY <2>3 DEF IInv, TypeOK, Save, PositionInv, ProgressInv, Cursors
  <2> QED BY <2>1, <2>2, <2>3
<1> QED BY <1>1, Invariant, PTL DEF Spec, PositionNeverRegresses

\* The poller implements EventMirror: rows are the chain's events from the
\* starting ledger on, one at a time in order, once per hash, none skipped.
THEOREM ImplementsMirror == Spec => Mirror
<1>1. Init => Abstract!Init
  BY DEF Init, Abstract!Init
<1>2. IInv /\ [Next]_vars => [Abstract!Next]_Abstract!vars
  <2> SUFFICES ASSUME IInv, [Next]_vars
               PROVE  Abstract!Next \/ UNCHANGED <<chain, origin, eventLog>>
    BY DEF Abstract!vars
  <2>1. CASE CloseLedger
    <3>1. TypeOK
      BY DEF IInv
    <3>2. /\ Len(chain') >= Len(chain)
          /\ \A p \in DOMAIN chain : chain'[p] = chain[p]
      BY <2>1, <3>1, ChainGrows
    <3> QED BY <2>1, <3>2 DEF CloseLedger, Abstract!Next, Abstract!Grow
  <2>2. CASE Seed
    BY <2>2 DEF IInv, TypeOK, BootInv, Seed, network, Abstract!Next,
                Abstract!Settle
  <2>3. CASE Ingest
    <3>1. UNCHANGED <<chain, origin>>
      BY <2>3 DEF Ingest, network
    <3>2. CASE eventLog' = eventLog
      BY <3>1, <3>2
    <3>3. CASE /\ chain[at + 1].classified /\ ~ Stored(at + 1)
               /\ eventLog' = Append(eventLog, at + 1)
      <4>1. /\ at \in Nat /\ newCursor \in Nat /\ at < newCursor
            /\ newCursor <= Len(chain) /\ origin > 0
            /\ \A p \in DOMAIN chain : p > at => chain[p].ledger > origin
            /\ \A p \in Due : p <= at => Stored(p)
        BY <2>3 DEF IInv, TypeOK, ProgressInv, PositionInv, Ingest, Pending,
                    Cursors
      <4>2. at + 1 \in DOMAIN chain /\ Len(chain) \in Nat
        BY <4>1 DEF IInv, TypeOK
      <4>3. Abstract!Wanted(at + 1) /\ ~ Abstract!Mirrored(at + 1)
        BY <3>3, <4>1, <4>2 DEF Stored, Abstract!Wanted, Abstract!Mirrored
      <4>4. \A q \in 1..at : Abstract!Wanted(q) => Abstract!Mirrored(q)
        BY <4>1 DEF Due, Stored, Abstract!Wanted, Abstract!Mirrored
      <4> QED BY <3>1, <3>3, <4>1, <4>2, <4>3, <4>4
              DEF Abstract!Next, Abstract!Record
    <3> QED BY <2>3, <3>2, <3>3 DEF Ingest
  <2>4. CASE ~ (CloseLedger \/ Seed \/ Ingest)
    BY <2>4 DEF Next, Tick, ReadState, Bootstrap, BootstrapFail, Prepare,
                PrepareFail, StartFrom, EmptyPage, EventPage, Fetch, FetchFail,
                Process, Save, DatabaseThrows, Crash, GiveUp, vars, network
  <2> QED BY <2>1, <2>2, <2>3, <2>4
<1> QED BY <1>1, <1>2, Invariant, PTL DEF Spec, Mirror, Abstract!Spec

-----------------------------------------------------------------------------
(* Which events have the rows *)

SameHash(p, q) == chain[p].txHash = chain[q].txHash

\* No two rows carry one transaction hash, so that the table's unique key never
\* refuses an insert; and an event that was due before a row's event had a row
\* of its hash before that row was made.
HashInv ==
    /\ \A i, j \in DOMAIN eventLog : i < j => ~ SameHash(eventLog[i], eventLog[j])
    /\ \A i \in DOMAIN eventLog : \A p \in Due :
          p < eventLog[i] =>
             \E j \in DOMAIN eventLog : j < i /\ SameHash(eventLog[j], p)

LEMMA CloseLedgerHash == ASSUME IInv, HashInv, CloseLedger PROVE HashInv'
<1>1. TypeOK
  BY DEF IInv
<1>2. UNCHANGED <<eventLog, origin>>
  BY DEF CloseLedger
<1>3. /\ \A p \in DOMAIN chain : chain'[p] = chain[p]
      /\ \A p \in DOMAIN chain' : p \notin DOMAIN chain => p > Len(chain)
  BY <1>1, ChainGrows
<1>4. /\ Len(chain) \in Nat /\ DOMAIN chain = 1..Len(chain)
      /\ \A i \in DOMAIN eventLog : eventLog[i] \in DOMAIN chain
  BY <1>1 DEF TypeOK
<1>5. DOMAIN chain' \subseteq Nat
  <2>1. chain' \in Seq(Event)
    BY <1>1, ChainGrows
  <2> QED BY <2>1
<1>6. \A i \in DOMAIN eventLog : \A p \in Due' : p < eventLog[i] => p \in Due
  BY <1>2, <1>3, <1>4, <1>5 DEF Due
<1>7. \A p \in Due : p \in DOMAIN chain
  BY DEF Due
<1>8. \A p, q \in DOMAIN chain : SameHash(p, q)' <=> SameHash(p, q)
  BY <1>3 DEF SameHash
<1>9. \A i, j \in DOMAIN eventLog' : i < j => ~ SameHash(eventLog[i], eventLog[j])'
  BY <1>2, <1>4, <1>8 DEF HashInv
<1>10. ASSUME NEW i \in DOMAIN eventLog, NEW p \in Due', p < eventLog[i]
       PROVE  \E j \in DOMAIN eventLog : j < i /\ SameHash(eventLog[j], p)'
  <2>1. p \in Due
    BY <1>6, <1>10
  <2>2. PICK j \in DOMAIN eventLog : j < i /\ SameHash(eventLog[j], p)
    BY <1>10, <2>1 DEF HashInv
  <2> QED BY <1>2, <1>4, <1>7, <1>8, <2>1, <2>2
<1> QED BY <1>2, <1>9, <1>10 DEF HashInv

LEMMA IngestHash == ASSUME IInv, HashInv, Ingest PROVE HashInv'
<1>1. TypeOK
  BY DEF IInv
<1>2. Due' = Due /\ chain' = chain
  BY DEF Ingest, network, Due
<1>3. \A p, q : SameHash(p, q)' <=> SameHash(p, q)
  BY <1>2 DEF SameHash
<1>4. CASE eventLog' = eventLog
  BY <1>2, <1>3, <1>4 DEF HashInv
<1>5. CASE ~ Stored(at + 1) /\ eventLog' = Append(eventLog, at + 1)
  <2> DEFINE n == Len(eventLog) + 1
  <2>1. /\ Len(eventLog) \in Nat /\ DOMAIN eventLog = 1..Len(eventLog)
        /\ DOMAIN eventLog' = 1..n /\ eventLog'[n] = at + 1
        /\ \A i \in DOMAIN eventLog : eventLog'[i] = eventLog[i]
    BY <1>1, <1>5 DEF TypeOK
  <2>2. \A i \in DOMAIN eventLog : ~ SameHash(eventLog[i], at + 1)
    BY <1>5 DEF Stored, SameHash
  <2>3. ASSUME NEW p \in Due, p < at + 1
        PROVE  \E j \in DOMAIN eventLog : SameHash(eventLog[j], p)
    <3>1. at \in Nat /\ \A q \in Due : q <= at => Stored(q)
      BY DEF IInv, TypeOK, ProgressInv, Ingest, Pending
    <3>2. p \in Nat
      BY <1>1 DEF Due, TypeOK
    <3> QED BY <2>3, <3>1, <3>2 DEF Stored, SameHash
  <2> HIDE DEF n
  <2>4. \A i \in DOMAIN eventLog' : i \in DOMAIN eventLog \/ i = n
    BY <2>1 DEF n
  <2>5. \A i \in DOMAIN eventLog : i \in DOMAIN eventLog' /\ i < n
    BY <2>1 DEF n
  <2>6. ASSUME NEW i \in DOMAIN eventLog', NEW j \in DOMAIN eventLog', i < j
        PROVE  ~ SameHash(eventLog'[i], eventLog'[j])
    <3>1. i \in DOMAIN eventLog
      BY <2>1, <2>6 DEF n
    <3>2. CASE j = n
      BY <2>1, <2>2, <3>1, <3>2
    <3>3. CASE j \in DOMAIN eventLog
      BY <2>1, <2>6, <3>1, <3>3 DEF HashInv
    <3> QED BY <2>4, <3>2, <3>3
  <2>7. ASSUME NEW i \in DOMAIN eventLog', NEW p \in Due, p < eventLog'[i]
        PROVE  \E j \in DOMAIN eventLog' : j < i /\ SameHash(eventLog'[j], p)
    <3>1. CASE i = n
      BY <2>1, <2>3, <2>5, <2>7, <3>1
    <3>2. CASE i \in DOMAIN eventLog
      <4>1. PICK j \in DOMAIN eventLog : j < i /\ SameHash(eventLog[j], p)
        BY <2>1, <2>7, <3>2 DEF HashInv
      <4> QED BY <2>1, <2>5, <4>1
    <3> QED BY <2>4, <3>1, <3>2
  <2> QED BY <1>2, <1>3, <2>6, <2>7 DEF HashInv
<1> QED BY <1>4, <1>5 DEF Ingest

LEMMA HashStep == IInv /\ HashInv /\ [Next]_vars => HashInv'
<1> SUFFICES ASSUME IInv, HashInv, [Next]_vars PROVE HashInv'
  OBVIOUS
<1>1. CASE Seed
  <2>1. UNCHANGED eventLog /\ eventLog = << >>
    BY <1>1 DEF Seed, IInv, BootInv, OriginInv
  <2> QED BY <2>1 DEF HashInv
<1>2. CASE ~ (CloseLedger \/ Seed \/ Ingest)
  <2>1. UNCHANGED <<chain, origin, eventLog>>
    BY <1>2 DEF Next, Tick, ReadState, Bootstrap, BootstrapFail, Prepare, PrepareFail,
           StartFrom, EmptyPage, EventPage, Fetch, FetchFail, Process, Save,
           DatabaseThrows, Crash, GiveUp, vars, network
  <2> QED BY <2>1 DEF HashInv, Due, SameHash
<1> QED BY <1>1, <1>2, CloseLedgerHash, IngestHash

THEOREM HashInvariant == Spec => []HashInv
<1>1. Init => HashInv
  BY DEF Init, HashInv
<1> QED BY <1>1, HashStep, Invariant, PTL DEF Spec

LEMMA RowsOfFirsts == IInv /\ HashInv => FirstOfEach
<1> SUFFICES ASSUME IInv, HashInv PROVE FirstOfEach
  OBVIOUS
<1>1. /\ DOMAIN chain \subseteq Nat /\ DOMAIN eventLog \subseteq Nat
      /\ \A i \in DOMAIN eventLog : eventLog[i] \in Due
      /\ Due \subseteq DOMAIN chain
  BY DEF IInv, TypeOK, RowsInv, Due
<1>2. ASSUME NEW i \in DOMAIN eventLog, NEW q \in Due, q < eventLog[i], SameHash(q, eventLog[i])
      PROVE  FALSE
  <2>1. PICK j \in DOMAIN eventLog : j < i /\ SameHash(eventLog[j], q)
    BY <1>2 DEF HashInv
  <2>2. SameHash(eventLog[j], eventLog[i])
    BY <1>2, <2>1 DEF SameHash
  <2> QED BY <2>1, <2>2 DEF HashInv
<1>3. \A i \in DOMAIN eventLog : FirstOfHash(eventLog[i])
  BY <1>1, <1>2 DEF FirstOfHash, SameHash
<1>4. ASSUME NEW p \in Due, savedCursor # NoCursor, p <= savedCursor, FirstOfHash(p)
      PROVE  \E i \in DOMAIN eventLog : eventLog[i] = p
  <2>1. PICK i \in DOMAIN eventLog : SameHash(eventLog[i], p)
    BY <1>4 DEF IInv, SavedInv, Stored, SameHash
  <2>2. ~ (eventLog[i] < p) /\ eventLog[i] \in Nat /\ p \in Nat
    BY <1>1, <1>4, <2>1 DEF FirstOfHash, SameHash
  <2>3. ~ (p < eventLog[i])
    BY <1>2, <2>1 DEF SameHash
  <2> QED BY <2>2, <2>3
<1> QED BY <1>3, <1>4 DEF FirstOfEach

\* ingestEvent keeps one event of each transaction, always the first that is due
\* after the starting ledger: what is lost of a transaction with several events
\* is everything else, and nothing of other transactions.
THEOREM KeepsFirstOfEach == Spec => []FirstOfEach
BY RowsOfFirsts, Invariant, HashInvariant, PTL

\* The claim of schema.prisma's table name, with the one exception it needs:
\* while no two due events share a transaction hash, every due event that the
\* persisted cursor has passed has a row of its own.
THEOREM RowEachUnlessShared ==
    Spec => []((\A p, q \in Due : SameHash(p, q) => p = q) => OneRowPerEvent)
<1>1. ASSUME TypeOK, FirstOfEach, \A p, q \in Due : SameHash(p, q) => p = q
      PROVE  OneRowPerEvent
  <2>1. Due \subseteq Nat
    BY <1>1 DEF TypeOK, Due
  <2>2. \A p \in Due : FirstOfHash(p)
    BY <1>1, <2>1 DEF FirstOfHash, SameHash
  <2> QED BY <1>1, <2>2 DEF FirstOfEach, OneRowPerEvent
<1>2. TypeOK /\ FirstOfEach =>
        ((\A p, q \in Due : SameHash(p, q) => p = q) => OneRowPerEvent)
  BY <1>1
<1> QED BY <1>2, KeepsFirstOfEach, TypeCorrect, PTL

-----------------------------------------------------------------------------
(* What is never fetched again *)

\* The place p is one this tick has ingested, or an earlier one has saved.
Swept(p) ==
    IF pc \in {"fetch", "ingest", "save"} /\ newCursor # NoCursor
    THEN p <= at
    ELSE savedCursor # NoCursor /\ p <= savedCursor

SweptInv == faults = 0 => \A i \in DOMAIN eventLog : Swept(eventLog[i])

LEMMA SweptStep == IInv /\ SweptInv /\ [Next]_vars => SweptInv'
<1> SUFFICES ASSUME IInv, SweptInv, [Next]_vars PROVE SweptInv'
  OBVIOUS
<1> USE DEF network, saved, locals
<1>1. faults \in Nat /\ at \in Nat /\ newCursor \in Cursors /\ savedCursor \in Cursors
      /\ eventLog \in Seq(Nat) /\ \A i \in DOMAIN eventLog : eventLog[i] \in Nat
  BY DEF IInv, TypeOK
<1>2. CASE BootstrapFail \/ PrepareFail \/ DatabaseThrows \/ Crash
  <2>1. faults' # 0
    BY <1>1, <1>2 DEF BootstrapFail, PrepareFail, DatabaseThrows, Crash, GiveUp
  <2> QED BY <2>1 DEF SweptInv
<1>3. CASE CloseLedger \/ ReadState \/ Bootstrap \/ UNCHANGED vars
  <2>1. /\ UNCHANGED <<eventLog, savedCursor, newCursor, at, faults>>
        /\ (pc \in {"fetch", "ingest", "save"}) <=> (pc' \in {"fetch", "ingest", "save"})
    BY <1>3 DEF CloseLedger, ReadState, Bootstrap, vars
  <2> QED BY <2>1 DEF SweptInv, Swept
<1>4. CASE Seed
  <2>1. UNCHANGED eventLog /\ eventLog = << >>
    BY <1>4 DEF Seed, IInv, BootInv, OriginInv
  <2> QED BY <2>1 DEF SweptInv
<1>5. CASE Prepare
  <2>1. /\ pc = "prepare" /\ pc' = "fetch" /\ newCursor' = savedCursor
        /\ (savedCursor # NoCursor => at' = savedCursor)
        /\ UNCHANGED <<eventLog, savedCursor, faults>>
    BY <1>5 DEF Prepare, StartFrom, Resume, IInv, PositionInv
  <2> QED BY <2>1 DEF SweptInv, Swept
<1>6. CASE EmptyPage \/ EventPage
  <2>1. PICK from, to \in 0..Len(chain) : from <= to /\ Fetch(from, to)
    BY <1>6, FetchMoves DEF IInv
  <2>2. /\ pc = "fetch" /\ pc' \in {"fetch", "ingest"} /\ newCursor' = to /\ to # NoCursor
        /\ (newCursor # NoCursor => at' = at)
        /\ UNCHANGED <<eventLog, savedCursor, faults>>
    BY <2>1, CursorAssumption DEF Fetch
  <2>3. newCursor = NoCursor => savedCursor = NoCursor
    BY <2>2 DEF IInv, PositionInv, ProgressInv
  <2> QED BY <2>2, <2>3 DEF SweptInv, Swept
<1>7. CASE FetchFail
  <2>1. /\ pc = "fetch" /\ pc' = "ingest" /\ (faults' = 0 => faults = 0)
        /\ UNCHANGED <<eventLog, savedCursor, newCursor, at>>
    BY <1>1, <1>7 DEF FetchFail
  <2> QED BY <2>1 DEF SweptInv, Swept
<1>8. CASE Ingest
  <2>1. /\ pc = "ingest" /\ newCursor # NoCursor /\ at' = at + 1
        /\ (eventLog' = eventLog \/ eventLog' = Append(eventLog, at + 1))
        /\ UNCHANGED <<pc, savedCursor, newCursor, faults>>
    BY <1>8 DEF Ingest, Pending
  <2>2. \A i \in DOMAIN eventLog' :
           \/ i \in DOMAIN eventLog /\ eventLog'[i] = eventLog[i]
           \/ eventLog'[i] = at + 1
    BY <1>1, <2>1
  <2>3. faults = 0 => \A i \in DOMAIN eventLog' : eventLog'[i] <= at + 1
    BY <1>1, <2>1, <2>2 DEF SweptInv, Swept
  <2> QED BY <2>1, <2>3 DEF SweptInv, Swept
<1>9. CASE Process \/ Save
  <2>1. /\ pc \in {"ingest", "save"} /\ UNCHANGED <<eventLog, faults>>
        /\ \/ pc' = "save" /\ UNCHANGED <<savedCursor, newCursor, at>>
           \/ pc' = "idle" /\ savedCursor' = newCursor
    BY <1>9 DEF Process, Save, Moved, IInv, PositionInv, ProgressInv
  <2>2. /\ newCursor = NoCursor => savedCursor = NoCursor
        /\ newCursor # NoCursor => newCursor \in Nat /\ at <= newCursor
    BY <1>1, <2>1 DEF IInv, PositionInv, ProgressInv, Cursors
  <2>3. ASSUME faults = 0, NEW i \in DOMAIN eventLog, savedCursor' = newCursor
        PROVE  savedCursor' # NoCursor /\ eventLog[i] <= savedCursor'
    BY <1>1, <2>1, <2>2, <2>3 DEF SweptInv, Swept
  <2> QED BY <2>1, <2>3 DEF SweptInv, Swept
<1> QED BY <1>2, <1>3, <1>4, <1>5, <1>6, <1>7, <1>8, <1>9 DEF Next, Tick

\* Until the first fault, ticks fetch each event once: what is in EventLog is
\* what the saved cursor has passed, for any page size and budget.
THEOREM FaultlessTicksExact == Spec => []ExactBetweenTicks
<1>1. Init => SweptInv
  BY DEF Init, SweptInv
<1>2. ASSUME FirstOfEach, SweptInv PROVE ExactBetweenTicks
  <2> SUFFICES ASSUME pc = "idle", faults = 0, NEW p \in DOMAIN chain
               PROVE  (\E i \in DOMAIN eventLog : eventLog[i] = p) <=>
                          FirstOfHash(p) /\ savedCursor # NoCursor /\ p <= savedCursor
    BY DEF ExactBetweenTicks
  <2>1. ASSUME NEW i \in DOMAIN eventLog, eventLog[i] = p
        PROVE  FirstOfHash(p) /\ savedCursor # NoCursor /\ p <= savedCursor
    BY <1>2, <2>1 DEF FirstOfEach, SweptInv, Swept
  <2>2. ASSUME FirstOfHash(p), savedCursor # NoCursor, p <= savedCursor
        PROVE  \E i \in DOMAIN eventLog : eventLog[i] = p
    BY <1>2, <2>2 DEF FirstOfEach, FirstOfHash
  <2> QED BY <2>1, <2>2
<1> QED BY <1>1, <1>2, SweptStep, Invariant, KeepsFirstOfEach, PTL DEF Spec
=============================================================================
