------------------------ MODULE EventListenerProofs ------------------------
(***************************************************************************)
(* The safety properties of EventListener, for any payloads and sessions   *)
(* and any number of rows, crashes and failed calls.                       *)
(***************************************************************************)
EXTENDS EventListener, TLAPS, FiniteSetTheorems, WellFoundedInduction

-----------------------------------------------------------------------------
(* Types, and what is known of the row at each point of its handler *)

Inside == Points \ {"idle", "scan"}
Working == {"lookup", "status", "notify", "transaction"}

RowInv ==
    /\ pc \in Inside => row \in DOMAIN log /\ row \notin processed
    /\ pc \in Inside \ {"handle"} => ~ Rejects(cur)
    /\ pc = "parties" => /\ ~ Sessionless(cur)
                         /\ cur.type \in {"EXPERT_REGISTERED", "SESSION_BOOKED"}
    /\ pc \in Working => /\ cur.sid \in Sessions /\ cur.type # "EXPERT_REGISTERED"
                         /\ cur.type = "SESSION_BOOKED" => row \in parties
    /\ pc = "lookup" => cur.type \in {"SESSION_BOOKED", "PAYMENT_STREAMED"}
    /\ pc = "status" => cur.type # "PAYMENT_STREAMED"
    /\ pc = "notify" => cur.type = "SESSION_BOOKED"

Base == TypeOK /\ RowInv

LEMMA BaseInit == Init => Base
<1> SUFFICES ASSUME Init PROVE Base
  OBVIOUS
<1>1. log \in Seq(Payload) /\ 0 \in 0..Len(log)
  BY DEF Init
<1>2. TypeOK
  BY <1>1 DEF Init, TypeOK, Points, Statuses
<1>3. RowInv
  BY DEF Init, RowInv, Inside, Working
<1> QED
  BY <1>2, <1>3 DEF Base

\* The handlers write statuses, and never NONE.
LEMMA EffectStatus ==
    ASSUME NEW t \in EventTypes \ {"EXPERT_REGISTERED", "PAYMENT_STREAMED"}
    PROVE  Effect(t) \in Statuses \ {"NONE"}
BY DEF Effect, EventTypes, Statuses

\* The handler of a payload that has something to do has a session.
LEMMA HasSession ==
    ASSUME NEW p \in Payload, ~ Rejects(p), ~ Sessionless(p), p.type # "EXPERT_REGISTERED"
    PROVE  p.sid \in Sessions
BY DEF Payload, Rejects, Sessionless, EventTypes

LEMMA IngestBase == ASSUME Base, IngestRow PROVE Base'
<1> USE DEF Base, IngestRow, sent, pass
<1>1. PICK p \in Payload : log' = Append(log, p)
  BY PayloadsAssumption
<1>2. log' \in Seq(Payload) /\ DOMAIN log \subseteq DOMAIN log' /\ Len(log') = Len(log) + 1
  BY <1>1 DEF TypeOK
<1>3. TypeOK'
  BY <1>2 DEF TypeOK
<1>4. RowInv'
  BY DEF RowInv, Inside, Working
<1> QED
  BY <1>3, <1>4

LEMMA WalkBase == ASSUME Base, Begin \/ NextRow \/ EndPass PROVE Base'
<1> USE DEF Base, Goto, tables, sent
<1>0. Len(log) \in Nat
  BY DEF TypeOK
<1>1. CASE Begin
  <2>1. TypeOK'
    BY <1>1 DEF Begin, TypeOK, Points
  <2>2. RowInv'
    BY <1>1 DEF Begin, RowInv, Inside, Working
  <2> QED
    BY <2>1, <2>2
<1>2. CASE NextRow
  <2>1. row' \in 1..Len(log) /\ row' \notin processed
    BY <1>2 DEF NextRow, Upcoming, TypeOK
  <2>2. TypeOK'
    <3>1. isNewSession' \in BOOLEAN
      BY <1>2, Zenon DEF NextRow
    <3>2. pc' = "handle" /\ UNCHANGED <<tables, sent, crashes, dbFaults, failed>>
      BY <1>2 DEF NextRow
    <3> QED
      BY <1>0, <2>1, <3>1, <3>2 DEF TypeOK, Points
  <2>3. RowInv'
    BY <1>2, <2>1 DEF NextRow, RowInv, Inside, Working, TypeOK
  <2> QED
    BY <2>2, <2>3
<1>3. CASE EndPass
  <2>1. TypeOK'
    <3>1. isNewSession' \in BOOLEAN
      BY <1>3, Zenon DEF EndPass
    <3>2. pc' = "idle" /\ row' = 0 /\ UNCHANGED <<tables, sent, crashes, dbFaults, failed>>
      BY <1>3 DEF EndPass
    <3> QED
      BY <1>0, <3>1, <3>2 DEF TypeOK, Points
  <2>2. RowInv'
    BY <1>3 DEF EndPass, RowInv, Inside, Working
  <2> QED
    BY <2>1, <2>2
<1> QED
  BY <1>1, <1>2, <1>3

\* A row whose handler gives up leaves nothing to be known of it.
LEMMA SkipBase ==
    ASSUME Base, pc' = "scan", crashes' \in Nat, dbFaults' \in Nat, failed' \subseteq DOMAIN log,
           UNCHANGED <<log, processed, txs, sent, row>>,
           parties' \subseteq DOMAIN log, sessions' \in [Sessions -> Statuses],
           isNewSession' \in BOOLEAN
    PROVE  Base'
<1>1. TypeOK'
  BY DEF Base, TypeOK, Points, sent
<1>2. RowInv'
  BY DEF RowInv, Inside, Working
<1> QED
  BY <1>1, <1>2 DEF Base

LEMMA HandleBase == ASSUME Base, Handle PROVE Base'
<1> USE DEF Base, Handle, Goto, tables, sent
<1>1. row \in DOMAIN log /\ row \notin processed /\ cur \in Payload
  BY DEF RowInv, Inside, Points, TypeOK, cur
<1>2. cur' = cur
  BY DEF cur, Skip
<1>3. CASE Rejects(cur) /\ Skip
  BY <1>3, SkipBase DEF Skip, TypeOK
<1>4. CASE ~ Rejects(cur)
  <2>1. UNCHANGED <<tables, sent, row, isNewSession, crashes, dbFaults, failed>>
    BY <1>4
  <2>2. /\ Sessionless(cur) => pc' = "publish"
        /\ ~ Sessionless(cur) /\ cur.type \in {"EXPERT_REGISTERED", "SESSION_BOOKED"}
              => pc' = "parties"
        /\ ~ Sessionless(cur) /\ cur.type = "PAYMENT_STREAMED" => pc' = "lookup"
        /\ ~ Sessionless(cur) /\ cur.type \notin {"EXPERT_REGISTERED", "SESSION_BOOKED",
                                                  "PAYMENT_STREAMED"} => pc' = "status"
    BY <1>4 DEF Sessionless
  <2>3. pc' \in Points
    BY <2>2 DEF Points
  <2>4. TypeOK'
    BY <2>1, <2>3 DEF TypeOK
  <2>5. ~ Sessionless(cur) /\ cur.type # "EXPERT_REGISTERED" => cur.sid \in Sessions
    BY <1>1, <1>4, HasSession
  <2>6. RowInv'
    BY <1>1, <1>2, <1>4, <2>1, <2>2, <2>5 DEF RowInv, Inside, Working, Points
  <2> QED
    BY <2>4, <2>6
<1> QED
  BY <1>3, <1>4

\* What the handlers' steps have in common: they stay at their row.
LEMMA StayBase ==
    ASSUME Base, pc \in Inside, pc' \in Points,
           UNCHANGED <<log, row, crashes, dbFaults, failed>>,
           parties \subseteq parties', parties' \subseteq parties \cup {row},
           txs \subseteq txs', txs' \subseteq txs \cup {row},
           published' \subseteq published \cup {row},
           processed' \subseteq processed \cup {row},
           pc' \in Inside => UNCHANGED processed,
           sessions' \in [Sessions -> Statuses], notified' \in [Sessions -> Nat],
           isNewSession' \in BOOLEAN
    PROVE  /\ TypeOK' /\ cur' = cur
           /\ pc' \in Inside => row' \in DOMAIN log' /\ row' \notin processed'
<1> USE DEF Base
<1>1. row \in DOMAIN log
  BY DEF RowInv
<1>2. TypeOK'
  BY <1>1 DEF TypeOK
<1>3. cur' = cur
  BY DEF cur
<1> QED
  BY <1>2, <1>3 DEF RowInv

LEMMA HandlerBase ==
    ASSUME Base,
           RegisterExpert \/ UpsertParties \/ LookupBooked \/ LookupStreamed \/ BookSession
             \/ UpdateStatus \/ Notify \/ WriteTransaction \/ Publish \/ Mark
    PROVE  Base'
<1> USE DEF Goto, tables, sent
<1>1. pc \in Inside => row \in DOMAIN log /\ cur \in Payload
  BY DEF Base, RowInv, TypeOK, cur
<1>2. isNewSession \in BOOLEAN
  BY Zenon DEF Base, TypeOK
<1>3. CASE RegisterExpert
  <2>1. pc \in Inside /\ pc' = "publish"
    BY <1>3 DEF RegisterExpert, Inside, Points
  <2>2. TypeOK' /\ cur' = cur /\ row' \in DOMAIN log' /\ row' \notin processed'
    BY <1>2, <1>3, <2>1, StayBase DEF RegisterExpert, Inside, Points, Base, TypeOK
  <2>3. RowInv'
    BY <1>3, <2>1, <2>2 DEF RegisterExpert, Base, RowInv, Inside, Working, Points, Rejects
  <2> QED
    BY <2>2, <2>3 DEF Base
<1>4. CASE UpsertParties
  <2>1. pc \in Inside /\ pc' \in {"scan", "lookup"}
    BY <1>4 DEF UpsertParties, Inside, Points
  <2>2. /\ TypeOK' /\ cur' = cur
        /\ pc' \in Inside => row' \in DOMAIN log' /\ row' \notin processed'
    BY <1>2, <1>4, <2>1, StayBase DEF UpsertParties, Inside, Points, Base, TypeOK
  <2>3. cur.sid \in Sessions
    BY <1>1, <1>4, <2>1, HasSession DEF UpsertParties, Base, RowInv, Inside, Points
  <2>4. RowInv'
    BY <1>4, <2>1, <2>2, <2>3
       DEF UpsertParties, Base, RowInv, Inside, Working, Points, Rejects
  <2> QED
    BY <2>2, <2>4 DEF Base
<1>5. CASE LookupBooked
  <2>1. pc \in Inside /\ pc' = "status"
    BY <1>5 DEF LookupBooked, Inside, Points
  <2>2. isNewSession' \in BOOLEAN
    BY <1>5, Zenon DEF LookupBooked, NoSessionRow
  <2>3. pc = "lookup" /\ cur.type = "SESSION_BOOKED"
        /\ UNCHANGED <<tables, sent, row, crashes, dbFaults, failed>>
    BY <1>5 DEF LookupBooked
  <2>4. TypeOK' /\ cur' = cur /\ row' \in DOMAIN log' /\ row' \notin processed'
    BY <2>1, <2>2, <2>3, StayBase DEF Inside, Points, Base, TypeOK
  <2>5. RowInv'
    BY <2>1, <2>3, <2>4 DEF Base, RowInv, Inside, Working, Points, Rejects
  <2> QED
    BY <2>4, <2>5 DEF Base
<1>6. CASE LookupStreamed
  <2>1. pc \in Inside /\ pc' \in {"scan", "transaction"} /\ pc = "lookup"
        /\ cur.type = "PAYMENT_STREAMED"
        /\ UNCHANGED <<tables, sent, row, isNewSession, crashes, dbFaults, failed>>
    BY <1>6 DEF LookupStreamed, Skip, Inside, Points
  <2>2. /\ TypeOK' /\ cur' = cur
        /\ pc' \in Inside => row' \in DOMAIN log' /\ row' \notin processed'
    BY <1>2, <2>1, StayBase DEF Inside, Points, Base, TypeOK
  <2>3. RowInv'
    BY <2>1, <2>2 DEF Base, RowInv, Inside, Working, Points, Rejects
  <2> QED
    BY <2>2, <2>3 DEF Base
<1>7. CASE BookSession
  <2>1. pc \in Inside /\ pc' \in {"notify", "transaction"} /\ pc = "status"
        /\ cur.type = "SESSION_BOOKED"
        /\ UNCHANGED <<log, processed, parties, txs, sent, row, isNewSession,
                      crashes, dbFaults, failed>>
    BY <1>7 DEF BookSession, Inside, Points
  <2>2. sessions' \in [Sessions -> Statuses]
    BY <1>1, <1>7, <2>1, EffectStatus DEF BookSession, Base, TypeOK, EventTypes
  <2>3. TypeOK' /\ cur' = cur /\ row' \in DOMAIN log' /\ row' \notin processed'
    BY <1>2, <2>1, <2>2, StayBase DEF Inside, Points, Base, TypeOK
  <2>4. RowInv'
    BY <2>1, <2>3 DEF Base, RowInv, Inside, Working, Points, Rejects
  <2> QED
    BY <2>3, <2>4 DEF Base
<1>8. CASE UpdateStatus
  <2>1. pc \in Inside /\ pc = "status" /\ cur.type # "SESSION_BOOKED"
        /\ UNCHANGED <<log, processed, parties, txs, sent, row, isNewSession,
                      crashes, dbFaults, failed>>
    BY <1>8 DEF UpdateStatus, Inside, Points
  <2>2. pc' \in {"publish", "scan", "transaction"}
    BY <1>8 DEF UpdateStatus
  <2>3. Effect(cur.type) \in Statuses
    BY <1>1, <2>1, EffectStatus DEF Base, RowInv, Working, Payload
  <2>4. sessions' \in [Sessions -> Statuses]
    BY <1>8, <2>3 DEF UpdateStatus, Base, TypeOK
  <2>5. /\ TypeOK' /\ cur' = cur
        /\ pc' \in Inside => row' \in DOMAIN log' /\ row' \notin processed'
    BY <1>2, <2>1, <2>2, <2>4, StayBase DEF Inside, Points, Base, TypeOK
  <2>6. RowInv'
    BY <2>1, <2>2, <2>5 DEF Base, RowInv, Inside, Working, Points, Rejects
  <2> QED
    BY <2>5, <2>6 DEF Base
<1>9. CASE Notify
  <2>1. pc \in Inside /\ pc' = "transaction" /\ pc = "notify"
        /\ UNCHANGED <<tables, published, row, isNewSession, crashes, dbFaults, failed>>
        /\ notified' = [notified EXCEPT ![cur.sid] = @ + 1]
    BY <1>9 DEF Notify, Inside, Points
  <2>2. notified' \in [Sessions -> Nat]
    <3>1. notified \in [Sessions -> Nat] /\ cur.sid \in Sessions
      BY <2>1 DEF Base, TypeOK, RowInv, Working
    <3> QED
      BY <2>1, <3>1
  <2>3. TypeOK' /\ cur' = cur /\ row' \in DOMAIN log' /\ row' \notin processed'
    BY <1>2, <2>1, <2>2, StayBase DEF Inside, Points, Base, TypeOK
  <2>4. RowInv'
    BY <2>1, <2>3 DEF Base, RowInv, Inside, Working, Points, Rejects
  <2> QED
    BY <2>3, <2>4 DEF Base
<1>10. CASE WriteTransaction
  <2>1. pc \in Inside /\ pc' \in {"scan", "publish"} /\ pc = "transaction"
        /\ UNCHANGED <<log, processed, parties, sessions, sent, row, isNewSession,
                      crashes, dbFaults, failed>>
        /\ txs \subseteq txs' /\ txs' \subseteq txs \cup {row}
    BY <1>10 DEF WriteTransaction, Skip, Inside, Points
  <2>2. /\ TypeOK' /\ cur' = cur
        /\ pc' \in Inside => row' \in DOMAIN log' /\ row' \notin processed'
    BY <1>2, <2>1, StayBase DEF Inside, Points, Base, TypeOK
  <2>3. RowInv'
    BY <2>1, <2>2 DEF Base, RowInv, Inside, Working, Points, Rejects
  <2> QED
    BY <2>2, <2>3 DEF Base
<1>11. CASE Publish
  <2>1. pc \in Inside /\ pc' = "mark" /\ pc = "publish"
        /\ published' \subseteq published \cup {row}
        /\ UNCHANGED <<tables, notified, row, isNewSession, crashes, dbFaults, failed>>
    BY <1>11 DEF Publish, Inside, Points
  <2>2. TypeOK' /\ cur' = cur /\ row' \in DOMAIN log' /\ row' \notin processed'
    BY <1>2, <2>1, StayBase DEF Inside, Points, Base, TypeOK
  <2>3. RowInv'
    BY <2>1, <2>2 DEF Base, RowInv, Inside, Working, Points, Rejects
  <2> QED
    BY <2>2, <2>3 DEF Base
<1>12. CASE Mark
  <2>1. pc \in Inside /\ pc' = "scan" /\ processed' = processed \cup {row}
        /\ UNCHANGED <<log, parties, sessions, txs, sent, row, isNewSession,
                      crashes, dbFaults, failed>>
    BY <1>12 DEF Mark, Inside, Points
  <2>2. TypeOK'
    BY <1>2, <2>1, StayBase DEF Inside, Points, Base, TypeOK
  <2>3. RowInv'
    BY <2>1 DEF RowInv, Inside, Working
  <2> QED
    BY <2>2, <2>3 DEF Base
<1> QED
  BY <1>3, <1>4, <1>5, <1>6, <1>7, <1>8, <1>9, <1>10, <1>11, <1>12

LEMMA FaultBase == ASSUME Base, DbFault \/ Crash PROVE Base'
<1> USE DEF Goto, tables, sent
<1>1. isNewSession \in BOOLEAN
  BY Zenon DEF Base, TypeOK
<1>2. CASE DbFault
  <2>1. pc' = "scan" /\ dbFaults' = dbFaults + 1 /\ failed' = failed \cup {row}
        /\ UNCHANGED <<tables, sent, row, isNewSession, crashes>> /\ row \in DOMAIN log
    BY <1>2 DEF DbFault, Skip, Base, RowInv, Inside, Points
  <2>2. failed' \subseteq DOMAIN log /\ isNewSession' \in BOOLEAN
        /\ crashes' \in Nat /\ dbFaults' \in Nat
    BY <1>1, <2>1 DEF Base, TypeOK
  <2>3. parties' \subseteq DOMAIN log /\ sessions' \in [Sessions -> Statuses]
    BY <2>1 DEF Base, TypeOK
  <2> QED
    BY <2>1, <2>2, <2>3, SkipBase
<1>3. CASE Crash
  <2>1. pc' = "idle" /\ row' = 0 /\ crashes' = crashes + 1
        /\ UNCHANGED <<tables, sent, dbFaults, failed>>
    BY <1>3 DEF Crash
  <2>2. isNewSession' \in BOOLEAN
    BY <1>3, Zenon DEF Crash
  <2>3. Len(log) \in Nat
    BY DEF Base, TypeOK
  <2>4. TypeOK'
    BY <2>1, <2>2, <2>3 DEF Base, TypeOK, Points
  <2>5. RowInv'
    BY <2>1 DEF RowInv, Inside, Working
  <2> QED
    BY <2>4, <2>5 DEF Base
<1> QED
  BY <1>2, <1>3

LEMMA SettlementBase ==
    ASSUME Base, NEW s \in Sessions, FallbackSettlement(s)
    PROVE  Base'
<1> USE DEF sent, pass
<1>1. sessions' = [sessions EXCEPT ![s] = "COMPLETED"]
      /\ UNCHANGED <<log, processed, parties, txs, sent, pass, crashes, dbFaults, failed>>
  BY DEF FallbackSettlement
<1>2. sessions' \in [Sessions -> Statuses]
  BY <1>1 DEF Base, TypeOK, Statuses
<1>3. isNewSession' \in BOOLEAN
  BY <1>1, Zenon DEF Base, TypeOK
<1>4. TypeOK'
  BY <1>1, <1>2, <1>3 DEF Base, TypeOK
<1>5. RowInv'
  BY <1>1 DEF Base, RowInv, cur
<1> QED
  BY <1>4, <1>5 DEF Base

LEMMA BaseStep == Base /\ [Next]_vars => Base'
<1> SUFFICES ASSUME Base, [Next]_vars PROVE Base'
  OBVIOUS
<1>1. CASE UNCHANGED vars
  BY <1>1 DEF vars, tables, sent, pass, Base, TypeOK, RowInv, cur
<1> QED
  BY <1>1, IngestBase, WalkBase, HandleBase, HandlerBase, FaultBase, SettlementBase,
     DesertedAssumption DEF Next, Pass

-----------------------------------------------------------------------------
(* Published rows *)

\* Nothing that was written is ever taken back.
Grows ==
    /\ parties \subseteq parties' /\ txs \subseteq txs'
    /\ \A s \in Sessions : sessions[s] # "NONE" => sessions'[s] # "NONE"
    /\ \A r \in DOMAIN log : r \in DOMAIN log' /\ log'[r] = log[r]

LEMMA StatusGrows ==
    ASSUME Base, BookSession \/ UpdateStatus
    PROVE  \A s \in Sessions : sessions[s] # "NONE" => sessions'[s] # "NONE"
<1>1. pc = "status"
  BY DEF BookSession, UpdateStatus
<1>2. cur.type \in EventTypes \ {"EXPERT_REGISTERED", "PAYMENT_STREAMED"}
  <2>1. cur \in Payload
    BY <1>1 DEF Base, RowInv, Inside, Points, TypeOK, cur
  <2> QED
    BY <1>1, <2>1 DEF Base, RowInv, Working, Payload
<1>3. Effect(cur.type) # "NONE"
  BY <1>2, EffectStatus
<1> QED
  BY <1>3 DEF BookSession, UpdateStatus, Base, TypeOK

\* The API process settles some session.
Settlement == \E s \in Deserted : FallbackSettlement(s)

LEMMA SettlementGrows ==
    ASSUME Base, Settlement
    PROVE  \A s \in Sessions : (sessions'[s] = "NONE") <=> (sessions[s] = "NONE")
BY DEF Settlement, FallbackSettlement, Base, TypeOK

LEMMA StepGrows == Base /\ [Next]_vars => Grows
<1> SUFFICES ASSUME Base, [Next]_vars PROVE Grows
  OBVIOUS
<1>1. CASE IngestRow
  <2>1. PICK p \in Payload : log' = Append(log, p)
    BY <1>1, PayloadsAssumption DEF IngestRow
  <2>2. \A r \in DOMAIN log : r \in DOMAIN log' /\ log'[r] = log[r]
    BY <2>1 DEF Base, TypeOK
  <2> QED
    BY <1>1, <2>2 DEF IngestRow, Grows
<1>2. CASE BookSession \/ UpdateStatus
  BY <1>2, StatusGrows DEF BookSession, UpdateStatus, Grows
<1>3. CASE \/ Begin \/ NextRow \/ EndPass \/ Handle \/ LookupBooked \/ LookupStreamed
           \/ Notify \/ Publish \/ Mark \/ DbFault \/ Crash \/ UNCHANGED vars
  <2>1. UNCHANGED <<log, parties, txs, sessions>>
    BY <1>3 DEF Begin, NextRow, EndPass, Handle, LookupBooked, LookupStreamed, Notify,
                Publish, Mark, DbFault, Crash, Skip, vars, tables
  <2> QED
    BY <2>1 DEF Grows
<1>4. CASE RegisterExpert \/ UpsertParties \/ WriteTransaction
  <2>1. UNCHANGED <<log, sessions>> /\ parties \subseteq parties' /\ txs \subseteq txs'
    BY <1>4 DEF RegisterExpert, UpsertParties, WriteTransaction, Skip, tables
  <2> QED
    BY <2>1 DEF Grows
<1>5. CASE Settlement
  BY <1>5, SettlementGrows DEF Settlement, FallbackSettlement, Grows
<1> QED
  BY <1>1, <1>2, <1>3, <1>4, <1>5 DEF Next, Pass, Settlement

LEMMA CommittedStays ==
    ASSUME Base, Grows, NEW r \in DOMAIN log, Committed(r)
    PROVE  Committed(r)'
<1>1. log'[r] = log[r] /\ log[r] \in Payload
  BY DEF Grows, Base, TypeOK
<1>2. HasTransaction(log'[r]) = HasTransaction(log[r])
      /\ Sessionless(log'[r]) = Sessionless(log[r])
  BY <1>1
<1>3. log[r].sid # NoSession => log[r].sid \in Sessions
  BY <1>1 DEF Payload
<1> QED
  BY <1>1, <1>2, <1>3 DEF Committed, Grows

\* A row that is to be published, or marked, is complete, and only rows with a
\* string for their sessionId are published.
PublishInv ==
    /\ PublishedAfterCommitted
    /\ \A r \in published : log[r].text
    /\ pc \in {"publish", "mark"} => Committed(row)
    /\ pc = "mark" /\ Scoped => row \in published

LEMMA PublishInit == Init => PublishInv
BY DEF Init, PublishInv, PublishedAfterCommitted

\* The steps that end a handler end it with a complete row.
LEMMA Completes ==
    ASSUME Base, Base', [Next]_vars, pc' = "publish", pc # "publish"
    PROVE  Committed(row)'
<1> USE DEF Goto, tables, sent, cur
<1>1. CASE Handle
  <2>1. Sessionless(cur) /\ ~ Rejects(cur) /\ UNCHANGED <<tables, row>>
    <3>1. ~ Rejects(cur) /\ UNCHANGED <<tables, row>>
      BY <1>1 DEF Handle, Skip
    <3>2. ~ Sessionless(cur) => pc' # "publish"
      BY <1>1 DEF Handle, Skip, Sessionless
    <3> QED
      BY <3>1, <3>2
  <2> QED
    BY <2>1 DEF Committed, Sessionless
<1>2. CASE RegisterExpert
  BY <1>2 DEF RegisterExpert, Committed, HasTransaction
<1>3. CASE UpdateStatus
  <2>1. ~ HasTransaction(cur) /\ cur.type \notin {"EXPERT_REGISTERED", "SESSION_BOOKED"}
        /\ UNCHANGED <<log, row>>
    BY <1>3 DEF UpdateStatus, Base, RowInv, Working
  <2> QED
    BY <2>1 DEF Committed
<1>4. CASE WriteTransaction
  <2>1. ~ NoSessionRow /\ txs' = txs \cup {row} /\ pc = "transaction"
        /\ UNCHANGED <<log, parties, sessions, row>>
    BY <1>4 DEF WriteTransaction, Skip
  <2>2. cur.type # "EXPERT_REGISTERED" /\ (cur.type = "SESSION_BOOKED" => row \in parties)
    BY <2>1 DEF Base, RowInv, Working
  <2> QED
    BY <2>1, <2>2 DEF Committed, NoSessionRow
<1> QED
  BY <1>1, <1>2, <1>3, <1>4
     DEF Next, Pass, IngestRow, Begin, NextRow, EndPass, UpsertParties, LookupBooked,
         LookupStreamed, BookSession, Notify, Publish, Mark, DbFault, Crash, Skip, vars, pass,
         FallbackSettlement

LEMMA PublishStep ==
    ASSUME Base, Base', PublishInv, [Next]_vars
    PROVE  PublishInv'
<1> USE DEF Goto, tables, sent
<1>1. Grows
  BY StepGrows
<1>2. \A r \in DOMAIN log : Committed(r) => Committed(r)'
  BY <1>1, CommittedStays
<1>3. published \cup processed \subseteq DOMAIN log
  BY DEF Base, TypeOK
<1>4. CASE Publish
  <2>1. pc = "publish" /\ pc' = "mark" /\ UNCHANGED <<log, processed, row>>
        /\ published' = IF Scoped THEN published \cup {row} ELSE published
    BY <1>4 DEF Publish
  <2>2. row \in DOMAIN log /\ Committed(row) /\ Scoped' = Scoped
    BY <2>1 DEF Base, RowInv, Inside, Points, PublishInv, Scoped, cur
  <2>3. PublishedAfterCommitted'
    BY <1>2, <1>3, <2>1, <2>2 DEF PublishInv, PublishedAfterCommitted, Scoped, cur
  <2>4. Committed(row)' /\ (Scoped' => row' \in published')
    BY <1>2, <2>1, <2>2
  <2>5. (\A r \in published : log[r].text)'
    BY <2>1 DEF PublishInv, Scoped, cur
  <2> QED
    BY <2>1, <2>3, <2>4, <2>5 DEF PublishInv
<1>5. CASE Mark
  <2>1. pc = "mark" /\ pc' = "scan" /\ UNCHANGED <<log, published, row>>
        /\ processed' = processed \cup {row}
    BY <1>5 DEF Mark
  <2>2. row \in DOMAIN log /\ Committed(row) /\ (Scoped => row \in published)
    BY <2>1 DEF Base, RowInv, Inside, Points, PublishInv
  <2>3. PublishedAfterCommitted'
    BY <1>2, <1>3, <2>1, <2>2 DEF PublishInv, PublishedAfterCommitted, Scoped, cur
  <2> QED
    BY <2>1, <2>3 DEF PublishInv
<1>6. CASE Settlement
  <2>1. UNCHANGED <<log, processed, published, pc, row>>
    BY <1>6 DEF Settlement, FallbackSettlement, pass
  <2>2. pc \in {"publish", "mark"} => row \in DOMAIN log
    BY DEF Base, RowInv, Inside, Points
  <2>3. PublishedAfterCommitted'
    BY <1>2, <1>3, <2>1 DEF PublishInv, PublishedAfterCommitted
  <2>4. pc' \in {"publish", "mark"} => Committed(row)'
    <3>1. pc' \in {"publish", "mark"} => Committed(row) /\ row \in DOMAIN log
      BY <2>1, <2>2 DEF PublishInv
    <3> QED
      BY <1>2, <2>1, <3>1
  <2> QED
    BY <2>1, <2>3, <2>4 DEF PublishInv, Scoped, cur
<1>7. CASE ~ Publish /\ ~ Mark /\ ~ Settlement
  <2>1. UNCHANGED <<published, processed>> /\ (pc' = "mark" => pc = "mark" /\ UNCHANGED vars)
    BY <1>7 DEF Next, Settlement, Pass, IngestRow, Begin, NextRow, EndPass, Handle, RegisterExpert,
                UpsertParties, LookupBooked, LookupStreamed, BookSession, UpdateStatus,
                Notify, WriteTransaction, DbFault, Crash, Skip, vars, pass
  <2>2. PublishedAfterCommitted'
    BY <1>1, <1>2, <1>3, <2>1 DEF PublishInv, PublishedAfterCommitted, Grows
  <2>3. pc' = "publish" => Committed(row)'
    <3>1. CASE pc # "publish"
      BY <3>1, Completes
    <3>2. CASE pc = "publish"
      <4>1. pc' = "publish" => UNCHANGED vars
        BY <1>7, <3>2
           DEF Next, Settlement, Pass, IngestRow, Begin, NextRow, EndPass, Handle, RegisterExpert,
               UpsertParties, LookupBooked, LookupStreamed, BookSession, UpdateStatus,
               Notify, WriteTransaction, DbFault, Crash, Skip, vars, pass
      <4> QED
        BY <3>2, <4>1 DEF PublishInv, Committed, vars, pass
    <3> QED
      BY <3>1, <3>2
  <2>4. pc' = "mark" => Committed(row)' /\ (Scoped' => row' \in published')
    BY <2>1 DEF PublishInv, Committed, Scoped, cur, vars, pass
  <2>5. (\A r \in published : log[r].text)'
    BY <1>1, <1>3, <2>1 DEF PublishInv, Grows
  <2> QED
    BY <2>2, <2>3, <2>4, <2>5 DEF PublishInv
<1> QED
  BY <1>4, <1>5, <1>6, <1>7

-----------------------------------------------------------------------------
(* Notifications *)

\* A booking that will be announced has not been.
NotifyInv ==
    /\ NotifiedAtMostOnce
    /\ pc = "status" /\ cur.type = "SESSION_BOOKED" /\ isNewSession =>
          sessions[cur.sid] = "NONE"
    /\ pc = "notify" => notified[cur.sid] = 0 /\ sessions[cur.sid] # "NONE"

LEMMA NotifyInit == Init => NotifyInv
BY DEF Init, NotifyInv, NotifiedAtMostOnce

LEMMA NotifyStep ==
    ASSUME Base, Base', NotifyInv, [Next]_vars
    PROVE  NotifyInv'
<1> USE DEF Goto, tables, sent
<1>1. Grows
  BY StepGrows
<1>2. CASE Notify
  <2>1. pc = "notify" /\ pc' = "transaction" /\ UNCHANGED <<log, row, sessions>>
        /\ notified' = [notified EXCEPT ![cur.sid] = @ + 1]
    BY <1>2 DEF Notify
  <2>2. notified[cur.sid] = 0 /\ sessions[cur.sid] # "NONE"
    BY <2>1 DEF NotifyInv
  <2>3. NotifiedAtMostOnce'
    BY <2>1, <2>2 DEF NotifyInv, NotifiedAtMostOnce, Base, TypeOK
  <2> QED
    BY <2>1, <2>3 DEF NotifyInv
<1>3. CASE ~ Notify
  <2>1. UNCHANGED notified
    BY <1>3 DEF Next, Pass, IngestRow, Begin, NextRow, EndPass, Handle, RegisterExpert,
                UpsertParties, LookupBooked, LookupStreamed, BookSession, UpdateStatus,
                Publish, Mark, WriteTransaction, DbFault, Crash, FallbackSettlement, Skip,
                vars, pass
  <2>2. NotifiedAtMostOnce'
    BY <1>1, <2>1 DEF NotifyInv, NotifiedAtMostOnce, Grows
  <2>3. CASE LookupBooked
    <3>1. pc' = "status" /\ UNCHANGED <<tables, row>> /\ isNewSession' = NoSessionRow
      BY <2>3 DEF LookupBooked
    <3> QED
      BY <2>2, <3>1 DEF NotifyInv, NoSessionRow, cur
  <2>4. CASE BookSession
    <3>1. pc = "status" /\ cur.type = "SESSION_BOOKED"
          /\ UNCHANGED <<log, row, isNewSession>> /\ pc' \in {"notify", "transaction"}
          /\ (pc' = "notify" => isNewSession)
          /\ sessions' = [sessions EXCEPT ![cur.sid] = "ACTIVE"]
      BY <2>4 DEF BookSession, Effect
    <3>2. cur.sid \in Sessions /\ cur' = cur
      BY <3>1 DEF Base, RowInv, Working, cur
    <3>3. pc' = "notify" => notified[cur.sid] = 0
      BY <3>1, <3>2 DEF NotifyInv, NotifiedAtMostOnce, Base, TypeOK
    <3>4. sessions'[cur.sid] # "NONE"
      BY <3>1, <3>2 DEF Base, TypeOK
    <3> QED
      BY <2>1, <2>2, <3>1, <3>2, <3>3, <3>4 DEF NotifyInv
  <2>5. CASE Settlement
    <3>1. UNCHANGED <<log, notified, row, pc, isNewSession>> /\ cur' = cur
      BY <2>5 DEF Settlement, FallbackSettlement, pass, cur
    <3>2. pc \in {"status", "notify"} => cur.sid \in Sessions
      BY DEF Base, RowInv, Working
    <3> QED
      BY <2>2, <2>5, <3>1, <3>2, SettlementGrows DEF NotifyInv
  <2>6. CASE ~ LookupBooked /\ ~ BookSession /\ ~ Settlement
    <3>1. CASE UNCHANGED vars
      BY <3>1 DEF NotifyInv, NotifiedAtMostOnce, cur, vars, pass
    <3>2. CASE ~ UNCHANGED vars
      <4>1. pc' # "notify" /\ (pc' = "status" => cur'.type # "SESSION_BOOKED")
        <5>1. CASE Handle
          <6>1. cur' = cur /\ pc' # "notify"
            BY <5>1 DEF Handle, Skip, cur
          <6>2. cur.type = "SESSION_BOOKED" => pc' # "status"
            BY <5>1 DEF Handle, Skip
          <6> QED
            BY <6>1, <6>2
        <5>2. CASE ~ Handle
          <6>1. pc' \notin {"status", "notify"}
            BY <1>3, <2>6, <3>2, <5>2
               DEF Next, Settlement, Pass, IngestRow, Begin, NextRow, EndPass, RegisterExpert,
                   UpsertParties, LookupStreamed, UpdateStatus, Publish, Mark,
                   WriteTransaction, DbFault, Crash, Skip, pass
          <6> QED
            BY <6>1
        <5> QED
          BY <5>1, <5>2
      <4> QED
        BY <2>2, <4>1 DEF NotifyInv
    <3> QED
      BY <3>1, <3>2
  <2> QED
    BY <2>3, <2>4, <2>5, <2>6
<1> QED
  BY <1>2, <1>3

-----------------------------------------------------------------------------
(* Sessions *)

Bookings(s) == {i \in DOMAIN log : log[i].sid = s /\ log[i].type = "SESSION_BOOKED"}

\* If a session has a booking at all, its rows begin with one.
BookedFirst ==
    \A s \in Sessions : \A b \in Bookings(s) : \A i \in DOMAIN log :
        log[i].sid = s => \E c \in Bookings(s) : c <= i

\* The pass has left no row of s behind.
Ahead(s) ==
    \A i \in Setters(s) : i < row \/ (pc = "scan" /\ i = row) => i \in processed

\* The rows of s that are processed come before those that are not.
InOrder(s) ==
    \A i, j \in Setters(s) : i < j /\ j \in processed => i \in processed

\* Row k is the last one that was applied to s.
Applied(s, k) ==
    /\ sessions[s] \in Shown(s, Effect(log[k].type))
    /\ \A i \in Setters(s) : i \in processed => i <= k
    /\ \A i \in Setters(s) : i < k => i \in processed

Mirrors(s) ==
    \/ sessions[s] = "NONE" /\ Setters(s) \cap processed = {}
    \/ \E k \in Setters(s) : Applied(s, k)

\* Where the handler of a row of s has written the row's status.
Done == {"notify", "transaction", "publish", "mark"}

MirrorInv ==
    /\ BookedFirst
    /\ pc = "idle" => row = 0
    /\ \A s \in Sessions : Bookings(s) = {} => sessions[s] = "NONE"
    /\ \A s \in Sessions : Steady(s) /\ Bookings(s) # {} =>
          /\ Ahead(s) /\ InOrder(s) /\ Mirrors(s)
          /\ pc \in Done /\ row \in Setters(s) => Applied(s, row)

LEMMA MirrorInit == Init => MirrorInv
<1> SUFFICES ASSUME Init PROVE MirrorInv
  OBVIOUS
<1>1. DOMAIN log = {} /\ \A s \in Sessions : Bookings(s) = {} /\ sessions[s] = "NONE"
  BY DEF Init, Bookings
<1> QED
  BY <1>1 DEF Init, MirrorInv, BookedFirst

\* What a step that leaves the rows and the status of s alone keeps.
LEMMA SameSession ==
    ASSUME UNCHANGED log, NEW s \in Sessions
    PROVE  /\ Setters(s)' = Setters(s) /\ Bookings(s)' = Bookings(s)
           /\ Steady(s)' /\ UNCHANGED failed => Steady(s)
BY DEF Setters, Bookings, Steady

\* A booked session in good order has a status as soon as a later row of it is
\* applied.
LEMMA HasStatus ==
    ASSUME Base, MirrorInv, NEW s \in Sessions, Steady(s), Bookings(s) # {},
           pc \in Inside, log[row].sid = s, log[row].type # "SESSION_BOOKED"
    PROVE  sessions[s] # "NONE"
<1> row \in DOMAIN log
  BY DEF Base, RowInv
<1>1. PICK b \in Bookings(s) : b <= row
  BY DEF MirrorInv, BookedFirst
<1>2. b \in Setters(s) /\ b # row
  BY DEF Bookings, Setters, Steady
<1>3. b < row
  BY <1>1, <1>2 DEF Base, TypeOK, Bookings
<1>4. b \in processed
  BY <1>2, <1>3 DEF MirrorInv, Ahead
<1>5. PICK k \in Setters(s) : Applied(s, k)
  BY <1>2, <1>4 DEF MirrorInv, Mirrors
<1>6. log[k].type \in EventTypes \ {"EXPERT_REGISTERED", "PAYMENT_STREAMED"}
  <2>1. log[k] \in Payload
    BY DEF Setters, Base, TypeOK
  <2> QED
    BY <2>1 DEF Setters, Payload
<1> QED
  BY <1>5, <1>6, EffectStatus DEF Applied, Shown

LEMMA IngestMirror ==
    ASSUME Base, Base', MirrorInv, IngestRow
    PROVE  MirrorInv'
<1> USE DEF sent, pass
<1>1. PICK p \in Payload : Lifecycle(p) /\ log' = Append(log, p)
  BY PayloadsAssumption DEF IngestRow
<1>2. pc = "idle" /\ UNCHANGED <<processed, sessions, pc, row, failed>> /\ row = 0
  BY DEF IngestRow, MirrorInv
<1> DEFINE n == Len(log) + 1
<1>3. /\ Len(log) \in Nat /\ DOMAIN log = 1..Len(log) /\ DOMAIN log' = 1..n
      /\ log'[n] = p /\ \A i \in DOMAIN log : log'[i] = log[i]
  BY <1>1 DEF Base, TypeOK
<1>4. processed \subseteq DOMAIN log
  BY DEF Base, TypeOK
<1> HIDE DEF n
<1>5. \A s \in Sessions : /\ Bookings(s) \subseteq Bookings(s)' /\ Setters(s) \subseteq Setters(s)'
                          /\ Bookings(s)' \subseteq Bookings(s) \cup {n}
                          /\ Setters(s)' \subseteq Setters(s) \cup {n}
                          /\ n \in Bookings(s)' => p.sid = s /\ p.type = "SESSION_BOOKED"
  BY <1>3 DEF Bookings, Setters, n
<1>6. ASSUME NEW s \in Sessions, n \in Bookings(s)'
      PROVE  Bookings(s) # {} \/ \A i \in DOMAIN log : log[i].sid # s
  BY <1>1, <1>5, <1>6, PayloadsAssumption DEF Lifecycle, Bookings
<1>7. BookedFirst'
  <2> SUFFICES ASSUME NEW s \in Sessions, NEW b \in Bookings(s)', NEW i \in DOMAIN log',
                      log'[i].sid = s
               PROVE  \E c \in Bookings(s)' : c <= i
    BY DEF BookedFirst
  <2>1. CASE Bookings(s) # {}
    <3>1. CASE i \in DOMAIN log
      BY <1>3, <1>5, <2>1, <3>1 DEF MirrorInv, BookedFirst
    <3>2. CASE i = n
      <4>1. PICK c \in Bookings(s) : c \in DOMAIN log
        BY <2>1 DEF Bookings
      <4> QED
        BY <1>3, <1>5, <3>2, <4>1 DEF n
    <3> QED
      BY <1>3, <3>1, <3>2 DEF n
  <2>2. CASE Bookings(s) = {}
    <3>1. b = n /\ \A j \in DOMAIN log : log[j].sid # s
      BY <1>5, <1>6, <2>2
    <3>2. i = n
      BY <1>3, <3>1 DEF n
    <3> QED
      BY <1>3, <3>1, <3>2 DEF n
  <2> QED
    BY <2>1, <2>2
<1>8. \A s \in Sessions : Bookings(s)' = {} => sessions'[s] = "NONE"
  BY <1>2, <1>5 DEF MirrorInv
<1>9. ASSUME NEW s \in Sessions, Steady(s)', Bookings(s)' # {}
      PROVE  /\ Ahead(s)' /\ InOrder(s)' /\ Mirrors(s)'
             /\ pc' \in Done /\ row' \in Setters(s)' => Applied(s, row)'
  <2>1. n \notin processed
    BY <1>3, <1>4 DEF n
  <2>2. Ahead(s)'
    BY <1>2, <1>3 DEF Ahead, Setters
  <2>3. pc' \notin Done
    BY <1>2 DEF Done
  <2>4. CASE Bookings(s) # {}
    <3>1. Steady(s)
      BY <1>2, <1>3, <1>9 DEF Steady, n
    <3>2. InOrder(s) /\ Mirrors(s)
      BY <2>4, <3>1 DEF MirrorInv
    <3>3. \A i \in Setters(s) : i \in 1..Len(log)
      BY <1>3 DEF Setters
    <3>4. InOrder(s)'
      BY <1>2, <1>3, <1>5, <2>1, <3>2, <3>3 DEF InOrder, n
    <3>5. ASSUME sessions[s] = "NONE" /\ Setters(s) \cap processed = {}
          PROVE  Mirrors(s)'
      BY <1>2, <1>5, <2>1, <3>5 DEF Mirrors
    <3>6. ASSUME \E k \in Setters(s) : Applied(s, k) PROVE Mirrors(s)'
      <4>1. PICK k \in Setters(s) : Applied(s, k)
        BY <3>6
      <4>2. log'[k] = log[k]
        BY <1>3, <3>3
      <4>3. Applied(s, k)'
        BY <1>2, <1>3, <1>5, <2>1, <3>3, <4>1, <4>2 DEF Applied, n
      <4> QED
        BY <1>5, <4>3 DEF Mirrors
    <3> QED
      BY <2>2, <2>3, <3>2, <3>4, <3>5, <3>6 DEF Mirrors
  <2>5. CASE Bookings(s) = {}
    <3>1. \A i \in DOMAIN log : log[i].sid # s
      BY <1>5, <1>6, <1>9, <2>5
    <3>2. Setters(s)' \subseteq {n}
      BY <1>5, <3>1 DEF Setters
    <3>3. InOrder(s)' /\ Setters(s)' \cap processed' = {}
      BY <1>2, <2>1, <3>2 DEF InOrder
    <3> QED
      BY <1>2, <2>2, <2>3, <2>5, <3>3 DEF MirrorInv, Mirrors
  <2> QED
    BY <2>4, <2>5
<1> QED
  BY <1>2, <1>7, <1>8, <1>9 DEF MirrorInv

\* The steps that leave the rows, the statuses and the marks alone may end a
\* row's turn only if it is not a setter of a steady session.
LEMMA QuietMirror ==
    ASSUME Base, Base', MirrorInv,
           \/ Begin \/ Handle \/ RegisterExpert \/ UpsertParties \/ LookupBooked
           \/ LookupStreamed \/ Notify \/ WriteTransaction \/ Publish
    PROVE  MirrorInv'
<1> USE DEF Goto, tables, sent
<1>1. UNCHANGED <<log, processed, sessions, row, failed>> /\ pc' # "idle"
  BY DEF Begin, Handle, RegisterExpert, UpsertParties, LookupBooked, LookupStreamed,
         Notify, WriteTransaction, Publish, Skip
<1>2. \A s \in Sessions : Setters(s)' = Setters(s) /\ Bookings(s)' = Bookings(s)
                          /\ (Steady(s)' => Steady(s))
  BY <1>1, SameSession
<1>3. BookedFirst'
  BY <1>1, <1>2 DEF MirrorInv, BookedFirst
<1>4. ASSUME NEW s \in Sessions, Steady(s)', Bookings(s)' # {}
      PROVE  /\ Ahead(s)' /\ InOrder(s)' /\ Mirrors(s)'
             /\ pc' \in Done /\ row' \in Setters(s)' => Applied(s, row)'
  <2>1. Steady(s) /\ Bookings(s) # {}
    BY <1>2, <1>4
  <2>2. Ahead(s) /\ InOrder(s) /\ Mirrors(s)
        /\ (pc \in Done /\ row \in Setters(s) => Applied(s, row))
    BY <2>1 DEF MirrorInv
  <2>3. row \in Setters(s) => row \in DOMAIN log /\ cur.sid = s /\ ~ Rejects(cur)
            /\ cur.amount # "bad" /\ cur.type \notin {"EXPERT_REGISTERED", "PAYMENT_STREAMED"}
    BY <2>1 DEF Setters, Steady, cur
  <2>4. row \in Setters(s) => pc' # "scan"
    <3>1. CASE WriteTransaction
      <4>1. pc = "transaction" /\ (pc' = "scan" => NoSessionRow)
        BY <3>1 DEF WriteTransaction, Skip
      <4>2. ASSUME row \in Setters(s) PROVE sessions[s] # "NONE"
        <5>1. sessions[s] \in Shown(s, Effect(cur.type))
          BY <2>2, <4>1, <4>2 DEF Done, Applied, cur
        <5>2. cur \in Payload
          BY <2>3, <4>2 DEF Base, TypeOK, cur
        <5>3. cur.type \in EventTypes \ {"EXPERT_REGISTERED", "PAYMENT_STREAMED"}
          BY <2>3, <4>2, <5>2 DEF Payload
        <5> QED
          BY <5>1, <5>3, EffectStatus DEF Shown
      <4> QED
        BY <2>3, <4>1, <4>2 DEF NoSessionRow
    <3>2. CASE Begin
      <4>1. row = 0
        BY <3>2 DEF Begin, MirrorInv
      <4> QED
        BY <2>3, <4>1 DEF Base, TypeOK
    <3>3. CASE Handle
      BY <2>3, <3>3 DEF Handle, Sessionless
    <3>4. CASE \/ RegisterExpert \/ UpsertParties \/ LookupBooked
               \/ LookupStreamed \/ Notify \/ Publish
      BY <2>3, <3>4 DEF RegisterExpert, UpsertParties, LookupBooked, LookupStreamed,
                        Notify, Publish
    <3> QED
      BY <3>1, <3>2, <3>3, <3>4
  <2>5. pc' \in Done /\ row \in Setters(s) => pc \in Done
    <3>1. s # NoSession
      BY PayloadsAssumption
    <3>2. CASE Handle
      <4>1. ~ Rejects(cur) /\ ~ Sessionless(cur) => pc' \notin Done
        BY <3>2 DEF Handle, Done, Sessionless
      <4> QED
        BY <2>3, <3>1, <4>1 DEF Sessionless
    <3>3. CASE \/ Begin \/ RegisterExpert \/ UpsertParties \/ LookupBooked
               \/ LookupStreamed \/ Notify \/ WriteTransaction \/ Publish
      BY <2>3, <3>3 DEF Begin, RegisterExpert, UpsertParties, LookupBooked, LookupStreamed,
                        Notify, WriteTransaction, Publish, Skip, Done
    <3> QED
      BY <3>2, <3>3
  <2>6. Ahead(s)'
    BY <1>1, <1>2, <2>2, <2>4 DEF Ahead
  <2>7. InOrder(s)' /\ Mirrors(s)'
    BY <1>1, <1>2, <2>2 DEF InOrder, Mirrors, Applied
  <2>8. pc' \in Done /\ row' \in Setters(s)' => Applied(s, row)'
    BY <1>1, <1>2, <2>2, <2>5 DEF Applied
  <2> QED
    BY <2>6, <2>7, <2>8
<1>5. \A s \in Sessions : Bookings(s)' = {} => sessions'[s] = "NONE"
  BY <1>1, <1>2 DEF MirrorInv
<1> QED
  BY <1>1, <1>3, <1>4, <1>5 DEF MirrorInv

LEMMA WalkMirror ==
    ASSUME Base, Base', MirrorInv, NextRow \/ EndPass \/ Crash
    PROVE  MirrorInv'
<1> USE DEF Goto, tables, sent
<1>1. UNCHANGED <<log, processed, sessions, failed>> /\ pc' \in {"handle", "idle"}
      /\ (pc' = "idle" => row' = 0)
  BY DEF NextRow, EndPass, Crash
<1>2. \A s \in Sessions : Setters(s)' = Setters(s) /\ Bookings(s)' = Bookings(s)
                          /\ (Steady(s)' => Steady(s))
  BY <1>1, SameSession
<1>3. BookedFirst' /\ \A s \in Sessions : Bookings(s)' = {} => sessions'[s] = "NONE"
  BY <1>1, <1>2 DEF MirrorInv, BookedFirst
<1>4. ASSUME NEW s \in Sessions, Steady(s)', Bookings(s)' # {}
      PROVE  Ahead(s)' /\ InOrder(s)' /\ Mirrors(s)'
  <2>1. Ahead(s) /\ InOrder(s) /\ Mirrors(s)
    BY <1>2, <1>4 DEF MirrorInv
  <2>2. \A i \in Setters(s) : i \in Nat \ {0}
    BY DEF Setters, Base, TypeOK
  <2>3. Ahead(s)'
    <3>1. CASE NextRow
      <4>1. pc = "scan" /\ row \in Nat /\ row' \in Nat /\ row + 1 .. row' - 1 \subseteq processed
        BY <3>1 DEF NextRow, Upcoming, Base, TypeOK
      <4>2. pc' = "handle"
        BY <3>1 DEF NextRow
      <4>3. ASSUME NEW i \in Setters(s), i < row' PROVE i \in processed
        <5>1. i < row \/ i = row \/ i \in row + 1 .. row' - 1
          BY <2>2, <4>1, <4>3
        <5> QED
          BY <2>1, <4>1, <5>1 DEF Ahead
      <4> QED
        BY <1>1, <1>2, <4>2, <4>3 DEF Ahead
    <3>2. CASE EndPass \/ Crash
      <4>1. row' = 0 /\ pc' = "idle"
        BY <3>2 DEF EndPass, Crash
      <4> QED
        BY <1>2, <2>2, <4>1 DEF Ahead
    <3> QED
      BY <3>1, <3>2
  <2>4. InOrder(s)' /\ Mirrors(s)'
    BY <1>1, <1>2, <2>1 DEF InOrder, Mirrors, Applied
  <2> QED
    BY <2>3, <2>4
<1> QED
  BY <1>1, <1>3, <1>4 DEF MirrorInv, Done

\* The write of a status by the next row in order.
LEMMA StatusMirror ==
    ASSUME Base, Base', MirrorInv, BookSession \/ UpdateStatus
    PROVE  MirrorInv'
<1> USE DEF Goto, tables, sent
<1>1. UNCHANGED <<log, processed, row, failed>> /\ pc = "status" /\ pc' # "idle"
  BY DEF BookSession, UpdateStatus
<1>2. row \in DOMAIN log /\ row \notin processed /\ cur \in Payload /\ cur.sid \in Sessions
      /\ ~ Rejects(cur) /\ cur.type \notin {"EXPERT_REGISTERED", "PAYMENT_STREAMED"}
  BY <1>1 DEF Base, RowInv, Inside, Working, Points, TypeOK, cur
<1>3. \A s \in Sessions : Setters(s)' = Setters(s) /\ Bookings(s)' = Bookings(s)
                          /\ (Steady(s)' => Steady(s))
  BY <1>1, SameSession
<1>4. BookedFirst'
  BY <1>1, <1>3 DEF MirrorInv, BookedFirst
<1>5. row \in Setters(cur.sid)
  BY <1>2 DEF Setters, cur
<1>6. \A s \in Sessions : s # cur.sid => sessions'[s] = sessions[s] /\ row \notin Setters(s)
  BY <1>2 DEF BookSession, UpdateStatus, Setters, cur, Base, TypeOK
<1>7. ASSUME NEW s \in Sessions, Bookings(s)' = {}
      PROVE  sessions'[s] = "NONE"
  <2>1. sessions[s] = "NONE" /\ (s = cur.sid => cur.type # "SESSION_BOOKED")
    BY <1>2, <1>3, <1>7 DEF MirrorInv, Bookings, cur
  <2> QED
    BY <1>6, <2>1 DEF BookSession, UpdateStatus, NoSessionRow
<1>8. ASSUME NEW s \in Sessions, Steady(s)', Bookings(s)' # {}
      PROVE  /\ Ahead(s)' /\ InOrder(s)' /\ Mirrors(s)'
             /\ pc' \in Done /\ row' \in Setters(s)' => Applied(s, row)'
  <2>1. Steady(s) /\ Bookings(s) # {} /\ Ahead(s) /\ InOrder(s) /\ Mirrors(s)
    BY <1>3, <1>8 DEF MirrorInv
  <2>2. InOrder(s)'
    BY <1>1, <1>3, <2>1 DEF InOrder
  <2>3. CASE s # cur.sid
    <3>1. Ahead(s)'
      BY <1>1, <1>3, <1>6, <2>1, <2>3 DEF Ahead
    <3>2. Mirrors(s)'
      BY <1>1, <1>3, <1>6, <2>1, <2>3 DEF Mirrors, Applied
    <3> QED
      BY <1>1, <1>3, <1>6, <2>2, <2>3, <3>1, <3>2
  <2>4. CASE s = cur.sid
    <3>1. cur.amount # "bad"
      BY <1>2, <2>1, <2>4 DEF Steady, cur
    <3>2. pc' # "scan"
      BY <3>1 DEF BookSession, UpdateStatus
    <3>3. UpdateStatus => ~ NoSessionRow
      <4>1. UpdateStatus => log[row].type # "SESSION_BOOKED" /\ pc \in Inside
        BY <1>1 DEF UpdateStatus, cur, Inside, Points
      <4> QED
        BY <1>2, <2>1, <2>4, <4>1, HasStatus DEF NoSessionRow, cur
    <3>4. sessions'[s] = Effect(log[row].type)
      BY <1>2, <2>4, <3>3 DEF BookSession, UpdateStatus, cur, Base, TypeOK
    <3>5. \A i \in Setters(s) : i < row => i \in processed
      BY <2>1 DEF Ahead
    <3>6. \A i \in Setters(s) : i \in processed => i <= row
      <4>1. \A i \in Setters(s) : i \in Nat
        BY DEF Setters, Base, TypeOK
      <4> QED
        BY <1>2, <1>5, <2>1, <2>4, <4>1 DEF InOrder
    <3>7. Applied(s, row)'
      BY <1>1, <1>3, <3>4, <3>5, <3>6 DEF Applied, Shown
    <3>8. Mirrors(s)'
      BY <1>1, <1>3, <1>5, <2>4, <3>7 DEF Mirrors
    <3>9. Ahead(s)'
      BY <1>1, <1>3, <3>2, <3>5 DEF Ahead
    <3> QED
      BY <2>2, <3>7, <3>8, <3>9
  <2> QED
    BY <2>3, <2>4
<1> QED
  BY <1>1, <1>4, <1>7, <1>8 DEF MirrorInv

LEMMA MarkMirror ==
    ASSUME Base, Base', MirrorInv, Mark
    PROVE  MirrorInv'
<1> USE DEF Goto, tables, sent
<1>1. UNCHANGED <<log, sessions, row, failed>> /\ pc = "mark" /\ pc' = "scan"
      /\ processed' = processed \cup {row}
  BY DEF Mark
<1>2. \A s \in Sessions : Setters(s)' = Setters(s) /\ Bookings(s)' = Bookings(s)
                          /\ (Steady(s)' => Steady(s))
  BY <1>1, SameSession
<1>3. BookedFirst' /\ \A s \in Sessions : Bookings(s)' = {} => sessions'[s] = "NONE"
  BY <1>1, <1>2 DEF MirrorInv, BookedFirst
<1>4. ASSUME NEW s \in Sessions, Steady(s)', Bookings(s)' # {}
      PROVE  Ahead(s)' /\ InOrder(s)' /\ Mirrors(s)'
  <2>1. Ahead(s) /\ InOrder(s) /\ Mirrors(s) /\ (row \in Setters(s) => Applied(s, row))
    BY <1>1, <1>2, <1>4 DEF MirrorInv, Done
  <2>2. Ahead(s)'
    BY <1>1, <1>2, <2>1 DEF Ahead
  <2>3. CASE row \notin Setters(s)
    BY <1>1, <1>2, <2>1, <2>2, <2>3 DEF InOrder, Mirrors, Applied
  <2>4. CASE row \in Setters(s)
    <3>1. \A i \in Setters(s) : i \in Nat
      BY DEF Setters, Base, TypeOK
    <3>2. Applied(s, row)'
      BY <1>1, <1>2, <2>1, <2>4, <3>1 DEF Applied
    <3>3. InOrder(s)'
      BY <1>1, <1>2, <2>1 DEF InOrder, Ahead
    <3> QED
      BY <1>1, <1>2, <2>2, <2>4, <3>2, <3>3 DEF Mirrors
  <2> QED
    BY <2>3, <2>4
<1> QED
  BY <1>1, <1>3, <1>4 DEF MirrorInv, Done

\* A settlement leaves a session with the last row that was applied to it.
LEMMA SettlementMirror ==
    ASSUME Base, MirrorInv, NEW d \in Deserted, FallbackSettlement(d)
    PROVE  MirrorInv'
<1>1. UNCHANGED <<log, processed, row, pc, failed>>
      /\ sessions[d] = "ACTIVE" /\ sessions' = [sessions EXCEPT ![d] = "COMPLETED"]
      /\ d \in Sessions
  BY DesertedAssumption DEF FallbackSettlement, pass
<1>2. \A s \in Sessions : sessions'[s] = IF s = d THEN "COMPLETED" ELSE sessions[s]
  BY <1>1 DEF Base, TypeOK
<1>3. \A s \in Sessions : Setters(s)' = Setters(s) /\ Bookings(s)' = Bookings(s)
                          /\ (Steady(s)' => Steady(s))
  BY <1>1, SameSession
<1>4. BookedFirst' /\ \A s \in Sessions : Bookings(s)' = {} => sessions'[s] = "NONE"
  BY <1>1, <1>2, <1>3 DEF MirrorInv, BookedFirst
<1>5. ASSUME NEW s \in Sessions, NEW k, Applied(s, k) PROVE Applied(s, k)'
  <2>1. sessions'[s] \in Shown(s, Effect(log[k].type))
    BY <1>1, <1>2, <1>5 DEF Applied, Shown
  <2> QED
    BY <1>1, <1>3, <1>5, <2>1 DEF Applied, Shown
<1>6. ASSUME NEW s \in Sessions, Steady(s)', Bookings(s)' # {}
      PROVE  /\ Ahead(s)' /\ InOrder(s)' /\ Mirrors(s)'
             /\ pc' \in Done /\ row' \in Setters(s)' => Applied(s, row)'
  <2>1. /\ Ahead(s) /\ InOrder(s) /\ Mirrors(s)
        /\ pc \in Done /\ row \in Setters(s) => Applied(s, row)
    BY <1>3, <1>6 DEF MirrorInv
  <2>2. Ahead(s)' /\ InOrder(s)'
    BY <1>1, <1>3, <2>1 DEF Ahead, InOrder
  <2>3. Mirrors(s)'
    BY <1>1, <1>2, <1>3, <1>5, <2>1 DEF Mirrors
  <2>4. row \in Setters(s) => (Applied(s, row) => Applied(s, row)')
    BY <1>1, <1>5
  <2> QED
    BY <1>1, <1>3, <2>1, <2>2, <2>3, <2>4
<1> QED
  BY <1>1, <1>4, <1>6 DEF MirrorInv

\* A failed call costs its row its turn, and no other session anything.
LEMMA FaultMirror ==
    ASSUME Base, MirrorInv, DbFault
    PROVE  MirrorInv'
<1> USE DEF Goto, tables, sent
<1>1. UNCHANGED <<log, processed, sessions, row>> /\ pc' = "scan" /\ failed' = failed \cup {row}
      /\ row \in DOMAIN log
  BY DEF DbFault, Skip, Base, RowInv, Inside, Points
<1>2. \A s \in Sessions : Setters(s)' = Setters(s) /\ Bookings(s)' = Bookings(s)
                          /\ (Steady(s)' => Steady(s) /\ row \notin Setters(s))
  BY <1>1 DEF Setters, Bookings, Steady
<1>3. BookedFirst' /\ \A s \in Sessions : Bookings(s)' = {} => sessions'[s] = "NONE"
  BY <1>1, <1>2 DEF MirrorInv, BookedFirst
<1>4. ASSUME NEW s \in Sessions, Steady(s)', Bookings(s)' # {}
      PROVE  Ahead(s)' /\ InOrder(s)' /\ Mirrors(s)'
  <2>1. Ahead(s) /\ InOrder(s) /\ Mirrors(s) /\ row \notin Setters(s)
    BY <1>2, <1>4 DEF MirrorInv
  <2> QED
    BY <1>1, <1>2, <2>1 DEF Ahead, InOrder, Mirrors, Applied
<1> QED
  BY <1>1, <1>3, <1>4 DEF MirrorInv, Done

LEMMA MirrorStep ==
    ASSUME Base, Base', MirrorInv, [Next]_vars
    PROVE  MirrorInv'
<1>1. CASE DbFault
  BY <1>1, FaultMirror
<1>2. CASE UNCHANGED vars
  <2>1. UNCHANGED <<log, sessions, processed, row, pc, failed>>
    BY <1>2 DEF vars, tables, pass
  <2> QED
    BY <2>1 DEF MirrorInv, BookedFirst, Bookings, Setters, Steady, Ahead, InOrder, Mirrors,
                Applied
<1> QED
  BY <1>1, <1>2, IngestMirror, QuietMirror, WalkMirror, StatusMirror, MarkMirror,
     SettlementMirror DEF Next, Pass

-----------------------------------------------------------------------------
(* What a pass leaves behind *)

\* A bounded set of numbers has a least one: by the well-foundedness of strict
\* inclusion, applied to the intervals that end in its members.
LEMMA Least ==
    ASSUME NEW n \in Nat, NEW T \in SUBSET (1..n), T # {}
    PROVE  \E x \in T : \A y \in T : x <= y
<1> DEFINE S == 1..n
           U == {1..x : x \in T}
           R == StrictSubsetOrdering(S)
<1>1. IsWellFoundedOn(R, FiniteSubsetsOf(S))
  BY FS_StrictSubsetOrderingWellFounded
<1>2. U \subseteq FiniteSubsetsOf(S) /\ U # {}
  <2>1. ASSUME NEW x \in T PROVE 1..x \subseteq S /\ IsFiniteSet(1..x)
    BY FS_Interval
  <2> QED
    BY <2>1 DEF FiniteSubsetsOf
<1>3. PICK u \in U : \A v \in U : <<v, u>> \notin R
  <2> HIDE DEF R, U, S
  <2> QED
    BY <1>1, <1>2, WFMin
<1>4. PICK x \in T : u = 1..x
  BY <1>3
<1>5. ASSUME NEW y \in T, y < x PROVE FALSE
  <2>1. 1..y \subseteq 1..x /\ x \in 1..x /\ x \notin 1..y
        /\ 1..y \in SUBSET S /\ 1..x \in SUBSET S
    BY <1>5
  <2>2. 1..y # 1..x
    BY <2>1
  <2>3. <<1..y, 1..x>> \in R
    BY <2>1, <2>2 DEF StrictSubsetOrdering
  <2> QED
    BY <1>3, <1>4, <2>3
<1> QED
  BY <1>5

\* With nothing upcoming, all the rows behind the walk are processed.
LEMMA NothingUpcoming ==
    ASSUME TypeOK, Upcoming = {}
    PROVE  \A r \in DOMAIN log : r > row => r \in processed
<1> DEFINE T == {r \in 1..Len(log) : r > row /\ r \notin processed}
<1>1. Len(log) \in Nat /\ row \in Nat /\ DOMAIN log = 1..Len(log)
  BY DEF TypeOK
<1>2. ASSUME T # {} PROVE FALSE
  <2>1. PICK x \in T : \A y \in T : x <= y
    <3>1. T \in SUBSET (1..Len(log))
      OBVIOUS
    <3> HIDE DEF T
    <3> QED
      BY <1>1, <1>2, <3>1, Least
  <2>2. x \in row + 1 .. Len(log) /\ x \notin processed
    BY <1>1, <2>1
  <2>3. ASSUME NEW r \in row + 1 .. x - 1 PROVE r \in processed
    <3>1. r \in 1..Len(log) /\ r > row /\ ~ (x <= r)
      BY <1>1, <2>1, <2>3
    <3> QED
      BY <2>1, <3>1
  <2> QED
    BY <2>2, <2>3 DEF Upcoming
<1> QED
  BY <1>1, <1>2

\* The rows the pass is done with.
Behind(r) == r < row \/ (pc = "scan" /\ r = row)

LeftBehind == \A r \in DOMAIN log : Placed(r) /\ Behind(r) => r \in processed

\* A booking has made its session by the time its transaction is written.
BookedInv ==
    pc \in {"notify", "transaction"} /\ cur.type = "SESSION_BOOKED" =>
        sessions[cur.sid] # "NONE"

WalkInv == LeftBehind /\ BookedInv

LEMMA WalkInit == Init => WalkInv
BY DEF Init, WalkInv, LeftBehind, BookedInv

LEMMA SamePlaced ==
    ASSUME UNCHANGED <<log, failed>>, NEW r
    PROVE  Placed(r)' <=> Placed(r)
<1>1. \A s : Setters(s)' = Setters(s) /\ (Steady(s)' <=> Steady(s))
  BY DEF Setters, Steady
<1> QED
  BY <1>1 DEF Placed, WellFormedRow

\* A row whose handler throws though no call failed was not in its place.
LEMMA ThrownOutOfPlace ==
    ASSUME Base, MirrorInv, BookedInv, pc # "scan", pc' = "scan", ~ Begin, ~ Mark, ~ DbFault,
           [Next]_vars
    PROVE  ~ Placed(row) /\ UNCHANGED <<log, row, processed, failed>>
<1> USE DEF Goto, tables, sent, cur
<1>1. CASE Handle
  BY <1>1 DEF Handle, Skip, Placed, WellFormedRow, Sessionless
<1>2. CASE UpsertParties
  BY <1>2 DEF UpsertParties, Placed, WellFormedRow
<1>3. CASE LookupStreamed
  <2>1. pc \in Inside /\ NoSessionRow /\ cur.sid \in Sessions /\ cur.type = "PAYMENT_STREAMED"
    BY <1>3 DEF LookupStreamed, Skip, Base, RowInv, Working, Inside, Points
  <2>2. ASSUME Placed(row) PROVE FALSE
    <3>1. Steady(cur.sid) /\ Bookings(cur.sid) # {}
      BY <2>1, <2>2, PayloadsAssumption DEF Placed, Setters, Bookings
    <3> QED
      BY <2>1, <3>1, HasStatus DEF NoSessionRow
  <2> QED
    BY <1>3, <2>2 DEF LookupStreamed, Skip
<1>4. CASE UpdateStatus
  BY <1>4 DEF UpdateStatus, HasTransaction, Placed, WellFormedRow, Base, RowInv, Working
<1>5. CASE WriteTransaction
  <2>1. pc \in Inside /\ NoSessionRow /\ cur.sid \in Sessions /\ cur.type # "EXPERT_REGISTERED"
        /\ pc = "transaction"
    BY <1>5 DEF WriteTransaction, Skip, Base, RowInv, Working, Inside, Points
  <2>2. cur.type # "SESSION_BOOKED"
    BY <2>1 DEF BookedInv, NoSessionRow
  <2>3. ASSUME Placed(row) PROVE FALSE
    <3>1. Steady(cur.sid) /\ Bookings(cur.sid) # {}
      BY <2>1, <2>2, <2>3, PayloadsAssumption DEF Placed, Setters, Bookings
    <3> QED
      BY <2>1, <2>2, <3>1, HasStatus DEF NoSessionRow
  <2> QED
    BY <1>5, <2>3 DEF WriteTransaction, Skip
<1> QED
  BY <1>1, <1>2, <1>3, <1>4, <1>5
     DEF Next, Pass, IngestRow, NextRow, EndPass, RegisterExpert, LookupBooked, BookSession,
         Notify, Publish, Crash, vars, pass, FallbackSettlement

LEMMA BookedStep ==
    ASSUME Base, BookedInv, [Next]_vars
    PROVE  BookedInv'
<1> USE DEF Goto, tables, sent, cur
<1>1. Grows
  BY StepGrows
<1>2. CASE BookSession
  <2>1. sessions'[cur.sid] = "ACTIVE" /\ UNCHANGED <<log, row>>
    BY <1>2 DEF BookSession, Effect, Base, TypeOK, RowInv, Working
  <2> QED
    BY <2>1 DEF BookedInv
<1>3. CASE pc \in {"notify", "transaction"} /\ UNCHANGED <<log, row>>
  <2>1. cur.sid \in Sessions /\ (cur.type = "SESSION_BOOKED" => sessions[cur.sid] # "NONE")
    BY <1>3 DEF BookedInv, Base, RowInv, Working
  <2>2. sessions[cur.sid] # "NONE" => sessions'[cur.sid] # "NONE"
    BY <1>1, <2>1 DEF Grows
  <2> QED
    BY <1>3, <2>1, <2>2 DEF BookedInv
<1>4. CASE pc' \in {"notify", "transaction"} /\ cur'.type = "SESSION_BOOKED"
           /\ ~ (pc \in {"notify", "transaction"} /\ UNCHANGED <<log, row>>)
  BY <1>2, <1>4
     DEF Next, Pass, IngestRow, Begin, NextRow, EndPass, Handle, RegisterExpert,
         UpsertParties, LookupBooked, LookupStreamed, UpdateStatus, Notify,
         WriteTransaction, Publish, Mark, DbFault, Crash, Skip, vars, pass,
         FallbackSettlement
<1> QED
  BY <1>3, <1>4 DEF BookedInv

LEMMA LeftStep ==
    ASSUME Base, MirrorInv, WalkInv, [Next]_vars
    PROVE  LeftBehind'
<1> USE DEF Goto, tables, sent
<1>1. \A r \in DOMAIN log : r \in Nat \ {0}
  BY DEF Base, TypeOK
<1>2. CASE IngestRow \/ Begin \/ EndPass \/ Crash
  <2>1. row' = 0
    BY <1>2 DEF IngestRow, Begin, EndPass, Crash, MirrorInv, pass
  <2>2. \A r \in DOMAIN log' : r \in Nat \ {0}
    <3>1. CASE IngestRow
      <4>1. PICK p \in Payload : log' = Append(log, p)
        BY <3>1, PayloadsAssumption DEF IngestRow
      <4> QED
        BY <4>1 DEF Base, TypeOK
    <3>2. CASE Begin \/ EndPass \/ Crash
      BY <1>1, <3>2 DEF Begin, EndPass, Crash
    <3> QED
      BY <1>2, <3>1, <3>2
  <2> QED
    BY <2>1, <2>2 DEF LeftBehind, Behind
<1>3. CASE NextRow
  <2>1. UNCHANGED <<log, processed, failed>> /\ pc = "scan" /\ pc' = "handle"
        /\ row \in Nat /\ row' \in Nat /\ row + 1 .. row' - 1 \subseteq processed
    BY <1>3 DEF NextRow, Upcoming, Base, TypeOK
  <2>2. ASSUME NEW r \in DOMAIN log, r < row' PROVE Behind(r) \/ r \in processed
    <3>1. r \in Nat
      BY <1>1
    <3>2. r < row \/ r = row \/ r \in row + 1 .. row' - 1
      BY <2>1, <2>2, <3>1
    <3> QED
      BY <2>1, <3>2 DEF Behind
  <2> QED
    BY <2>1, <2>2, SamePlaced DEF LeftBehind, Behind, WalkInv
<1>4. CASE DbFault
  <2>1. UNCHANGED <<log, row, processed>> /\ pc' = "scan" /\ failed' = failed \cup {row}
    BY <1>4 DEF DbFault, Skip
  <2>2. \A s : Setters(s)' = Setters(s) /\ (Steady(s)' => Steady(s))
    BY <2>1 DEF Setters, Steady
  <2>3. \A r \in DOMAIN log : Placed(r)' => Placed(r) /\ r # row
    BY <2>1, <2>2 DEF Placed, WellFormedRow
  <2> QED
    BY <2>1, <2>3 DEF LeftBehind, Behind, WalkInv
<1>5. CASE Mark
  <2>1. UNCHANGED <<log, row, failed>> /\ processed' = processed \cup {row}
    BY <1>5 DEF Mark
  <2> QED
    BY <1>1, <2>1, SamePlaced DEF LeftBehind, Behind, WalkInv
<1>6. CASE ~ (IngestRow \/ Begin \/ EndPass \/ Crash \/ NextRow \/ DbFault \/ Mark)
  <2>1. UNCHANGED <<log, row, processed, failed>>
    BY <1>6 DEF Next, Pass, Handle, RegisterExpert, UpsertParties, LookupBooked,
         LookupStreamed, BookSession, UpdateStatus, Notify, WriteTransaction, Publish, Skip,
         vars, pass, FallbackSettlement
  <2>2. pc # "scan" /\ pc' = "scan" => ~ Placed(row)
    BY <1>6, ThrownOutOfPlace DEF WalkInv
  <2>3. \A r \in DOMAIN log : Placed(r) /\ Behind(r)' => Behind(r)
    BY <2>1, <2>2 DEF Behind
  <2> QED
    BY <2>1, <2>3, SamePlaced DEF LeftBehind, WalkInv
<1> QED
  BY <1>2, <1>3, <1>4, <1>5, <1>6

LEMMA WalkStep ==
    ASSUME Base, MirrorInv, WalkInv, [Next]_vars
    PROVE  WalkInv'
BY BookedStep, LeftStep DEF WalkInv

-----------------------------------------------------------------------------
(* Theorems *)

IInv == Base /\ PublishInv /\ NotifyInv /\ MirrorInv /\ WalkInv

\* What the theorems below rest on.
THEOREM Invariant == Spec => []IInv
<1>1. Init => IInv
  BY BaseInit, PublishInit, NotifyInit, MirrorInit, WalkInit DEF IInv
<1>2. IInv /\ [Next]_vars => IInv'
  BY BaseStep, PublishStep, NotifyStep, MirrorStep, WalkStep DEF IInv
<1> QED
  BY <1>1, <1>2, PTL DEF Spec

\* The tables of the event processor and the state of its pass are well typed.
THEOREM TypeCorrect == Spec => []TypeOK
BY Invariant, PTL DEF IInv, Base

\* processEvents publishes and marks a row only when its effects are complete,
\* and a session's row that it has marked is published if its sessionId is a
\* string, and is not if it is anything else.
THEOREM PublishedComplete == Spec => []PublishedAfterCommitted
BY Invariant, PTL DEF IInv, PublishInv

\* A booking is announced at most once, however often it is replayed.
THEOREM NotifiedOnce == Spec => []NotifiedAtMostOnce
BY Invariant, PTL DEF IInv, NotifyInv

\* Where k is the last row of a booked session up to row n, the status of the
\* session after row n is the one that row k gives it.
LEMMA StatusAtRow ==
    ASSUME Base, MirrorInv, NEW s \in Sessions, Steady(s), Bookings(s) # {},
           NEW k \in Setters(s), NEW n \in Nat, k <= n, \A i \in Setters(s) : i <= n => i <= k
    PROVE  StatusAt(s, n) = Effect(log[k].type)
<1> DEFINE upto == {i \in Setters(s) : i <= n}
<1>1. \A i \in Setters(s) : i \in Nat
  BY DEF Setters, Base, TypeOK
<1>2. k \in upto /\ \A j \in upto : j <= k
  OBVIOUS
<1>3. \A i \in upto : (\A j \in upto : j <= i) => i = k
  BY <1>1, <1>2
<1>4. (CHOOSE i \in upto : \A j \in upto : j <= i) = k
  BY <1>2, <1>3
<1>5. \E i \in upto : log[i].type = "SESSION_BOOKED"
  <2>1. PICK b \in Bookings(s) : b <= k
    BY DEF MirrorInv, BookedFirst, Setters
  <2>2. b \in Setters(s)
    BY <2>1 DEF Bookings, Setters, Steady
  <2>3. b \in upto /\ log[b].type = "SESSION_BOOKED"
    BY <1>1, <1>2, <2>1, <2>2 DEF Bookings
  <2> QED
    BY <2>3
<1> QED
  BY <1>4, <1>5 DEF StatusAt

\* However passes crash and start again, a session's status is one the chain
\* gave it, and not older than any of its rows that processEvents has marked.
THEOREM SessionsMirror == Spec => []SessionsMirrorLog
<1>1. ASSUME IInv PROVE SessionsMirrorLog
  <2> SUFFICES ASSUME NEW s \in Sessions, Steady(s)
               PROVE  \E k \in 0..Len(log) :
                         /\ \A i \in Setters(s) \cap processed : i <= k
                         /\ sessions[s] \in Shown(s, StatusAt(s, k))
    BY <1>1 DEF SessionsMirrorLog, Steady, IInv, Base, TypeOK
  <2>1. Base /\ MirrorInv /\ Len(log) \in Nat /\ DOMAIN log = 1..Len(log)
    BY <1>1 DEF IInv, Base, TypeOK
  <2>2. Setters(s) \subseteq 1..Len(log)
    BY <2>1 DEF Setters
  <2>3. CASE Bookings(s) = {}
    <3>1. sessions[s] = "NONE"
      BY <2>1, <2>3 DEF MirrorInv
    <3>2. StatusAt(s, Len(log)) = "NONE"
      BY <2>3 DEF StatusAt, Bookings, Setters
    <3> QED
      BY <2>1, <2>2, <3>1, <3>2 DEF Shown
  <2>4. CASE Bookings(s) # {} /\ sessions[s] = "NONE" /\ Setters(s) \cap processed = {}
    <3>1. StatusAt(s, 0) = "NONE"
      BY <2>2 DEF StatusAt
    <3> QED
      BY <2>1, <2>4, <3>1 DEF Shown
  <2>5. CASE Bookings(s) # {} /\ \E k \in Setters(s) : Applied(s, k)
    <3>1. PICK k \in Setters(s) : Applied(s, k)
      BY <2>5
    <3>2. sessions[s] \in Shown(s, StatusAt(s, k))
      <4>1. \A i \in Setters(s) : i \in Nat
        BY <2>1, <2>2
      <4>2. StatusAt(s, k) = Effect(log[k].type)
        BY <2>1, <2>5, <4>1, StatusAtRow
      <4> QED
        BY <3>1, <4>2 DEF Applied
    <3> QED
      <4>1. k \in 0..Len(log)
        BY <2>1, <2>2
      <4>2. \A i \in Setters(s) \cap processed : i <= k
        BY <3>1 DEF Applied
      <4> QED
        BY ONLY <3>2, <4>1, <4>2, Zenon
  <2> QED
    BY <2>1, <2>3, <2>4, <2>5 DEF MirrorInv, Mirrors
<1> QED
  BY <1>1, Invariant, PTL

\* The statuses of a session change in the order of its rows, none skipped,
\* unless one of the rows has to be tried again for an error or a settlement
\* comes between: what SessionHub takes for granted of the indexer process.
THEOREM ChainOrder == Spec => StatusesInChainOrder
<1>1. ASSUME IInv, [Next]_vars, NEW s \in Sessions, Steady(s), sessions'[s] # sessions[s]
      PROVE  \/ s \in Deserted /\ FallbackSettlement(s)
             \/ \E k \in Setters(s) \ processed :
                   /\ sessions'[s] = Effect(log[k].type)
                   /\ \A i \in Setters(s) : i < k => i \in processed
  <2>1. Base /\ MirrorInv
    BY <1>1 DEF IInv
  <2>2. CASE Settlement
    BY <1>1, <2>1, <2>2 DEF Settlement, FallbackSettlement, Base, TypeOK
  <2>3. CASE BookSession \/ UpdateStatus
    <3>1. pc = "status" /\ row \in DOMAIN log /\ row \notin processed /\ ~ Rejects(cur)
          /\ cur.type \notin {"EXPERT_REGISTERED", "PAYMENT_STREAMED"}
      BY <2>1, <2>3 DEF BookSession, UpdateStatus, Base, RowInv, Inside, Working, Points
    <3>2. cur.sid = s /\ sessions'[s] = Effect(cur.type)
      BY <1>1, <2>1, <2>3 DEF BookSession, UpdateStatus, Base, TypeOK
    <3>3. row \in Setters(s)
      BY <3>1, <3>2 DEF Setters, cur
    <3>4. Bookings(s) # {}
      <4>1. CASE BookSession
        BY <3>1, <3>2, <4>1 DEF BookSession, Bookings, cur
      <4>2. CASE UpdateStatus
        <5>1. sessions[s] # "NONE"
          BY <1>1, <3>2, <4>2 DEF UpdateStatus, NoSessionRow
        <5> QED
          BY <2>1, <5>1 DEF MirrorInv
      <4> QED
        BY <2>3, <4>1, <4>2
    <3>5. \A i \in Setters(s) : i < row => i \in processed
      BY <1>1, <2>1, <3>4 DEF MirrorInv, Ahead
    <3> QED
      BY <3>1, <3>2, <3>3, <3>5 DEF cur
  <2>4. CASE ~ Settlement /\ ~ BookSession /\ ~ UpdateStatus
    <3>1. UNCHANGED sessions
      BY <1>1, <2>4 DEF Next, Settlement, Pass, IngestRow, Begin, NextRow, EndPass, Handle,
           RegisterExpert, UpsertParties, LookupBooked, LookupStreamed, Notify,
           WriteTransaction, Publish, Mark, DbFault, Crash, Skip, vars, tables
    <3> QED
      BY <1>1, <3>1
  <2> QED
    BY <2>2, <2>3, <2>4
<1>2. IInv /\ [Next]_vars =>
        [\A s \in Sessions :
            Steady(s) /\ sessions'[s] # sessions[s] =>
               \/ s \in Deserted /\ FallbackSettlement(s)
               \/ \E k \in Setters(s) \ processed :
                     /\ sessions'[s] = Effect(log[k].type)
                     /\ \A i \in Setters(s) : i < k => i \in processed]_vars
  BY <1>1
<1> QED
  BY <1>2, Invariant, PTL DEF Spec, StatusesInChainOrder

\* A pass processes every row whose handler has what it needs and none of whose
\* calls failed: the rows behind the walk are processed or out of place, and at its
\* end there are none in front of it.  Rows that throw, for their payload or for a
\* failed call, cost only themselves their turn; this is why passing over them is
\* enough for SoundRowsProcessed.
THEOREM OnePass == Spec => OnePassSuffices
<1>1. ASSUME IInv, EndPass, NEW r \in DOMAIN log, Placed(r)
      PROVE  r \in processed
  <2>1. TypeOK /\ LeftBehind
    BY <1>1 DEF IInv, Base, WalkInv
  <2>2. r > row => r \in processed
    BY <1>1, <2>1, NothingUpcoming DEF EndPass
  <2>3. r <= row => Behind(r)
    BY <1>1, <2>1 DEF EndPass, Behind, TypeOK
  <2>4. r <= row \/ r > row
    BY <2>1 DEF TypeOK
  <2> QED
    BY <1>1, <2>1, <2>2, <2>3, <2>4 DEF LeftBehind
<1>2. IInv /\ [Next]_vars =>
        [EndPass =>
            \A r \in DOMAIN log : Placed(r) => r \in processed]_vars
  BY <1>1
<1> QED
  BY <1>2, Invariant, PTL DEF Spec, OnePassSuffices

\* Once its rows are processed, a session whose rows caused no error shows what
\* the last of them says, or has been settled while this is ACTIVE.
LEMMA DrainedShown ==
    ASSUME IInv, NEW s \in Sessions, Steady(s), Setters(s) \subseteq processed
    PROVE  sessions[s] \in Shown(s, StatusAt(s, Len(log)))
<1>1. Base /\ MirrorInv /\ Len(log) \in Nat /\ DOMAIN log = 1..Len(log)
  BY DEF IInv, Base, TypeOK
<1>2. Setters(s) \subseteq 1..Len(log)
  BY <1>1 DEF Setters
<1>3. CASE Bookings(s) = {}
  <2>1. sessions[s] = "NONE" /\ StatusAt(s, Len(log)) = "NONE"
    BY <1>1, <1>3 DEF MirrorInv, StatusAt, Bookings, Setters
  <2> QED
    BY <2>1 DEF Shown
<1>4. CASE Bookings(s) # {}
  <2>1. Bookings(s) \subseteq Setters(s)
    BY DEF Bookings, Setters, Steady
  <2>2. PICK k \in Setters(s) : Applied(s, k)
    BY <1>1, <1>2, <1>4, <2>1 DEF MirrorInv, Mirrors
  <2>3. \A i \in Setters(s) : i <= k
    BY <2>2 DEF Applied
  <2>4. k <= Len(log)
    BY <1>1, <1>2
  <2>5. StatusAt(s, Len(log)) = Effect(log[k].type)
    BY <1>1, <1>4, <2>3, <2>4, StatusAtRow
  <2> QED
    BY <2>2, <2>5 DEF Applied
<1> QED
  BY <1>3, <1>4

\* schema.prisma's claim, session by session: a session none of whose own rows
\* met a failed call or a malformed payload, and which its peers have not left,
\* mirrors the chain once its own rows are processed, whatever becomes of the rows
\* of other sessions and however often the process crashed on the way.
THEOREM EachSteadySessionMirrored ==
    Spec => [](\A s \in Sessions :
                  Steady(s) /\ s \notin Deserted /\ Setters(s) \subseteq processed =>
                     sessions[s] = StatusAt(s, Len(log)))
<1>1. ASSUME IInv, NEW s \in Sessions, Steady(s), s \notin Deserted,
             Setters(s) \subseteq processed
      PROVE  sessions[s] = StatusAt(s, Len(log))
  <2>1. sessions[s] \in Shown(s, StatusAt(s, Len(log)))
    BY <1>1, DrainedShown
  <2> QED
    BY <1>1, <2>1 DEF Shown
<1>2. IInv => \A s \in Sessions :
                 Steady(s) /\ s \notin Deserted /\ Setters(s) \subseteq processed =>
                    sessions[s] = StatusAt(s, Len(log))
  BY <1>1
<1> QED
  BY <1>2, Invariant, PTL

\* The claim as it stands, of all sessions at once, holds as long as no database
\* call of a handler throws, no payload is malformed and no session is left by
\* its peers.
THEOREM MirrorWhenCallsSucceed ==
    Spec => []((\A s \in Sessions : Steady(s) /\ s \notin Deserted) => DrainedMirror)
<1>1. (\A s \in Sessions :
          Steady(s) /\ s \notin Deserted /\ Setters(s) \subseteq processed =>
             sessions[s] = StatusAt(s, Len(log)))
      => ((\A s \in Sessions : Steady(s) /\ s \notin Deserted) => DrainedMirror)
  <2>1. \A s \in Sessions : Setters(s) \subseteq DOMAIN log
    BY DEF Setters
  <2> QED
    BY <2>1 DEF DrainedMirror
<1> QED
  BY <1>1, EachSteadySessionMirrored, PTL
=============================================================================
