-------------------------- MODULE SessionHubProofs --------------------------
(***************************************************************************)
(* The safety properties of SessionHub, for any sockets, wallets, sessions *)
(* and bounds.  Inv adds to them what a session's status says of the chain *)
(* and of the settlements so far: a session that is ACTIVE owes one        *)
(* SESSION_ENDED less than one that is not.                                *)
(***************************************************************************)
EXTENDS SessionHub, TLAPS

\* The status is the chain's, or a settlement took an ACTIVE session to COMPLETED.
StatusExplained ==
    \A s \in Sessions :
        IF chain[s] = "ACTIVE" THEN status[s] \in {"ACTIVE", "COMPLETED"}
                               ELSE status[s] = chain[s]

\* A settlement spends the ACTIVE status that the booking, or its replay, gave.
EndedAccounted ==
    \A s \in Sessions :
        ended[s] + settled[s] <= rebooked[s] + (IF status[s] = "ACTIVE" THEN 0 ELSE 1)

Inv == TypeOK /\ GraceOnlyAfterLeaving /\ StatusExplained /\ EndedAccounted

LEMMA BoundsInNat == MaxRestarts \in Nat /\ MaxDbFaults \in Nat /\ MaxRebooked \in Nat
  BY BoundsAssumption

LEMMA InitInv == Init => Inv
<1> SUFFICES ASSUME Init PROVE Inv
  OBVIOUS
<1> USE BoundsInNat DEF Init
<1>1. TypeOK
  <2>1. /\ subscribed \in [Sockets -> SUBSET Sessions]
        /\ \A k \in Sockets \ open : subscribed[k] = {}
    OBVIOUS
  <2>2. status \in [Sessions -> Statuses] /\ chain \in [Sessions -> Statuses]
    BY DEF Statuses
  <2>3. settling \in [Sessions -> Nat] /\ settled \in [Sessions -> Nat]
    OBVIOUS
  <2>4. ended \in [Sessions -> Nat] /\ rebooked \in [Sessions -> 0..MaxRebooked]
    OBVIOUS
  <2>5. left \in [Sessions -> Wallets \cup {NoWallet}]
    OBVIOUS
  <2>6. unused \subseteq Sockets /\ open \subseteq Sockets \ unused
    OBVIOUS
  <2>7. timers \subseteq Sessions /\ closing \in BOOLEAN
    OBVIOUS
  <2>8. restarts \in 0..MaxRestarts /\ dbFaults \in 0..MaxDbFaults
    OBVIOUS
  <2> QED
    BY ONLY <2>1, <2>2, <2>3, <2>4, <2>5, <2>6, <2>7, <2>8 DEF TypeOK
<1>2. GraceOnlyAfterLeaving /\ StatusExplained
  BY DEF GraceOnlyAfterLeaving, StatusExplained
<1>3. EndedAccounted
  BY DEF EndedAccounted
<1> QED
  BY <1>1, <1>2, <1>3 DEF Inv

\* The sessions of the sockets that go away have a wallet to blame for it, and
\* only they change hands.
LEMMA LeftByFacts ==
    ASSUME TypeOK, NEW ks \in SUBSET Sockets
    PROVE  /\ LeftBy(ks) \in [Sessions -> Wallets \cup {NoWallet}]
           /\ \A s \in UNION {subscribed[k] : k \in ks} : LeftBy(ks)[s] # NoWallet
           /\ \A s \in Sessions : left[s] # NoWallet => LeftBy(ks)[s] # NoWallet
<1>1. ASSUME NEW s \in Sessions, \E k \in ks : s \in subscribed[k]
      PROVE  LeftBy(ks)[s] \in Wallets
  <2>1. (CHOOSE k \in ks : s \in subscribed[k]) \in ks
    BY <1>1
  <2>2. Owner[CHOOSE k \in ks : s \in subscribed[k]] \in Wallets
    BY <2>1, OwnerAssumption
  <2> QED
    BY <1>1, <2>2 DEF LeftBy
<1>2. ASSUME NEW s \in Sessions, ~ \E k \in ks : s \in subscribed[k]
      PROVE  LeftBy(ks)[s] = left[s]
  BY <1>2 DEF LeftBy
<1>3. \A s \in Sessions : LeftBy(ks)[s] \in Wallets \/ LeftBy(ks)[s] = left[s]
  BY <1>1, <1>2
<1>4. LeftBy(ks) \in [Sessions -> Wallets \cup {NoWallet}]
  <2>1. \A s \in Sessions : LeftBy(ks)[s] \in Wallets \cup {NoWallet}
    BY <1>3 DEF TypeOK
  <2> QED
    BY <2>1 DEF LeftBy
<1>5. ASSUME NEW s \in UNION {subscribed[k] : k \in ks} PROVE LeftBy(ks)[s] # NoWallet
  <2>1. s \in Sessions /\ \E k \in ks : s \in subscribed[k]
    BY DEF TypeOK
  <2> QED
    BY <2>1, <1>1, OwnerAssumption
<1> QED
  BY <1>3, <1>4, <1>5, OwnerAssumption

LEMMA DropFacts ==
    ASSUME TypeOK, NEW ks \in SUBSET Sockets
    PROVE  /\ DropSubscriptions(ks) \in [Sockets -> SUBSET Sessions]
           /\ \A k \in Sockets \ (open \ ks) : DropSubscriptions(ks)[k] = {}
           /\ UNION {subscribed[k] : k \in ks} \subseteq Sessions
  BY DEF DropSubscriptions, TypeOK

LEMMA NextInv == Inv /\ [Next]_vars => Inv'
<1> SUFFICES ASSUME Inv, [Next]_vars PROVE Inv'
  OBVIOUS
<1> USE BoundsInNat
<1>0. TypeOK /\ GraceOnlyAfterLeaving /\ StatusExplained /\ EndedAccounted
  BY DEF Inv
<1>1. ASSUME NEW k \in Sockets, Connect(k)
      PROVE  Inv'
  <2>1. TypeOK'
    BY <1>0, <1>1 DEF Connect, TypeOK, Statuses, sockets, settlement, indexer
  <2>2. GraceOnlyAfterLeaving'
    BY <1>0, <1>1 DEF Connect, GraceOnlyAfterLeaving, TypeOK, sockets, settlement
  <2>3. StatusExplained'
    BY <1>0, <1>1 DEF Connect, StatusExplained, TypeOK, sockets, settlement, indexer
  <2>4. EndedAccounted'
    BY <1>0, <1>1 DEF Connect, EndedAccounted, TypeOK, sockets, settlement, indexer
  <2> QED
    BY <2>1, <2>2, <2>3, <2>4 DEF Inv
<1>2. ASSUME NEW k \in Sockets, NEW s \in Sessions, Subscribe(k, s)
      PROVE  Inv'
  <2>1. TypeOK'
    BY <1>0, <1>2 DEF Subscribe, TypeOK, Statuses, sockets, settlement, indexer, Cancel
  <2>2. GraceOnlyAfterLeaving'
    BY <1>0, <1>2 DEF Subscribe, GraceOnlyAfterLeaving, TypeOK, sockets, settlement, Cancel
  <2>3. StatusExplained'
    BY <1>0, <1>2 DEF Subscribe, StatusExplained, TypeOK, sockets, settlement, indexer
  <2>4. EndedAccounted'
    BY <1>0, <1>2 DEF Subscribe, EndedAccounted, TypeOK, sockets, settlement, indexer
  <2> QED
    BY <2>1, <2>2, <2>3, <2>4 DEF Inv
<1>3. ASSUME NEW k \in Sockets, NEW s \in Sessions, Unsubscribe(k, s)
      PROVE  Inv'
  <2>1. TypeOK'
    BY <1>0, <1>3 DEF Unsubscribe, TypeOK, Statuses, sockets, settlement, indexer
  <2>2. GraceOnlyAfterLeaving'
    BY <1>0, <1>3 DEF Unsubscribe, GraceOnlyAfterLeaving, TypeOK, sockets, settlement
  <2>3. StatusExplained'
    BY <1>0, <1>3 DEF Unsubscribe, StatusExplained, TypeOK, sockets, settlement, indexer
  <2>4. EndedAccounted'
    BY <1>0, <1>3 DEF Unsubscribe, EndedAccounted, TypeOK, sockets, settlement, indexer
  <2> QED
    BY <2>1, <2>2, <2>3, <2>4 DEF Inv
<1>4. ASSUME NEW k \in Sockets, Disconnect(k)
      PROVE  Inv'
  <2>1. TypeOK'
    BY <1>0, <1>4, DropFacts, LeftByFacts DEF Disconnect, TypeOK, Statuses, sockets, settlement, indexer, Schedule
  <2>2. GraceOnlyAfterLeaving'
    BY <1>0, <1>4, LeftByFacts DEF Disconnect, GraceOnlyAfterLeaving, TypeOK, sockets, settlement, Schedule
  <2>3. StatusExplained'
    BY <1>0, <1>4 DEF Disconnect, StatusExplained, TypeOK, sockets, settlement, indexer
  <2>4. EndedAccounted'
    BY <1>0, <1>4 DEF Disconnect, EndedAccounted, TypeOK, sockets, settlement, indexer
  <2> QED
    BY <2>1, <2>2, <2>3, <2>4 DEF Inv
<1>5. ASSUME Close
      PROVE  Inv'
  <2>1. TypeOK'
    BY <1>0, <1>5, DropFacts, LeftByFacts DEF Close, TypeOK, Statuses, sockets, settlement, indexer
  <2>2. GraceOnlyAfterLeaving'
    BY <1>0, <1>5, LeftByFacts DEF Close, GraceOnlyAfterLeaving, TypeOK, sockets, settlement
  <2>3. StatusExplained'
    BY <1>0, <1>5 DEF Close, StatusExplained, TypeOK, sockets, settlement, indexer
  <2>4. EndedAccounted'
    BY <1>0, <1>5 DEF Close, EndedAccounted, TypeOK, sockets, settlement, indexer
  <2> QED
    BY <2>1, <2>2, <2>3, <2>4 DEF Inv
<1>6. ASSUME NEW s \in Sessions, TimerFires(s)
      PROVE  Inv'
  <2>1. TypeOK'
    BY <1>0, <1>6 DEF TimerFires, TypeOK, Statuses, sockets, settlement, indexer
  <2>2. GraceOnlyAfterLeaving'
    BY <1>0, <1>6 DEF TimerFires, GraceOnlyAfterLeaving, TypeOK, sockets, settlement
  <2>3. StatusExplained'
    BY <1>0, <1>6 DEF TimerFires, StatusExplained, TypeOK, sockets, settlement, indexer
  <2>4. EndedAccounted'
    BY <1>0, <1>6 DEF TimerFires, EndedAccounted, TypeOK, sockets, settlement, indexer
  <2> QED
    BY <2>1, <2>2, <2>3, <2>4 DEF Inv
<1>7. ASSUME NEW s \in Sessions, SettleWrite(s)
      PROVE  Inv'
  <2>1. TypeOK'
    BY <1>0, <1>7 DEF SettleWrite, TypeOK, Statuses, sockets, settlement, indexer, Settleable
  <2>2. GraceOnlyAfterLeaving'
    BY <1>0, <1>7 DEF SettleWrite, GraceOnlyAfterLeaving, TypeOK, sockets, settlement
  <2>3. StatusExplained'
    BY <1>0, <1>7 DEF SettleWrite, StatusExplained, TypeOK, sockets, settlement, indexer, Settleable
  <2>4. EndedAccounted'
    BY <1>0, <1>7 DEF SettleWrite, EndedAccounted, TypeOK, sockets, settlement, indexer, Settleable
  <2> QED
    BY <2>1, <2>2, <2>3, <2>4 DEF Inv
<1>8. ASSUME NEW s \in Sessions, SettleFail(s)
      PROVE  Inv'
  <2>1. TypeOK'
    BY <1>0, <1>8 DEF SettleFail, TypeOK, Statuses, sockets, settlement, indexer, Settleable
  <2>2. GraceOnlyAfterLeaving'
    BY <1>0, <1>8 DEF SettleFail, GraceOnlyAfterLeaving, TypeOK, sockets, settlement
  <2>3. StatusExplained'
    BY <1>0, <1>8 DEF SettleFail, StatusExplained, TypeOK, sockets, settlement, indexer, Settleable
  <2>4. EndedAccounted'
    BY <1>0, <1>8 DEF SettleFail, EndedAccounted, TypeOK, sockets, settlement, indexer, Settleable
  <2> QED
    BY <2>1, <2>2, <2>3, <2>4 DEF Inv
<1>9. ASSUME NEW s \in Sessions, SettlePublish(s)
      PROVE  Inv'
  <2>1. TypeOK'
    BY <1>0, <1>9 DEF SettlePublish, TypeOK, Statuses, sockets, settlement, indexer
  <2>2. GraceOnlyAfterLeaving'
    BY <1>0, <1>9 DEF SettlePublish, GraceOnlyAfterLeaving, TypeOK, sockets, settlement
  <2>3. StatusExplained'
    BY <1>0, <1>9 DEF SettlePublish, StatusExplained, TypeOK, sockets, settlement, indexer
  <2>4. EndedAccounted'
    BY <1>0, <1>9 DEF SettlePublish, EndedAccounted, TypeOK, sockets, settlement, indexer
  <2> QED
    BY <2>1, <2>2, <2>3, <2>4 DEF Inv
<1>10. ASSUME NEW s \in Sessions, ChainWrites(s)
      PROVE  Inv'
  <2>1. TypeOK'
    BY <1>0, <1>10 DEF ChainWrites, TypeOK, Statuses, sockets, settlement, indexer, NextOnChain
  <2>2. GraceOnlyAfterLeaving'
    BY <1>0, <1>10 DEF ChainWrites, GraceOnlyAfterLeaving, TypeOK, sockets, settlement
  <2>3. StatusExplained'
    BY <1>0, <1>10 DEF ChainWrites, StatusExplained, TypeOK, sockets, settlement, indexer, NextOnChain
  <2>4. EndedAccounted'
    BY <1>0, <1>10 DEF ChainWrites, EndedAccounted, TypeOK, sockets, settlement, indexer, NextOnChain
  <2> QED
    BY <2>1, <2>2, <2>3, <2>4 DEF Inv
<1>11. ASSUME NEW s \in Sessions, Rebook(s)
      PROVE  Inv'
  <2>1. TypeOK'
    BY <1>0, <1>11 DEF Rebook, TypeOK, Statuses, sockets, settlement, indexer
  <2>2. GraceOnlyAfterLeaving'
    BY <1>0, <1>11 DEF Rebook, GraceOnlyAfterLeaving, TypeOK, sockets, settlement
  <2>3. StatusExplained'
    BY <1>0, <1>11 DEF Rebook, StatusExplained, TypeOK, sockets, settlement, indexer
  <2>4. EndedAccounted'
    BY <1>0, <1>11 DEF Rebook, EndedAccounted, TypeOK, sockets, settlement, indexer
  <2> QED
    BY <2>1, <2>2, <2>3, <2>4 DEF Inv
<1>12. ASSUME Restart
      PROVE  Inv'
  <2>1. TypeOK'
    <3>1. /\ subscribed' \in [Sockets -> SUBSET Sessions]
          /\ \A k \in Sockets : subscribed'[k] = {}
      BY <1>12 DEF Restart
    <3>2. /\ settling' \in [Sessions -> Nat] /\ settled' \in [Sessions -> Nat]
          /\ left' \in [Sessions -> Wallets \cup {NoWallet}]
          /\ restarts' \in 0..MaxRestarts
      BY <1>0, <1>12 DEF Restart, TypeOK
    <3> QED
      BY <1>0, <1>12, <3>1, <3>2 DEF Restart, TypeOK, indexer
  <2>2. GraceOnlyAfterLeaving'
    BY <1>0, <1>12 DEF Restart, GraceOnlyAfterLeaving, TypeOK, sockets, settlement
  <2>3. StatusExplained'
    BY <1>0, <1>12 DEF Restart, StatusExplained, TypeOK, sockets, settlement, indexer
  <2>4. EndedAccounted'
    BY <1>0, <1>12 DEF Restart, EndedAccounted, TypeOK, sockets, settlement, indexer
  <2> QED
    BY <2>1, <2>2, <2>3, <2>4 DEF Inv
<1>13. ASSUME UNCHANGED vars
      PROVE  Inv'
  <2>1. TypeOK'
    BY <1>0, <1>13 DEF vars, TypeOK, Statuses, sockets, settlement, indexer
  <2>2. GraceOnlyAfterLeaving'
    BY <1>0, <1>13 DEF vars, GraceOnlyAfterLeaving, TypeOK, sockets, settlement
  <2>3. StatusExplained'
    BY <1>0, <1>13 DEF vars, StatusExplained, TypeOK, sockets, settlement, indexer
  <2>4. EndedAccounted'
    BY <1>0, <1>13 DEF vars, EndedAccounted, TypeOK, sockets, settlement, indexer
  <2> QED
    BY <2>1, <2>2, <2>3, <2>4 DEF Inv
<1> QED
  BY <1>1, <1>2, <1>3, <1>4, <1>5, <1>6, <1>7, <1>8, <1>9, <1>10, <1>11, <1>12, <1>13 DEF Next

\* Every reachable state of the hub satisfies Inv.
THEOREM Invariant == Spec => []Inv
<1> QED
  BY InitInv, NextInv, PTL DEF Spec

\* The hub's variables keep their types, and only open sockets hold
\* subscriptions (the closure of a connection goes with its socket).
THEOREM TypeCorrect == Spec => []TypeOK
<1>1. Inv => TypeOK
  BY DEF Inv
<1> QED
  BY <1>1, Invariant, PTL

\* subscribe ends every grace period that was running for the session, whoever
\* subscribes, and no handler starts one but for a disconnection.
THEOREM GraceFollowsLeaving == Spec => []GraceOnlyAfterLeaving
<1>1. Inv => GraceOnlyAfterLeaving
  BY DEF Inv
<1> QED
  BY <1>1, Invariant, PTL

\* However grace periods, settlements and the indexer's writes interleave,
\* SESSION_ENDED is published at most once for each time a booking was applied.
THEOREM EndedOnce == Spec => []EndedOncePerBooking
<1>1. Inv => EndedOncePerBooking
  BY DEF Inv, EndedOncePerBooking, EndedAccounted, StatusExplained, TypeOK
<1> QED
  BY <1>1, Invariant, PTL

\* The guard on ACTIVE in fallbackSettlement's update protects what the chain
\* decided, however late the update lands.
THEOREM ChainDecides == Spec => []ChainOutcomeKept
<1>1. Inv => ChainOutcomeKept
  BY DEF Inv, ChainOutcomeKept, StatusExplained
<1> QED
  BY <1>1, Invariant, PTL

\* A timer that is armed becomes an update, an update that finds the session
\* ACTIVE ends that, and nobody but a replayed booking makes it ACTIVE again.
LEMMA InHandStep ==
    ASSUME TypeOK, AbandonedSessionsInHand, [Next]_vars
    PROVE  AbandonedSessionsInHand'
<1> USE BoundsInNat DEF sockets, settlement, indexer
<1> DEFINE InHand(s) == \/ s \in timers \/ settling[s] > 0
                        \/ closing \/ rebooked[s] > 0 \/ dbFaults > 0
           Waits(s) == left[s] # NoWallet /\ status[s] = "ACTIVE"
<1> SUFFICES ASSUME NEW s \in Sessions, Waits(s)' PROVE InHand(s)'
  BY DEF AbandonedSessionsInHand
<1>1. /\ Waits(s) => InHand(s)
      /\ settling[s] \in Nat /\ rebooked[s] \in Nat /\ dbFaults \in Nat
      /\ status[s] \in Statuses
  BY DEF AbandonedSessionsInHand, TypeOK
<1>2. CASE \/ \E k \in Sockets : Connect(k)
           \/ \E k \in Sockets, t \in Sessions : Unsubscribe(k, t)
           \/ \E t \in Sessions : SettlePublish(t)
           \/ UNCHANGED vars
  <2>1. UNCHANGED <<timers, settling, status, rebooked, closing, left, dbFaults>>
    BY <1>2 DEF Connect, Unsubscribe, SettlePublish, vars
  <2> QED
    BY <1>1, <2>1
<1>3. CASE \E k \in Sockets, t \in Sessions : Subscribe(k, t)
  <2>1. PICK t \in Sessions : /\ timers' = timers \ {t}
                              /\ left' = [left EXCEPT ![t] = NoWallet]
                              /\ UNCHANGED <<settling, status, rebooked, closing, dbFaults>>
    BY <1>3 DEF Subscribe, Cancel
  <2>2. s # t /\ left'[s] = left[s]
    BY <2>1 DEF TypeOK
  <2> QED
    BY <1>1, <2>1, <2>2
<1>4. CASE \E k \in Sockets : Disconnect(k)
  <2>1. PICK k \in Sockets : /\ timers' = timers \cup UNION {subscribed[l] : l \in {k}}
                             /\ left' = LeftBy({k})
                             /\ UNCHANGED <<settling, status, rebooked, closing, dbFaults>>
    BY <1>4 DEF Disconnect, Schedule
  <2>2. s \in UNION {subscribed[l] : l \in {k}} \/ left'[s] = left[s]
    BY <2>1 DEF LeftBy
  <2> QED
    BY <1>1, <2>1, <2>2
<1>5. CASE Close
  BY <1>5 DEF Close
<1>6. CASE Restart
  BY <1>6 DEF Restart
<1>7. CASE \E t \in Sessions : TimerFires(t)
  <2>1. PICK t \in Sessions : /\ timers' = timers \ {t}
                              /\ settling' = [settling EXCEPT ![t] = @ + 1]
                              /\ UNCHANGED <<status, rebooked, closing, left, dbFaults>>
    BY <1>7 DEF TimerFires
  <2>2. IF s = t THEN settling'[s] = settling[s] + 1 ELSE settling'[s] = settling[s]
    BY <2>1 DEF TypeOK
  <2> QED
    BY <1>1, <2>1, <2>2
<1>8. CASE \E t \in Sessions : SettleWrite(t)
  <2>1. PICK t \in Sessions :
           /\ settling' = [settling EXCEPT ![t] = @ - 1]
           /\ status' = IF Settleable(t) THEN [status EXCEPT ![t] = "COMPLETED"] ELSE status
           /\ UNCHANGED <<timers, rebooked, closing, left, dbFaults>>
    BY <1>8 DEF SettleWrite
  <2>2. s # t
    BY <2>1 DEF Settleable, TypeOK
  <2>3. settling'[s] = settling[s] /\ status'[s] = status[s]
    BY <2>1, <2>2 DEF TypeOK
  <2> QED
    BY <1>1, <2>1, <2>3
<1>9. CASE \E t \in Sessions : SettleFail(t)
  <2>1. dbFaults' = dbFaults + 1
    BY <1>9 DEF SettleFail
  <2> QED
    BY <1>1, <2>1
<1>10. CASE \E t \in Sessions : ChainWrites(t)
  <2>1. PICK t \in Sessions :
           /\ \E next \in NextOnChain(chain[t]) : status' = [status EXCEPT ![t] = next]
           /\ UNCHANGED <<timers, settling, rebooked, closing, left, dbFaults>>
    BY <1>10 DEF ChainWrites
  <2>2. "ACTIVE" \notin NextOnChain(chain[t])
    BY DEF NextOnChain
  <2>3. s # t
    BY <2>1, <2>2 DEF TypeOK
  <2>4. status'[s] = status[s]
    BY <2>1, <2>3 DEF TypeOK
  <2> QED
    BY <1>1, <2>1, <2>4
<1>11. CASE \E t \in Sessions : Rebook(t)
  <2>1. PICK t \in Sessions :
           /\ rebooked' = [rebooked EXCEPT ![t] = @ + 1]
           /\ status' = [status EXCEPT ![t] = "ACTIVE"]
           /\ UNCHANGED <<timers, settling, closing, left, dbFaults>>
    BY <1>11 DEF Rebook
  <2>2. IF s = t THEN rebooked'[s] = rebooked[s] + 1
                 ELSE rebooked'[s] = rebooked[s] /\ status'[s] = status[s]
    BY <2>1 DEF TypeOK
  <2> QED
    BY <1>1, <2>1, <2>2
<1> QED
  BY <1>2, <1>3, <1>4, <1>5, <1>6, <1>7, <1>8, <1>9, <1>10, <1>11 DEF Next

\* Nobody forgets a session its peers have left: the safety half of
\* AbandonedSessionsSettled, for any number of sockets, peers and sessions.
THEOREM NobodyForgotten == Spec => []AbandonedSessionsInHand
<1>1. Init => AbandonedSessionsInHand
  BY DEF Init, AbandonedSessionsInHand
<1>2. TypeOK /\ AbandonedSessionsInHand /\ [Next]_vars => AbandonedSessionsInHand'
  BY InHandStep
<1> QED
  BY <1>1, <1>2, TypeCorrect, PTL DEF Spec

\* The wallet of k follows one of its sessions with another socket as well.
StillHere(k) ==
    \E l \in open \ {k} : Owner[l] = Owner[k] /\ subscribed[l] \cap subscribed[k] # {}

\* The steps that may put a peer who is back under a grace period.
OldSocketGone == \E k \in Sockets : StillHere(k) /\ Disconnect(k)

LEMMA AwayStep ==
    ASSUME TypeOK, GraceOnlyWhileAway, [Next]_vars, ~ OldSocketGone
    PROVE  GraceOnlyWhileAway'
<1> SUFFICES ASSUME NEW s \in timers', NEW k \in open', Owner[k] = left'[s],
                    s \in subscribed'[k]
             PROVE  FALSE
  BY DEF GraceOnlyWhileAway
<1>1. /\ timers \subseteq Sessions /\ open \subseteq Sockets \ unused /\ unused \subseteq Sockets
      /\ subscribed \in [Sockets -> SUBSET Sessions]
      /\ \A l \in Sockets \ open : subscribed[l] = {}
      /\ left \in [Sessions -> Wallets \cup {NoWallet}]
  BY DEF TypeOK
<1>2. ~ (s \in timers /\ k \in open /\ left'[s] = left[s] /\ s \in subscribed[k])
  BY DEF GraceOnlyWhileAway
<1>3. ASSUME NEW l \in Sockets, Connect(l) PROVE FALSE
  <2>1. l \notin open /\ subscribed[l] = {}
    BY <1>1, <1>3 DEF Connect
  <2> QED
    BY <1>2, <1>3, <2>1 DEF Connect, settlement
<1>4. ASSUME NEW l \in Sockets, NEW t \in Sessions, Subscribe(l, t) PROVE FALSE
  <2>1. s # t /\ s \in timers /\ open' = open /\ k \in Sockets
    BY <1>1, <1>4 DEF Subscribe, Cancel
  <2>2. left'[s] = left[s] /\ (s \in subscribed'[k] => s \in subscribed[k])
    BY <1>1, <1>4, <2>1 DEF Subscribe
  <2> QED
    BY <1>2, <2>1, <2>2
<1>5. ASSUME NEW l \in Sockets, NEW t \in Sessions, Unsubscribe(l, t) PROVE FALSE
  <2>1. s \in timers /\ open' = open /\ k \in Sockets /\ left' = left
    BY <1>1, <1>5 DEF Unsubscribe, settlement
  <2>2. s \in subscribed'[k] => s \in subscribed[k]
    BY <1>1, <1>5, <2>1 DEF Unsubscribe
  <2> QED
    BY <1>2, <2>1, <2>2
<1>6. ASSUME NEW l \in Sockets, Disconnect(l) PROVE FALSE
  <2>1. k \in open /\ k # l /\ k \in Sockets /\ subscribed'[k] = subscribed[k]
    BY <1>1, <1>6 DEF Disconnect, DropSubscriptions
  <2>2. CASE s \in subscribed[l]
    <3>1. s \in Sessions /\ left'[s] = Owner[CHOOSE m \in {l} : s \in subscribed[m]]
      BY <1>1, <1>6, <2>2 DEF Disconnect, LeftBy
    <3>2. (CHOOSE m \in {l} : s \in subscribed[m]) = l
      BY <2>2
    <3>3. Owner[k] = Owner[l] /\ s \in subscribed[k] \cap subscribed[l]
      BY <2>1, <2>2, <3>1, <3>2
    <3>4. StillHere(l)
      BY <2>1, <3>3 DEF StillHere
    <3> QED
      BY <1>6, <3>4 DEF OldSocketGone
  <2>3. CASE s \notin subscribed[l]
    <3>1. s \in timers
      BY <1>6, <2>3 DEF Disconnect, Schedule
    <3>2. left'[s] = left[s]
      BY <1>1, <1>6, <2>3, <3>1 DEF Disconnect, LeftBy
    <3> QED
      BY <1>2, <2>1, <3>1, <3>2
  <2> QED
    BY <2>2, <2>3
<1>7. CASE Close \/ Restart
  BY <1>7 DEF Close, Restart
<1>8. ASSUME NEW t \in Sessions,
             \/ TimerFires(t) \/ SettleWrite(t) \/ SettleFail(t) \/ SettlePublish(t)
             \/ ChainWrites(t) \/ Rebook(t)
      PROVE  FALSE
  <2>1. timers' \subseteq timers /\ UNCHANGED <<sockets, left>>
    BY <1>8 DEF TimerFires, SettleWrite, SettleFail, SettlePublish, ChainWrites, Rebook,
                settlement
  <2> QED
    BY <1>2, <2>1 DEF sockets
<1>9. CASE UNCHANGED vars
  BY <1>2, <1>9 DEF vars, sockets, settlement
<1> QED
  BY <1>3, <1>4, <1>5, <1>6, <1>7, <1>8, <1>9 DEF Next

\* What the test of the reconnecting peer says fails in one way only: scheduling
\* a settlement for a socket that disconnects while another socket of its wallet
\* is subscribed to the same session.  Close, restart, timers, the settlements
\* and the other peer never put a peer who is back under a grace period.
THEOREM GraceBrokenByOldSocketOnly ==
    Spec => [][GraceOnlyWhileAway => GraceOnlyWhileAway' \/ OldSocketGone]_vars
<1>1. TypeOK /\ [Next]_vars =>
        [GraceOnlyWhileAway => GraceOnlyWhileAway' \/ OldSocketGone]_vars
  BY AwayStep
<1> QED
  BY <1>1, TypeCorrect, PTL DEF Spec

\* A wallet follows a session with one socket at a time.
OneSocketEach ==
    \A k, l \in open :
        Owner[k] = Owner[l] /\ subscribed[k] \cap subscribed[l] # {} => k = l

\* The same, for clients that give up their old socket before they come back:
\* no grace period runs for a peer who is there.
THEOREM GraceForOneSocketEach ==
    Spec /\ []OneSocketEach => []GraceOnlyWhileAway
<1>1. Init => GraceOnlyWhileAway
  BY DEF Init, GraceOnlyWhileAway
<1>2. OneSocketEach => ~ OldSocketGone
  <2> SUFFICES ASSUME OneSocketEach, NEW k \in Sockets, StillHere(k), Disconnect(k)
               PROVE  FALSE
    BY DEF OldSocketGone
  <2> QED
    BY DEF OneSocketEach, StillHere, Disconnect
<1>3. TypeOK /\ OneSocketEach /\ GraceOnlyWhileAway /\ [Next]_vars => GraceOnlyWhileAway'
  BY <1>2, AwayStep
<1> QED
  BY <1>1, <1>3, TypeCorrect, PTL DEF Spec
=============================================================================
