-------------------------- MODULE SessionBusProofs --------------------------
(***************************************************************************)
(* The safety properties of SessionBus, for any subscriptions, sockets and *)
(* sessions.  That a waiting consumer has an empty queue is what makes the *)
(* bus implement SessionFeed; that everybody who was not cut off gets each *)
(* message once and in order then follows from the steps of SessionFeed    *)
(* alone.  What the sockets of a closing hub miss is seen in the guards:   *)
(* nothing but their disconnect handlers runs until they are all gone.     *)
(***************************************************************************)
EXTENDS SessionBus, SequenceTheorems, TLAPS

Messages ==
    [from : {Api, Indexer}, session : Sessions, type : {"outcome", "PEER_DISCONNECTED"},
     audience : SUBSET Subscribers, missed : SUBSET Sockets]

\* Of its own process's messages the hub keeps from a socket only what it says
\* of disconnected sockets once it stopped to listen.
OnlyPeersMissed ==
    \A n \in DOMAIN log :
        log[n].from = Api /\ log[n].missed # {} =>
            log[n].type = "PEER_DISCONNECTED" /\ ~ attached

IInv == TypeOK /\ NobodyWaitsInVain /\ OnlyPeersMissed

LEMMA InitInv == Init => IInv
<1> SUFFICES ASSUME Init PROVE IInv
  OBVIOUS
<1> USE DEF Init
<1>1. log \in Seq(Messages) /\ attached \in BOOLEAN
  OBVIOUS
<1>2. status \in [Iterators -> {"new", "open", "closed"}]
  OBVIOUS
<1>3. queued \in [Iterators -> Seq(Nat)] /\ got \in [Iterators -> Seq(Nat)]
  OBVIOUS
<1>4. pending \in [Iterators -> BOOLEAN] /\ rooms \in [Sockets -> SUBSET Sessions]
  OBVIOUS
<1>5. heard \in [Sockets -> Seq(Nat)] /\ departed \subseteq Sessions
  OBVIOUS
<1>6. TypeOK
  BY ONLY <1>1, <1>2, <1>3, <1>4, <1>5, Init DEF TypeOK, Messages, Init
<1> QED
  BY <1>6 DEF IInv, NobodyWaitsInVain, OnlyPeersMissed

LEMMA ListenInv ==
    ASSUME TypeOK, NobodyWaitsInVain, NEW s \in Sessions, Listen(s), UNCHANGED status
    PROVE  /\ queued' \in [Iterators -> Seq(Nat)] /\ got' \in [Iterators -> Seq(Nat)]
           /\ pending' \in [Iterators -> BOOLEAN]
           /\ NobodyWaitsInVain'
<1> USE DEF TypeOK, Listen
<1>1. message \in Nat
  BY DEF message
<1>2. queued' \in [Iterators -> Seq(Nat)]
  BY <1>1
<1>3. got' \in [Iterators -> Seq(Nat)]
  BY <1>1
<1>4. pending' \in [Iterators -> BOOLEAN]
  OBVIOUS
<1>5. NobodyWaitsInVain'
  BY DEF NobodyWaitsInVain, Holds
<1> QED
  BY <1>2, <1>3, <1>4, <1>5

\* The record of a message.
LEMMA Logged ==
    ASSUME IInv, NEW p \in {Api, Indexer}, NEW s \in Sessions,
           NEW type \in {"outcome", "PEER_DISCONNECTED"}, Publish(p, s, type)
    PROVE  /\ log' \in Seq(Messages) /\ DOMAIN log' = 1..Len(log) + 1
           /\ \A n \in DOMAIN log : n \in DOMAIN log' /\ log'[n] = log[n]
           /\ \A n \in DOMAIN log' : n \in DOMAIN log \/ n = Len(log) + 1
           /\ log'[Len(log) + 1] =
                 [from |-> p, session |-> s, type |-> type,
                  audience |-> {x \in Subscribers : s \in following[x]},
                  missed |-> {x \in Subscribers : s \in following[x]} \cap deaf]
<1> DEFINE m == [from |-> p, session |-> s, type |-> type,
                 audience |-> {x \in Subscribers : s \in following[x]},
                 missed |-> {x \in Subscribers : s \in following[x]} \cap deaf]
<1>1. m \in Messages
  BY DEF Messages, deaf
<1>2. log \in Seq(Messages)
  BY DEF IInv, TypeOK, Messages
<1>3. log' = Append(log, m)
  BY DEF Publish
<1> HIDE DEF m
<1>4. /\ log' \in Seq(Messages) /\ DOMAIN log' = 1..Len(log) + 1
      /\ \A n \in DOMAIN log : n \in DOMAIN log' /\ log'[n] = log[n]
      /\ \A n \in DOMAIN log' : n \in DOMAIN log \/ n = Len(log) + 1
      /\ log'[Len(log) + 1] = m
  BY <1>1, <1>2, <1>3
<1> QED
  BY <1>4 DEF m

\* A message keeps the invariant if, in the API process, no socket misses it
\* but when it is PEER_DISCONNECTED and the hub stopped to listen.
LEMMA PublishInv ==
    ASSUME IInv, NEW p \in {Api, Indexer}, NEW s \in Sessions,
           NEW type \in {"outcome", "PEER_DISCONNECTED"}, Publish(p, s, type),
           departed' \subseteq Sessions,
           (p = Api /\ type = "outcome") => \A c \in Sockets : ~ attached => s \notin rooms[c]
    PROVE  IInv'
<1> USE DEF IInv
<1>1. log' \in Seq(Messages)
  BY Logged
<1>2. /\ queued' \in [Iterators -> Seq(Nat)] /\ got' \in [Iterators -> Seq(Nat)]
      /\ pending' \in [Iterators -> BOOLEAN]
      /\ heard' \in [Sockets -> Seq(Nat)]
      /\ NobodyWaitsInVain'
  <2>1. CASE p = Api
    <3>1. Listen(s) /\ UNCHANGED status
      BY <2>1 DEF Publish
    <3>2. heard' \in [Sockets -> Seq(Nat)]
      <4>1. message \in Nat /\ heard \in [Sockets -> Seq(Nat)]
        BY DEF message, TypeOK
      <4>2. \A c \in Sockets : heard[c] \in Seq(Nat) /\ Append(heard[c], message) \in Seq(Nat)
        BY <4>1
      <4>3. heard' = [c \in Sockets |-> IF Forward(c, s)
                                        THEN Append(heard[c], message) ELSE heard[c]]
        BY <2>1 DEF Publish
      <4> QED
        BY ONLY <4>2, <4>3
    <3> QED
      BY <3>1, <3>2, ListenInv
  <2>2. CASE p # Api
    BY <2>2 DEF Publish, TypeOK, NobodyWaitsInVain
  <2> QED
    BY <2>1, <2>2
<1>3. UNCHANGED <<status, attached, rooms>>
  BY DEF Publish
<1>4. TypeOK'
  BY <1>1, <1>2, <1>3 DEF TypeOK, Messages
<1>5. OnlyPeersMissed'
  <2> SUFFICES ASSUME NEW n \in DOMAIN log', log'[n].from = Api, log'[n].missed # {}
               PROVE  log'[n].type = "PEER_DISCONNECTED" /\ ~ attached'
    BY DEF OnlyPeersMissed
  <2>1. CASE n \in DOMAIN log
    BY <1>3, <2>1, Logged DEF OnlyPeersMissed
  <2>2. CASE n = Len(log) + 1
    <3>1. /\ log'[n].from = p /\ log'[n].type = type
          /\ log'[n].missed = {x \in Subscribers : s \in following[x]} \cap deaf
      <4>1. log'[Len(log) + 1] =
              [from |-> p, session |-> s, type |-> type,
               audience |-> {x \in Subscribers : s \in following[x]},
               missed |-> {x \in Subscribers : s \in following[x]} \cap deaf]
        BY Logged, Zenon
      <4> QED
        BY <2>2, <4>1
    <3>2. PICK c \in Sockets : s \in following[c] /\ ~ attached
      BY <3>1 DEF deaf
    <3>3. s \in rooms[c]
      <4>1. c \in Subscribers /\ c \notin Iterators
        BY ListenersAssumption DEF Subscribers
      <4> QED
        BY <3>2, <4>1 DEF following
    <3> QED
      BY <1>3, <3>1, <3>2, <3>3
  <2> QED
    BY <2>1, <2>2, Logged
<1> QED
  BY <1>2, <1>4, <1>5

LEMMA StepInv == IInv /\ [Next]_vars => IInv'
<1> SUFFICES ASSUME IInv, [Next]_vars PROVE IInv'
  OBVIOUS
<1> USE DEF IInv
<1>1. ASSUME NEW p \in {Api, Indexer}, NEW s \in Sessions, Announce(p, s) PROVE IInv'
  <2>1. Publish(p, s, "outcome") /\ departed' \subseteq Sessions
    BY <1>1 DEF Announce, TypeOK
  <2>2. p = Api => \A c \in Sockets : ~ attached => s \notin rooms[c]
    BY <1>1 DEF Announce, Idle
  <2> QED
    BY <2>1, <2>2, PublishInv
<1>0. ASSUME NEW s \in Sessions, PeerDisconnected(s) PROVE IInv'
  <2>1. Publish(Api, s, "PEER_DISCONNECTED") /\ departed' \subseteq Sessions
    BY <1>0 DEF PeerDisconnected, TypeOK
  <2> QED
    BY <2>1, PublishInv
<1>2. ASSUME NEW i \in Iterators, Open(i) PROVE IInv'
  <2>1. TypeOK'
    BY <1>2 DEF Open, TypeOK, hub
  <2>2. NobodyWaitsInVain'
    BY <1>2 DEF Open, TypeOK, hub, NobodyWaitsInVain
  <2>3. OnlyPeersMissed'
    BY <1>2 DEF Open, hub, OnlyPeersMissed
  <2> QED
    BY <2>1, <2>2, <2>3
<1>3. ASSUME NEW i \in Iterators, Ask(i) PROVE IInv'
  <2>1. CASE Waits(i) /\ pending' = [pending EXCEPT ![i] = TRUE] /\ UNCHANGED <<queued, got>>
    BY <1>3, <2>1 DEF Ask, TypeOK, hub, NobodyWaitsInVain, OnlyPeersMissed, Waits
  <2>2. CASE /\ ~ Waits(i) /\ queued[i] # << >>
             /\ got' = [got EXCEPT ![i] = Append(@, Head(queued[i]))]
             /\ queued' = [queued EXCEPT ![i] = Tail(@)]
             /\ UNCHANGED pending
    <3>1. queued' \in [Iterators -> Seq(Nat)]
      BY <2>2 DEF TypeOK
    <3>2. Head(queued[i]) \in Nat
      BY <2>2 DEF TypeOK
    <3>3. got' \in [Iterators -> Seq(Nat)]
      BY <2>2, <3>2 DEF TypeOK
    <3>4. /\ UNCHANGED <<log, status, pending, attached, rooms, departed, heard>>
          /\ ~ pending[i]
      BY <1>3, <2>2 DEF Ask, hub
    <3>5. TypeOK'
      BY <3>1, <3>3, <3>4 DEF TypeOK
    <3>6. NobodyWaitsInVain'
      BY <2>2, <3>4 DEF NobodyWaitsInVain, TypeOK
    <3>7. OnlyPeersMissed'
      BY <3>4 DEF OnlyPeersMissed
    <3> QED
      BY <3>5, <3>6, <3>7
  <2> QED
    BY <1>3, <2>1, <2>2 DEF Ask
<1>4. ASSUME NEW i \in Iterators, CloseIterator(i) PROVE IInv'
  BY <1>4 DEF CloseIterator, Release, TypeOK, hub, NobodyWaitsInVain, OnlyPeersMissed
<1>5. ASSUME NEW c \in Sockets, NEW s \in Sessions \cup {NoId}, Join(c, s) \/ Leave(c, s)
      PROVE  IInv'
  <2>1. UNCHANGED <<log, status, queued, pending, got, attached, departed, heard>>
    BY <1>5 DEF Join, Leave, iterators
  <2>2. rooms' \in [Sockets -> SUBSET Sessions]
    <3>1. rooms \in [Sockets -> SUBSET Sessions] /\ rooms[c] \in SUBSET Sessions
      BY DEF TypeOK
    <3>2. CASE Join(c, s)
      <4>1. s \in Sessions
        BY <3>2 DEF Join, Named
      <4> QED
        BY <3>1, <3>2, <4>1 DEF Join
    <3>3. CASE Leave(c, s)
      BY <3>1, <3>3 DEF Leave
    <3> QED
      BY <1>5, <3>2, <3>3
  <2> QED
    BY <2>1, <2>2 DEF TypeOK, NobodyWaitsInVain, OnlyPeersMissed
<1>6. ASSUME NEW c \in Sockets, Disconnect(c) PROVE IInv'
  <2>1. UNCHANGED <<log, status, queued, pending, got, attached, heard>>
    BY <1>6 DEF Disconnect, iterators
  <2>2. rooms' \in [Sockets -> SUBSET Sessions] /\ departed' \subseteq Sessions
    BY <1>6 DEF Disconnect, TypeOK
  <2> QED
    BY <2>1, <2>2 DEF TypeOK, NobodyWaitsInVain, OnlyPeersMissed
<1>7. CASE CloseHub
  BY <1>7 DEF CloseHub, TypeOK, iterators, NobodyWaitsInVain, OnlyPeersMissed
<1>8. CASE UNCHANGED vars
  BY <1>8 DEF vars, iterators, hub, TypeOK, NobodyWaitsInVain, OnlyPeersMissed
<1> QED
  BY <1>0, <1>1, <1>2, <1>3, <1>4, <1>5, <1>6, <1>7, <1>8 DEF Next

\* The inductive invariant of the bus.
THEOREM Invariant == Spec => []IInv
<1> QED
  BY InitInv, StepInv, PTL DEF Spec

\* Every reachable state is well typed, whatever ids clients send.
THEOREM TypeCorrect == Spec => []TypeOK
<1>1. IInv => TypeOK
  BY DEF IInv
<1> QED
  BY <1>1, Invariant, PTL

\* No interleaving of messages, next() and return() leaves a consumer waiting
\* for a queue that holds something, or for an iterator that is closed.
THEOREM NoLostWakeUp == Spec => []NobodyWaitsInVain
<1>1. IInv => NobodyWaitsInVain
  BY DEF IInv
<1> QED
  BY <1>1, Invariant, PTL

-----------------------------------------------------------------------------
(* SessionBus implements SessionFeed *)

\* What is appended to the second of two sequences is appended to both.
LEMMA AppendToSecond ==
    ASSUME NEW a \in Seq(Nat), NEW b \in Seq(Nat), NEW m \in Nat
    PROVE  a \o Append(b, m) = Append(a \o b, m)
<1>1. a \o Append(b, m) = a \o (b \o <<m>>)
  BY AppendIsConcat
<1>2. Append(a \o b, m) = (a \o b) \o <<m>>
  BY AppendIsConcat, ConcatProperties
<1> QED
  BY <1>1, <1>2, ConcatAssociative

\* The head of the second of two sequences may as well end the first.
LEMMA MoveHead ==
    ASSUME NEW a \in Seq(Nat), NEW b \in Seq(Nat), b # << >>
    PROVE  Append(a, Head(b)) \o Tail(b) = a \o b
<1>1. Head(b) \in Nat /\ Tail(b) \in Seq(Nat) /\ b = <<Head(b)>> \o Tail(b)
  <2>1. /\ Head(b) \in Nat /\ Tail(b) \in Seq(Nat) /\ Head(b) = b[1]
        /\ <<Head(b)>> \in Seq(Nat) /\ Len(<<Head(b)>>) = 1 /\ <<Head(b)>>[1] = b[1]
        /\ Len(Tail(b)) = Len(b) - 1 /\ Len(b) \in Nat
        /\ \A i \in 1..Len(Tail(b)) : Tail(b)[i] = b[i + 1]
    BY HeadTailProperties
  <2> DEFINE c == <<Head(b)>> \o Tail(b)
  <2>2. /\ c \in Seq(Nat) /\ Len(c) = 1 + Len(Tail(b))
        /\ \A i \in 1..1 + Len(Tail(b)) :
              c[i] = IF i <= 1 THEN <<Head(b)>>[i] ELSE Tail(b)[i - 1]
    BY <2>1, ConcatProperties
  <2>3. \A i \in 1..Len(b) : b[i] = c[i]
    BY <2>1, <2>2
  <2>4. Len(b) = Len(c)
    BY <2>1, <2>2
  <2> HIDE DEF c
  <2>5. b = c
    BY ONLY b \in Seq(Nat), <2>2, <2>3, <2>4, SeqEqual
  <2> QED
    BY <2>1, <2>5 DEF c
<1>2. Append(a, Head(b)) = a \o <<Head(b)>>
  BY <1>1, AppendIsConcat
<1>3. (a \o <<Head(b)>>) \o Tail(b) = a \o (<<Head(b)>> \o Tail(b))
  <2> <<Head(b)>> \in Seq(Nat)
    BY <1>1
  <2> QED
    BY <1>1, ConcatAssociative, SMT
<1>4. a \o (<<Head(b)>> \o Tail(b)) = a \o b
  BY <1>1
<1> QED
  BY <1>2, <1>3, <1>4

LEMMA StreamTypes ==
    ASSUME TypeOK
    PROVE  /\ following \in [Subscribers -> SUBSET Sessions]
           /\ stream \in [Subscribers -> Seq(Nat)]
           /\ \A i \in Iterators : i \notin Sockets
  BY ListenersAssumption DEF TypeOK, following, stream, Subscribers

LEMMA PublishFeeds ==
    ASSUME IInv, NEW p \in {Api, Indexer}, NEW s \in Sessions,
           NEW type \in {"outcome", "PEER_DISCONNECTED"}, Publish(p, s, type)
    PROVE  Feed!Post(p, s, type)
<1> USE DEF IInv
<1>1. log' = Append(log, [from |-> p, session |-> s, type |-> type,
                          audience |-> {x \in Subscribers : s \in following[x]},
                          missed |-> {x \in Subscribers : s \in following[x]} \cap deaf])
  BY DEF Publish
<1>2. following' = following /\ deaf' = deaf
  BY DEF Publish, following, deaf
<1>3. ASSUME NEW x \in Subscribers
      PROVE  stream'[x] = IF Api = p /\ s \in following[x] /\ x \notin deaf
                          THEN Append(stream[x], Len(log) + 1) ELSE stream[x]
  <2>1. CASE x \in Sockets
    <3>1. following[x] = rooms[x] /\ stream[x] = heard[x] /\ stream'[x] = heard'[x]
      BY <2>1, ListenersAssumption DEF following, stream
    <3>2. attached <=> x \notin deaf
      BY <2>1 DEF deaf
    <3>3. CASE p = Api
      BY <2>1, <3>1, <3>2, <3>3 DEF Publish, Forward, message
    <3>4. CASE p # Api
      BY <3>1, <3>4 DEF Publish
    <3> QED
      BY <3>3, <3>4
  <2>2. CASE x \notin Sockets
    <3>1. /\ x \in Iterators /\ stream[x] = got[x] \o queued[x]
          /\ stream'[x] = got'[x] \o queued'[x]
      BY <2>2 DEF stream, Subscribers
    <3>2. (s \in following[x] /\ x \notin deaf) <=> Hears(x, s)
      BY <2>2, <3>1 DEF following, Hears, deaf
    <3>3. got[x] \in Seq(Nat) /\ queued[x] \in Seq(Nat) /\ message \in Nat
      BY <3>1 DEF TypeOK, message
    <3>4. CASE p = Api /\ Hears(x, s) /\ pending[x]
      <4>1. queued[x] = << >> /\ queued'[x] = queued[x]
        BY <3>1, <3>4 DEF NobodyWaitsInVain, Publish, Listen, Holds
      <4>2. got'[x] = Append(got[x], message)
        BY <3>1, <3>4 DEF Publish, Listen
      <4>3. /\ Append(got[x], message) \o << >> = Append(got[x], message)
            /\ got[x] \o << >> = got[x]
        BY <3>3
      <4> QED
        BY <3>1, <3>2, <3>4, <4>1, <4>2, <4>3 DEF message
    <3>5. CASE p = Api /\ Hears(x, s) /\ ~ pending[x]
      <4>1. got'[x] = got[x] /\ queued'[x] = Append(queued[x], message)
        BY <3>1, <3>5 DEF Publish, Listen, Holds
      <4>2. got[x] \o Append(queued[x], message) = Append(got[x] \o queued[x], message)
        BY <3>3, AppendToSecond
      <4> QED
        BY <3>1, <3>2, <3>5, <4>1, <4>2 DEF message
    <3>6. CASE p # Api \/ ~ Hears(x, s)
      <4>1. got'[x] = got[x] /\ queued'[x] = queued[x]
        BY <3>1, <3>6 DEF Publish, Listen, Holds
      <4> QED
        BY <3>1, <3>2, <3>6, <4>1
    <3> QED
      BY <3>4, <3>5, <3>6
  <2> QED
    BY <2>1, <2>2
<1>4. stream' = [x \in Subscribers |-> IF Api = p /\ s \in following[x] /\ x \notin deaf
                                      THEN Append(stream[x], Len(log) + 1) ELSE stream[x]]
  BY <1>3 DEF stream
<1> QED
  BY <1>1, <1>2, <1>4 DEF Feed!Post

\* next() moves a message from the queue to the consumer: the two together stay
\* what they were.
LEMMA AskKeepsStream ==
    ASSUME IInv, NEW i \in Iterators, Ask(i)
    PROVE  UNCHANGED <<log, following, deaf, stream>>
<1> USE DEF IInv
<1>1. UNCHANGED <<log, status, attached, rooms, heard>>
  BY DEF Ask, hub
<1>2. ASSUME NEW x \in Iterators PROVE got'[x] \o queued'[x] = got[x] \o queued[x]
  <2>1. got[x] \in Seq(Nat) /\ queued[x] \in Seq(Nat)
    BY DEF TypeOK
  <2>2. CASE x = i /\ ~ Waits(i) /\ queued[i] # << >>
    <3>1. got'[x] = Append(got[x], Head(queued[x])) /\ queued'[x] = Tail(queued[x])
      BY <2>2 DEF Ask, TypeOK
    <3>2. Append(got[x], Head(queued[x])) \o Tail(queued[x]) = got[x] \o queued[x]
      BY <2>1, <2>2, MoveHead
    <3> QED
      BY <3>1, <3>2
  <2>3. CASE x # i \/ Waits(i) \/ queued[i] = << >>
    BY <2>3 DEF Ask, TypeOK
  <2> QED
    BY <2>2, <2>3
<1>3. stream' = stream
  BY <1>1, <1>2 DEF stream, Subscribers
<1> QED
  BY <1>1, <1>3 DEF following, deaf

LEMMA FeedStep == IInv /\ [Next]_vars => [Feed!Next]_(Feed!vars)
<1> SUFFICES ASSUME IInv, [Next]_vars
             PROVE  Feed!Next \/ UNCHANGED <<log, following, deaf, stream>>
  BY DEF Feed!vars
<1>1. following' \in [Subscribers -> SUBSET Sessions]
  <2>1. status' \in [Iterators -> {"new", "open", "closed"}]
        /\ rooms' \in [Sockets -> SUBSET Sessions]
    BY StepInv DEF IInv, TypeOK
  <2> QED
    BY <2>1, ListenersAssumption DEF following, Subscribers
<1>2. ASSUME NEW p \in {Api, Indexer}, NEW s \in Sessions,
             NEW type \in {"outcome", "PEER_DISCONNECTED"}, Publish(p, s, type)
      PROVE  Feed!Next
  BY <1>2, PublishFeeds DEF Feed!Next
<1>3. ASSUME NEW i \in Iterators, Ask(i) PROVE UNCHANGED <<log, following, deaf, stream>>
  BY <1>3, AskKeepsStream
<1>4. ASSUME UNCHANGED <<log, got, queued, attached, heard>>,
             ~ attached => \A c \in Sockets : rooms'[c] \subseteq rooms[c]
      PROVE  Feed!Next
  <2>1. UNCHANGED <<log, stream, deaf>>
    BY <1>4 DEF stream, deaf
  <2>2. ASSUME NEW x \in deaf PROVE following'[x] \subseteq following[x]
    <3>1. x \in Sockets /\ x \in Subscribers /\ ~ attached
      BY DEF deaf, Subscribers
    <3>2. following[x] = rooms[x] /\ following'[x] = rooms'[x]
      BY <3>1, ListenersAssumption DEF following
    <3> QED
      BY <1>4, <3>1, <3>2
  <2> QED
    BY <1>1, <2>1, <2>2 DEF Feed!Next, Feed!Refollow
<1>5. ASSUME NEW i \in Iterators, Open(i) \/ CloseIterator(i) PROVE Feed!Next
  BY <1>4, <1>5 DEF Open, CloseIterator, hub
<1>6. ASSUME NEW c \in Sockets, NEW s \in Sessions \cup {NoId}, Join(c, s) \/ Leave(c, s)
      PROVE  Feed!Next
  <2>1. ~ attached => \A k \in Sockets : rooms'[k] \subseteq rooms[k]
    BY <1>6 DEF Join, Leave, IInv, TypeOK
  <2> QED
    BY <1>4, <1>6, <2>1 DEF Join, Leave, iterators
<1>7. ASSUME NEW c \in Sockets, Disconnect(c) PROVE Feed!Next
  <2>1. \A k \in Sockets : rooms'[k] \subseteq rooms[k]
    BY <1>7 DEF Disconnect, IInv, TypeOK
  <2> QED
    BY <1>4, <1>7, <2>1 DEF Disconnect, iterators
<1>8. CASE CloseHub
  <2>1. UNCHANGED <<log, following, stream>>
    BY <1>8 DEF CloseHub, iterators, following, stream
  <2>2. deaf = {} /\ deaf' = Sockets
    BY <1>8 DEF CloseHub, deaf
  <2> QED
    BY <2>1, <2>2 DEF Feed!Next, Feed!CutOff, Subscribers
<1>9. CASE UNCHANGED vars
  BY <1>9 DEF vars, iterators, hub, following, deaf, stream
<1>10. ASSUME NEW p \in {Api, Indexer}, NEW s \in Sessions, Announce(p, s) PROVE Feed!Next
  BY <1>2, <1>10 DEF Announce
<1>11. ASSUME NEW s \in Sessions, PeerDisconnected(s) PROVE Feed!Next
  BY <1>2, <1>11 DEF PeerDisconnected
<1> QED
  BY <1>3, <1>5, <1>6, <1>7, <1>8, <1>9, <1>10, <1>11 DEF Next

\* The hub and the iterators, with their queues and promises, implement
\* SessionFeed, in which close() cuts every socket off.
THEOREM ImplementsFeed == Spec => FeedPromise
<1>1. Init => Feed!Init
  <2>1. Init => following = [x \in Subscribers |-> {}]
    BY DEF Init, following, Subscribers
  <2>2. Init => stream = [x \in Subscribers |-> << >>]
    BY DEF Init, stream, Subscribers
  <2>3. Init => deaf = {}
    BY DEF Init, deaf
  <2> QED
    BY <2>1, <2>2, <2>3 DEF Init, Feed!Init
<1> QED
  BY <1>1, FeedStep, Invariant, PTL DEF Spec, FeedPromise, Feed!Spec

-----------------------------------------------------------------------------
(* Every message once and in order, from the steps of SessionFeed *)

\* A subscriber was given what its process said of the sessions it followed
\* until it was cut off, once and in order.
Given ==
    \A x \in Subscribers :
        /\ \A j, k \in DOMAIN stream[x] : j < k => stream[x][j] < stream[x][k]
        /\ Range(stream[x]) =
              {n \in DOMAIN log : /\ log[n].from = Api
                                  /\ x \in log[n].audience \ log[n].missed}

LEMMA ExactStep ==
    ASSUME IInv, Given, [Feed!Next]_(Feed!vars)
    PROVE  Given'
<1>1. log \in Seq(Messages) /\ stream \in [Subscribers -> Seq(Nat)]
  BY StreamTypes DEF IInv, TypeOK, Messages
<1>2. CASE UNCHANGED <<log, stream>>
  BY <1>2 DEF Given
<1>3. ASSUME NEW p \in {Api, Indexer}, NEW s \in Sessions,
             NEW type \in {"outcome", "PEER_DISCONNECTED"}, Feed!Post(p, s, type)
      PROVE  Given'
  <2> DEFINE n == Len(log) + 1
  <2> DEFINE Owed(x) == {m \in DOMAIN log : /\ log[m].from = Api
                                            /\ x \in log[m].audience \ log[m].missed}
  <2> DEFINE Fed(x) == Api = p /\ s \in following[x] /\ x \notin deaf
  <2>1. /\ DOMAIN log = 1..Len(log) /\ Len(log) \in Nat
        /\ DOMAIN log' = 1..n
        /\ \A m \in DOMAIN log : log'[m] = log[m]
        /\ log'[n] = [from |-> p, session |-> s, type |-> type,
                      audience |-> {x \in Subscribers : s \in following[x]},
                      missed |-> {x \in Subscribers : s \in following[x]} \cap deaf]
    BY <1>1, <1>3 DEF Feed!Post
  <2>2. ASSUME NEW x \in Subscribers
        PROVE  /\ \A j, k \in DOMAIN stream'[x] : j < k => stream'[x][j] < stream'[x][k]
               /\ Range(stream'[x]) = {m \in DOMAIN log' :
                      log'[m].from = Api /\ x \in log'[m].audience \ log'[m].missed}
    <3>1. {m \in DOMAIN log' : log'[m].from = Api /\ x \in log'[m].audience \ log'[m].missed}
             = IF Fed(x) THEN Owed(x) \cup {n} ELSE Owed(x)
      BY <2>1
    <3>2. Range(stream[x]) = Owed(x) /\ stream[x] \in Seq(Nat)
      BY <1>1 DEF Given
    <3>3. CASE ~ Fed(x)
      <4>1. stream'[x] = stream[x]
        BY <1>3, <3>3 DEF Feed!Post
      <4> QED
        BY <3>1, <3>2, <3>3, <4>1 DEF Given
    <3>4. CASE Fed(x)
      <4>1. stream'[x] = Append(stream[x], n)
        BY <1>3, <3>4 DEF Feed!Post
      <4>2. \A j \in DOMAIN stream[x] : stream[x][j] \in 1..Len(log)
        BY <2>1, <3>2 DEF Range
      <4>3. /\ DOMAIN stream'[x] = 1..Len(stream[x]) + 1
            /\ DOMAIN stream[x] = 1..Len(stream[x]) /\ Len(stream[x]) \in Nat
            /\ \A j \in 1..Len(stream[x]) : stream'[x][j] = stream[x][j]
            /\ stream'[x][Len(stream[x]) + 1] = n
        BY <2>1, <3>2, <4>1
      <4>4. \A j, k \in DOMAIN stream'[x] : j < k => stream'[x][j] < stream'[x][k]
        <5> SUFFICES ASSUME NEW j \in DOMAIN stream'[x], NEW k \in DOMAIN stream'[x], j < k
                     PROVE  stream'[x][j] < stream'[x][k]
          OBVIOUS
        <5>1. \A i \in DOMAIN stream[x] : stream[x][j] < stream[x][i] \/ ~ j < i
          BY <4>3 DEF Given
        <5>2. j \in 1..Len(stream[x]) /\ stream'[x][j] = stream[x][j]
          BY ONLY <4>3, j \in DOMAIN stream'[x], k \in DOMAIN stream'[x], j < k
        <5>3. CASE k = Len(stream[x]) + 1
          <6>1. stream[x][j] \in 1..Len(log) /\ stream'[x][k] = n /\ Len(log) \in Nat
            BY <2>1, <4>2, <4>3, <5>2, <5>3
          <6> QED
            BY ONLY <5>2, <6>1 DEF n
        <5>4. CASE k # Len(stream[x]) + 1
          <6>1. k \in 1..Len(stream[x])
            BY ONLY <4>3, <5>4, k \in DOMAIN stream'[x]
          <6>2. stream[x][j] < stream[x][k]
            BY ONLY <4>3, <5>1, <6>1, j < k
          <6> QED
            BY ONLY <4>3, <5>2, <6>1, <6>2
        <5> QED
          BY <5>3, <5>4
      <4>5. Range(stream'[x]) = Range(stream[x]) \cup {n}
        <5> HIDE DEF n
        <5> QED
          BY ONLY <4>3 DEF Range
      <4> QED
        BY <3>1, <3>2, <3>4, <4>4, <4>5
    <3> QED
      BY <3>3, <3>4
  <2> QED
    BY <2>2 DEF Given
<1> QED
  BY <1>2, <1>3 DEF Feed!Next, Feed!Refollow, Feed!CutOff, Feed!vars

\* Whoever followed a session when the API process published a message about
\* it gets that message exactly once and in order, whatever the interleaving; a
\* socket that close() has not yet come to misses PEER_DISCONNECTED messages,
\* and nothing else of its process.
THEOREM ExactlyOnce == Spec => []ExactlyOnceInOrder
<1>1. Init => Given
  BY DEF Init, Given, stream, Subscribers, Range
<1>2. IInv /\ Given /\ [Next]_vars => Given'
  BY FeedStep, ExactStep
<1>3. IInv /\ Given => ExactlyOnceInOrder
  BY DEF IInv, Given, OnlyPeersMissed, ExactlyOnceInOrder
<1> QED
  BY <1>1, <1>2, <1>3, Invariant, PTL DEF Spec

\* Only those who follow a session can miss a message about it.
WithinAudience == \A n \in DOMAIN log : log[n].missed \subseteq log[n].audience

LEMMA MissedWereFollowing == Spec => []WithinAudience
<1>1. Init => WithinAudience
  BY DEF Init, WithinAudience
<1>2. ASSUME IInv, WithinAudience, [Next]_vars PROVE WithinAudience'
  <2>1. ASSUME NEW p \in {Api, Indexer}, NEW s \in Sessions,
               NEW type \in {"outcome", "PEER_DISCONNECTED"}, Publish(p, s, type)
        PROVE  WithinAudience'
    <3>1. /\ \A n \in DOMAIN log : log'[n] = log[n]
          /\ \A n \in DOMAIN log' : n \in DOMAIN log \/ n = Len(log) + 1
          /\ log'[Len(log) + 1] =
                [from |-> p, session |-> s, type |-> type,
                 audience |-> {x \in Subscribers : s \in following[x]},
                 missed |-> {x \in Subscribers : s \in following[x]} \cap deaf]
      BY <1>2, <2>1, Logged, Zenon
    <3> QED
      BY <1>2, <3>1 DEF WithinAudience
  <2>2. CASE UNCHANGED log
    BY <1>2, <2>2 DEF WithinAudience
  <2>3. \/ UNCHANGED log
        \/ \E p \in {Api, Indexer}, s \in Sessions, type \in {"outcome", "PEER_DISCONNECTED"} :
              Publish(p, s, type)
    BY <1>2 DEF Next, Announce, PeerDisconnected, Open, Ask, CloseIterator, Join, Leave,
                Disconnect, CloseHub, vars
  <2> QED
    BY <2>1, <2>2, <2>3
<1> QED
  BY <1>1, <1>2, Invariant, PTL DEF Spec

\* What eventListener.ts says of its publications holds exactly as long as
\* nobody is in the room of a session when the indexer process publishes about
\* it, and the hub publishes nothing about the room of a socket that close()
\* has not yet disconnected: the indexer's messages reach no room, and close()
\* does not tell those it disconnects last who left before them.
THEOREM RoomsHearTheApi ==
    Spec => [](OutcomesReachRooms <=>
                  \A n \in DOMAIN log :
                      /\ log[n].from = Indexer => log[n].audience \cap Sockets = {}
                      /\ log[n].from = Api => log[n].missed = {})
<1> DEFINE Unheard == \A n \in DOMAIN log :
                          /\ log[n].from = Indexer => log[n].audience \cap Sockets = {}
                          /\ log[n].from = Api => log[n].missed = {}
<1>1. ASSUME TypeOK, ExactlyOnceInOrder, WithinAudience
      PROVE  OutcomesReachRooms <=> Unheard
  <2>1. \A n \in DOMAIN log : /\ log[n].from \in {Api, Indexer}
                               /\ log[n].missed \subseteq Sockets
    <3>1. log \in Seq(Messages)
      BY <1>1 DEF TypeOK, Messages
    <3>2. \A m \in Messages : m.from \in {Api, Indexer} /\ m.missed \subseteq Sockets
      BY DEF Messages
    <3> QED
      BY ONLY <3>1, <3>2
  <2>2. \A c \in Sockets :
            Range(heard[c]) = {n \in DOMAIN log : /\ log[n].from = Api
                                                  /\ c \in log[n].audience \ log[n].missed}
    <3>1. \A c \in Sockets : c \in Subscribers /\ stream[c] = heard[c]
      BY DEF stream, Subscribers
    <3> QED
      BY <1>1, <3>1 DEF ExactlyOnceInOrder
  <2>3. \A n \in DOMAIN log : \A c \in Sockets :
            n \in Range(heard[c]) <=> log[n].from = Api /\ c \in log[n].audience \ log[n].missed
    BY <2>2
  <2> QED
    BY <1>1, <2>1, <2>3, ProcessesAssumption DEF OutcomesReachRooms, WithinAudience
<1>2. TypeOK /\ ExactlyOnceInOrder /\ WithinAudience => (OutcomesReachRooms <=> Unheard)
  BY <1>1
<1> QED
  BY <1>2, ExactlyOnce, TypeCorrect, MissedWereFollowing, PTL
=============================================================================
