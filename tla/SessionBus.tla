----------------------------- MODULE SessionBus -----------------------------
(***************************************************************************)
(* The status bus (src/backend/src/sessionEvents.ts) and those who listen  *)
(* to it: the WebSocket hub, which forwards every message to the room of   *)
(* its session, and the iterators of GraphQL subscriptions, which queue    *)
(* messages until their consumer asks for the next one.                    *)
(*                                                                         *)
(* Two processes import the bus and each has one of its own: the API       *)
(* process, where the hub and the iterators are, and the indexer, which    *)
(* publishes the chain's outcomes.                                         *)
(*                                                                         *)
(* Abstractions.  A message is its number in the order of publication.     *)
(* The hub publishes PEER_DISCONNECTED about every session of a socket     *)
(* that disconnects; other messages, of which module SessionHub has the    *)
(* settlements, may be published at any time.  A consumer asks for one     *)
(* message at a time, as the for-await loop of graphql-ws does, and may    *)
(* give up while it waits.  What one call does without an await, nothing   *)
(* else in the API process interrupts: the disconnect handler's loop, and  *)
(* the whole of close() up to the last socket's handler.                   *)
(***************************************************************************)
EXTENDS Naturals, Sequences, FiniteSets, Functions

CONSTANTS
    Api, Indexer,        \* the two processes
    Sessions, NoId,      \* NoId: what is no session's id, sent by a client
    Iterators, Topic,    \* the subscriptions, and the session of each
    Sockets,             \* connections to the hub
    MaxMessages          \* bound of the instance

ASSUME ProcessesAssumption == Api # Indexer

ASSUME NoIdAssumption == NoId \notin Sessions

ASSUME ListenersAssumption ==
    /\ Iterators \cap Sockets = {}
    /\ Topic \in [Iterators -> Sessions]

ASSUME BoundAssumption == MaxMessages \in Nat

VARIABLES
    log,        \* history: the messages published in either process
    status,     \* of each iterator: new, open or closed
    queued,     \* messages the iterator holds for its consumer
    pending,    \* the consumer waits for a promise that next() returned
    got,        \* history: the messages the consumer was given
    attached,   \* the hub listens to the bus
    rooms,      \* the sessions whose room each socket is in
    departed,   \* the sessions of a socket whose disconnect handler is at work
    heard       \* history: the messages each socket was sent

iterators == <<status, queued, pending, got>>
hub == <<attached, rooms, departed, heard>>
vars == <<log, iterators, hub>>

Subscribers == Iterators \cup Sockets

Init ==
    /\ log = << >>
    /\ status = [i \in Iterators |-> "new"]
    /\ queued = [i \in Iterators |-> << >>]
    /\ pending = [i \in Iterators |-> FALSE]
    /\ got = [i \in Iterators |-> << >>]
    /\ attached = TRUE
    /\ rooms = [c \in Sockets |-> {}]
    /\ departed = {}
    /\ heard = [c \in Sockets |-> << >>]

-----------------------------------------------------------------------------
(* The bus *)

\* The sessions each subscriber follows.
following ==
    [x \in Subscribers |->
        CASE x \in Sockets -> rooms[x]
          [] x \in Iterators /\ status[x] = "open" -> {Topic[x]}
          [] OTHER -> {}]

\* Those who follow sessions and are not told: the sockets of a hub that stopped
\* to listen.
deaf == IF attached THEN {} ELSE Sockets

\* The API process is not in the middle of a disconnect handler or of close().
Idle == departed = {} /\ (attached \/ \A c \in Sockets : rooms[c] = {})

\* The message about to be published.
message == Len(log) + 1

\* The iterator's listener takes a message about s.
Hears(i, s) == status[i] = "open" /\ Topic[i] = s

\* Seeded fault: a message is queued even when the consumer waits for it.
Queues(i, s) == Hears(i, s)

\* The listener queues what nobody waits for.
Holds(i, s) == Hears(i, s) /\ ~ pending[i]

\* The iterators' listeners run.
Listen(s) ==
    /\ got' = [i \in Iterators |-> IF Hears(i, s) /\ pending[i]
                                   THEN Append(got[i], message) ELSE got[i]]
    /\ queued' = [i \in Iterators |-> IF Holds(i, s)
                                      THEN Append(queued[i], message) ELSE queued[i]]
    /\ pending' = [i \in Iterators |-> pending[i] /\ ~ Hears(i, s)]

\* Seeded fault: a message is sent to every room.
ForwardToAll(c, s) == attached

\* The hub's listener emits to the room of the message's session.
Forward(c, s) == attached /\ s \in rooms[c]

\* publishSessionStatus: the listeners of the process run, one after the other,
\* before it returns.  The hub and the iterators are listeners of the API's.
Publish(p, s, type) ==
    /\ LET audience == {x \in Subscribers : s \in following[x]}
       IN  log' = Append(log, [from |-> p, session |-> s, type |-> type,
                               audience |-> audience, missed |-> audience \cap deaf])
    /\ IF p = Api
       THEN /\ Listen(s)
            /\ heard' = [c \in Sockets |-> IF Forward(c, s)
                                           THEN Append(heard[c], message) ELSE heard[c]]
       ELSE UNCHANGED <<queued, pending, got, heard>>
    /\ UNCHANGED <<status, attached, rooms>>

\* Bound of the instance: every socket in a room will be said to have left it.
BudgetLeft ==
    Len(log) + Cardinality(departed)
             + Cardinality({x \in Sockets \X Sessions : x[2] \in rooms[x[1]]})
        < MaxMessages

\* The processes publish outcomes and settlements.
Announce(p, s) ==
    /\ BudgetLeft /\ (p = Api => Idle)
    /\ Publish(p, s, "outcome")
    /\ UNCHANGED departed

-----------------------------------------------------------------------------
(* Iterators *)

\* Subscription.sessionUpdated: the iterator attaches its listener.
Open(i) ==
    /\ Idle /\ status[i] = "new"
    /\ status' = [status EXCEPT ![i] = "open"]
    /\ UNCHANGED <<log, queued, pending, got, hub>>

\* Seeded fault: the consumer waits without a look at the queue.
WaitsAnyway(i) == status[i] = "open"

\* next() has nothing to give and the iterator is open.
Waits(i) == queued[i] = << >> /\ status[i] = "open"

\* next(): what was queued first, or a promise.
Ask(i) ==
    /\ Idle /\ status[i] # "new" /\ ~ pending[i]
    /\ \/ /\ Waits(i)
          /\ pending' = [pending EXCEPT ![i] = TRUE]
          /\ UNCHANGED <<queued, got>>
       \/ /\ ~ Waits(i) /\ queued[i] # << >>
          /\ got' = [got EXCEPT ![i] = Append(@, Head(queued[i]))]
          /\ queued' = [queued EXCEPT ![i] = Tail(@)]
          /\ UNCHANGED pending
    /\ UNCHANGED <<log, status, hub>>

\* Seeded fault: the promise of a waiting consumer is forgotten.
KeepWaiting(i) == pending

\* close(): the promise of a waiting consumer is resolved, with done.
Release(i) == [pending EXCEPT ![i] = FALSE]

\* return() and throw(): the listener is detached, the queue stays.
CloseIterator(i) ==
    /\ Idle /\ status[i] = "open"
    /\ status' = [status EXCEPT ![i] = "closed"]
    /\ pending' = Release(i)
    /\ UNCHANGED <<log, queued, got, hub>>

-----------------------------------------------------------------------------
(* The hub *)

\* Seeded fault: subscribe takes any id.
AnyId(s) == TRUE

\* The client sent the id of a session.
Named(s) == s # NoId

\* subscribe, of a socket that is connected.
Join(c, s) ==
    /\ Idle /\ attached /\ Named(s) /\ BudgetLeft
    /\ rooms' = [rooms EXCEPT ![c] = @ \cup {s}]
    /\ UNCHANGED <<log, iterators, attached, departed, heard>>

\* unsubscribe.
Leave(c, s) ==
    /\ Idle /\ Named(s)
    /\ rooms' = [rooms EXCEPT ![c] = @ \ {s}]
    /\ UNCHANGED <<log, iterators, attached, departed, heard>>

\* A socket is gone or, in close(), io.close() is at it: it is out of every room
\* when its disconnect handler starts.  Other sockets may still be in them.
Disconnect(c) ==
    /\ departed = {} /\ rooms[c] # {}
    /\ rooms' = [rooms EXCEPT ![c] = {}] /\ departed' = rooms[c]
    /\ UNCHANGED <<log, iterators, attached, heard>>

\* The disconnect handler's loop: the next session the socket was subscribed to.
PeerDisconnected(s) ==
    /\ s \in departed
    /\ Publish(Api, s, "PEER_DISCONNECTED")
    /\ departed' = departed \ {s}

\* close(): the hub stops to listen.  Before anything else runs, io.close()
\* disconnects the sockets, one by one.
CloseHub ==
    /\ Idle /\ attached
    /\ attached' = FALSE
    /\ UNCHANGED <<log, iterators, rooms, departed, heard>>

Next ==
    \/ \E p \in {Api, Indexer}, s \in Sessions : Announce(p, s)
    \/ \E i \in Iterators : Open(i) \/ Ask(i) \/ CloseIterator(i)
    \/ \E c \in Sockets, s \in Sessions \cup {NoId} : Join(c, s) \/ Leave(c, s)
    \/ \E c \in Sockets : Disconnect(c)
    \/ \E s \in Sessions : PeerDisconnected(s)
    \/ CloseHub

Spec == Init /\ [][Next]_vars

\* The consumers' loops go on, and so do the disconnect handler's and io.close's.
FairSpec ==
    /\ Spec
    /\ \A i \in Iterators : WF_vars(Ask(i))
    /\ \A s \in Sessions : WF_vars(PeerDisconnected(s))
    /\ \A c \in Sockets : WF_vars(~ attached /\ Disconnect(c))

-----------------------------------------------------------------------------
(* Properties *)

\* Every variable keeps its type, and rooms are rooms of sessions.
TypeOK ==
    /\ log \in Seq([from : {Api, Indexer}, session : Sessions,
                    type : {"outcome", "PEER_DISCONNECTED"},
                    audience : SUBSET Subscribers, missed : SUBSET Sockets])
    /\ status \in [Iterators -> {"new", "open", "closed"}]
    /\ queued \in [Iterators -> Seq(Nat)] /\ got \in [Iterators -> Seq(Nat)]
    /\ pending \in [Iterators -> BOOLEAN]
    /\ attached \in BOOLEAN /\ rooms \in [Sockets -> SUBSET Sessions]
    /\ departed \subseteq Sessions
    /\ heard \in [Sockets -> Seq(Nat)]

\* No wake-up is lost: a consumer waits only for an iterator that is open and
\* holds nothing for it, so that neither a queued message nor the end of the
\* subscription leaves it waiting.
NobodyWaitsInVain ==
    \A i \in Iterators : pending[i] => status[i] = "open" /\ queued[i] = << >>

\* The messages a subscriber was given, and those its iterator holds for it.
stream ==
    [x \in Subscribers |-> IF x \in Sockets THEN heard[x] ELSE got[x] \o queued[x]]

\* Whoever followed a session when a message about it was published in the API
\* process gets that message exactly once, and in the order of publication,
\* whether it was waiting, behind, or giving up at that moment.  The exception is
\* what close() loses, and that is no outcome: the hub stopped to listen before
\* the sockets were disconnected, so that those still in a room are not told
\* that the sockets before them left it.
ExactlyOnceInOrder ==
    /\ \A x \in Subscribers :
          /\ \A j, k \in DOMAIN stream[x] : j < k => stream[x][j] < stream[x][k]
          /\ Range(stream[x]) =
                {n \in DOMAIN log : /\ log[n].from = Api
                                    /\ x \in log[n].audience \ log[n].missed}
    /\ \A n \in DOMAIN log :
          log[n].from = Api /\ log[n].missed # {} =>
              log[n].type = "PEER_DISCONNECTED" /\ ~ attached

\* The hub and the iterators implement SessionFeed, which knows no queues,
\* promises or rooms.
Feed == INSTANCE SessionFeed
    WITH Processes <- {Api, Indexer}, Home <- [x \in Subscribers |-> Api],
         Types <- {"outcome", "PEER_DISCONNECTED"}
FeedPromise == Feed!Spec

\* A consumer that goes on asking is given everything its iterator queued,
\* unless it closes the iterator.
EveryMessageConsumed ==
    \A i \in Iterators : \A n \in 1..MaxMessages :
        (n \in Range(queued[i])) ~> (n \in Range(got[i]) \/ status[i] = "closed")

\* What eventListener.ts:109 says of the indexer's publications ("Push immediate
\* status updates to any clients in session:${sessionId}"): whoever is in the
\* room of a session gets the messages about it, from whichever process.
OutcomesReachRooms ==
    \A n \in DOMAIN log : \A c \in Sockets :
        c \in log[n].audience => n \in Range(heard[c])
=============================================================================
