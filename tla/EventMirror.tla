----------------------------- MODULE EventMirror -----------------------------
(***************************************************************************)
(* What the poller promises the rest of the backend, with nothing said of  *)
(* pages, cursors, retries or crashes: EventLog is the chain's events from *)
(* some ledger on, taken one at a time in order, each transaction hash     *)
(* once, none skipped (src/backend/src/sorobanIndexer.ts).                 *)
(***************************************************************************)
EXTENDS Naturals, Sequences

VARIABLES
    chain,      \* the network's contract events, in ledger order
    origin,     \* the ledger after which events are mirrored, 0 until chosen
    eventLog    \* the rows, as indices in chain

vars == <<chain, origin, eventLog>>

\* An event that ought to have a row.
Wanted(p) == p \in DOMAIN chain /\ chain[p].classified /\ chain[p].ledger > origin

\* A row carries the transaction hash of the event at p.
Mirrored(p) == \E i \in DOMAIN eventLog :
                  chain[eventLog[i]].txHash = chain[p].txHash

Init == chain = << >> /\ origin = 0 /\ eventLog = << >>

\* The network appends events and rewrites none.
Grow ==
    /\ Len(chain') >= Len(chain)
    /\ \A p \in DOMAIN chain : chain'[p] = chain[p]
    /\ UNCHANGED <<origin, eventLog>>

\* The starting ledger is chosen once.
Settle ==
    /\ origin = 0 /\ origin' > 0
    /\ UNCHANGED <<chain, eventLog>>

\* The next row is made from the earliest event that is still without one.
Record ==
    /\ origin > 0
    /\ \E p \in DOMAIN chain :
          /\ Wanted(p) /\ ~ Mirrored(p)
          /\ \A q \in 1 .. p - 1 : Wanted(q) => Mirrored(q)
          /\ eventLog' = Append(eventLog, p)
    /\ UNCHANGED <<chain, origin>>

Next == Grow \/ Settle \/ Record

Spec == Init /\ [][Next]_vars
=============================================================================
