# SkillSphere backend: TLA+ models and proofs

SkillSphere is a marketplace for paid consultations. Money is held by escrow
contracts on the Soroban (Stellar) network; the backend mirrors what the
contracts do into Postgres, serves it over GraphQL and pushes status changes
over WebSockets. This directory models the parts of `src/backend/src` whose
correctness depends on interleaving, failure and restart.

How to run, in this directory:

    tlc -workers 2 -config MCSorobanIndexer.cfg MCSorobanIndexer.tla
    tlapm SorobanIndexerProofs.tla

## 1. Inventory

Two processes run against one database (`src/docker-compose.yml`): the **API**
(`index.ts`) and the **indexer** (`indexer.ts`). Both are restarted when they
die. They share nothing but Postgres.

| Component | State | Operations | Modelled in |
|---|---|---|---|
| Soroban poller, `sorobanIndexer.ts` | `IndexerState` row (lastLedger, lastCursor), locals of `pollOnce` | `pollOnce`: read position, bootstrap, page through `getEvents`, ingest, process, save | `SorobanIndexer` |
| Event log and processor, `eventListener.ts` | `EventLog`, `Session`, `User`, `Expert`, `Transaction` rows | `ingestEvent`, `processEvents`, seven handlers, broadcast | `EventListener` |
| Indexer process, `indexer.ts` | none | tick loop: poll, process, sleep, catch | steps of the two above |
| Session bus, `sessionEvents.ts` | listeners, queues and promises of iterators | publish, subscribe, iterate, close | `SessionBus`, `SessionFeed` |
| Session hub, `ws/sessionHub.ts` | sockets, subscriptions, grace timers | connect, subscribe, unsubscribe, disconnect, timer, close | `SessionHub`; its rooms in `SessionBus` |
| API process, `index.ts` | none | fallback settlement, shutdown | `SessionHub`; the settlement's update also in `EventListener` |
| Reviews, `resolvers.ts` | `Review` rows, `Expert.rating`, `Expert.reviewCount` | `submitReview` | `Reviews` |
| Other GraphQL, `resolvers.ts`, `schema.ts`, `app.ts` | `Expert`, `User` rows | `registerExpert`, `updateProfile`, the paged list `experts`; single-read queries | `ExpertDirectory`; the single reads are not modelled |
| Surge multiplier, `surgeMultiplier.ts` | cached result | `GET /` | not modelled |
| Notifications, `notificationService.ts` | requests and timers of a dispatch | dispatch to two channels, each under an abort timer | `Notifications` |
| Wallet authentication, `auth.ts` | none | verify a signature | an input |
| Schema and client, `schema.prisma`, `prisma.ts` | unique keys, defaults | | as handlers use them |

How they interact: the poller ingests rows and calls the processor; the processor
writes `Session.status`, pings the notifications, and publishes on the bus; the
hub and the GraphQL subscriptions listen on the bus, each process having one of
its own; the hub's settlement also writes `Session.status`, concurrently with the
processor in the other process; `submitReview` reads sessions and writes reviews
and experts; `registerExpert`, `updateProfile` and the processor's handlers all
write the profiles that `experts` lists.

What is hard, and what makes each part correct:

* **Poller.** Crash anywhere between fetching and saving; pages and page budget
  that end inside a ledger; RPC failures at every call; a position that is
  either a ledger or a cursor. Correct when no promised event is ever passed
  without a row, rows keep chain order, the position never regresses, and
  everything promised is ingested in the end.
* **Processor.** Handlers of several database calls, each of which may throw;
  rows that are skipped and replayed; rows that always throw. Correct when a
  session's status is the chain's, rows are marked and published only when their
  effects are complete, and one bad row holds up nobody.
* **Hub.** Disconnections noticed late, several sockets per wallet, a timer
  racing a return, an update in flight racing the indexer, restart. Correct when
  a grace period runs only for a peer who left, a session is ended once, the
  chain's outcome is never undone, and abandoned sessions are settled.
* **Reviews.** Four calls without a transaction. Correct when a session has one
  review and the cached rating is that of the reviews.
* **Bus and iterators.** A message may come while the consumer waits, is behind,
  or gives up; the hub closes while sockets are in its rooms. Correct when whoever
  follows a session gets each message of its process once and in order, nobody waits
  for what is already there, and closing loses nothing that matters.
* **Notifications.** A server that never answers, or stops in the middle of a
  refusal's body, races with one timer per request. Correct when the dispatch
  ends whatever servers do and its report is true.
* **Expert directory.** Clients register while the processor creates profiles
  for the same wallets, with keys of its own, and clients page through a list
  that grows at its head. Correct when a wallet has one profile, a registration
  is not overwritten, sessions point to the right profile, and paging misses nobody.

`PROJECT.json` lists the hazards line by line with the properties that cover
them, and says why where none does.

## 2. Modules and how they correspond to the code

In every module an action is a stretch of code between two awaits (or a
synchronous event handler), so that everything that can happen at an await can
happen between two actions. Operators introduced by "Seeded fault" are not part
of any specification: each is a plausible bug in the definition that follows it,
kept so that the properties can be tested against it.

**`SorobanIndexer`.** `pc` is the place in `pollOnce`: `ReadState`,
`Bootstrap`/`Seed` (first tick only), `Prepare` (the startLedger clamp), `Fetch`
(a page; `EmptyPage` or `EventPage`), `Ingest` (one event), `Process`, `Save`.
The network is `chain`, the sequence of all contract events, and `CloseLedger`
appends to it at any time. A cursor is the number of events it has passed. The
server refuses a start ledger outside its retention window, or a cursor whose
next event has left it. `FetchFail`, `BootstrapFail`, `PrepareFail`,
`DatabaseThrows` and `Crash` are the failures. `origin` is a history variable: the
ledger the first tick settled on, which separates the events that are promised
(`Due`) from those before deployment. Transactions share a hash between the
events they emit and rows are looked up by hash, as in `ingestEvent`.
Assumptions: every `getEvents` answer has a cursor (as the protocol says; the
code also accepts answers without), every event has a transaction hash or an id
(`ingestTxHash` throws on others, in every tick), the genesis ledger has no events,
one indexer process runs.

**`EventMirror`.** What the poller promises, without pages, cursors, ticks or
restarts: it settles on a ledger once, and then makes the next wanted event's
row, in order. `SorobanIndexer!Mirror` is the refinement.

**`EventListener`.** `log` is `EventLog` in creation order, with payloads reduced
to what handlers tell apart. A pass (`Begin`, `NextRow`, ..., `EndPass`) runs the
handler of each unprocessed row; each database call is an action: parties
(users and experts), lookup, status, transaction, mark, and the synchronous
notify and publish. A payload's `sid` is the session as the handlers name it, after
their `String(...)`; `text` says whether the payload's `sessionId` was a string to
begin with, which only the broadcast asks (`Scoped`). `Skip` is the `catch` of `processEvents`: it goes on with the
next row. `DbFault` may hit each call, `Crash` each await; the history variable
`failed` has the rows a failed call cost their turn. `Lifecycle` says that
a session is booked before anything else happens to it, unless its booking is
older than the indexer. `FallbackSettlement` is the one write of the other process
to a row the handlers write: the API process completes an ACTIVE session whose
peers have left, at any moment of a pass. `Deserted` are the sessions this may
happen to; when it may is the subject of `SessionHub`.

**`SessionHub`.** Sockets connect, subscribe, unsubscribe and disconnect; the
disconnection may be noticed at any later time. `timers` is `settlementTimers`.
A timer that fires starts a settlement, whose update (`SettleWrite`) and
publication (`SettlePublish`) are separate steps: `updateMany` moves the row only
if it is ACTIVE. The indexer's writes come from the other process: the next
status from the chain (`ChainWrites`), or the booking again (`Rebook`). They
arrive in chain order: `EventListener` has this as `StatusesInChainOrder`, and it
is a theorem there for sessions none of whose rows has to be tried again. The guard
of `Rebook`, that the chain has the session ACTIVE, is this assumption and not a check
of the code, whose upsert writes ACTIVE over any status: a booking that is tried again
after its outcome is the case of `listener_stale`. `Close` is `close()`, with the
disconnect handlers it causes; `Restart` loses everything in memory. `left` is a
history variable.

**`Reviews`.** A call of `submitReview` goes through `Submit` (checks and
lookup), `Create`, `Aggregate`, `UpdateExpert`. An aggregate is the set of reviews
it was computed from. `raced` and `orphaned` are history variables for the two
ways the cached rating can fall behind.

**`SessionBus`.** `log` is every message published, in either process. An
iterator (`sessionStatusIterator`) has a status, a queue, and a flag for the
promise `next()` returned; `Ask` is `next()`, `CloseIterator` is `return()` and
`throw()`, which resolve a waiting promise and keep the queue. `Publish` runs all
listeners of its process, as `EventEmitter.emit` does, the hub's (`Forward`, to
the sockets in the room) and the iterators' (`Listen`). `Join`, `Leave`,
`Disconnect` and `CloseHub` are the hub's side. A socket that disconnects is out of
its rooms first; then its handler's loop publishes PEER_DISCONNECTED about each of
their sessions (`departed`, `PeerDisconnected`). `close()` detaches the hub from the
bus (`CloseHub`) and then, without an await in between, lets `io.close()` disconnect
the sockets one by one, each with its handler; until they are all gone, and while a
handler's loop runs, nothing else in the API process does (`Idle`), whereas the other
process publishes when it likes. What such a handler publishes reaches the iterators,
and no socket: the log has those who were still in the room as `missed`. What was
delivered (`got`, `heard`) is history.

**`SessionFeed`.** What the bus promises, without queues, promises or rooms: a
posted message is at once at the end of the stream of everybody of its process
who follows its session and has not been cut off. `SessionBus!Feed` is the refinement,
in which `close()` cuts off the sockets; the audience of a
message is recorded when it is posted, so that exactness is about the past.

**`Notifications`.** One dispatch. Each channel goes through `idle`, `sent`,
`reading` (the body of a refusal) and `settled`; `timer` is the abort timer of
`postJson`. The web servers (`WebhookActs`) act at any time, also after the
request was given up, or never. `Collect` is `Promise.all` with the answer.

**`ExpertDirectory`.** The `Expert` table in order of creation, with a `createdAt`
that may stand still but not go back, and its writers:
`Register`/`CreateProfile` (`registerExpert`: lookup, then create),
`FindProfile`/`UpdateProfile` (`updateProfile`), `ExpertRegistered` (an upsert),
and the booking handler's three calls `BookingLookup`, `BookingUpsert`,
`BookSession`, with `Crash` between any two. `Page` is the query `experts` as a
client uses it, page after page. The query orders by `createdAt` and nothing else, so
that rows of one millisecond may come in a different order each time: `Fronts` are
the sets of rows that may be in front of a place in the list. Rows of the chain's experts have the chain's
`expertId` as their id, others a `Cuid`. Sessions and events are here only as
far as they concern profiles; `EventListener` has the rest of the same handlers.

The `MC...` modules only give constants their values.

## 3. Runs

| Run | Instance | Shows |
|---|---|---|
| `indexer` | 4 ledgers, 3 events, up to 3 per ledger, pages of 1, 2 pages per tick, retention 2, 2 faults | types, `NoGap`, `FirstOfEach`, `ExactBetweenTicks`, `RowsInChainOrder`, `PositionNeverRegresses`, `Mirror`, `EveryEventIngested` |
| `indexer_rows` | 3 ledgers, 2 events, pages of 2, no faults | `OneRowPerEvent` fails |
| `listener` | 3 rows, 2 sessions, of which one may be settled by the API process, all kinds of events and malformed payloads, 1 crash, 1 failed call | types, `SessionsMirrorLog`, `StatusesInChainOrder`, `OnePassSuffices`, `PublishedAfterCommitted`, `NotifiedAtMostOnce`, `SoundRowsProcessed` |
| `listener_stale` | 2 rows, 1 failed call, no settlement | `DrainedMirror` fails |
| `hub` | 1 session, 3 sockets of 2 wallets, 1 restart, 1 failed update, 1 replayed booking | types, `GraceOnlyAfterLeaving`, `EndedOncePerBooking`, `ChainOutcomeKept`, `AbandonedSessionsInHand`, `AbandonedSessionsSettled` |
| `hub_stale` | the same | `GraceOnlyWhileAway` fails |
| `reviews` | 3 calls, 3 sessions, 2 experts, 1 failure | types, `OneAcceptedPerSession`, `OwnReviewsCounted`, `CacheExactUnlessRaced` |
| `reviews_stale` | the same without failures | `CacheUpToDate` fails |
| `bus` | 2 sessions, a subscription to one, 2 sockets in any rooms, 3 messages from either process, the hub closing | types, `NobodyWaitsInVain`, `ExactlyOnceInOrder`, `FeedPromise`, `EveryMessageConsumed` |
| `bus_apart` | the same with 1 socket | `OutcomesReachRooms` fails |
| `notifications` | both channels, every configuration | types, `WaitsAreTimed`, `ReportsAreTrue`, `NotificationsEnd` |
| `directory` | 2 registrations of a wallet, 2 wallets, 2 bookings (one without an address), limits -1 and 9 clamped to 1 and 2, crashes, ties of `createdAt` | types, `OneProfile`, `RegistrationsStand`, `SessionsOfTheirExpert`, `ListingComplete` |

Why the bounds are enough. Poller: the page budget must decide where a tick ends,
inside a ledger and at its end, and saved positions must expire. Two pages of one
event are fewer than the three events a ledger may have, and of four ledgers the
server keeps two, so that ledger 1, on which `BootstrapFail` settles, and a cursor
that is behind by two ledgers both become unserved. Pages of one event are full or
empty; a short page, after which a tick ends as it does after the last one of its
budget, needs a larger limit, for which the safety properties are theorems. Two
faults allow a fault during the recovery from one.
Processor: a wrong order needs two rows of one session, a third shows what
happens behind a bad one. Hub: three sockets are a peer, the same peer coming
back, and the other peer. Reviews: two calls race for one expert or one session,
the third is a bystander with another expert. Bus: an iterator has to hold one
message while another comes, and a third comes after it has closed or caught up;
two sessions tell followers from others. Of two sockets one is in the room while the
other's disconnection is published, before or during `close()`. Messages are counted
so that a socket in a room has one reserved for its leaving (`BudgetLeft`). Notifications: the two channels are the
code's. Directory: two registrations race each other and a booking of the same
wallet, the booking without an address shares the default profile, and its three
rows need more than one page of two, with a tie inside a page or across its end. The
two calls of one wallet are interchangeable (`SYMMETRY`). `EXPERT_REGISTERED` rows come
without a name in the run (`EventNames`), so that they write the stand-in over a name; the
theorems also hold for rows that give one. The safety properties are proved
without these bounds (section 4).

The runs that do not check for deadlock are those of `hub` and `reviews`, whose
clients may simply stop (sockets and calls are used up), and `notifications`,
which ends. The other instances never stop.

### Fairness

* Poller: weak fairness of `Tick` (the `while` loop of `indexer.ts` goes on and
  every await returns) and strong fairness of `EventPage`: a server that can
  answer with events again and again does so now and then instead of returning
  empty pages for ever. Failures are bounded, so they stop eventually.
* Processor: weak fairness of `Pass`, the same loop.
* Hub: weak fairness of the timer, the update and the publication. Nothing is
  assumed of clients.
* Bus: weak fairness of `Ask`, the `for await` loop of a subscription's consumer, and
  of the loops that nothing interrupts: the disconnect handler's and `io.close()`'s.
* Notifications: weak fairness of timers, aborts and continuations of settled
  promises (`Service`, `Collect`), which the event loop gives. Nothing is assumed
  of the web servers and the network.

### Disagreements with what the repository says

Five runs end in a counterexample to something a comment or a test states; they
are listed under "findings" in `PROJECT.json` with the lines. A counterexample
shows that a claim fails, not how far; each is therefore paired with theorems that
say under which condition the claim holds after all, and so what the fault is
confined to.

1. Events of one transaction share one row, so only the first is mirrored.
   `KeepsFirstOfEach`: it is always the first, exactly one, wherever a page or a
   retry cuts the transaction in two. `RowEachUnlessShared`: while no two due
   events share a hash, each has its row.
2. After one failed database call a booking may be applied after the completion
   that follows it, and the session stays ACTIVE. `EachSteadySessionMirrored`: this
   is all the harm. A session none of whose own rows met a failed call or a malformed
   payload, and which was not settled, mirrors the chain once its rows are processed,
   whatever failed for other sessions and however often the process died.
   `MirrorWhenCallsSucceed` is the claim itself under that condition.
3. A peer who comes back before the server has noticed that its old socket is
   gone is put under a grace period all the same. `GraceBrokenByOldSocketOnly`: no
   other step ever breaks the claim. `GraceForOneSocketEach`: it holds as long as
   no wallet has two sockets open.
4. Two accepted reviews can leave a cached rating that counts one.
   `UpToDateUnlessRaced` and `UpToDateOneByOne`: only if a review is inserted
   between another call's aggregate and update, hence only if two calls for one
   expert overlap.
5. The bus is local to a process, so that what the indexer publishes reaches no
   socket of the API process. `RoomsHearTheApi`: the claim holds of exactly the
   histories in which nobody is in the room of a session when the indexer publishes
   about it, and no socket is in the room when the hub, closing, publishes that
   another has left. By `ExactlyOnce` the second kind of loss is of
   PEER_DISCONNECTED messages only, to sockets that are about to be disconnected
   too; of the API process's outcomes nothing is lost.

## 4. What is proved

All proofs hold for any values of the constants that satisfy the named
assumptions of the modules. Every safety and action property of a passing run,
and both refinements, are theorems; `PROJECT.json` lists them.

**`SorobanIndexerProofs`.** `TypeCorrect`, `NoEventLost`, `RowsOrdered`,
`PositionMonotone` and `ImplementsMirror`. `NoGap` is not inductive: it speaks of
the saved cursor only, while the cursor that will be saved is a local variable
that ran ahead during the page loop. The inductive invariant `IInv` therefore
says what holds at each place of `pollOnce`: the locals start from the saved
position (`PositionInv`), everything due up to `at`, the ingest loop's place, has
its row (`ProgressInv`), and `at` has caught up with the new cursor at "save";
`SavedInv` is the same for the saved position. `BootInv` and `OriginInv` tie the
first tick to `origin`, in particular that the clamped start ledger never leaves
a gap after it. `RowsInv` adds to the order of rows that a row is never made
before an earlier due event has one, which is what the refinement needs: each
`Ingest` that appends is one `Record` step of `EventMirror`, `Seed` is `Settle`,
`CloseLedger` is `Grow`, and everything else stutters. Two further invariants are
relative to `IInv`. `HashInv` says that rows have different hashes, and that a due event
before a row's event has its hash in an earlier row; `KeepsFirstOfEach`
and `RowEachUnlessShared` follow. `SweptInv` is the converse of `ProgressInv`: until
the first fault, no row is ahead of the ingest loop's place or, outside a tick, of
the saved cursor. With `KeepsFirstOfEach` this gives `FaultlessTicksExact`: only
faults make a tick repeat another's work.

**`SessionHubProofs`.** `TypeCorrect`, `GraceFollowsLeaving`, `EndedOnce`,
`ChainDecides`, `NobodyForgotten`, `GraceBrokenByOldSocketOnly` and
`GraceForOneSocketEach`. The invariant adds two facts: a session's status is the chain's,
or COMPLETED by a settlement while the chain still has it ACTIVE
(`StatusExplained`); and a session that is ACTIVE owes one SESSION_ENDED less than
one that is not (`EndedAccounted`), so that the guard on ACTIVE pays for each.
`AbandonedSessionsInHand` is inductive by itself: an armed timer becomes an update,
an update that finds the session ACTIVE ends that, and only a replayed booking
makes it ACTIVE again. It is what is left of `AbandonedSessionsSettled` when
fairness is taken away. `AwayStep` goes through all actions to find the one that
breaks `GraceOnlyWhileAway`; that it cannot happen while wallets have one socket
each then needs temporal logic only.

**`EventListenerProofs`.** `TypeCorrect`, `PublishedComplete`, `NotifiedOnce`,
`SessionsMirror`, `ChainOrder`, `EachSteadySessionMirrored`, `MirrorWhenCallsSucceed`
and `OnePass`. `RowInv` says what is known of the current row at each await of
its handler, `PublishInv` that a row is complete where its publication and mark
are still to come, and that a marked row was published if its session's id is a
string (one that is not is never broadcast, see the hazard at
`eventListener.ts:475`), `NotifyInv` that a booking about to be announced has not been.
The hard one is `MirrorInv`. `SessionsMirrorLog` itself forgets which row a
session's status came from. The invariant keeps, for a session none of whose rows
had to be tried again, that its status is that of one of its rows, that this row
is not before any processed one, that rows are processed in order per session,
and that the row in the handler is the status's row once it has written it. A
crash between two awaits then only repeats the last row, and a settlement in the
other process changes what is shown for it (`Shown`) and not which row it is. The
same facts say that a handler about to write a status is at the oldest unprocessed
row of its session, which is `ChainOrder`.
`WalkInv` is for `OnePass`: the rows the walk has passed are processed or were out of
place. It needs that a handler which throws though no call failed had a malformed
payload or no session row (`ThrownOutOfPlace`), and at the end of the pass that the
oldest unprocessed row would have been upcoming (`NothingUpcoming`). A row whose call
fails enters `failed`: it is out of place from then on, and sets back no session but
its own (`FaultMirror`). `NothingUpcoming` is an induction; `Least` gets it from the
library's theorem that strict inclusion of finite sets is well-founded, which has no
operator parameter.

**`ReviewsProofs`.** `TypeCorrect`, `OneAccepted`, `OwnReviews`, `CacheExact`,
`UpToDateUnlessRaced` and `UpToDateOneByOne`. A
call past its `Create` has its review in the table (`StoredInv`) and shares the
session with no other (`OneEachInv`); an aggregate holds all reviews of its expert
unless it was overtaken (`AggregateInv`); what a cached rating lacks belongs to a
call that failed or is on its way (`MissingInv`). `FailedInv` adds that there are
orphaned reviews only if a call has failed, so that with none failed nothing is
missing.

**`SessionBusProofs`.** `TypeCorrect`, `NoLostWakeUp`, `ExactlyOnce`,
`ImplementsFeed` and `RoomsHearTheApi`. The stream of an iterator's subscriber in `SessionFeed` is what
its consumer was given followed by its queue, and so a message handed to a waiting
consumer and one that is queued are the same step there. That is only right if a
waiting consumer's queue is empty, which is `NobodyWaitsInVain`. What everybody
received follows from the steps of `SessionFeed` alone: the audience of each message
without those who were cut off. That those miss nothing but PEER_DISCONNECTED is
`OnlyPeersMissed`: outcomes are published when the process is `Idle`, and a hub that
has stopped to listen then has nobody in its rooms. `ExactlyOnce` is the two
together, and `RoomsHearTheApi` follows from it.

**`NotificationsProofs`.** `TypeCorrect`, `TimedWaits` and `TrueReports`. The
invariant relates each channel's outcome to what its server did (`ChannelInv`) and
the answer to all outcomes (`AnswerInv`): an accepted outcome is stable, a timed out
one says nothing of the server.

**`ExpertDirectoryProofs`.** `TypeCorrect`, `OneEach`, `RegistrationKept`,
`RightExpert` and `ListsAll`. The wallet's key makes it one profile each; that an
expert of the chain has one needs `BookingInv`: while a handler is between its
lookup and its upsert, nobody else makes a row with the chain's id, since only
bookings do and they are handled one at a time. `OriginInv` says that such a row
belongs to the address of a booking of that expert, which is what a later lookup
by id relies on. `ListingInv` follows the list as it shifts: whatever of the rows
present at the start is certainly in front of the client's offset, and shares its
`createdAt` with nobody, has been shown. A row without a tie has one place in the
list whatever order the database chooses (`PlaceInList`), which a new row moves one
further back, and so no page gets past it without showing it. A row that has no tie
in the end never had one. Rows that share a
millisecond have no place of their own, and the theorem says nothing of them.

Only model-checked: the liveness properties (`EveryEventIngested`,
`SoundRowsProcessed`, `AbandonedSessionsSettled`, `EveryMessageConsumed`,
`NotificationsEnd`): the prover has no rules for fairness and ENABLED. What each
rests on besides fairness is a safety property, and these are theorems: no event is
passed over (`NoGap`, `ExactBetweenTicks`), one pass is enough (`OnePassSuffices`), a
session that was left is in somebody's hands (`AbandonedSessionsInHand`), nobody
waits for what is there (`NobodyWaitsInVain`), and every wait is under a timer
(`WaitsAreTimed`).

The five claims of section 3 are not theorems, being false; what is proved of them
is listed there.

## 5. Not modelled

* Formatting and parsing (XDR, embeds, strkeys), logging, HTTP and GraphQL
  plumbing, migrations, pool settings.
* Wallet authentication: a pure function over signatures. Its outcome is an input.
* The surge multiplier: two counts, three bands and a cache whose only promise is
  its age. Its hazard is listed.
* The GraphQL queries that are a single read, and the filters of `experts`.
* How `indexer.ts` reads its environment and connects to the database before the
  loop starts.
* The unique-violation branch of `ingestEvent`, which needs a second writer; the
  deployment has one indexer.
* RPC servers whose answers have no cursor, see the hazard at
  `sorobanIndexer.ts:403`.
* `EventLog.createdAt` is taken to order rows as they were created; ties within a
  millisecond are a listed hazard. For `Expert.createdAt` ties are modelled; that the
  clock of the database goes back is not.
* Deletion of rows: no code deletes any.

`ExpertDirectory` has one behaviour that no property forbids: an
`EXPERT_REGISTERED` event without a name replaces a registered expert's name by
"Unknown". The code says so in so many words, and nothing in the repository says
otherwise.

## 6. What could come next

A composition of `EventListener`, `SessionBus` and `SessionHub` in which the
processor's own publications feed the bus; today each module lets the others do
whatever they may, and `StatusesInChainOrder` is the only assumption of one that is
a theorem of another. The poller with `EventListener`: sessions that mirror the
chain itself and not only `EventLog`. Ties of `createdAt` in `EventListener`. A poller against servers
without cursors.
