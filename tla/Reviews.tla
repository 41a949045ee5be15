------------------------------- MODULE Reviews -------------------------------
(***************************************************************************)
(* The submitReview mutation (src/backend/src/resolvers.ts).  A call looks *)
(* the session up, creates the review, reads the aggregate of the expert's *)
(* reviews and writes it to the expert's row, where it is cached as rating *)
(* and reviewCount.  The four database calls are not a transaction: calls  *)
(* interleave between them, any of them may throw, and the process may die *)
(* there.                                                                  *)
(*                                                                         *)
(* Abstractions.  A review is its session and rating.  An aggregate is the *)
(* set of reviews it was computed from: reviews are never deleted, so that *)
(* two different sets an expert had also differ in reviewCount.            *)
(***************************************************************************)
EXTENDS Naturals, FiniteSets

CONSTANTS
    Calls, Wallets, Sessions, Experts,
    NoWallet,              \* a request without a valid signature
    Seeker, ExpertOf,      \* Session.seekerAddress, Session.expertId
    Unknown,               \* a session identifier without a row
    Ratings,               \* ratings clients send
    MaxFaults              \* bound of the instance

ASSUME SessionsAssumption ==
    /\ Seeker \in [Sessions -> Wallets] /\ ExpertOf \in [Sessions -> Experts]
    /\ NoWallet \notin Wallets /\ Unknown \notin Sessions

ASSUME RatingsAssumption == Ratings \subseteq Nat /\ MaxFaults \in Nat

VARIABLES
    pc,          \* how far each call is
    session,     \* the session of each call
    rating,      \* and its rating
    aggregate,   \* the reviews each call aggregated
    reviews,     \* Review
    cached,      \* the reviews behind each expert's rating and reviewCount
    orphaned,    \* history: reviewed sessions whose call failed before its end
    raced,       \* history: experts who got a review between the aggregate and
                 \* the update of another call
    faults       \* faults so far (bounded)

call == <<pc, session, rating, aggregate>>
vars == <<call, reviews, cached, orphaned, raced, faults>>

Review == [session : Sessions, rating : 1..5]

InFlight == {"checked", "created", "aggregated"}

Init ==
    /\ pc = [c \in Calls |-> "idle"]
    /\ session = [c \in Calls |-> Unknown]
    /\ rating = [c \in Calls |-> 0]
    /\ aggregate = [c \in Calls |-> {}]
    /\ reviews = {} /\ cached = [e \in Experts |-> {}]
    /\ orphaned = {} /\ raced = {} /\ faults = 0

-----------------------------------------------------------------------------

\* Seeded fault: nobody looks for an earlier review.
NeverReviewed(s) == FALSE

\* Review.sessionId: the lookup's include, and the unique index of the insert.
Reviewed(s) == \E r \in reviews : r.session = s

\* Seeded fault: a session that is not there has no seeker to compare with.
EntitledToUnknown(s, w) == s \in Sessions => w = Seeker[s]

\* Who may review the session, by its row.
Entitled(s, w) == s \in Sessions /\ w = Seeker[s]

\* A request: the checks, up to what the lookup finds.
Submit(c, s, w, n) ==
    /\ pc[c] = "idle"
    /\ IF w # NoWallet /\ n \in 1..5 /\ Entitled(s, w) /\ ~ Reviewed(s)
       THEN /\ pc' = [pc EXCEPT ![c] = "checked"]
            /\ session' = [session EXCEPT ![c] = s]
            /\ rating' = [rating EXCEPT ![c] = n]
       ELSE /\ pc' = [pc EXCEPT ![c] = "refused"]
            /\ UNCHANGED <<session, rating>>
    /\ UNCHANGED <<aggregate, reviews, cached, orphaned, raced, faults>>

\* The expert whose cached rating the call is to refresh.
Expert(c) == ExpertOf[session[c]]

\* review.create: the unique index refuses a second review of a session.
Create(c) ==
    /\ pc[c] = "checked"
    /\ IF Reviewed(session[c])
       THEN /\ pc' = [pc EXCEPT ![c] = "refused"]
            /\ UNCHANGED <<reviews, raced>>
       ELSE /\ pc' = [pc EXCEPT ![c] = "created"]
            /\ reviews' = reviews \cup {[session |-> session[c], rating |-> rating[c]]}
            /\ raced' = raced \cup {e \in {Expert(c)} :
                            \E d \in Calls : pc[d] = "aggregated" /\ Expert(d) = e}
    /\ UNCHANGED <<session, rating, aggregate, cached, orphaned, faults>>

\* Seeded fault: the aggregate is not restricted to the expert.
EveryReview(e) == reviews

\* Seeded fault: only the reviews that the cached rating already counts.
Known(e) == cached[e]

\* review.aggregate({ where: { expertId } }).
ReviewsOf(e) == {r \in reviews : ExpertOf[r.session] = e}

Aggregate(c) ==
    /\ pc[c] = "created"
    /\ pc' = [pc EXCEPT ![c] = "aggregated"]
    /\ aggregate' = [aggregate EXCEPT ![c] = ReviewsOf(Expert(c))]
    /\ UNCHANGED <<session, rating, reviews, cached, orphaned, raced, faults>>

\* expert.update, and the answer.
UpdateExpert(c) ==
    /\ pc[c] = "aggregated"
    /\ pc' = [pc EXCEPT ![c] = "accepted"]
    /\ cached' = [cached EXCEPT ![Expert(c)] = aggregate[c]]
    /\ UNCHANGED <<session, rating, aggregate, reviews, orphaned, raced, faults>>

\* The sessions of calls that fail with their review in the table.
Orphans(cs) == {session[c] : c \in {d \in cs : pc[d] \in {"created", "aggregated"}}}

\* The calls fail where they are: nothing is undone.
Fail(cs) ==
    /\ faults < MaxFaults
    /\ faults' = faults + 1
    /\ pc' = [c \in Calls |-> IF c \in cs /\ pc[c] \in InFlight THEN "failed" ELSE pc[c]]
    /\ orphaned' = orphaned \cup Orphans(cs)
    /\ UNCHANGED <<session, rating, aggregate, reviews, cached, raced>>

\* A database call throws, and the catch answers.  An insert that took effect
\* before its answer was lost is Create followed by this step.
DatabaseThrows(c) == pc[c] \in InFlight /\ Fail({c})

\* The API process dies.
Crash == Fail(Calls)

Next ==
    \/ \E c \in Calls, s \in Sessions \cup {Unknown}, w \in Wallets \cup {NoWallet},
          n \in Ratings : Submit(c, s, w, n)
    \/ \E c \in Calls :
          Create(c) \/ Aggregate(c) \/ UpdateExpert(c) \/ DatabaseThrows(c)
    \/ Crash

Spec == Init /\ [][Next]_vars

-----------------------------------------------------------------------------
(* Properties *)

\* Every variable keeps its type.
TypeOK ==
    /\ pc \in [Calls -> InFlight \cup {"idle", "accepted", "refused", "failed"}]
    /\ session \in [Calls -> Sessions \cup {Unknown}]
    /\ rating \in [Calls -> 0..5]
    /\ \A c \in Calls : pc[c] \in InFlight => session[c] \in Sessions /\ rating[c] \in 1..5
    /\ reviews \in SUBSET Review
    /\ aggregate \in [Calls -> SUBSET reviews]
    /\ cached \in [Experts -> SUBSET reviews]
    /\ orphaned \subseteq Sessions /\ raced \subseteq Experts
    /\ faults \in 0..MaxFaults

\* However many calls passed the lookup of the same session at the same time,
\* at most one of them is accepted, and its review, not another's, is stored.
OneAcceptedPerSession ==
    \A c, d \in Calls :
        pc[c] = "accepted" =>
            /\ [session |-> session[c], rating |-> rating[c]] \in reviews
            /\ pc[d] = "accepted" /\ d # c => session[d] # session[c]

\* An expert's cached rating never counts another expert's review.
OwnReviewsCounted ==
    \A e \in Experts : \A r \in cached[e] : ExpertOf[r.session] = e

\* When no call is under way for an expert, the cached rating lacks only
\* reviews of calls that failed halfway, unless a review came between another
\* call's aggregate and update.
CacheExactUnlessRaced ==
    \A e \in Experts \ raced :
        (\A c \in Calls : pc[c] \in InFlight => Expert(c) # e) =>
            \A r \in reviews \ cached[e] :
                ExpertOf[r.session] = e => r.session \in orphaned

\* What schema.prisma says of Expert.rating: "Cached average rating, updated
\* on each new Review".  Calls that all succeed leave it complete.
CacheUpToDate ==
    (\A c \in Calls : pc[c] \notin InFlight \cup {"failed"}) =>
        \A r \in reviews : r \in cached[ExpertOf[r.session]]
=============================================================================
