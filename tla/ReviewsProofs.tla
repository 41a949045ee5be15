--------------------------- MODULE ReviewsProofs ---------------------------
(***************************************************************************)
(* The safety properties of Reviews, for any calls, sessions and experts.  *)
(* A review in the table has one call behind it, which is either still to  *)
(* aggregate it, or has failed, or has had it counted; and an aggregate    *)
(* that no review overtook is complete.                                    *)
(***************************************************************************)
EXTENDS Reviews, TLAPS

\* The calls whose review is in the table and which have not failed.
Written == {"created", "aggregated", "accepted"}

\* Their reviews are theirs.
StoredInv ==
    \A c \in Calls : pc[c] \in Written =>
        [session |-> session[c], rating |-> rating[c]] \in reviews

\* No two of them are of one session.
OneEachInv ==
    \A c, d \in Calls :
        pc[c] \in Written /\ pc[d] \in Written /\ c # d => session[c] # session[d]

\* An aggregate has reviews of its expert only, and all unless overtaken.
AggregateInv ==
    \A c \in Calls : pc[c] = "aggregated" =>
        /\ aggregate[c] \subseteq ReviewsOf(Expert(c))
        /\ Expert(c) \in raced \/ ReviewsOf(Expert(c)) \subseteq aggregate[c]

\* What a cached rating lacks has failed or is on its way.
MissingInv ==
    \A e \in Experts \ raced : \A r \in ReviewsOf(e) \ cached[e] :
        \/ r.session \in orphaned
        \/ \E c \in Calls : pc[c] \in {"created", "aggregated"} /\ session[c] = r.session

IInv ==
    /\ TypeOK /\ StoredInv /\ OneEachInv
    /\ AggregateInv /\ OwnReviewsCounted /\ MissingInv

LEMMA InitInv == Init => IInv
<1> SUFFICES ASSUME Init PROVE IInv
  OBVIOUS
<1>1. TypeOK
  BY RatingsAssumption DEF Init, TypeOK, InFlight
<1>2. StoredInv /\ OneEachInv /\ AggregateInv /\ OwnReviewsCounted /\ MissingInv
  BY DEF Init, StoredInv, OneEachInv, AggregateInv, OwnReviewsCounted, MissingInv,
         Written, ReviewsOf
<1> QED
  BY <1>1, <1>2 DEF IInv

LEMMA SubmitInv ==
    ASSUME IInv, NEW c \in Calls, NEW s \in Sessions \cup {Unknown},
           NEW w \in Wallets \cup {NoWallet}, NEW n \in Ratings, Submit(c, s, w, n)
    PROVE  IInv'
<1> USE DEF IInv, Submit
<1>1. TypeOK'
  BY DEF TypeOK, Entitled, InFlight
<1>2. \A d \in Calls : pc'[d] \in Written => d # c
  BY DEF TypeOK, Written
<1>3. \A d \in Calls : d # c => pc'[d] = pc[d] /\ session'[d] = session[d]
                                /\ rating'[d] = rating[d]
  BY DEF TypeOK
<1>4. UNCHANGED <<aggregate, reviews, cached, orphaned, raced>>
  OBVIOUS
<1>5. StoredInv' /\ OneEachInv'
  BY <1>2, <1>3, <1>4 DEF StoredInv, OneEachInv
<1>6. AggregateInv'
  BY <1>2, <1>3, <1>4 DEF AggregateInv, Expert, ReviewsOf, Written
<1>7. MissingInv' /\ OwnReviewsCounted'
  <2>1. \A d \in Calls : pc[d] \in {"created", "aggregated"} => d # c
    OBVIOUS
  <2> QED
    BY <2>1, <1>3, <1>4 DEF MissingInv, OwnReviewsCounted, ReviewsOf
<1> QED
  BY <1>1, <1>5, <1>6, <1>7

LEMMA CreateInv == ASSUME IInv, NEW c \in Calls, Create(c) PROVE IInv'
<1> USE DEF IInv, Create
<1>1. CASE Reviewed(session[c])
  <2>1. UNCHANGED <<session, rating, aggregate, reviews, cached, orphaned, raced>>
    BY <1>1
  <2>2. pc' = [pc EXCEPT ![c] = "refused"] /\ pc[c] = "checked"
    BY <1>1
  <2>3. TypeOK'
    BY <2>1, <2>2 DEF TypeOK, InFlight
  <2>4. StoredInv' /\ OneEachInv'
    BY <2>1, <2>2 DEF StoredInv, OneEachInv, Written, TypeOK
  <2>5. AggregateInv'
    BY <2>1, <2>2 DEF AggregateInv, Expert, ReviewsOf, TypeOK
  <2>6. MissingInv' /\ OwnReviewsCounted'
    BY <2>1, <2>2 DEF MissingInv, OwnReviewsCounted, ReviewsOf, TypeOK
  <2> QED
    BY <2>3, <2>4, <2>5, <2>6
<1>2. CASE ~ Reviewed(session[c])
  <2> DEFINE new == [session |-> session[c], rating |-> rating[c]]
  <2>1. pc[c] = "checked" /\ pc' = [pc EXCEPT ![c] = "created"]
    BY <1>2
  <2>2. UNCHANGED <<session, rating, aggregate, cached, orphaned>>
    OBVIOUS
  <2>3. reviews' = reviews \cup {new}
    BY <1>2
  <2>4. raced' = raced \cup {e \in {Expert(c)} :
                    \E d \in Calls : pc[d] = "aggregated" /\ Expert(d) = e}
    BY <1>2
  <2>5. session[c] \in Sessions /\ new \in Review
    BY <2>1 DEF TypeOK, InFlight, Review
  <2>6. Expert(c) \in Experts
    BY <2>5, SessionsAssumption DEF Expert
  <2>7. TypeOK'
    BY <2>1, <2>2, <2>3, <2>4, <2>5, <2>6 DEF TypeOK, InFlight
  <2>8. StoredInv'
    BY <2>1, <2>2, <2>3 DEF StoredInv, Written, TypeOK
  <2>9. OneEachInv'
    <3>1. \A d \in Calls : pc[d] \in Written => session[d] # session[c]
      BY <1>2 DEF StoredInv, Reviewed
    <3> QED
      BY <2>1, <2>2, <3>1 DEF OneEachInv, Written, TypeOK
  <2>10. AggregateInv'
    <3> SUFFICES ASSUME NEW d \in Calls, pc'[d] = "aggregated"
                 PROVE  /\ aggregate'[d] \subseteq ReviewsOf(Expert(d))'
                        /\ Expert(d)' \in raced'
                             \/ ReviewsOf(Expert(d))' \subseteq aggregate'[d]
      BY DEF AggregateInv
    <3>1. pc[d] = "aggregated" /\ d # c
      BY <2>1 DEF TypeOK
    <3>2. Expert(d)' = Expert(d)
      BY <2>2 DEF Expert
    <3>3. ReviewsOf(Expert(d)) \subseteq ReviewsOf(Expert(d))'
      BY <2>3, <3>2 DEF ReviewsOf
    <3>4. CASE Expert(d) = Expert(c)
      BY <2>2, <2>4, <3>1, <3>2, <3>3, <3>4 DEF AggregateInv
    <3>5. CASE Expert(d) # Expert(c)
      <4>1. ReviewsOf(Expert(d))' = ReviewsOf(Expert(d))
        BY <2>3, <3>2, <3>5 DEF ReviewsOf, Expert
      <4> QED
        BY <2>2, <2>4, <3>1, <3>2, <4>1 DEF AggregateInv
    <3> QED
      BY <3>4, <3>5
  <2>11. OwnReviewsCounted'
    BY <2>2 DEF OwnReviewsCounted
  <2>12. MissingInv'
    <3> SUFFICES ASSUME NEW e \in Experts \ raced', NEW r \in ReviewsOf(e)' \ cached'[e]
                 PROVE  \/ r.session \in orphaned'
                        \/ \E d \in Calls : /\ pc'[d] \in {"created", "aggregated"}
                                            /\ session'[d] = r.session
      BY DEF MissingInv
    <3>1. CASE r = new
      BY <2>1, <2>2, <3>1 DEF TypeOK
    <3>2. CASE r # new
      <4>1. r \in ReviewsOf(e) \ cached[e] /\ e \in Experts \ raced
        BY <2>2, <2>3, <2>4, <3>2 DEF ReviewsOf
      <4>2. \/ r.session \in orphaned
            \/ \E d \in Calls : pc[d] \in {"created", "aggregated"}
                                /\ session[d] = r.session
        BY <4>1 DEF MissingInv
      <4> QED
        BY <2>1, <2>2, <4>2 DEF TypeOK
    <3> QED
      BY <3>1, <3>2
  <2> QED
    BY <2>7, <2>8, <2>9, <2>10, <2>11, <2>12
<1> QED
  BY <1>1, <1>2

LEMMA AggregateStepInv == ASSUME IInv, NEW c \in Calls, Aggregate(c) PROVE IInv'
<1> USE DEF IInv, Aggregate
<1>1. session[c] \in Sessions
  BY DEF TypeOK, InFlight
<1>2. TypeOK'
  BY <1>1 DEF TypeOK, InFlight, ReviewsOf
<1>3. StoredInv' /\ OneEachInv'
  BY DEF StoredInv, OneEachInv, Written, TypeOK
<1>4. AggregateInv'
  <2> SUFFICES ASSUME NEW d \in Calls, pc'[d] = "aggregated"
               PROVE  /\ aggregate'[d] \subseteq ReviewsOf(Expert(d))
                      /\ Expert(d) \in raced \/ ReviewsOf(Expert(d)) \subseteq aggregate'[d]
    BY DEF AggregateInv, Expert, ReviewsOf
  <2>1. CASE d = c
    BY <2>1 DEF TypeOK
  <2>2. CASE d # c
    BY <2>2 DEF AggregateInv, TypeOK
  <2> QED
    BY <2>1, <2>2
<1>5. OwnReviewsCounted'
  BY DEF OwnReviewsCounted
<1>6. MissingInv'
  BY DEF MissingInv, ReviewsOf, TypeOK
<1> QED
  BY <1>2, <1>3, <1>4, <1>5, <1>6

LEMMA UpdateInv == ASSUME IInv, NEW c \in Calls, UpdateExpert(c) PROVE IInv'
<1> USE DEF IInv, UpdateExpert
<1>1. session[c] \in Sessions /\ Expert(c) \in Experts
  BY SessionsAssumption DEF TypeOK, InFlight, Expert
<1>2. TypeOK'
  BY <1>1 DEF TypeOK, InFlight
<1>3. StoredInv' /\ OneEachInv'
  BY DEF StoredInv, OneEachInv, Written, TypeOK
<1>4. AggregateInv'
  BY DEF AggregateInv, Expert, ReviewsOf, TypeOK
<1>5. OwnReviewsCounted'
  BY <1>1 DEF OwnReviewsCounted, AggregateInv, ReviewsOf, TypeOK
<1>6. MissingInv'
  <2> SUFFICES ASSUME NEW e \in Experts \ raced, NEW r \in ReviewsOf(e) \ cached'[e]
               PROVE  \/ r.session \in orphaned
                      \/ \E d \in Calls : /\ pc'[d] \in {"created", "aggregated"}
                                          /\ session[d] = r.session
    BY DEF MissingInv, ReviewsOf
  <2>1. e # Expert(c)
    BY <1>1 DEF AggregateInv, TypeOK
  <2>2. r \in ReviewsOf(e) \ cached[e]
    BY <2>1, <1>1 DEF TypeOK
  <2>3. r.session # session[c]
    BY <2>1 DEF ReviewsOf, Expert
  <2>4. \/ r.session \in orphaned
        \/ \E d \in Calls : pc[d] \in {"created", "aggregated"} /\ session[d] = r.session
    BY <2>2 DEF MissingInv
  <2> QED
    BY <2>3, <2>4 DEF TypeOK
<1> QED
  BY <1>2, <1>3, <1>4, <1>5, <1>6

LEMMA FailInv == ASSUME IInv, NEW cs \in SUBSET Calls, Fail(cs) PROVE IInv'
<1> USE DEF IInv, Fail
<1>1. Orphans(cs) \subseteq Sessions
  BY DEF Orphans, TypeOK, InFlight
<1>2. TypeOK'
  BY <1>1, RatingsAssumption DEF TypeOK, InFlight
<1>3. \A d \in Calls : pc'[d] # "failed" => pc'[d] = pc[d]
  BY DEF TypeOK
<1>4. StoredInv' /\ OneEachInv'
  BY <1>3 DEF StoredInv, OneEachInv, Written
<1>5. AggregateInv'
  BY <1>3 DEF AggregateInv, Expert, ReviewsOf
<1>6. OwnReviewsCounted'
  BY DEF OwnReviewsCounted
<1>7. MissingInv'
  <2>1. \A d \in Calls : pc[d] \in {"created", "aggregated"} =>
            pc'[d] = pc[d] \/ session[d] \in orphaned'
    BY DEF Orphans, TypeOK
  <2> QED
    BY <2>1 DEF MissingInv, ReviewsOf
<1> QED
  BY <1>2, <1>4, <1>5, <1>6, <1>7

LEMMA StepInv == IInv /\ [Next]_vars => IInv'
<1> SUFFICES ASSUME IInv, [Next]_vars PROVE IInv'
  OBVIOUS
<1>1. ASSUME NEW c \in Calls, NEW s \in Sessions \cup {Unknown},
             NEW w \in Wallets \cup {NoWallet}, NEW n \in Ratings, Submit(c, s, w, n)
      PROVE  IInv'
  BY <1>1, SubmitInv
<1>2. ASSUME NEW c \in Calls, Create(c) PROVE IInv'
  BY <1>2, CreateInv
<1>3. ASSUME NEW c \in Calls, Aggregate(c) PROVE IInv'
  BY <1>3, AggregateStepInv
<1>4. ASSUME NEW c \in Calls, UpdateExpert(c) PROVE IInv'
  BY <1>4, UpdateInv
<1>5. ASSUME NEW c \in Calls, DatabaseThrows(c) PROVE IInv'
  BY <1>5, FailInv DEF DatabaseThrows
<1>6. CASE Crash
  BY <1>6, FailInv DEF Crash
<1>7. CASE UNCHANGED vars
  BY <1>7 DEF vars, call, IInv, TypeOK, StoredInv, OneEachInv, AggregateInv,
              OwnReviewsCounted, MissingInv, Expert, ReviewsOf
<1> QED
  BY <1>1, <1>2, <1>3, <1>4, <1>5, <1>6, <1>7 DEF Next

\* What the theorems below rest on.
THEOREM Invariant == Spec => []IInv
BY InitInv, StepInv, PTL DEF Spec

\* The calls of submitReview, the reviews and the experts are well typed, and
\* cached ratings are of reviews that are there.
THEOREM TypeCorrect == Spec => []TypeOK
BY Invariant, PTL DEF IInv

\* Of any number of submitReview calls for one session at most one is accepted,
\* and its review is the one that is stored.
THEOREM OneAccepted == Spec => []OneAcceptedPerSession
<1>1. IInv => OneAcceptedPerSession
  BY DEF IInv, StoredInv, OneEachInv, Written, OneAcceptedPerSession
<1> QED
  BY <1>1, Invariant, PTL

\* No expert's cached rating counts a review of another expert.
THEOREM OwnReviews == Spec => []OwnReviewsCounted
BY Invariant, PTL DEF IInv

\* Away from submitReview's race between aggregate and update, and from calls
\* that failed in between, the cached rating counts every review.
THEOREM CacheExact == Spec => []CacheExactUnlessRaced
<1>1. ASSUME IInv PROVE CacheExactUnlessRaced
  <2> SUFFICES ASSUME NEW e \in Experts \ raced,
                      \A c \in Calls : pc[c] \in InFlight => Expert(c) # e,
                      NEW r \in reviews \ cached[e], ExpertOf[r.session] = e
               PROVE  r.session \in orphaned
    BY DEF CacheExactUnlessRaced
  <2>1. r \in ReviewsOf(e) \ cached[e]
    BY DEF ReviewsOf
  <2>2. \A c \in Calls : pc[c] \in {"created", "aggregated"} => session[c] # r.session
    BY DEF InFlight, Expert
  <2> QED
    BY <1>1, <2>1, <2>2 DEF IInv, MissingInv
<1> QED
  BY <1>1, Invariant, PTL

\* A review whose call did not finish has a call that failed.
FailedInv == orphaned # {} => \E c \in Calls : pc[c] = "failed"

LEMMA FailedStep == TypeOK /\ FailedInv /\ [Next]_vars => FailedInv'
<1> SUFFICES ASSUME TypeOK, FailedInv, [Next]_vars PROVE FailedInv'
  OBVIOUS
<1>1. ASSUME NEW c \in Calls, pc[c] = "failed" PROVE pc'[c] = "failed"
  BY <1>1 DEF TypeOK, Next, Submit, Create, Aggregate, UpdateExpert, DatabaseThrows, Crash,
              Fail, InFlight, vars, call
<1>2. CASE UNCHANGED orphaned
  BY <1>1, <1>2 DEF FailedInv
<1>3. ASSUME NEW cs \in SUBSET Calls, Fail(cs) PROVE FailedInv'
  <2>1. CASE Orphans(cs) = {}
    BY <1>2, <1>3, <2>1 DEF Fail
  <2>2. ASSUME NEW c \in cs, pc[c] \in {"created", "aggregated"} PROVE pc'[c] = "failed"
    BY <1>3, <2>2 DEF Fail, InFlight
  <2> QED
    BY <2>1, <2>2 DEF FailedInv, Orphans
<1> QED
  BY <1>2, <1>3 DEF Next, Submit, Create, Aggregate, UpdateExpert, DatabaseThrows, Crash, vars

\* schema.prisma's claim, with the one exception it needs: where no submitReview
\* creates a review between another call's aggregate and update for the same
\* expert, calls that succeed leave every cached rating complete.
THEOREM UpToDateUnlessRaced == Spec => [](raced = {} => CacheUpToDate)
<1>1. Init => FailedInv
  BY DEF Init, FailedInv
<1>2. ASSUME IInv, FailedInv, raced = {} PROVE CacheUpToDate
  <2> SUFFICES ASSUME \A c \in Calls : pc[c] \notin InFlight \cup {"failed"},
                      NEW r \in reviews
               PROVE  r \in cached[ExpertOf[r.session]]
    BY DEF CacheUpToDate
  <2>1. ExpertOf[r.session] \in Experts
    BY <1>2, SessionsAssumption DEF IInv, TypeOK, Review
  <2>2. r \in ReviewsOf(ExpertOf[r.session])
    BY DEF ReviewsOf
  <2>3. orphaned = {} /\ \A c \in Calls : pc[c] \notin {"created", "aggregated"}
    BY <1>2 DEF FailedInv, InFlight
  <2> QED
    BY <1>2, <2>1, <2>2, <2>3 DEF IInv, MissingInv
<1>3. TypeOK /\ FailedInv /\ [Next]_vars => FailedInv'
  BY FailedStep
<1> QED
  BY <1>1, <1>2, <1>3, Invariant, TypeCorrect, PTL DEF Spec

\* At any time at most one call per expert is under way.
OneCallEach ==
    \A c, d \in Calls :
        pc[c] \in InFlight /\ pc[d] \in InFlight /\ Expert(c) = Expert(d) => c = d

\* Calls that come one after the other never overtake each other's aggregate, and
\* so keep the cached rating up to date: two calls of one expert that overlap are
\* the only way to what the run of CacheUpToDate shows.
THEOREM UpToDateOneByOne == Spec /\ []OneCallEach => []CacheUpToDate
<1>1. Init => raced = {}
  BY DEF Init
<1>2. OneCallEach /\ raced = {} /\ [Next]_vars => (raced = {})'
  <2> SUFFICES ASSUME OneCallEach, raced = {}, [Next]_vars PROVE raced' = {}
    OBVIOUS
  <2>1. ASSUME NEW c \in Calls, Create(c) PROVE raced' = {}
    <3>1. ~ \E d \in Calls : pc[d] = "aggregated" /\ Expert(d) = Expert(c)
      BY <2>1 DEF Create, OneCallEach, InFlight
    <3> QED
      BY <2>1, <3>1 DEF Create
  <2>2. CASE ~ \E c \in Calls : Create(c)
    BY <2>2 DEF Next, Submit, Aggregate, UpdateExpert, DatabaseThrows, Crash, Fail, vars
  <2> QED
    BY <2>1, <2>2
<1> QED
  BY <1>1, <1>2, UpToDateUnlessRaced, PTL DEF Spec
=============================================================================
