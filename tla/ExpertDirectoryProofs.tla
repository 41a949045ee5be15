----------------------- MODULE ExpertDirectoryProofs -----------------------
(***************************************************************************)
(* The safety properties of ExpertDirectory, for any wallets, calls,       *)
(* bookings and limits.  Rows are only ever added, each by somebody who    *)
(* saw that its owner has none, and keep their owner and id.               *)
(***************************************************************************)
EXTENDS ExpertDirectory, SequenceTheorems, FiniteSetTheorems, TLAPS

Ids == {Cuid} \cup {ExpertId[b] : b \in Bookings}
Owners == Wallets \cup {DefaultWallet}
Names == {"given", "Unknown", "Indexed Expert"}
Rests == {"blank", "edited"} \cup Calls
Profile == [id : Ids, owner : Owners, name : Names, rest : Rests, createdAt : Nat]

\* All bookings of the expert of b agree on the address.
Agreed(b) == \A d \in Bookings : ExpertId[d] = ExpertId[b] => Address[d] = Address[b]

\* A row with an expertId of the chain came from a booking of it, by the
\* booking's address.
OriginInv ==
    \A r \in DOMAIN experts : experts[r].id # Cuid =>
        \E b \in Bookings : experts[r].id = ExpertId[b] /\ experts[r].owner = Address[b]

\* What the handler of a booking knows.
BookingInv ==
    /\ booking # None /\ final = 0 =>
          \A r \in DOMAIN experts : experts[r].id # ExpertId[booking]
    /\ booking # None /\ final # 0 =>
          (Agreed(booking) => experts[final].owner = Address[booking])

\* The client has been shown every row, of those there were when it began and
\* have their createdAt to themselves, that is in front of its offset.
ListingInv ==
    /\ listing = "no" => offset = 0
    /\ \A r \in 1..present : Untied(r) /\ Len(experts) + 1 - r <= offset => r \in seen
    /\ ListingComplete

IInv ==
    /\ TypeOK /\ OneProfile /\ RegistrationsStand /\ SessionsOfTheirExpert
    /\ OriginInv /\ BookingInv /\ ListingInv

LEMMA InitInv == Init => IInv
<1> SUFFICES ASSUME Init PROVE IInv
  OBVIOUS
<1>1. experts \in Seq(Profile) /\ Len(experts) = 0 /\ DOMAIN experts = {}
  BY DEF Init
<1>2. TypeOK
  BY <1>1, LimitsAssumption DEF Init, TypeOK, InOrder, Profile, Ids, Owners, Names, Rests
<1>3. OneProfile /\ OriginInv
  BY <1>1 DEF OneProfile, OriginInv
<1>4. RegistrationsStand /\ SessionsOfTheirExpert
  BY DEF Init, RegistrationsStand, SessionsOfTheirExpert
<1>5. BookingInv /\ ListingInv
  BY DEF Init, BookingInv, ListingInv, ListingComplete
<1> QED
  BY <1>2, <1>3, <1>4, <1>5 DEF IInv

-----------------------------------------------------------------------------
(* Steps of the table *)

\* The rows there were keep what identifies them, and their createdAt.
Kept ==
    /\ experts' \in Seq(Profile) /\ Len(experts) <= Len(experts') /\ InOrder'
    /\ \A r \in DOMAIN experts : /\ r \in DOMAIN experts'
                                 /\ experts'[r].id = experts[r].id
                                 /\ experts'[r].owner = experts[r].owner
                                 /\ experts'[r].createdAt = experts[r].createdAt

\* No row is a registration's or an edited one without staying so.
Stands ==
    \A r \in DOMAIN experts :
        /\ experts[r].name # "Indexed Expert" => experts'[r].name # "Indexed Expert"
        /\ experts'[r].rest \in {experts[r].rest, "edited"}

LEMMA Rows ==
    ASSUME TypeOK
    PROVE  /\ experts \in Seq(Profile) /\ Len(experts) \in Nat
           /\ DOMAIN experts = 1..Len(experts) /\ InOrder
<1>1. experts \in Seq(Profile) /\ InOrder
  BY Zenon DEF TypeOK, Profile, Ids, Owners, Names, Rests
<1> QED
  BY <1>1, LenProperties

\* A new row is not older than any row.
LEMMA NewestLast ==
    ASSUME TypeOK, NEW time \in Moments
    PROVE  time \in Nat /\ \A r \in DOMAIN experts : experts[r].createdAt <= time
<1>1. experts \in Seq(Profile) /\ Len(experts) \in Nat /\ DOMAIN experts = 1..Len(experts)
      /\ InOrder
  BY Rows
<1>2. CASE experts = << >>
  BY <1>2 DEF Moments
<1>3. CASE experts # << >>
  <2>1. Len(experts) \in DOMAIN experts
    BY <1>1, <1>3, EmptySeq
  <2>2. \A r \in DOMAIN experts : experts[r] \in Profile
    BY <1>1, ElementOfSeq
  <2>3. \A r \in DOMAIN experts : experts[r].createdAt \in Nat
    BY <2>2 DEF Profile
  <2>4. \A r \in DOMAIN experts : experts[r].createdAt <= Latest
    BY <1>1, <1>3, <2>1, <2>3 DEF InOrder, Latest
  <2>5. Latest \in Nat /\ time \in {Latest, Latest + 1}
    BY <1>3, <2>1, <2>3 DEF Latest, Moments
  <2> QED
    BY <2>3, <2>4, <2>5
<1> QED
  BY <1>2, <1>3

LEMMA AddRow ==
    ASSUME IInv,
           NEW id \in Ids, NEW w \in Owners, NEW name \in Names, NEW rest \in Rests,
           Of(w) = {}, Add(id, w, name, rest),
           \A r \in DOMAIN experts : id = Cuid \/ experts[r].id # id,
           id = Cuid \/ \E b \in Bookings : id = ExpertId[b] /\ w = Address[b]
    PROVE  /\ Kept /\ Stands /\ OneProfile' /\ OriginInv'
           /\ Len(experts') = Len(experts) + 1
           /\ experts'[Len(experts) + 1].id = id /\ experts'[Len(experts) + 1].owner = w
           /\ experts'[Len(experts) + 1].name = name /\ experts'[Len(experts) + 1].rest = rest
           /\ Len(experts) + 1 \in DOMAIN experts'
           /\ \A r \in DOMAIN experts' : r \in DOMAIN experts \/ r = Len(experts) + 1
           /\ \A r \in DOMAIN experts : experts'[r] = experts[r]
<1>t. PICK time \in Moments : experts' = Append(experts, Row(id, w, name, rest, time))
  BY DEF Add
<1>n. time \in Nat /\ \A r \in DOMAIN experts : experts[r].createdAt <= time
  BY NewestLast DEF IInv
<1> DEFINE row == Row(id, w, name, rest, time)
<1>1. experts \in Seq(Profile) /\ Len(experts) \in Nat /\ DOMAIN experts = 1..Len(experts)
  BY Rows DEF IInv
<1>2. row \in Profile
  BY <1>n DEF Profile, Row
<1>3. experts' = Append(experts, row)
  BY <1>t
<1>4. row.id = id /\ row.owner = w /\ row.name = name /\ row.rest = rest /\ row.createdAt = time
  BY DEF Row
<1> HIDE DEF row
<1>5. /\ experts' \in Seq(Profile) /\ Len(experts') = Len(experts) + 1
      /\ experts'[Len(experts) + 1] = row
      /\ Len(experts) <= Len(experts') /\ DOMAIN experts \subseteq DOMAIN experts'
      /\ Len(experts) + 1 \in DOMAIN experts'
      /\ \A r \in DOMAIN experts : experts'[r] = experts[r]
      /\ \A r \in DOMAIN experts' : r \in DOMAIN experts \/ r = Len(experts) + 1
  BY <1>1, <1>2, <1>3
<1>6. Kept
  <2>1. ASSUME NEW q \in DOMAIN experts', NEW r \in DOMAIN experts', q < r
        PROVE  experts'[q].createdAt <= experts'[r].createdAt
    <3>1. q \in DOMAIN experts
      BY <1>1, <1>5, <2>1
    <3>2. CASE r \in DOMAIN experts
      BY <1>5, <2>1, <3>1, <3>2, Rows DEF IInv, InOrder
    <3>3. CASE r = Len(experts) + 1
      BY <1>n, <1>4, <1>5, <3>1, <3>3
    <3> QED
      BY <1>5, <3>2, <3>3
  <2> QED
    BY <1>5, <2>1, Zenon DEF Kept, InOrder
<1>7. Stands
  BY <1>5, Zenon DEF Stands
<1>8. \A r \in DOMAIN experts : experts[r].owner # w
  BY Zenon DEF Of
<1>9. OneProfile'
  <2> SUFFICES ASSUME NEW q \in DOMAIN experts', NEW r \in DOMAIN experts', q # r
               PROVE  /\ experts'[q].owner # experts'[r].owner
                      /\ experts'[q].id = Cuid \/ experts'[q].id # experts'[r].id
    BY Zenon DEF OneProfile
  <2>1. CASE q \in DOMAIN experts /\ r \in DOMAIN experts
    BY <1>5, <2>1, Zenon DEF IInv, OneProfile
  <2>2. CASE q = Len(experts) + 1 /\ r \in DOMAIN experts
    BY <1>5, <1>8, <1>4, <2>2, Zenon
  <2>3. CASE q \in DOMAIN experts /\ r = Len(experts) + 1
    BY <1>5, <1>8, <1>4, <2>3, Zenon
  <2> QED
    BY <1>5, <2>1, <2>2, <2>3, Zenon
<1>10. OriginInv'
  <2> SUFFICES ASSUME NEW r \in DOMAIN experts', experts'[r].id # Cuid
               PROVE  \E b \in Bookings : experts'[r].id = ExpertId[b] /\ experts'[r].owner = Address[b]
    BY Zenon DEF OriginInv
  <2>1. CASE r \in DOMAIN experts
    BY <1>5, <2>1, Zenon DEF IInv, OriginInv
  <2>2. CASE r = Len(experts) + 1
    BY <1>5, <1>4, <2>2, Zenon
  <2> QED
    BY <1>5, <2>1, <2>2, Zenon
<1> QED
  BY <1>4, <1>5, <1>6, <1>7, <1>9, <1>10, Zenon

LEMMA EditRow ==
    ASSUME IInv, NEW r \in DOMAIN experts,
           NEW name \in Names, NEW rest \in Rests,
           experts' = Edit(r, name, rest)
    PROVE  /\ Kept /\ OneProfile' /\ OriginInv' /\ Len(experts') = Len(experts)
           /\ experts'[r].rest = rest /\ experts'[r].name = name
           /\ \A q \in DOMAIN experts : experts'[q].rest \in {experts[q].rest, rest}
           /\ \A q \in DOMAIN experts \ {r} : experts'[q] = experts[q]
<1> DEFINE row == Row(experts[r].id, experts[r].owner, name, rest, experts[r].createdAt)
<1>1. experts \in Seq(Profile) /\ Len(experts) \in Nat /\ DOMAIN experts = 1..Len(experts)
  BY Rows DEF IInv
<1>2. experts[r] \in Profile
  BY <1>1, ElementOfSeq
<1>3. experts' = [experts EXCEPT ![r] = row]
  BY DEF Edit
<1>4. row \in Profile
  BY <1>2 DEF Profile, Row
<1>5. /\ row.id = experts[r].id /\ row.owner = experts[r].owner
      /\ row.name = name /\ row.rest = rest /\ row.createdAt = experts[r].createdAt
  BY DEF Row
<1> HIDE DEF row
<1>6. /\ experts' \in Seq(Profile) /\ Len(experts') = Len(experts)
      /\ DOMAIN experts' = DOMAIN experts /\ experts'[r] = row
      /\ \A q \in DOMAIN experts \ {r} : experts'[q] = experts[q]
  BY <1>1, <1>3, <1>4
<1>7. \A q \in DOMAIN experts : experts'[q].id = experts[q].id
                                /\ experts'[q].owner = experts[q].owner
                                /\ experts'[q].createdAt = experts[q].createdAt
  BY <1>5, <1>6, Zenon
<1>8. Kept
  <2>1. Len(experts) <= Len(experts')
    BY <1>1, <1>6
  <2>2. InOrder'
    BY <1>6, <1>7, Rows, Zenon DEF IInv, InOrder
  <2> QED
    BY <2>1, <2>2, <1>6, <1>7, Zenon DEF Kept
<1>9. OneProfile'
  <2> SUFFICES ASSUME NEW p \in DOMAIN experts, NEW q \in DOMAIN experts, p # q
               PROVE  /\ experts'[p].owner # experts'[q].owner
                      /\ experts'[p].id = Cuid \/ experts'[p].id # experts'[q].id
    BY <1>6, Zenon DEF OneProfile
  <2>1. /\ experts[p].owner # experts[q].owner
        /\ experts[p].id = Cuid \/ experts[p].id # experts[q].id
    BY Zenon DEF IInv, OneProfile
  <2> QED
    BY <1>7, <2>1
<1>10. OriginInv'
  <2> SUFFICES ASSUME NEW q \in DOMAIN experts, experts'[q].id # Cuid
               PROVE  \E b \in Bookings : experts'[q].id = ExpertId[b] /\ experts'[q].owner = Address[b]
    BY <1>6, Zenon DEF OriginInv
  <2>1. \E b \in Bookings : experts[q].id = ExpertId[b] /\ experts[q].owner = Address[b]
    BY <1>7, Zenon DEF IInv, OriginInv
  <2> QED
    BY <1>7, <2>1
<1>11. \A q \in DOMAIN experts : experts'[q].rest \in {experts[q].rest, rest}
  BY <1>5, <1>6
<1> QED
  BY <1>5, <1>6, <1>8, <1>9, <1>10, <1>11, Zenon

-----------------------------------------------------------------------------
(* What a step of the table leaves true *)

\* A step that accepts no registration.
LEMMA StillStand ==
    ASSUME RegistrationsStand, Kept, Stands,
           \A c \in Calls : call'[c] = "accepted" => call[c] = "accepted"
    PROVE  RegistrationsStand'
<1> SUFFICES ASSUME NEW c \in Calls, call'[c] = "accepted"
             PROVE  /\ \E r \in DOMAIN experts' :
                          /\ experts'[r].owner = Caller[c] /\ experts'[r].name # "Indexed Expert"
                          /\ experts'[r].rest \in {c, "edited"}
                    /\ \A d \in Calls \ {c} : Caller[d] = Caller[c] => call'[d] # "accepted"
  BY Zenon DEF RegistrationsStand
<1>1. call[c] = "accepted"
  OBVIOUS
<1>2. PICK r \in DOMAIN experts :
         /\ experts[r].owner = Caller[c] /\ experts[r].name # "Indexed Expert"
         /\ experts[r].rest \in {c, "edited"}
  BY <1>1, Zenon DEF RegistrationsStand
<1>3. /\ r \in DOMAIN experts' /\ experts'[r].owner = Caller[c]
      /\ experts'[r].name # "Indexed Expert" /\ experts'[r].rest \in {experts[r].rest, "edited"}
  BY <1>2, Zenon DEF Kept, Stands
<1>4. experts'[r].rest \in {c, "edited"}
  BY <1>2, <1>3
<1> QED
  BY <1>1, <1>3, <1>4, Zenon DEF RegistrationsStand

\* A step that books no session.
LEMMA StillTheirs ==
    ASSUME TypeOK, SessionsOfTheirExpert, Kept, UNCHANGED sessions
    PROVE  SessionsOfTheirExpert'
<1> SUFFICES ASSUME NEW b \in Bookings, sessions[b] # 0, Agreed(b)
             PROVE  experts'[sessions[b]].owner = Address[b]
  BY Zenon DEF SessionsOfTheirExpert, Agreed
<1>1. Len(experts) \in Nat /\ DOMAIN experts = 1..Len(experts)
  BY Rows
<1>2. sessions[b] \in 0..Len(experts)
  BY Zenon DEF TypeOK
<1>3. sessions[b] \in DOMAIN experts
  BY <1>1, <1>2
<1>4. experts[sessions[b]].owner = Address[b]
  BY Zenon DEF SessionsOfTheirExpert, Agreed
<1> QED
  BY <1>3, <1>4, Zenon DEF Kept

\* A step at which the client is not listing, of a table that grows by a row
\* at most.
LEMMA StillListed ==
    ASSUME TypeOK, ListingInv, Kept, UNCHANGED client,
           Len(experts') \in {Len(experts), Len(experts) + 1}
    PROVE  ListingInv'
<1>1. Len(experts) \in Nat /\ present \in 0..Len(experts) /\ offset \in 0..Len(experts)
  BY Rows DEF TypeOK
<1>2. UNCHANGED <<listing, offset, seen, present>>
  BY DEF client
<1>3. ASSUME NEW r \in 1..present, Len(experts') + 1 - r <= offset
      PROVE  Len(experts) + 1 - r <= offset
  BY <1>1, <1>3
<1>4. ASSUME NEW r \in 1..present, Untied(r)' PROVE Untied(r)
  <2>1. r \in DOMAIN experts
    BY <1>1, Rows
  <2> QED
    BY <1>4, <2>1 DEF Untied, Kept
<1>5. ListingComplete'
  BY <1>2, <1>4 DEF ListingInv, ListingComplete
<1> QED
  BY <1>2, <1>3, <1>4, <1>5 DEF ListingInv

\* The handler of a booking keeps what it knows, whatever others do.
LEMMA StillKnown ==
    ASSUME TypeOK, BookingInv, Kept, UNCHANGED <<booking, final>>,
           \A r \in DOMAIN experts' : r \in DOMAIN experts \/ experts'[r].id = Cuid
    PROVE  BookingInv'
<1>1. Len(experts) \in Nat /\ DOMAIN experts = 1..Len(experts)
  BY Rows
<1>2. ASSUME booking # None, final = 0, NEW r \in DOMAIN experts'
      PROVE  experts'[r].id # ExpertId[booking]
  <2>1. CASE r \in DOMAIN experts
    BY <1>2, <2>1, Zenon DEF BookingInv, Kept
  <2>2. CASE experts'[r].id = Cuid
    <3>1. booking \in Bookings
      BY <1>2 DEF TypeOK
    <3> QED
      BY <2>2, <3>1, CallersAssumption, Zenon
  <2> QED
    BY <2>1, <2>2
<1>3. ASSUME booking # None, final # 0, Agreed(booking)
      PROVE  experts'[final].owner = Address[booking]
  <2>1. final \in 0..Len(experts)
    BY Zenon DEF TypeOK
  <2>2. final \in DOMAIN experts
    BY <1>1, <1>3, <2>1
  <2>3. experts[final].owner = Address[booking]
    BY <1>3, Zenon DEF BookingInv
  <2> QED
    BY <2>2, <2>3, Zenon DEF Kept
<1> QED
  BY <1>2, <1>3, Zenon DEF BookingInv, Agreed

\* What refers to rows still does.
LEMMA StillRows ==
    ASSUME TypeOK, Kept
    PROVE  /\ Len(experts') \in Nat /\ Len(experts) <= Len(experts')
           /\ 0..Len(experts) \subseteq 0..Len(experts')
           /\ DOMAIN experts \subseteq DOMAIN experts'
           /\ experts' \in Seq([id : Ids, owner : Owners, name : Names, rest : Rests,
                                createdAt : Nat])
<1>1. experts' \in Seq(Profile) /\ Len(experts) <= Len(experts')
  BY DEF Kept
<1>2. Len(experts) \in Nat /\ Len(experts') \in Nat
  BY <1>1, Rows, LenProperties
<1>3. 0..Len(experts) \subseteq 0..Len(experts')
  BY <1>1, <1>2
<1>4. DOMAIN experts \subseteq DOMAIN experts'
  BY Zenon DEF Kept
<1> QED
  BY <1>1, <1>2, <1>3, <1>4, Zenon DEF Profile

\* A table that nobody writes.
LEMMA SameRows ==
    ASSUME TypeOK, OneProfile, OriginInv, UNCHANGED experts
    PROVE  /\ Kept /\ Stands /\ OneProfile' /\ OriginInv' /\ Len(experts') = Len(experts)
           /\ \A r \in DOMAIN experts' : r \in DOMAIN experts
<1>1. experts' \in Seq(Profile) /\ Len(experts) <= Len(experts') /\ InOrder'
  BY Rows DEF InOrder
<1> QED
  BY <1>1, Zenon DEF Kept, Stands, OneProfile, OriginInv

-----------------------------------------------------------------------------
(* The actions *)

\* What refers to rows, without the rows.
RefsOK ==
    /\ call \in [Calls -> {"idle", "free", "refused", "accepted"}]
    /\ edit \in [Editors -> 0..Len(experts)]
    /\ booking \in Bookings \cup {None} /\ final \in 0..Len(experts)
    /\ sessions \in [Bookings -> 0..Len(experts)]
    /\ listing \in {"no", "yes", "over"}
    /\ offset \in 0..Len(experts) /\ present \in 0..Len(experts)
    /\ seen \subseteq DOMAIN experts

LEMMA Types ==
    /\ TypeOK => RefsOK
    /\ RefsOK' /\ Kept => TypeOK'
<1>1. TypeOK => RefsOK
  BY Zenon DEF TypeOK, RefsOK
<1>2. RefsOK' /\ Kept => TypeOK'
  BY Zenon DEF TypeOK, RefsOK, Kept, Profile, Ids, Owners, Names, Rests
<1> QED
  BY <1>1, <1>2

LEMMA RegisterStep == ASSUME IInv, NEW c \in Calls, Register(c) PROVE IInv'
<1> USE DEF api, indexer, client
<1>1. /\ Kept /\ Stands /\ OneProfile' /\ OriginInv' /\ Len(experts') = Len(experts)
      /\ \A r \in DOMAIN experts' : r \in DOMAIN experts
  BY SameRows DEF IInv, Register
<1>2. RefsOK'
  BY <1>1, Types DEF IInv, RefsOK, Register
<1>3. \A d \in Calls : call'[d] = "accepted" => call[d] = "accepted"
  BY Types DEF IInv, RefsOK, Register
<1>4. RegistrationsStand' /\ SessionsOfTheirExpert'
  BY <1>1, <1>3, StillStand, StillTheirs DEF IInv, Register
<1>5. BookingInv'
  BY <1>1, StillKnown DEF IInv, Register
<1>6. ListingInv'
  BY <1>1, StillListed DEF IInv, Register
<1> QED
  BY <1>1, <1>2, <1>4, <1>5, <1>6, Types DEF IInv

LEMMA CreateStep == ASSUME IInv, NEW c \in Calls, CreateProfile(c) PROVE IInv'
<1> USE DEF api, indexer, client
<1>1. CASE Of(Caller[c]) # {}
  <2>1. UNCHANGED experts /\ call' = [call EXCEPT ![c] = "refused"]
    BY <1>1 DEF CreateProfile
  <2>2. /\ Kept /\ Stands /\ OneProfile' /\ OriginInv' /\ Len(experts') = Len(experts)
        /\ \A r \in DOMAIN experts' : r \in DOMAIN experts
    BY <2>1, SameRows DEF IInv
  <2>3. RefsOK'
    BY <2>1, <2>2, Types DEF IInv, RefsOK, CreateProfile
  <2>4. \A d \in Calls : call'[d] = "accepted" => call[d] = "accepted"
    BY <2>1, Types DEF IInv, RefsOK
  <2>5. RegistrationsStand' /\ SessionsOfTheirExpert'
    BY <2>2, <2>4, StillStand, StillTheirs DEF IInv, CreateProfile
  <2>6. BookingInv'
    BY <2>2, StillKnown DEF IInv, CreateProfile
  <2>7. ListingInv'
    BY <2>2, StillListed DEF IInv, CreateProfile
  <2> QED
    BY <2>2, <2>3, <2>5, <2>6, <2>7, Types DEF IInv
<1>2. CASE Of(Caller[c]) = {}
  <2> DEFINE n == Len(experts) + 1
  <2>1. Add(Cuid, Caller[c], "given", c) /\ call' = [call EXCEPT ![c] = "accepted"]
    BY <1>2 DEF CreateProfile
  <2>2. Cuid \in Ids /\ Caller[c] \in Owners /\ "given" \in Names /\ c \in Rests
    BY CallersAssumption DEF Ids, Owners, Names, Rests
  <2>3. /\ Kept /\ Stands /\ OneProfile' /\ OriginInv' /\ Len(experts') = n
        /\ experts'[n].id = Cuid /\ experts'[n].owner = Caller[c]
        /\ experts'[n].name = "given" /\ experts'[n].rest = c
        /\ n \in DOMAIN experts' /\ \A r \in DOMAIN experts' : r \in DOMAIN experts \/ r = n
    <3> HIDE DEF n
    <3>1. PICK w \in Owners : w = Caller[c]
      BY <2>2
    <3>2. Of(w) = {} /\ Add(Cuid, w, "given", c)
      BY <1>2, <2>1, <3>1
    <3>3. PICK name \in Names : name = "given"
      BY <2>2
    <3>4. Add(Cuid, w, name, c) /\ Cuid \in Ids /\ c \in Rests
      BY <2>2, <3>2, <3>3
    <3>5. /\ Kept /\ Stands /\ OneProfile' /\ OriginInv' /\ Len(experts') = Len(experts) + 1
          /\ experts'[Len(experts) + 1].id = Cuid /\ experts'[Len(experts) + 1].owner = w
          /\ experts'[Len(experts) + 1].name = name /\ experts'[Len(experts) + 1].rest = c
          /\ Len(experts) + 1 \in DOMAIN experts'
          /\ \A r \in DOMAIN experts' : r \in DOMAIN experts \/ r = Len(experts) + 1
      BY ONLY IInv, <3>1, <3>2, <3>3, <3>4, AddRow, ZenonT(60)
    <3> QED
      BY ONLY <3>1, <3>3, <3>5 DEF n
  <2>4. /\ experts'[n].id = Cuid /\ experts'[n].owner = Caller[c]
        /\ experts'[n].name = "given" /\ experts'[n].rest = c
    BY <2>3
  <2>5. Len(experts) \in Nat /\ RefsOK
    BY Rows, Types DEF IInv
  <2>6. RefsOK'
    BY <2>3, <2>5, StillRows DEF IInv, RefsOK, CreateProfile
  <2>7. RegistrationsStand'
    <3> SUFFICES ASSUME NEW d \in Calls, call'[d] = "accepted"
                 PROVE  /\ \E r \in DOMAIN experts' :
                              /\ experts'[r].owner = Caller[d] /\ experts'[r].name # "Indexed Expert"
                              /\ experts'[r].rest \in {d, "edited"}
                        /\ \A e \in Calls \ {d} : Caller[e] = Caller[d] => call'[e] # "accepted"
      BY Zenon DEF RegistrationsStand
    <3>1. \A e \in Calls \ {c} : call'[e] = call[e]
      BY <2>1, <2>5 DEF RefsOK
    <3>2. \A e \in Calls : call[e] = "accepted" => Caller[e] # Caller[c]
      BY <1>2, Zenon DEF Of, IInv, RegistrationsStand
    <3>3. CASE d = c
      BY <2>3, <2>4, <3>1, <3>2, <3>3
    <3>4. CASE d # c
      <4>1. call[d] = "accepted"
        BY <3>1, <3>4, Zenon
      <4>2. PICK r \in DOMAIN experts :
               /\ experts[r].owner = Caller[d] /\ experts[r].name # "Indexed Expert"
               /\ experts[r].rest \in {d, "edited"}
        BY <4>1, Zenon DEF IInv, RegistrationsStand
      <4>3. /\ r \in DOMAIN experts' /\ experts'[r].owner = Caller[d]
            /\ experts'[r].name # "Indexed Expert" /\ experts'[r].rest \in {experts[r].rest, "edited"}
        BY <2>3, <4>2, Zenon DEF Kept, Stands
      <4>4. experts'[r].rest \in {d, "edited"}
        BY <4>2, <4>3
      <4>5. \A e \in Calls \ {d} : Caller[e] = Caller[d] => call'[e] # "accepted"
        BY <3>1, <3>2, <4>1, Zenon DEF IInv, RegistrationsStand
      <4> QED
        BY <4>3, <4>4, <4>5, Zenon
    <3> QED
      BY <3>3, <3>4
  <2>8. SessionsOfTheirExpert'
    BY <2>3, StillTheirs DEF IInv, CreateProfile
  <2>9. BookingInv'
    BY <2>3, <2>4, StillKnown DEF IInv, CreateProfile
  <2>10. ListingInv'
    BY <2>3, StillListed DEF IInv, CreateProfile
  <2> QED
    BY <2>3, <2>6, <2>7, <2>8, <2>9, <2>10, Types DEF IInv
<1> QED
  BY <1>1, <1>2

\* The steps that only read the table, outside the registrations, the
\* handler and the listing.
LEMMA FindStep == ASSUME IInv, NEW w \in Editors, FindProfile(w) PROVE IInv'
<1> USE DEF api, indexer, client
<1>1. /\ Kept /\ Stands /\ OneProfile' /\ OriginInv' /\ Len(experts') = Len(experts)
      /\ \A r \in DOMAIN experts' : r \in DOMAIN experts
  BY SameRows DEF IInv, FindProfile
<1>2. \A r \in Of(w) : r \in 0..Len(experts)
  BY Rows DEF IInv, Of
<1>3. RefsOK'
  BY <1>1, <1>2, Types DEF IInv, RefsOK, FindProfile
<1>4. RegistrationsStand' /\ SessionsOfTheirExpert' /\ BookingInv' /\ ListingInv'
  BY <1>1, StillStand, StillTheirs, StillKnown, StillListed DEF IInv, FindProfile
<1> QED
  BY <1>1, <1>3, <1>4, Types DEF IInv

LEMMA UpdateStep == ASSUME IInv, NEW w \in Editors, UpdateProfile(w) PROVE IInv'
<1> USE DEF api, indexer, client
<1>1. edit[w] # 0 /\ UNCHANGED <<call, booking, final, sessions, client>>
  BY DEF UpdateProfile
<1>2. PICK name \in {experts[edit[w]].name, "given"} : experts' = Edit(edit[w], name, "edited")
  BY DEF UpdateProfile
<1>3. edit[w] \in DOMAIN experts
  BY <1>1, Rows, Types DEF IInv, RefsOK
<1>4. experts[edit[w]] \in Profile
  BY <1>3, Rows, ElementOfSeq DEF IInv
<1>5. name \in Names /\ "edited" \in Rests
  BY <1>2, <1>4 DEF Profile, Names, Rests
<1>6. /\ Kept /\ OneProfile' /\ OriginInv' /\ Len(experts') = Len(experts)
      /\ experts'[edit[w]].name = name
      /\ \A q \in DOMAIN experts : experts'[q].rest \in {experts[q].rest, "edited"}
      /\ \A q \in DOMAIN experts \ {edit[w]} : experts'[q] = experts[q]
  BY <1>2, <1>3, <1>5, EditRow, Zenon
<1>7. Stands
  BY <1>2, <1>6 DEF Stands
<1>8. DOMAIN experts' = DOMAIN experts
  BY <1>6, Rows, LenProperties, Zenon DEF IInv, Kept
<1>9. RefsOK'
  BY <1>6, <1>8, Types DEF IInv, RefsOK, UpdateProfile
<1>10. RegistrationsStand' /\ SessionsOfTheirExpert' /\ BookingInv' /\ ListingInv'
  BY <1>1, <1>6, <1>7, <1>8, StillStand, StillTheirs, StillKnown, StillListed DEF IInv
<1> QED
  BY <1>6, <1>9, <1>10, Types DEF IInv

LEMMA RegisteredStep ==
    ASSUME IInv, NEW w \in Wallets, NEW name \in EventNames, ExpertRegistered(w, name)
    PROVE  IInv'
<1> USE DEF api, indexer, client
<1>1. booking = None /\ UNCHANGED <<call, edit, booking, final, sessions, client>>
  BY DEF ExpertRegistered
<1>2. /\ name \in Names /\ name # "Indexed Expert"
      /\ "blank" \in Rests /\ w \in Owners /\ Cuid \in Ids
  BY NamesAssumption DEF Names, Rests, Owners, Ids
<1>3. /\ Kept /\ Stands /\ OneProfile' /\ OriginInv'
      /\ Len(experts') \in {Len(experts), Len(experts) + 1}
      /\ \A r \in DOMAIN experts' : r \in DOMAIN experts \/ experts'[r].id = Cuid
  <2>1. CASE Of(w) = {}
    <3>1. Add(Cuid, w, name, "blank")
      BY <2>1 DEF ExpertRegistered
    <3>2. /\ Kept /\ Stands /\ OneProfile' /\ OriginInv' /\ Len(experts') = Len(experts) + 1
          /\ experts'[Len(experts) + 1].id = Cuid
          /\ \A r \in DOMAIN experts' : r \in DOMAIN experts \/ r = Len(experts) + 1
      BY <1>2, <2>1, <3>1, AddRow, Zenon
    <3> QED
      BY <3>2
  <2>2. CASE Of(w) # {}
    <3>1. PICK r \in Of(w) : experts' = Edit(r, name, experts[r].rest)
      BY <2>2 DEF ExpertRegistered
    <3>2. r \in DOMAIN experts
      BY Zenon DEF Of
    <3>3. experts[r] \in Profile
      BY <3>2, Rows, ElementOfSeq DEF IInv
    <3>4. experts[r].rest \in Rests
      BY <3>3 DEF Profile
    <3>5. /\ Kept /\ OneProfile' /\ OriginInv' /\ Len(experts') = Len(experts)
          /\ experts'[r].name = name /\ experts'[r].rest = experts[r].rest
          /\ \A q \in DOMAIN experts \ {r} : experts'[q] = experts[q]
      BY <1>2, <3>1, <3>2, <3>4, EditRow, Zenon
    <3>6. Stands
      BY <1>2, <3>5 DEF Stands
    <3>7. DOMAIN experts' = DOMAIN experts
      BY <3>5, Rows, LenProperties, Zenon DEF IInv, Kept
    <3> QED
      BY <3>5, <3>6, <3>7
  <2> QED
    BY <2>1, <2>2
<1>4. RefsOK'
  BY <1>1, <1>3, StillRows, Types DEF IInv, RefsOK
<1>5. RegistrationsStand' /\ SessionsOfTheirExpert' /\ BookingInv' /\ ListingInv'
  BY <1>1, <1>3, StillStand, StillTheirs, StillKnown, StillListed DEF IInv
<1> QED
  BY <1>3, <1>4, <1>5, Types DEF IInv

LEMMA LookupStep == ASSUME IInv, NEW b \in Bookings, BookingLookup(b) PROVE IInv'
<1> USE DEF api, client
<1> DEFINE known == {r \in DOMAIN experts : experts[r].id = ExpertId[b]}
<1>1. booking' = b /\ UNCHANGED <<experts, call, edit, sessions, client>>
  BY DEF BookingLookup
<1>2. final' = IF known = {} THEN 0 ELSE CHOOSE r \in known : TRUE
  BY DEF BookingLookup
<1>3. /\ Kept /\ Stands /\ OneProfile' /\ OriginInv' /\ Len(experts') = Len(experts)
      /\ \A r \in DOMAIN experts' : r \in DOMAIN experts
  BY <1>1, SameRows DEF IInv
<1>4. final' = 0 => known = {}
  BY <1>2, Rows DEF IInv
<1>5. final' # 0 => final' \in known
  BY <1>2
<1>6. final' \in 0..Len(experts)
  BY <1>2, Rows DEF IInv
<1>7. RefsOK'
  BY <1>1, <1>3, <1>6, Types DEF IInv, RefsOK
<1>8. RegistrationsStand' /\ SessionsOfTheirExpert' /\ ListingInv'
  BY <1>1, <1>3, StillStand, StillTheirs, StillListed DEF IInv
<1>9. ASSUME final' # 0, Agreed(b) PROVE experts'[final'].owner = Address[b]
  <2>1. final' \in DOMAIN experts /\ experts[final'].id = ExpertId[b]
    BY <1>5, <1>9
  <2>2. ExpertId[b] # Cuid
    BY CallersAssumption, Zenon
  <2>3. PICK d \in Bookings : experts[final'].id = ExpertId[d] /\ experts[final'].owner = Address[d]
    BY <2>1, <2>2, Zenon DEF IInv, OriginInv
  <2> QED
    BY <1>1, <1>9, <2>1, <2>3, Zenon DEF Agreed
<1>10. final' = 0 => \A r \in DOMAIN experts' : experts'[r].id # ExpertId[b]
  BY <1>1, <1>4
<1>11. BookingInv'
  BY <1>1, <1>9, <1>10, Zenon DEF BookingInv, Agreed
<1> QED
  BY <1>3, <1>7, <1>8, <1>11, Types DEF IInv

LEMMA UpsertStep == ASSUME IInv, BookingUpsert PROVE IInv'
<1> USE DEF api, client
<1>1. /\ booking # None /\ final = 0
      /\ UNCHANGED <<call, edit, booking, sessions, client>>
  BY DEF BookingUpsert
<1>2. booking \in Bookings /\ Len(experts) \in Nat
  BY <1>1, Rows, Types DEF IInv, RefsOK
<1>3. /\ Kept /\ Stands /\ OneProfile' /\ OriginInv'
      /\ Len(experts') \in {Len(experts), Len(experts) + 1}
      /\ final' \in DOMAIN experts' /\ experts'[final'].owner = Address[booking]
  <2>1. CASE Of(Address[booking]) = {}
    <3>1. Add(ExpertId[booking], Address[booking], "Indexed Expert", "blank") /\ final' = Len(experts) + 1
      BY <2>1 DEF BookingUpsert, RowOf
    <3>2. /\ ExpertId[booking] \in Ids /\ Address[booking] \in Owners
          /\ "Indexed Expert" \in Names /\ "blank" \in Rests
      BY <1>2, CallersAssumption DEF Ids, Owners, Names, Rests
    <3>3. \A r \in DOMAIN experts : experts[r].id # ExpertId[booking]
      BY <1>1, Zenon DEF IInv, BookingInv
    <3>4. /\ Kept /\ Stands /\ OneProfile' /\ OriginInv' /\ Len(experts') = Len(experts) + 1
          /\ experts'[Len(experts) + 1].owner = Address[booking]
          /\ Len(experts) + 1 \in DOMAIN experts'
      BY <1>2, <2>1, <3>1, <3>2, <3>3, AddRow, Zenon
    <3> QED
      BY <3>1, <3>4, Zenon
  <2>2. CASE Of(Address[booking]) # {}
    <3>1. final' \in Of(Address[booking]) /\ UNCHANGED experts
      BY <2>2 DEF BookingUpsert, RowOf, Untouched
    <3>2. Kept /\ Stands /\ OneProfile' /\ OriginInv' /\ Len(experts') = Len(experts)
      BY <3>1, SameRows DEF IInv
    <3> QED
      BY <3>1, <3>2, Zenon DEF Of
  <2> QED
    BY <2>1, <2>2
<1>4. final' \in 1..Len(experts')
  BY <1>3, LenProperties, Zenon DEF Kept
<1>5. Len(experts') \in Nat
  BY <1>2, <1>3
<1>6. RefsOK'
  BY <1>1, <1>3, <1>4, <1>5, StillRows, Types DEF IInv, RefsOK
<1>7. RegistrationsStand' /\ SessionsOfTheirExpert' /\ ListingInv'
  BY <1>1, <1>3, StillStand, StillTheirs, StillListed DEF IInv
<1>8. BookingInv'
  BY <1>1, <1>3, <1>4, <1>5 DEF BookingInv
<1> QED
  BY <1>3, <1>6, <1>7, <1>8, Types DEF IInv

LEMMA BookStep == ASSUME IInv, BookSession PROVE IInv'
<1> USE DEF api, client
<1>1. /\ booking # None /\ final # 0 /\ booking' = None
      /\ UNCHANGED <<experts, call, edit, client>>
      /\ sessions' = [sessions EXCEPT ![booking] = IF @ = 0 THEN final ELSE @]
  BY DEF BookSession
<1>2. /\ Kept /\ Stands /\ OneProfile' /\ OriginInv' /\ Len(experts') = Len(experts)
  BY <1>1, SameRows DEF IInv
<1>3. booking \in Bookings /\ RefsOK /\ Len(experts) \in Nat
  BY <1>1, Rows, Types DEF IInv, RefsOK
<1>4. RefsOK'
  BY <1>1, <1>2, <1>3 DEF RefsOK, BookSession
<1>5. SessionsOfTheirExpert'
  <2> SUFFICES ASSUME NEW b \in Bookings, sessions'[b] # 0, Agreed(b)
               PROVE  experts[sessions'[b]].owner = Address[b]
    BY <1>1, Zenon DEF SessionsOfTheirExpert, Agreed
  <2>1. CASE sessions'[b] = sessions[b]
    BY <2>1, Zenon DEF IInv, SessionsOfTheirExpert, Agreed
  <2>2. CASE b = booking /\ sessions'[b] = final
    BY <1>1, <2>2, Zenon DEF IInv, BookingInv
  <2>3. sessions'[b] = sessions[b] \/ (b = booking /\ sessions'[b] = final)
    BY <1>1, <1>3 DEF RefsOK
  <2> QED
    BY <2>1, <2>2, <2>3
<1>6. RegistrationsStand' /\ ListingInv'
  BY <1>1, <1>2, StillStand, StillListed DEF IInv
<1>7. BookingInv'
  BY <1>1 DEF BookingInv
<1> QED
  BY <1>2, <1>4, <1>5, <1>6, <1>7, Types DEF IInv

LEMMA CrashStep == ASSUME IInv, Crash PROVE IInv'
<1> USE DEF api, client
<1>1. booking' = None /\ UNCHANGED <<experts, call, edit, sessions, client>>
  BY DEF Crash
<1>2. /\ Kept /\ Stands /\ OneProfile' /\ OriginInv' /\ Len(experts') = Len(experts)
  BY <1>1, SameRows DEF IInv
<1>3. RefsOK /\ Len(experts) \in Nat
  BY Rows, Types DEF IInv
<1>4. RefsOK'
  BY <1>1, <1>2, <1>3, LimitsAssumption DEF RefsOK, Crash
<1>5. RegistrationsStand' /\ SessionsOfTheirExpert' /\ ListingInv'
  BY <1>1, <1>2, StillStand, StillTheirs, StillListed DEF IInv
<1>6. BookingInv'
  BY <1>1 DEF BookingInv
<1> QED
  BY <1>2, <1>4, <1>5, <1>6, Types DEF IInv

\* A row with a createdAt of its own has one place in the list: it is among the
\* first n exactly if it is there counted from the newest.
LEMMA PlaceInList ==
    ASSUME TypeOK, NEW n \in 0..Len(experts), NEW rows \in Fronts(n),
           NEW r \in DOMAIN experts, Untied(r)
    PROVE  r \in rows <=> Len(experts) + 1 - r <= n
<1> DEFINE len == Len(experts)
<1>1. len \in Nat /\ DOMAIN experts = 1..len /\ InOrder
  BY Rows
<1>2. \A q \in DOMAIN experts : experts[q].createdAt \in Nat
  <2>1. \A q \in DOMAIN experts : experts[q] \in Profile
    BY Rows, ElementOfSeq
  <2> QED
    BY <2>1 DEF Profile
<1>3. /\ rows \subseteq DOMAIN experts /\ Cardinality(rows) = n
      /\ \A p \in rows, q \in DOMAIN experts :
            experts[q].createdAt > experts[p].createdAt => q \in rows
  BY DEF Fronts
<1>4. \A q \in DOMAIN experts : /\ q > r => experts[q].createdAt > experts[r].createdAt
                                /\ q < r => experts[r].createdAt > experts[q].createdAt
  BY <1>1, <1>2 DEF InOrder, Untied
<1>5. /\ IsFiniteSet(r..len) /\ Cardinality(r..len) = len - r + 1
      /\ IsFiniteSet(r + 1 .. len) /\ Cardinality(r + 1 .. len) = len - r
      /\ IsFiniteSet(1..len)
  <2>1. r \in Int /\ r + 1 \in Int /\ len \in Int /\ 1 \in Int /\ r <= len
    BY <1>1
  <2> HIDE DEF len
  <2>2. /\ IsFiniteSet(r..len) /\ IsFiniteSet(r + 1 .. len) /\ IsFiniteSet(1..len)
        /\ Cardinality(r..len) = IF r > len THEN 0 ELSE len - r + 1
        /\ Cardinality(r + 1 .. len) = IF r + 1 > len THEN 0 ELSE len - (r + 1) + 1
    BY <2>1, FS_Interval
  <2> QED
    BY <2>1, <2>2
<1>6. IsFiniteSet(rows)
  BY <1>1, <1>3, <1>5, FS_Subset
<1>7. ASSUME r \in rows PROVE len + 1 - r <= n
  <2>1. r..len \subseteq rows
    BY <1>1, <1>3, <1>4, <1>7
  <2>2. Cardinality(r..len) <= Cardinality(rows)
    BY <1>6, <2>1, FS_Subset
  <2> QED
    BY <1>1, <1>3, <1>5, <2>2
<1>8. ASSUME r \notin rows PROVE ~ (len + 1 - r <= n)
  <2>1. rows \subseteq r + 1 .. len
    BY <1>1, <1>3, <1>4, <1>8
  <2>2. Cardinality(rows) <= Cardinality(r + 1 .. len)
    BY <1>5, <2>1, FS_Subset
  <2> QED
    BY <1>1, <1>3, <1>5, <2>2
<1> QED
  BY <1>7, <1>8

\* After a page the rows in front of the client's offset have been shown, and a
\* page is empty only behind the last row.
LEMMA PageStep == ASSUME IInv, NEW limit \in Limits, Page(limit) PROVE IInv'
<1> USE DEF api, indexer
<1> DEFINE len == Len(experts)
           end == PageEnd(limit)
<1>1. /\ listing # "over" /\ UNCHANGED <<experts, call, edit, booking, final, sessions>>
      /\ offset' = end
      /\ present' = IF listing = "no" THEN len ELSE present
  BY DEF Page
<1>2. PICK skipped \in Fronts(offset), reached \in Fronts(end) :
         /\ skipped \subseteq reached
         /\ seen' = seen \cup (reached \ skipped)
         /\ listing' = IF reached = skipped THEN "over" ELSE "yes"
  BY DEF Page
<1>3. len \in Nat /\ DOMAIN experts = 1..len /\ offset \in 0..len /\ present \in 0..len
  BY Rows, Types DEF IInv, RefsOK
<1>4. Clamp(limit) \in Nat /\ Clamp(limit) >= 1
  BY LimitsAssumption DEF Clamp
<1>5. end \in 0..len /\ (end = offset => end = len)
  BY <1>3, <1>4 DEF PageEnd
<1> HIDE DEF end
<1>6. reached \subseteq DOMAIN experts /\ (reached = skipped => end = offset)
  BY DEF Fronts
<1>7. Kept /\ Stands /\ OneProfile' /\ OriginInv' /\ Len(experts') = Len(experts)
  BY <1>1, SameRows DEF IInv
<1>8. RefsOK'
  <2>1. present' \in 0..len /\ seen' \subseteq DOMAIN experts /\ listing' \in {"no", "yes", "over"}
    BY <1>1, <1>2, <1>3, <1>6, Types DEF IInv, RefsOK
  <2> QED
    BY <1>1, <1>5, <1>7, <2>1, Types DEF IInv, RefsOK
<1>9. RegistrationsStand' /\ SessionsOfTheirExpert'
  BY <1>1, <1>7, StillStand, StillTheirs DEF IInv
<1>10. BookingInv'
  BY <1>1 DEF IInv, BookingInv
<1>11. ASSUME NEW r \in 1..present', Untied(r), len + 1 - r <= end PROVE r \in seen'
  <2>1. r \in DOMAIN experts
    BY <1>1, <1>3
  <2>2. r \in reached /\ (r \in skipped <=> len + 1 - r <= offset)
    BY <1>3, <1>5, <1>11, <2>1, PlaceInList DEF IInv
  <2>3. CASE r \in skipped
    <3>1. listing # "no"
      BY <1>3, <2>1, <2>2, <2>3 DEF IInv, ListingInv
    <3> QED
      BY <1>1, <1>2, <1>11, <2>2, <2>3, <3>1 DEF IInv, ListingInv
  <2>4. CASE r \notin skipped
    BY <1>2, <2>2, <2>4
  <2> QED
    BY <2>3, <2>4
<1>12. listing' = "over" => \A r \in 1..present' : Untied(r) => r \in seen'
  <2> SUFFICES ASSUME listing' = "over", NEW r \in 1..present', Untied(r) PROVE r \in seen'
    OBVIOUS
  <2>1. end = len
    BY <1>2, <1>5, <1>6
  <2>2. len + 1 - r <= end
    BY <1>1, <1>3, <2>1
  <2> QED
    BY <1>11, <2>2
<1>13. listing' # "no"
  BY <1>2
<1>14. ListingInv'
  BY <1>1, <1>11, <1>12, <1>13 DEF ListingInv, ListingComplete, Untied
<1> QED
  BY <1>7, <1>8, <1>9, <1>10, <1>14, Types DEF IInv

-----------------------------------------------------------------------------

THEOREM Invariant == Spec => []IInv
<1>1. IInv /\ [Next]_vars => IInv'
  <2> SUFFICES ASSUME IInv, [Next]_vars PROVE IInv'
    OBVIOUS
  <2>1. CASE UNCHANGED vars
    BY <2>1 DEF vars, api, indexer, client, IInv, TypeOK, OneProfile, RegistrationsStand,
                SessionsOfTheirExpert, OriginInv, BookingInv, Agreed, ListingInv,
                ListingComplete, Untied, InOrder
  <2>2. CASE Next
    BY <2>2, RegisterStep, CreateStep, FindStep, UpdateStep, RegisteredStep, LookupStep,
       UpsertStep, BookStep, CrashStep, PageStep DEF Next
  <2> QED
    BY <2>1, <2>2
<1> QED
  BY InitInv, <1>1, PTL DEF Spec

\* Every reachable state of the directory is well typed.
THEOREM TypeCorrect == Spec => []TypeOK
BY Invariant, PTL DEF IInv

\* A wallet has one profile and so has each of the chain's experts, whatever
\* registrations, events and bookings race.
THEOREM OneEach == Spec => []OneProfile
BY Invariant, PTL DEF IInv

\* An accepted registration keeps its profile and what it said.
THEOREM RegistrationKept == Spec => []RegistrationsStand
BY Invariant, PTL DEF IInv

\* Sessions belong to the profile of the wallet they were booked with.
THEOREM RightExpert == Spec => []SessionsOfTheirExpert
BY Invariant, PTL DEF IInv

\* A listing that is over has shown every row there was when it began, but for
\* rows that share their createdAt with another.
THEOREM ListsAll == Spec => []ListingComplete
BY Invariant, PTL DEF IInv, ListingInv
=============================================================================
