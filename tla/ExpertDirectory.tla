--------------------------- MODULE ExpertDirectory ---------------------------
(***************************************************************************)
(* The table of expert profiles and everybody who writes and lists it:     *)
(* the mutations registerExpert and updateProfile and the query experts of *)
(* the API process (src/backend/src/resolvers.ts), and in the indexer      *)
(* process the handlers of EXPERT_REGISTERED and SESSION_BOOKED            *)
(* (src/backend/src/eventListener.ts), which create profiles for experts   *)
(* the chain knows first.  Every database call is a step of its own.       *)
(*                                                                         *)
(* Abstractions.  Rows are numbered in the order of their creation, which  *)
(* createdAt follows: the clock does not go back, but stands still between *)
(* rows of the same millisecond.  The id of a row is the chain's expertId, *)
(* or Cuid, which no booking names.                                        *)
(* Of a profile's fields there is its name, which is given by somebody or  *)
(* one of the code's two stand-ins, and the rest, which is blank, a        *)
(* registration's or edited.  User rows, upserted first, are the wallets   *)
(* themselves.  The filters of the listing are left out.                   *)
(***************************************************************************)
EXTENDS Integers, Sequences, FiniteSets

CONSTANTS
    Wallets, Calls,          \* registrations, each by the wallet Caller[c]
    Caller,
    Editors,                 \* updateProfile calls, each by its own wallet
    Bookings,                \* SESSION_BOOKED rows, one session each
    ExpertId, Address,       \* the expertId and expertAddress of a booking
    EventNames,              \* names EXPERT_REGISTERED gives: its own, or a stand-in
    DefaultWallet,           \* GEXPERT_DEFAULT
    Cuid, None,
    Limits, MaxLimit         \* what clients ask for, and the clamp (100)

ASSUME CallersAssumption ==
    /\ Caller \in [Calls -> Wallets] /\ Editors \subseteq Wallets
    /\ Address \in [Bookings -> Wallets \cup {DefaultWallet}]
    /\ Cuid \notin {ExpertId[b] : b \in Bookings}
    /\ None \notin Bookings /\ DefaultWallet \notin Wallets

ASSUME NamesAssumption == EventNames \subseteq {"given", "Unknown"}

ASSUME LimitsAssumption ==
    Limits \subseteq Int /\ MaxLimit \in Nat \ {0}

VARIABLES
    experts,      \* the Expert rows
    call,         \* how far each registration is
    edit,         \* the row each updateProfile found, 0 before
    booking,      \* the booking the event processor handles, or None
    final,        \* its finalExpertId, 0 while the lookup found nothing
    sessions,     \* the expertId of each booked session, 0 before
    listing,      \* a client paging through experts: no, yes or over
    offset, seen, \* where it is, and the rows it was shown
    present       \* history: how many experts there were at its first page

api == <<call, edit>>
indexer == <<booking, final, sessions>>
client == <<listing, offset, seen, present>>
vars == <<experts, api, indexer, client>>

Init ==
    /\ experts = << >>
    /\ call = [c \in Calls |-> "idle"] /\ edit = [w \in Editors |-> 0]
    /\ booking = None /\ final = 0
    /\ sessions = [b \in Bookings |-> 0]
    /\ listing = "no" /\ offset = 0 /\ seen = {} /\ present = 0

-----------------------------------------------------------------------------
(* Rows *)

\* Seeded fault: Expert.userId is not unique.
NoneOf(w) == {}

\* The rows of a wallet: Expert.userId.
Of(w) == {r \in DOMAIN experts : experts[r].owner = w}

Row(id, w, name, rest, time) ==
    [id |-> id, owner |-> w, name |-> name, rest |-> rest, createdAt |-> time]

\* When the last row was created.
Latest == IF experts = << >> THEN 0 ELSE experts[Len(experts)].createdAt

\* Seeded fault: the clock is set back.
MomentsSetBack == 0..Latest + 1

\* now(): a time in milliseconds, maybe that of the last row.
Moments == IF experts = << >> THEN {1} ELSE {Latest, Latest + 1}

\* expert.create.
Add(id, w, name, rest) ==
    \E time \in Moments : experts' = Append(experts, Row(id, w, name, rest, time))

\* expert.update: the data of a row, which keeps its id, owner and createdAt.
Edit(r, name, rest) ==
    [experts EXCEPT ![r] = Row(experts[r].id, experts[r].owner, name, rest,
                               experts[r].createdAt)]

-----------------------------------------------------------------------------
(* Mutations *)

\* registerExpert: user.upsert and the lookup of an existing profile.
Register(c) ==
    /\ call[c] = "idle"
    /\ call' = [call EXCEPT ![c] = IF Of(Caller[c]) = {} THEN "free" ELSE "refused"]
    /\ UNCHANGED <<experts, edit, indexer, client>>

\* registerExpert: expert.create, which throws on a second row of the user.
CreateProfile(c) ==
    /\ call[c] = "free"
    /\ IF Of(Caller[c]) = {}
       THEN /\ Add(Cuid, Caller[c], "given", c)
            /\ call' = [call EXCEPT ![c] = "accepted"]
       ELSE /\ call' = [call EXCEPT ![c] = "refused"]
            /\ UNCHANGED experts
    /\ UNCHANGED <<edit, indexer, client>>

\* updateProfile: the lookup of the caller's profile.
FindProfile(w) ==
    /\ edit[w] = 0
    /\ \E r \in Of(w) : edit' = [edit EXCEPT ![w] = r]
    /\ UNCHANGED <<experts, call, indexer, client>>

\* updateProfile: expert.update of the fields that were sent.
UpdateProfile(w) ==
    /\ edit[w] # 0
    /\ \E name \in {experts[edit[w]].name, "given"} :
          experts' = Edit(edit[w], name, "edited")
    /\ edit' = [edit EXCEPT ![w] = 0]
    /\ UNCHANGED <<call, indexer, client>>

-----------------------------------------------------------------------------
(* The event processor *)

\* EXPERT_REGISTERED: expert.upsert sets the name of the event, if it has one.
ExpertRegistered(w, name) ==
    /\ booking = None
    /\ IF Of(w) = {}
       THEN Add(Cuid, w, name, "blank")
       ELSE \E r \in Of(w) : experts' = Edit(r, name, experts[r].rest)
    /\ UNCHANGED <<api, indexer, client>>

\* SESSION_BOOKED: expert.findUnique by the chain's expertId.
BookingLookup(b) ==
    /\ booking = None
    /\ LET known == {r \in DOMAIN experts : experts[r].id = ExpertId[b]}
       IN  final' = IF known = {} THEN 0 ELSE CHOOSE r \in known : TRUE
    /\ booking' = b
    /\ UNCHANGED <<experts, api, sessions, client>>

\* Seeded fault: the upsert does what its create would do to an existing row.
Overwritten(r) == Edit(r, "Indexed Expert", "blank")

\* update: {}.
Untouched(r) == experts

\* Seeded fault: any profile that is not the chain's will do.
AnyRow(w) == {r \in DOMAIN experts : experts[r].id = Cuid}

\* The row expert.upsert finds: where userId.
RowOf(w) == Of(w)

\* SESSION_BOOKED: expert.upsert by the user of the booking's address.
BookingUpsert ==
    /\ booking # None /\ final = 0
    /\ IF RowOf(Address[booking]) = {}
       THEN /\ Add(ExpertId[booking], Address[booking], "Indexed Expert", "blank")
            /\ final' = Len(experts) + 1
       ELSE \E r \in RowOf(Address[booking]) : final' = r /\ experts' = Untouched(r)
    /\ UNCHANGED <<api, booking, sessions, client>>

\* SESSION_BOOKED: session.upsert, which leaves the expert of a replay alone.
BookSession ==
    /\ booking # None /\ final # 0
    /\ sessions' = [sessions EXCEPT ![booking] = IF @ = 0 THEN final ELSE @]
    /\ booking' = None /\ final' = 0
    /\ UNCHANGED <<experts, api, client>>

\* The handler dies or a call throws: the row is handled again, later.
Crash ==
    /\ booking # None
    /\ booking' = None /\ final' = 0
    /\ UNCHANGED <<experts, api, sessions, client>>

-----------------------------------------------------------------------------
(* The listing *)

\* safeLimit.
Clamp(limit) ==
    CASE limit < 1 -> 1
      [] limit > MaxLimit -> MaxLimit
      [] OTHER -> limit

\* Seeded fault: the list is in no particular order.
FrontsUnordered(n) == {rows \in SUBSET DOMAIN experts : Cardinality(rows) = n}

\* orderBy createdAt desc: what may be the first n rows of the list.  Rows of the
\* same millisecond come in any order, and not in the same one in each query.
Fronts(n) ==
    {rows \in SUBSET DOMAIN experts :
        /\ Cardinality(rows) = n
        /\ \A r \in rows, q \in DOMAIN experts :
              experts[q].createdAt > experts[r].createdAt => q \in rows}

\* Where in the list a page ends.
PageEnd(limit) ==
    IF offset + Clamp(limit) <= Len(experts) THEN offset + Clamp(limit) ELSE Len(experts)

\* A client asks for the page after those it has, until a page is empty.
Page(limit) ==
    /\ listing # "over"
    /\ \E skipped \in Fronts(offset), reached \in Fronts(PageEnd(limit)) :
          /\ skipped \subseteq reached
          /\ seen' = seen \cup (reached \ skipped)
          /\ listing' = IF reached = skipped THEN "over" ELSE "yes"
    /\ offset' = PageEnd(limit)
    /\ present' = IF listing = "no" THEN Len(experts) ELSE present
    /\ UNCHANGED <<experts, api, indexer>>

Next ==
    \/ \E c \in Calls : Register(c) \/ CreateProfile(c)
    \/ \E w \in Editors : FindProfile(w) \/ UpdateProfile(w)
    \/ \E w \in Wallets, name \in EventNames : ExpertRegistered(w, name)
    \/ \E b \in Bookings : BookingLookup(b)
    \/ BookingUpsert \/ BookSession \/ Crash
    \/ \E limit \in Limits : Page(limit)

Spec == Init /\ [][Next]_vars

-----------------------------------------------------------------------------
(* Properties *)

\* Rows are in the order of createdAt.
InOrder ==
    \A q, r \in DOMAIN experts :
        q < r => experts[q].createdAt <= experts[r].createdAt

\* Every variable keeps its type; what refers to rows refers to rows there are,
\* and these are in the order of createdAt.
TypeOK ==
    /\ experts \in Seq([id : {Cuid} \cup {ExpertId[b] : b \in Bookings},
                        owner : Wallets \cup {DefaultWallet},
                        name : {"given", "Unknown", "Indexed Expert"},
                        rest : {"blank", "edited"} \cup Calls,
                        createdAt : Nat])
    /\ InOrder
    /\ call \in [Calls -> {"idle", "free", "refused", "accepted"}]
    /\ edit \in [Editors -> 0..Len(experts)]
    /\ booking \in Bookings \cup {None} /\ final \in 0..Len(experts)
    /\ sessions \in [Bookings -> 0..Len(experts)]
    /\ listing \in {"no", "yes", "over"}
    /\ offset \in 0..Len(experts) /\ present \in 0..Len(experts)
    /\ seen \subseteq DOMAIN experts

\* However registrations, the chain's registrations and bookings of a wallet
\* race, there is one profile of the wallet, and one of each of the chain's
\* experts.
OneProfile ==
    \A q, r \in DOMAIN experts :
        q # r => /\ experts[q].owner # experts[r].owner
                 /\ experts[q].id = Cuid \/ experts[q].id # experts[r].id

\* A client whose registration was accepted has its profile: nobody else's
\* registration of the wallet was accepted, and no event the processor handles
\* before or after replaces what the client sent, or its name by that of a
\* profile made for a booking.  (An EXPERT_REGISTERED event that has no name
\* replaces the client's by "Unknown".)
RegistrationsStand ==
    \A c \in Calls : call[c] = "accepted" =>
        /\ \E r \in DOMAIN experts :
              /\ experts[r].owner = Caller[c] /\ experts[r].name # "Indexed Expert"
              /\ experts[r].rest \in {c, "edited"}
        /\ \A d \in Calls \ {c} : Caller[d] = Caller[c] => call[d] # "accepted"

\* A session belongs to the profile of the wallet it was booked with, whether
\* the expert registered before, after or while the booking was handled.  (It
\* may not when another booking of the same expertId has another address, or
\* none.)
SessionsOfTheirExpert ==
    \A b \in Bookings :
        (sessions[b] # 0 /\ \A d \in Bookings : ExpertId[d] = ExpertId[b] =>
                                                Address[d] = Address[b]) =>
            experts[sessions[b]].owner = Address[b]

\* No other row was created in the millisecond of row r.
Untied(r) ==
    \A q \in DOMAIN experts \ {r} : experts[q].createdAt # experts[r].createdAt

\* A client that pages through the experts sees everybody who was there when it
\* began and whose createdAt nobody shares, whatever limits it asks for, although
\* newcomers shift the list under it.  (Of two rows of the same millisecond one
\* may be missed: the list has no order between them, and a page may end there.)
ListingComplete ==
    listing = "over" => \A r \in 1..present : Untied(r) => r \in seen
=============================================================================
