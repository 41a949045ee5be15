SPECIFICATION Spec
CONSTANTS
    c1 = c1
    c2 = c2
    ann = ann
    bob = bob
    b1 = b1
    b2 = b2
    x1 = x1
    x2 = x2
    Wallets = {ann, bob}
    Calls = {c1, c2}
    Caller <- RegisteredBy
    Editors = {ann}
    Bookings = {b1, b2}
    ExpertId <- BookedId
    Address <- BookedAddress
    EventNames = {"Unknown"}
    DefaultWallet = gdefault
    Cuid = cuid
    None = None
    Limits <- AskedLimits
    MaxLimit = 2
INVARIANTS
    TypeOK
    OneProfile
    RegistrationsStand
    SessionsOfTheirExpert
    ListingComplete
SYMMETRY Alike
