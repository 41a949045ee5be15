SPECIFICATION Spec
CONSTANTS
    s1 = s1
    s2 = s2
    s3 = s3
    ann = ann
    bob = bob
    chess = chess
    go = go
    Calls = {c1, c2, c3}
    Wallets = {ann, bob}
    Sessions = {s1, s2, s3}
    Experts = {chess, go}
    NoWallet = NoWallet
    Seeker <- SessionSeeker
    ExpertOf <- SessionExpert
    Unknown = Unknown
    Ratings = {0, 1, 5, 6}
    MaxFaults = 1
SYMMETRY CallSymmetry
INVARIANTS
    TypeOK
    OneAcceptedPerSession
    OwnReviewsCounted
    CacheExactUnlessRaced
CHECK_DEADLOCK FALSE
