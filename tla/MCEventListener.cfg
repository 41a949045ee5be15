SPECIFICATION FairSpec
CONSTANTS
    s1 = s1
    s2 = s2
    Sessions = {s1, s2}
    NoSession = NoSession
    Deserted = {s1}
    Payloads <- Mixed
    MaxRows = 3
    MaxCrashes = 1
    MaxDbFaults = 1
INVARIANTS
    TypeOK
    SessionsMirrorLog
    PublishedAfterCommitted
    NotifiedAtMostOnce
PROPERTIES
    StatusesInChainOrder
    OnePassSuffices
    SoundRowsProcessed
