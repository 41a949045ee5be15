SPECIFICATION FairSpec
CONSTANTS
    i1 = i1
    s1 = s1
    s2 = s2
    Api = api
    Indexer = indexer
    Sessions = {s1, s2}
    NoId = noid
    Iterators = {i1}
    Topic <- IteratorTopic
    Sockets = {k1, k2}
    MaxMessages = 3
INVARIANTS
    TypeOK
    NobodyWaitsInVain
    ExactlyOnceInOrder
PROPERTIES
    FeedPromise
    EveryMessageConsumed
