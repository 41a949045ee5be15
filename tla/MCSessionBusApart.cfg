SPECIFICATION Spec
CONSTANTS
    i1 = i1
    s1 = s1
    s2 = s2
    Api = api
    Indexer = indexer
    Sessions = {s1, s2}
    NoId = noid
    Iterators = {i1}
    Topic <- IteratorTopic
    Sockets = {k1}
    MaxMessages = 3
INVARIANTS
    OutcomesReachRooms
