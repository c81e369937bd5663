SPECIFICATION FairSpec
CONSTANTS
    a = a
    b = b
    c1 = c1
    c2 = c2
    Clients = {c1, c2}
    Names = {a, b}
    Unresolved = Unresolved
    IdOf <- DistinctIds
    Reachable = {TRUE, FALSE}
    Room = 2
    QueryTimeout = 2
    MaxQueries = 3
    MaxInFlight = 2
INVARIANTS
    QueuedIsTimed
    OwnAnswerTaken
PROPERTIES
    ResolverRests
