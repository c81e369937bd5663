SPECIFICATION FairSpec
CONSTANTS
    h1 = h1
    h2 = h2
    h3 = h3
    m1 = m1
    m2 = m2
    s1 = s1
    s2 = s2
    Nobody = Nobody
    Hosts = {h1, h2, h3}
    Sockets = {s1, s2}
    remoteHost <- MCRemoteHost
    MACs = {m1, m2}
    TableLength = 2
    MaxTTL = 2
    MinuteTicks = 1
    TxRoom = 2
    MaxWrites <- MCMaxWrites
    MaxSends <- MCMaxSends
INVARIANTS
    OneEntryPerHost
    LatestAnswered
    IdleExpires
    NothingLost
PROPERTIES
    OldestEvicted
    SendEnds
