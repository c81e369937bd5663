SPECIFICATION FairSpec
CONSTANTS
    s1 = s1
    s2 = s2
    a1 = a1
    a2 = a2
    None = None
    Servers = {s1, s2}
    Addresses = {a1}
    SelectingTimeout = 2
    RequestingTimeout = 2
    BoundTimeout = 1
    MaxAttempts = 2
    DefaultRenewalS = 2
    BoundTimeoutMs = 1000
    ByteMod = 8
    IntMod = 65536
    TimerMod = 4
    RenewalTimes = {2, 5}
    MaxInFlight = 2
    MaxSetups = 1
INVARIANTS
    TypeOK
    TimersRun
    RequestsOffered
PROPERTIES
    RenewsOnTime
    SetupEnds
    RequestEnds
