SPECIFICATION FairSpec
CONSTANTS
    HalfSeq = 8
    MaxData = 3
    MaxToPeer = 1
    MaxToSocket = 1
    ISS = 14
    Ticks = 2
    Timeout <- MCTimeout
    TxRoom = 3
    Writes = {1, 2}
    PushIn = {"onReceive", "onClose", "loop"}
    PeerISS = 15
    PeerData = 1
    PeerOpens = {TRUE}
    PeerResets = TRUE
    PartialAccept = FALSE
INVARIANTS
    NothingReleasedTooEarly
PROPERTIES
    ClosingEnds
CHECK_DEADLOCK FALSE
