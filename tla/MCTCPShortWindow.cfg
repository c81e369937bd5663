SPECIFICATION Spec
CONSTANTS
    HalfSeq = 8
    MaxData = 2
    MaxToPeer = 1
    MaxToSocket = 1
    ISS = 14
    Ticks = 2
    Timeout <- MCTimeout
    TxRoom = 2
    Writes = {2}
    PushIn = {"onReceive", "onClose", "loop"}
    PeerISS = 15
    PeerData = 1
    PeerOpens = {TRUE}
    PeerResets = FALSE
    PartialAccept = TRUE
INVARIANTS
    NothingReleasedTooEarly
CHECK_DEADLOCK FALSE
