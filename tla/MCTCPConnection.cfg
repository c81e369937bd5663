SPECIFICATION Spec
CONSTANTS
    HalfSeq = 8
    MaxData = 2
    MaxToPeer = 1
    MaxToSocket = 2
    ISS = 14
    Ticks = 2
    Timeout <- MCTimeout
    TxRoom = 2
    Writes = {1}
    PushIn = {"onReceive", "onClose", "loop"}
    PeerISS = 15
    PeerData = 1
    PeerOpens = {TRUE, FALSE}
    PeerResets = TRUE
    PartialAccept = FALSE
INVARIANTS
    TimersRun
    StreamIntact
    DeliveredIntact
    
    CloseAfterAllData
    FinAcknowledged
CHECK_DEADLOCK FALSE
