SPECIFICATION Spec
CONSTANTS
    ICMPPingAutoReply = ICMPPingAutoReply
    ICMPPinger = ICMPPinger
    DNS = DNS
    TCPSocket = TCPSocket
    UDPSocket = UDPSocket
    Peer = Peer
    Local = Local
    Target = Target
    Null = Null
    Mark = Mark
    Garbage = Garbage
    d = d
    e = e
    Service <- MCService
    Fixed <- MCFixed
    Resolver = DNS
    SampleSize = 1
    BufferSize = 4
    Frame <- MCFrame
    MaxQueue = 2
    ByteMod = 4
    PING_PERIOD = 2
    PingLength = 1
    MaxPings = 1
INVARIANTS
    CalledOnce
    EchoIntact
PROPERTIES
    LoopReturns
