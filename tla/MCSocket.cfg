SPECIFICATION SocketSpec
CONSTANTS
    ByteBase = 3
    BufSize = 2
    HeaderSize = 1
    FrameRoom = 4
    MaxRoom = 5
    MaxArgument = 2
    MaxAsked = 3
INVARIANTS
    PatternWritten
    ChecksumOfFrame
    FrameVerified
