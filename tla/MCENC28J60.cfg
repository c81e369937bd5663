SPECIFICATION Spec
CONSTANTS
    d1 = d1
    d2 = d2
    Blank = Blank
    RxStop = 11
    SampleSize = 1
    BufferSize = 3
    Frame <- MCFrame
INVARIANTS
    RegistersHit
    SpaceReturned
PROPERTIES
    FramesInOrder
