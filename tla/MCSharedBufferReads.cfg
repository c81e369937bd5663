SPECIFICATION Spec
CONSTANTS
    listener = listener
    c1 = c1
    c2 = c2
    d1 = d1
    d2 = d2
    Buffers <- MCBuffers
    Static <- MCStatic
    Users <- MCUsers
    Data <- MCData
    Capacity = 9
    MaxLength = 3
    MaxRoom = 6
SYMMETRY Symmetry
INVARIANTS
    SpaceAccounted
    AllFreeWhenEmpty
    FrameIsPrefix
PROPERTIES
    PrivateFifosImplemented
