SPECIFICATION FairSpec
CONSTANTS
    c1 = c1
    c2 = c2
    Connections = {c1, c2}
    Uncut = {c2}
    MAX_CLIENTS = 2
    Listener = 0
    Nobody = Nobody
    GET = 230
    MethodMod = 256
    LengthMod = 65536
    Requests <- MCRequests
    AnswersIn = {"onRequest", "onBodyBegin", "onBodyReceived", "onRequestEnd", "never"}
INVARIANTS
    OneSocketPerRemote
    
    OwnAnswer
PROPERTIES
    AnsweredSocketReturns
