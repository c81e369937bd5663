SPECIFICATION Spec
CONSTANTS
    c1 = c1
    c2 = c2
    Connections = {c1}
    Uncut = {}
    MAX_CLIENTS = 1
    Listener = 0
    Nobody = Nobody
    GET = 230
    MethodMod = 256
    LengthMod = 65536
    Requests <- JustForm
    AnswersIn = {"never"}
INVARIANTS
    RequestEndsAfterBody
