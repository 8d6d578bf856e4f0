\* --max-clients 1, two users' connections and one of another user.
SPECIFICATION Spec
CONSTANTS
    c1 = c1
    c2 = c2
    c3 = c3
    Nobody = Nobody
    Conns = {c1, c2, c3}
    Foreign <- ThirdForeign
    Requests <- Changing
    Keys <- KeySet
    EmptyKey = "empty"
    OpenKey = "open"
    MaxSize = 2
    MaxClients = 1
    FdLimit = 5
    SendBuffer = 1
    RequestQueue = 1
    Backlog = 1
    MaxSends = 2
INVARIANTS QuotaHeld
PROPERTIES QuotaEnds RequestsServed
CHECK_DEADLOCK FALSE
