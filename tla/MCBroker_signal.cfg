\* One connection and a signal.
SPECIFICATION Spec
CONSTANTS
    c1 = c1
    c2 = c2
    c3 = c3
    Nobody = Nobody
    Conns = {c1}
    Foreign <- NoForeign
    Requests <- Changing
    Keys <- KeySet
    EmptyKey = "empty"
    OpenKey = "open"
    MaxSize = 2
    MaxClients = 0
    FdLimit = 5
    SendBuffer = 1
    RequestQueue = 1
    Backlog = 1
    MaxSends = 1
PROPERTIES StopsOnSignal
CHECK_DEADLOCK FALSE
