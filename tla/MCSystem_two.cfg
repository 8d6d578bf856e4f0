\* Two processes that may map at different addresses and compute different keys.
SPECIFICATION UnsignalledSpec
CONSTANTS
    p1 = p1
    p2 = p2
    Conns = {p1, p2}
    Foreign <- NoForeign
    Requests <- ProcessRequests
    Keys = {key, other}
    EmptyKey = "empty"
    OpenKey = "open"
    MaxSize = 2
    MaxClients = 0
    FdLimit = 6
    SendBuffer = 4
    RequestQueue = 4
    Backlog = 1
    MaxSends = 4
    RequestedSize = 2
    GlobalsOffset = 1
    Addresses = {1, 2}
    MaxLocks = 1
SYMMETRY Symmetry
INVARIANTS SystemTypeOK SameObjects AttachedBuilt KeyRespected OneWriter AcknowledgedRetained
PROPERTY RefinesSharing
CHECK_DEADLOCK FALSE
