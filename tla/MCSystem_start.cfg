\* Two processes and a broker that may stop answering at any time.
SPECIFICATION UndisturbedSpec
CONSTANTS
    p1 = p1
    p2 = p2
    Conns = {p1, p2}
    Foreign <- NoForeign
    Requests <- ProcessRequests
    Keys = {key}
    EmptyKey = "empty"
    OpenKey = "open"
    MaxSize = 2
    MaxClients = 0
    FdLimit = 6
    SendBuffer = 4
    RequestQueue = 4
    Backlog = 1
    MaxSends = 4
    RequestedSize = 2
    GlobalsOffset = 1
    Addresses = {1}
    MaxLocks = 1
CHECK_DEADLOCK FALSE
PROPERTIES StartupEnds InitializationEnds
