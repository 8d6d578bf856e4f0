\* Two connections that send any messages; descriptors run out.
SPECIFICATION Spec
CONSTANTS
    c1 = c1
    c2 = c2
    c3 = c3
    Nobody = Nobody
    Conns = {c1, c2}
    Foreign <- NoForeign
    Requests <- AnyRequest
    Keys <- KeySet
    EmptyKey = "empty"
    OpenKey = "open"
    MaxSize = 2
    MaxClients = 0
    FdLimit = 5
    SendBuffer = 1
    RequestQueue = 1
    Backlog = 1
    MaxSends = 2
SYMMETRY Symmetry
INVARIANTS TypeOK DescriptorsOwned CreatorConnected PollAligned GrantsAgree
PROPERTIES RefinesGeneration Retained PublishedAcknowledged
CHECK_DEADLOCK FALSE
