\* Three memories: two creators may give up before the third publishes.
SPECIFICATION EitherSpec
CONSTANTS
    Clients = {c1, c2, c3}
    Nobody = Nobody
    Memories = {m1, m2, m3}
    NoMemory = NoMemory
    Places = {p1, p2}
    NoPlace = NoPlace
    Procs = {c1, c2, c3}
    Keys = {k1, k2}
    Addresses = {a1, a2}
    Mappings = {m1, m2, m3}
    NoMapping = NoMapping
    NoKey = NoKey
INVARIANTS TypeOK HoldersAgree OwnerAlone SharingTypeOK SharedAlike
CHECK_DEADLOCK FALSE
