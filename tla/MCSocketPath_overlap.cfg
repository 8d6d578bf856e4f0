\* Brokers started while another one may be alive.
SPECIFICATION Spec
CONSTANTS
    Brokers = {b1, b2}
    Leftover = Leftover
    NotOurs = NotOurs
    Nothing = Nothing
    Overlap = TRUE
INVARIANTS ServingReachable
CHECK_DEADLOCK FALSE
