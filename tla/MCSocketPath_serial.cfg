\* Brokers started one after the other, each killed or stopped at any point.
SPECIFICATION Spec
CONSTANTS
    Brokers = {b1, b2, b3, b4}
    Leftover = Leftover
    NotOurs = NotOurs
    Nothing = Nothing
    Overlap = FALSE
INVARIANTS TypeOK ServingReachable StaleRecovered
CHECK_DEADLOCK FALSE
