\* munmap() may fail, and the globals may end outside of the memory.
SPECIFICATION Spec
CONSTANTS
    MappingSize = 3
    GlobalsSize = 2
    Offsets = {0, 1, 2, 3, 4}
    FaultSets <- BothFaults
INVARIANT ReleasedOnce
CHECK_DEADLOCK FALSE
