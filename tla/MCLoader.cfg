\* Every launcher, configuration, build and reply.
SPECIFICATION LoaderSpec
CONSTANTS
    Orders <- AllOrders
    MappingSize = 3
    GlobalsSize = 2
    Offsets = {0, 1, 2, 3, 4}
    FaultSets <- OneFault
INVARIANTS LoaderTypeOK ReleasedOnce NothingLeft RestoredInside LockFileOpen StartupReported CallbacksLoaded SharedOnlyStable EnabledRegistered
CHECK_DEADLOCK FALSE
