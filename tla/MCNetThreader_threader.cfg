\* Three clients on two descriptors, thread creation may fail.
SPECIFICATION FairSpec
CONSTANTS
    Conn = {1, 2, 3}
    Node = {11, 12, 13}
    Fd = {3, 4}
    NULL = NULL
    Wild = Wild
    SpawnMayFail = TRUE
ACTION_CONSTRAINT InOrder
INVARIANTS
    OwnDescriptor
    NoOrphan
    PoolIntegrity
PROPERTIES
    GoneIsClosed
    EveryClientAccepted
CHECK_DEADLOCK FALSE
