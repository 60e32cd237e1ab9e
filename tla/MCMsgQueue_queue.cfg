\* Every operation, by two threads, with garbage in fresh messages.
SPECIFICATION FairSpec
CONSTANTS
    Thread = {t1, t2}
    Msg = {m1, m2, m3}
    NULL = NULL
    Wild = Wild
    FreshNext = {NULL, Wild}
    Ops = {"push", "pop", "clean", "delete"}
INVARIANTS
    Represents
    Ownership
    CrashNeedsBareMessage
PROPERTIES
    FifoUntilSpoilt
    LockReleased
CONSTRAINT Followed
CHECK_DEADLOCK FALSE
