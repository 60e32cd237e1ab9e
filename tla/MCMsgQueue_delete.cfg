\* Deleting a queue that is not empty.
SPECIFICATION FairSpec
CONSTANTS
    Thread = {t1, t2}
    Msg = {m1, m2}
    NULL = NULL
    Wild = Wild
    FreshNext = {NULL}
    Ops = {"push", "pop", "delete"}
PROPERTIES
    DeleteEnds
CHECK_DEADLOCK FALSE
