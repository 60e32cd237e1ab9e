\* The argument of a new thread is overwritten before the thread reads it.
SPECIFICATION Spec
CONSTANTS
    Conn = {c1, c2}
    Node = {n1, n2}
    Fd = {3, 4}
    NULL = NULL
    Wild = Wild
    SpawnMayFail = FALSE
INVARIANT
    LaunchedThreadServesItsClient
CHECK_DEADLOCK FALSE
