\* The boss and one worker, as in the source, and three clients.
SPECIFICATION FairSpec
CONSTANTS
    Boss = Boss
    Worker = {w1}
    Conn = {c1, c2, c3}
    NULL = NULL
INVARIANTS
    TypeOK
    OneProcessPerClient
    NoStrayDescriptor
PROPERTIES
    ClientIsDealtWith
CHECK_DEADLOCK FALSE
