\* A write that takes part of the reply.
SPECIFICATION HandlerSpec
CONSTANTS
    ReadSize = 3
    WriteSize = 2
    SizeMax = 5
    MaxUnread = 4
INVARIANT
    WritesUntilEqual
CHECK_DEADLOCK FALSE
