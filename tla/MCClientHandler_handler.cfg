\* Every combination of callbacks, all results of the system calls.
SPECIFICATION FairHandlerSpec
CONSTANTS
    ReadSize = 3
    WriteSize = 2
    SizeMax = 5
    MaxUnread = 4
INVARIANTS
    ReplySentOnce
    CallbackHasInput
    NothingLeaks
    CrashNeedsFailedAlloc
PROPERTIES
    EndsAfterHangUp
    WriteEnds
CHECK_DEADLOCK FALSE
