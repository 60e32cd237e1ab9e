\* Two calls of either function on a small table of descriptors.
SPECIFICATION FairSpec
CONSTANTS
    Call = {c1, c2}
    Fd = {3, 4}
    MaxAddrs = 2
    NULL = NULL
INVARIANTS
    FirstThatAnswers
    LeaksExplained
PROPERTIES
    CallsAdvance
    CallsReturn
CHECK_DEADLOCK FALSE
