\* Two threads, any sequence of calls.
SPECIFICATION Spec
CONSTANTS
    Thread = {t1, t2}
    Own = {f1, f2}
    Caller = Caller
    Str = {s1, s2}
    NULL = NULL
SYMMETRY Symmetry
CONSTRAINT NoOverlap
INVARIANTS
    CrashExplained
    CallerStreamKept
    NothingLost
CHECK_DEADLOCK FALSE
