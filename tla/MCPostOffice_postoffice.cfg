\* Two threads, two owners, three mailboxes and two places in memory.
SPECIFICATION Spec
CONSTANTS
    Thread = {t1, t2}
    Id = {i1, i2}
    Box = {b1, b2, b3}
    Spot = {s1, s2}
    NULL = NULL
    Wild = Wild
    MaxMsgs = 2
SYMMETRY Symmetry
CONSTRAINT FewLetters
INVARIANTS
    MessagesAtHome
    PlacesReused
    FindsWhatIsThere
PROPERTIES
    IsDirectory
CHECK_DEADLOCK FALSE
