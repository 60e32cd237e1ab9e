\* Two FUSE threads, a directory and two files in it, one of the directory's name.
SPECIFICATION FairSpec
CONSTANTS
    d = d
    g = g
    h = h
    Thread = {t1, t2}
    NULL = NULL
    Root = Root
    Base = Base
    Entry = {d, g, h}
    Dir = {d}
    Url <- MCUrl
    Parent <- MCParent
    Name <- MCName
    Doc <- MCDoc
    MaxChanges = 1
CONSTRAINT Starts
INVARIANTS
    TypeOK
    AnswersWereTrue
    ReadsForward
PROPERTIES
    CallsReturn
CHECK_DEADLOCK FALSE
