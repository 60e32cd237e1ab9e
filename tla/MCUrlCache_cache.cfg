\* Two FUSE threads, two URLs.
SPECIFICATION FairSpec
CONSTANTS
    Thread = {t1, t2}
    Url = {u1, u2}
    Rev = {r1}
    NULL = NULL
    Wild = Wild
INVARIANTS
    TypeOK
    ChunkIsOfUrl
    DeathIsExplained
PROPERTIES
    IsOnePageCache
    DownloadsReturn
CHECK_DEADLOCK FALSE
