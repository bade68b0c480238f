\* One connection, two pages, flushes after two pages, other clients' commits.
SPECIFICATION Spec
CONSTANTS
    Conn = {c1}
    Page = {p1, p2}
    Value = {v0, v1}
    InitialValue = v0
    NoPage = NoPage
    FlushThreshold = 2
    WriteChunkSize = 1
    EvictBuffered = FALSE
    MaxVersion = 2
SYMMETRY Symmetry
INVARIANTS
    ConnTypeOK
    SqliteSeesSnapshot
    PageCacheCoherent
PROPERTY
    CommitOnCurrentPages
