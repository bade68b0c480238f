\* A page is written again after a flush.
SPECIFICATION Spec
CONSTANTS
    Conn = {c1}
    Page = {p1, p2}
    Value = {v0, v1}
    InitialValue = v0
    NoPage = NoPage
    FlushThreshold = 2
    WriteChunkSize = 1
    EvictBuffered = FALSE
    MaxVersion = 2
SYMMETRY Symmetry
INVARIANT
    AnnouncedPagesAreSent
