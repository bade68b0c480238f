\* A lock on an older version, taken while a truncation runs.
SPECIFICATION TruncSpec
CONSTANTS
    Tx = {t1, t2}
    Page = {1, 2}
    Hash = {h1, h2}
    Owner = {o1}
    o1 = o1
    h1 = h1
    h2 = h2
    NoTx = NoTx
    NoOwner = NoOwner
    NoHash = NoHash
    Plan <- MCPlan
    MaxAttempts = 1
    MaxVersion = 4
    CommitMultiPhaseThreshold = 3
    PlccReadSetSizeThreshold = 1
    IntervalEntryMaxSize = 3
    IntervalScanSize = 3
    IntervalMaxSize = 2
    Handler = {r1}
    RollbackScanBatchSize = 1
    ExplicitVersion = TRUE
    MixModes = TRUE
    MaxFaults = 0
    GcScanBatchSize = 2
SYMMETRY Symmetry
PROPERTIES
    NeverTruncateLatest
CHECK_DEADLOCK FALSE
