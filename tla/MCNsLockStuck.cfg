\* Shows a rollback that is never resumed after one fault.
SPECIFICATION NsFairSpec
CONSTANTS
    Tx = {t1}
    Page = {1, 2}
    Hash = {h1, h2, h3}
    Owner = {o1}
    o1 = o1
    h1 = h1
    h2 = h2
    h3 = h3
    NoTx = NoTx
    NoOwner = NoOwner
    NoHash = NoHash
    Plan <- MCPlan
    MaxAttempts = 1
    MaxVersion = 6
    CommitMultiPhaseThreshold = 3
    PlccReadSetSizeThreshold = 1
    IntervalEntryMaxSize = 3
    IntervalScanSize = 3
    IntervalMaxSize = 2
    Handler = {r1, r2}
    RollbackScanBatchSize = 1
    ExplicitVersion = FALSE
    MixModes = TRUE
    MaxFaults = 1
PROPERTY
    RollbackCompletes
CHECK_DEADLOCK FALSE
