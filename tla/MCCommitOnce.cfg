\* Shows that a commit that is sent again is applied again.
SPECIFICATION Spec
CONSTANTS
    Tx = {t1, t2}
    Page = {p1, p2}
    Hash = {h1, h2, h3}
    Owner = {}
    p1 = p1
    p2 = p2
    h1 = h1
    h2 = h2
    h3 = h3
    NoTx = NoTx
    NoOwner = NoOwner
    Plan <- MCPlan
    MaxAttempts = 2
    MaxVersion = 6
    CommitMultiPhaseThreshold = 2
    PlccReadSetSizeThreshold = 1
    IntervalEntryMaxSize = 2
    IntervalScanSize = 2
    IntervalMaxSize = 1
INVARIANT
    AppliedAtMostOnce
CHECK_DEADLOCK FALSE
