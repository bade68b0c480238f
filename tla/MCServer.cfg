\* Rollbacks without faults come to an end, also beside commit-mode releases;
\* namespaces under two keys; two servers with a timekeeper each.
SPECIFICATION MCSpec
CONSTANTS
    Tx = {t1}
    Page = {1, 2}
    Hash = {h1, h2, h3}
    Owner = {o1}
    o1 = o1
    h1 = h1
    h2 = h2
    h3 = h3
    NoTx = NoTx
    NoOwner = NoOwner
    NoHash = NoHash
    Plan <- MCPlan
    MaxAttempts = 1
    MaxVersion = 6
    CommitMultiPhaseThreshold = 3
    PlccReadSetSizeThreshold = 1
    IntervalEntryMaxSize = 3
    IntervalScanSize = 3
    IntervalMaxSize = 2
    Handler = {r1, r2}
    RollbackScanBatchSize = 1
    ExplicitVersion = FALSE
    MixModes = TRUE
    MaxFaults = 0
    Admin = {a1, a2}
    MaxKey = 2
    MaxId = 3
    ListLimit = 1
    CacheTtl = 3
    CacheTti = 2
    MaxLookup = 1
    Keeper = {s1, s2}
    NoKeeper = NoKeeper
    Ttl = 1
    MaxSkew = 0
    MaxTime = 3
    MaxPairs = 2
INVARIANTS
    NamespacesSound
    QueryBrackets
PROPERTIES
    PreemptedOnlyWhenExpired
    RollbackCompletes
    OnlyRolledBackIsDeleted
CHECK_DEADLOCK FALSE
