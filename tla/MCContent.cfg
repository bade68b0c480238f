\* Writers beside one collector.
SPECIFICATION MCSpec
CONSTANTS
    Writer = {w1, w2}
    Collector = {g1}
    Page = {1}
    Hash = {1, 2, 3}
    GcScanBatchSize = 1
    MaxCommits = 3
SYMMETRY Symmetry
INVARIANTS
    StoreTypeOK
    PagesReadable
    DeltasDecodable
