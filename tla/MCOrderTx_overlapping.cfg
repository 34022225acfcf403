SPECIFICATION Spec
CONSTANTS
    Txs = {t1, t2}
    Quantity = 2
    InitialStock = 1
    MaxLines = 3
    MaxBatches = 2
SYMMETRY Symmetry
INVARIANTS
    LevelMatchesBatches
    DeliveryMatchesStatus
PROPERTY CostedBatchesKept
