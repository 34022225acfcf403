SPECIFICATION UploadFairSpec
CONSTANTS
    shirt = shirt
    shoe = shoe
    Products = {shirt, shoe}
    Invalid = Invalid
    Txs = {j1, j2, j3}
    Files <- OppositeFiles
    InitialStock <- Stocked
    CommitInterval = 2
    MaxJobs = 2
INVARIANTS
    CountsMatchSales
PROPERTIES
    ImplementsAccount
    JobsEnd
\* Once every job was submitted and has ended there is nothing left to do.
CHECK_DEADLOCK FALSE
