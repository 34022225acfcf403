SPECIFICATION ImportFairSpec
CONSTANTS
    rice = rice
    lamp = lamp
    Txs = {t1, t2}
    Deduped = {rice}
    Created = {lamp}
    Opening <- OpeningUnits
    Bought <- BoughtUnits
    Adjusted <- AdjustedUnits
    ImportedSales <- SaleOfRice
    MaxImports = 2
    MaxLive = 1
INVARIANTS
    CostedMeansDeducted
    StockExplained
    BatchesConserved
PROPERTY ImportsEnd
CHECK_DEADLOCK FALSE
