SPECIFICATION ScopedSpec
CONSTANTS
    small = small
    Untagged = Untagged
    None = None
    Orders = {1, 2}
    Sales = {s1, s2}
    Variants = {small}
    LineChoices <- OneVariantLines
    Days = {1, 2}
    Quantities = {1, 2}
    Adjustments <- UpDown
    InitialStock = {0, 1}
    Prices = {3}
    Discounts = {0}
    Costs = {1, 2}
    MaxMoney = 8
    MaxReturned = 1
    MaxStock = 2
SYMMETRY SaleSymmetry
INVARIANTS
    LotConserved
    StockConserved
    CogsMatchesLedger
    LedgerInv
