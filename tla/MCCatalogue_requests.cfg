CONSTANTS
    t1 = t1
    t2 = t2
    va = va
    vb = vb
    Txs <- TwoTxs
    Variants <- TwoVariants
    Prices <- TwoPrices
    MaxRequests = 3
    Costs <- OneCost
    Margins <- ThreeMargins
    FxRate = 3
    MaxSaved = 1
    MaxAsked = 2
SPECIFICATION PricingSpec
SYMMETRY SomeSymmetry
CHECK_DEADLOCK FALSE
INVARIANTS PriceExplained SellableVariants SuggestionsKeepMargin
PROPERTIES CountFrozen
