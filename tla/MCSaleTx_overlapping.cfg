SPECIFICATION Spec
CONSTANTS
    Untagged = Untagged
    Txs = {t1, t2}
    Sales = {s1, s2}
    Variants = {small, large}
    Received <- TwoLots
    OnHand <- TwoEach
    ReceivedAt <- ArrivedLater
    OrderDate <- OrderedFirst
    MaxStock = 2
    Quantities = {1, 2}
SYMMETRY Symmetry
INVARIANTS
    BatchConserved
    NoDeadlock
PROPERTY ImplementsAccount
\* Once every sale is voided there is no request left to make.
CHECK_DEADLOCK FALSE
