SPECIFICATION OfficeSpec
CONSTANTS
    Absent = Absent
    Workers = {w1, w2}
    MaxSell = 2
    MaxPurchase = 1
    Goods = {"soap"}
    Numbers = {"n1"}
    PageSizes = {1, 2}
    MaxIncidents = 1
    Products <- TwoProducts
    NameOf <- SameName
    Sold <- OneSell
    Bought <- TwoPurchases
    Adjusted <- LossThenOpening
    Returned <- TheSell
    SentBack <- TheFirst
    MaxJobs = 2
    MaxLost = 1
    MaxByHand = 1
    Clerks = {c1, c2}
    Categories = {k1, k2, k3}
    Names = {"a", "b"}
    Items = {i1}
    Parties = {x1, x2}
    MaxMoney = 1
    MaxEntries = 2
    Gone = Gone
    Owner = owner
    Others = {ada}
    Sessions = {t1, t2}
    SeatLimit = 2
    Threshold = 2
    Lock = 1
    Access = 1
    Refresh = 2
    Reset = 1
    Verify = 1
    Grace = 2
    MaxTime = 4
    MaxRequests = 2
    MaxPassword = 2
INVARIANT DeletedExpensesGone
CHECK_DEADLOCK FALSE
