SPECIFICATION PaymentsRun
CONSTANTS
    Null = Null
    Txs = {t1, t2}
    Payments = {p1, p2}
    OrderCurrency = "USD"
    Currencies = {"USD", "NGN", "EUR"}
    Amounts = {3}
    Rates = {2}
    Totals = {4, 7}
    Tolerance = 1
SYMMETRY Symmetry
PROPERTIES
    StatusFollowsPayments
    FitsTheTotal
