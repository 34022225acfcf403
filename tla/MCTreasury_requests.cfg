CONSTANTS
    r1 = r1
    r2 = r2
    Requests <- TwoRequests
    Quotes <- TwoQuotes
    Ttl = 1
    DayTicks = 2
    MaxTime = 2
    MaxRates = 2
    MinDays = 2
    MaxHistory = 2
    Amounts <- OneAmount
    Revenue = 100
    Months = 2
    MaxRequests = 3
    MaxDay = 1
    MaxAsked = 3
    Expiry = 0
    MaxEoq = 20
SPECIFICATION AdviceSpec
SYMMETRY SomeSymmetry
CHECK_DEADLOCK FALSE
INVARIANTS AlertsFire OneGeneration ProjectionCurrent HighRiskAlerted
PROPERTIES DecisionsStand
