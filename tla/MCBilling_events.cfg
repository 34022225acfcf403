SPECIFICATION OrderedSpec
CONSTANTS
    Txs = {t1, t2}
    e1 = e1
    e2 = e2
    e3 = e3
    Events <- ThreeEvents
    GraceDays = 1
    LastEventDay = 1
    None = None
INVARIANTS
    AppliedOnce
    ClockFromFirstFailure
PROPERTIES
    GraceEnds
\* On the last day, with every event recorded, there is nothing left to do.
CHECK_DEADLOCK FALSE
