------------------------------ MODULE Cashflow ------------------------------
(***************************************************************************)
(* cashflow/service.py for one business: loans and operating costs, the    *)
(* projection they are cached in, its scenarios, runway, DSCR and their    *)
(* daily snapshots, liquidity alerts, the payment calendar and triage.  The*)
(* rate is the latest of FxRates.                                          *)
(*                                                                         *)
(* A request is two steps: what it reads, with the time the projection will*)
(* be stamped with, and what it commits.  Amounts are whole units, ratios  *)
(* thousandths.  Only the projection with the latest stamp is kept: no     *)
(* other is read again.                                                    *)
(***************************************************************************)
EXTENDS Integers, Functions, FxRates

CONSTANTS
    Amounts,       \* monthly payments and costs
    Revenue,       \* monthly revenue of the last 90 days, at first
    Months,        \* of the horizon
    MaxRequests, MaxDay

ASSUME CashAssumption ==
    /\ Amounts \subseteq Nat \ {0} /\ Revenue \in Nat /\ Months \in Nat \ {0}
    /\ MaxRequests \in Nat /\ MaxDay \in Nat

VARIABLES
    books,         \* committed rows: loans, costs, owed, revenue
    latest,        \* the projection get_latest_projection() returns
    snapshots,     \* day -> LiquiditySnapshot row
    triage,        \* TriageRecord rows: [n, status, shortfall]
    clock,         \* [day, stamp, requests]
    job,           \* request -> what it has read
    crossed        \* whether projections have overlapped since one ran alone

cashVars == <<books, latest, snapshots, triage, clock, job, crossed>>

None == [stamp |-> 0, day |-> -1]        \* no projection yet
Idle == [kind |-> "idle"]
Unset == -1000000
NoSnapshot == [runway |-> Unset, dscr |-> Unset]

UndefinedDscr == 999000
InfiniteRunway == 9990         \* tenths of a month
Scenarios == {"BASE", "FX_SHOCK_20", "COMBINED_STRESS"}

\* An order of one dollar is due in the first month.
Books(cost) == [loan |-> 0, cost |-> cost, revenue |-> Revenue,
                owed |-> [m \in 1..Months |-> IF m = 1 THEN 1 ELSE 0]]

NothingProjected ==
    /\ latest = None
    /\ snapshots = [d \in 0..MaxDay |-> NoSnapshot]
    /\ triage = {}
    /\ clock = [day |-> 0, stamp |-> 0, requests |-> 0]
    /\ job = [r \in Requests |-> Idle]
    /\ crossed = FALSE

RatesFound == {{}, {Row("USDNGN", 0, Max(Quotes), FALSE)}}

CashInit ==
    /\ NothingProjected
    /\ books = Books(0)
    /\ \/ FxInit
       \/ NothingAsked /\ \E rows \in RatesFound : market = Market("books", rows, FALSE)

------------------------------------------------------------------------------
(* Building blocks: sums per month of the horizon.                         *)
Abs(x) == IF x < 0 THEN -x ELSE x

\* Decimal division rounded half up, away from zero.
Rounded(a, b) == IF a < 0 THEN -((2 * Abs(a) + b) \div (2 * b)) ELSE (2 * a + b) \div (2 * b)

RevenueShock(scenario) == IF scenario = "COMBINED_STRESS" THEN -20 ELSE 0
FxShock(scenario) == IF scenario \in {"FX_SHOCK_20", "COMBINED_STRESS"} THEN 20 ELSE 0

MonthlyRevenue(b, scenario) == Rounded(b.revenue * (100 + RevenueShock(scenario)), 100)

\* _get_latest_fx_rate(), with DEFAULT_FX_RATE
UsdNgn ==
    LET known == Of("USDNGN", rates) IN
    IF known = {} THEN 100 ELSE (CHOOSE row \in Latest(known) : TRUE).rate

AtTodaysRate(b) == [loan |-> b.loan, cost |-> b.cost, owed |-> b.owed, revenue |-> b.revenue,
                    rate |-> UsdNgn]

FxObligations(b, scenario, month) ==
    Rounded(b.owed[month] * 70 * b.rate * (100 + FxShock(scenario)), 10000)

Dscr(revenue, cost, loan) ==
    IF loan <= 0 THEN UndefinedDscr ELSE Rounded(1000 * (revenue - cost), loan)

Rating(dscr, runway) ==
    IF dscr < 1000 \/ runway < 30 THEN "HIGH"
    ELSE IF dscr < 1500 \/ runway < 60 THEN "MEDIUM" ELSE "LOW"

Net(b, scenario, month) ==
    MonthlyRevenue(b, scenario) - b.loan - b.cost - FxObligations(b, scenario, month)

Cumulative(b, scenario, month) ==
    SumFunctionOnSet([i \in 1..Months |-> Net(b, scenario, i)], 1..month)

MonthRunway(net, cumulative) ==
    IF net < 0 /\ cumulative > 0 THEN Rounded(10 * cumulative, Abs(net))
    ELSE IF cumulative <= 0 THEN 0 ELSE InfiniteRunway

\* The monthly bucket of generate_cashflow_projection().
Bucket(b, scenario, month) ==
    LET net == Net(b, scenario, month)
        cumulative == Cumulative(b, scenario, month)
        dscr == Dscr(MonthlyRevenue(b, scenario), b.cost, b.loan)
        runway == MonthRunway(net, cumulative)
    IN [net |-> net, cumulative |-> cumulative, dscr |-> dscr, runway |-> runway,
        risk |-> Rating(dscr, runway)]

Buckets(projection) ==
    [month \in 1..Months |-> Bucket(projection.basis, projection.scenario, month)]

\* calculate_cash_runway()
Runway(projection) ==
    LET buckets == Buckets(projection)
        burns == {month \in 1..Months : buckets[month].net < 0}
        burnt == MapThenSumSet(LAMBDA m : buckets[m].net, burns)
        cumulative == buckets[Months].cumulative
    IN IF burns = {} THEN InfiniteRunway
       ELSE IF cumulative <= 0 THEN 0
       ELSE Rounded(10 * cumulative * Cardinality(burns), Abs(burnt))

CurrentDscr(b) == Dscr(MonthlyRevenue(b, "BASE"), b.cost, b.loan)

AlertsBugNoCumulative(projection) ==
    {<<month, "negative_cashflow">> : month \in {m \in 1..Months : Buckets(projection)[m].net < 0}}

\* check_liquidity_alerts()
Alerts(projection) ==
    LET buckets == Buckets(projection) IN
    UNION {LET bucket == buckets[month] IN
              (IF bucket.net < 0 THEN {<<month, "negative_cashflow">>} ELSE {})
              \cup (IF bucket.dscr < 1000 THEN {<<month, "dscr_below_1">>} ELSE {})
              \cup (IF bucket.runway \in 1..39 THEN {<<month, "low_runway">>} ELSE {})
              \cup (IF bucket.cumulative < 0 THEN {<<month, "negative_cumulative">>} ELSE {})
           : month \in 1..Months}

\* build_payment_calendar(): the balance starts at the first month's cumulative
\* cashflow (0 without a projection) and falls with each payment due; the last
\* balance is the lowest.
Shortfall(b, projection) ==
    LET start == IF projection = None THEN 0 ELSE Buckets(projection)[1].cumulative
        due == Months * b.cost
                  + MapThenSumSet(LAMBDA m : FxObligations(b, "BASE", m), 1..Months)
    IN IF due > 0 /\ start < due THEN due - start ELSE 0

------------------------------------------------------------------------------
(* Requests.                                                               *)
Projecting == {r \in Requests : "stamp" \in DOMAIN job[r]}
Running(kind) == {r \in Requests : job[r].kind = kind}

Begin(r, what) ==
    /\ job[r] = Idle /\ clock.requests < MaxRequests
    /\ job' = [job EXCEPT ![r] = what]
    /\ UNCHANGED <<books, latest, snapshots, triage>>

Apply(b, change) ==
    [b EXCEPT !.loan = @ + change.loan, !.cost = @ + change.cost,
              !.owed = [m \in 1..Months |-> IF m = change.month THEN 0 ELSE @[m]]]

BasisBugBefore(change) == AtTodaysRate(books)
Basis(change) == AtTodaysRate(Apply(books, change))

\* generate_cashflow_projection() takes its stamp, then reads its inputs, the
\* request's own change among them.
BeginProjection(r, kind, change, scenario) ==
    /\ Begin(r, [kind |-> kind, change |-> change, scenario |-> scenario,
                 basis |-> Basis(change), stamp |-> clock.stamp + 1, day |-> clock.day])
    /\ clock' = [clock EXCEPT !.stamp = @ + 1, !.requests = @ + 1]
    /\ crossed' = (Projecting # {})

NoChange == [loan |-> 0, cost |-> 0, month |-> 0]

\* create_loan(), create_operating_cost() and, for an order, the status change
\* to delivered: each regenerates today's projection.
CreateLoan(r) ==
    \E a \in Amounts : BeginProjection(r, "loan", [NoChange EXCEPT !.loan = a], "BASE")
CreateCost(r) ==
    \E a \in Amounts : BeginProjection(r, "cost", [NoChange EXCEPT !.cost = a], "BASE")
DeliverOrder(r) ==
    \E m \in 1..Months : books.owed[m] > 0
                         /\ BeginProjection(r, "deliver", [NoChange EXCEPT !.month = m], "BASE")

\* run_stress_scenario() and GET /projection/{scenario}: the stressed projection
\* is stamped last, and is the latest from then on.
Stress(r) ==
    \E s \in Scenarios \ {"BASE"} : BeginProjection(r, "stress", NoChange, s)

\* _get_or_regenerate_projection()
Stale(projection) == projection.day < clock.day

\* GET /projection and /cash-runway.
View(r) ==
    \/ Stale(latest) /\ BeginProjection(r, "view", NoChange, "BASE")
    \/ /\ ~Stale(latest)
       /\ Begin(r, [kind |-> "view", seen |-> latest])
       /\ clock' = [clock EXCEPT !.requests = @ + 1]
       /\ UNCHANGED crossed

ProjectionOf(j) == [stamp |-> j.stamp, day |-> j.day, scenario |-> j.scenario, basis |-> j.basis]
Shown(j) == IF "seen" \in DOMAIN j THEN j.seen ELSE ProjectionOf(j)

\* INSERT ... ON CONFLICT DO UPDATE of one column.
Upsert(column, value) == [snapshots[clock.day] EXCEPT ![column] = value]

Record(column, value) ==
    snapshots' = [snapshots EXCEPT ![clock.day] = Upsert(column, value)]

\* The commit of a request that projects, or views.
Commit(r) ==
    LET j == job[r] IN
    /\ r \in Projecting \cup Running("view")
    /\ books' = IF r \in Projecting THEN Apply(books, j.change) ELSE books
    /\ latest' = IF Shown(j).stamp > latest.stamp THEN Shown(j) ELSE latest
    /\ IF j.kind = "view" THEN Record("runway", Runway(Shown(j)))
                          ELSE UNCHANGED snapshots
    /\ job' = [job EXCEPT ![r] = Idle]
    /\ UNCHANGED <<triage, clock, crossed>>

\* GET /dscr
ViewDscr(r) ==
    /\ Begin(r, [kind |-> "dscr", value |-> CurrentDscr(books)])
    /\ clock' = [clock EXCEPT !.requests = @ + 1]
    /\ UNCHANGED crossed

RecordDscr(r) ==
    /\ job[r].kind = "dscr"
    /\ Record("dscr", job[r].value)
    /\ job' = [job EXCEPT ![r] = Idle]
    /\ UNCHANGED <<books, latest, triage, clock, crossed>>

------------------------------------------------------------------------------
(* Triage.                                                                 *)
ActiveTriage == {t \in triage : t.status = "ACTIVE"}

\* get_active_triage(); afterwards resolving or updating leaves older ones.
NewestActive == {t \in ActiveTriage : \A s \in ActiveTriage : s.n <= t.n}

\* check_and_activate_triage() looks for a shortfall and for an active record.
CheckTriage(r) ==
    /\ Begin(r, [kind |-> "triage", shortfall |-> Shortfall(AtTodaysRate(books), latest),
                 active |-> NewestActive])
    /\ clock' = [clock EXCEPT !.requests = @ + 1]
    /\ UNCHANGED crossed

\* It then resolves, updates or creates one.
SettleTriage(r) ==
    LET j == job[r]
        found == {t \in triage : \E a \in j.active : a.n = t.n}
    IN /\ j.kind = "triage"
       /\ triage' =
             IF j.shortfall = 0
             THEN (triage \ found) \cup {[t EXCEPT !.status = "RESOLVED"] : t \in found}
             ELSE IF found # {}
             THEN (triage \ found) \cup {[t EXCEPT !.shortfall = j.shortfall] : t \in found}
             ELSE triage \cup {[n |-> Cardinality(triage) + 1, status |-> "ACTIVE",
                                shortfall |-> j.shortfall]}
       /\ job' = [job EXCEPT ![r] = Idle]
       /\ UNCHANGED <<books, latest, snapshots, clock, crossed>>

------------------------------------------------------------------------------
(* What changes the inputs without regenerating: orders placed, sales, time.*)
Outside ==
    /\ \/ /\ \E m \in 1..Months : books.owed[m] = 0 /\ books' = [books EXCEPT !.owed[m] = 1]
          /\ UNCHANGED clock
       \/ books.revenue = Revenue /\ books' = [books EXCEPT !.revenue = 2 * Revenue] /\ UNCHANGED clock
       \/ clock.day < MaxDay /\ clock' = [clock EXCEPT !.day = @ + 1] /\ UNCHANGED books
    /\ UNCHANGED <<latest, snapshots, triage, job, crossed>>

CashStep ==
    \/ Outside
    \/ \E r \in Requests :
          \/ CreateLoan(r) \/ CreateCost(r) \/ DeliverOrder(r) \/ Stress(r) \/ View(r) \/ Commit(r)
          \/ ViewDscr(r) \/ RecordDscr(r) \/ CheckTriage(r) \/ SettleTriage(r)

CashNext ==
    \/ FxNext /\ UNCHANGED cashVars
    \/ market.about = "books" /\ CashStep /\ UNCHANGED fxVars

CashSpec == CashInit /\ [][CashNext]_<<fxVars, cashVars>>

------------------------------------------------------------------------------
\* The reason invalidate_todays_projection() gives: a loan, an operating cost or
\* a delivery is in the projection the next reader is shown, unless requests
\* overlapped since, or a scenario was run last.
ProjectionCurrent ==
    (/\ latest # None /\ latest.scenario = "BASE"
     /\ Projecting = {} /\ ~crossed)
       => /\ latest.basis.loan = books.loan
          /\ latest.basis.cost = books.cost
          /\ \A m \in 1..Months : books.owed[m] = 0 => latest.basis.owed[m] = 0

\* A month rated HIGH is one check_liquidity_alerts() alerts of, unless its
\* cumulative cashflow is exactly zero.
HighRiskAlerted ==
    latest # None =>
       \A month \in 1..Months :
          LET bucket == Buckets(latest)[month] IN
          bucket.risk = "HIGH" /\ bucket.cumulative # 0
             => \E alert \in Alerts(latest) : alert[1] = month

=============================================================================
