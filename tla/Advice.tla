------------------------------- MODULE Advice -------------------------------
(***************************************************************************)
(* ai_engine/service.py over the books of Cashflow: the recommendations the*)
(* generators make from stock, prices, dollars owed and liquidity; their   *)
(* application, dismissal and expiry; reorder suggestions.                 *)
(*                                                                         *)
(* Generating, applying and dismissing are two steps, what is read and what*)
(* is committed.  The business sells one product.                          *)
(***************************************************************************)
EXTENDS Cashflow

CONSTANTS
    MaxAsked,      \* bound on this module's requests
    Expiry,        \* RECOMMENDATION_EXPIRY_DAYS, in days of the clock
    MaxEoq         \* no order quantity computed exceeds it

ASSUME AdviceAssumption == MaxAsked \in Nat /\ Expiry \in Nat /\ MaxEoq \in Nat

VARIABLES
    product,       \* stock, threshold, units sold in 90 days, unit cost and price
    recs,          \* AIRecommendation rows: [n, kind, status, expires]; n and kind are the key
    suggestions,   \* ReorderSuggestion rows: [n, stock, point, quantity, status]
    request,       \* request -> what it has read
    tally          \* [asked, overlapped]: requests, and whether two overlapped

adviceVars == <<product, recs, suggestions, request, tally>>

\* HIGH_CONSEQUENCE_ACTIONS
NeedsConfirmation == {"usd_purchase", "fx_lock"}
TargetPrice == 10

\* The books of Cashflow, and those of businesses that are only advised.
FirstBooks ==
    \/ CashInit
    \/ /\ NothingProjected /\ NothingAsked
       /\ \E cost \in Amounts \cup {0} : books = Books(cost)
       /\ market = Market("advice", {}, FALSE)

FirstProduct ==
    \E stock \in 0..1, sold \in {0, 3, 90}, price \in {5, TargetPrice} :
       /\ market.about # "advice" => stock = 0 /\ sold = 0 /\ price = 5
       /\ product = [stock |-> stock, threshold |-> 1, sold |-> sold, cost |-> 400000, price |-> price]

AdviceInit ==
    /\ FirstBooks /\ FirstProduct
    \* a row from before price recommendations were grouped, or none
    /\ \/ recs = {}
       \/ /\ market.about = "advice"
          /\ recs = {[n |-> 0, kind |-> "legacy_price", status |-> "PENDING", expires |-> Expiry]}
    /\ suggestions = {}
    /\ request = [r \in Requests |-> Idle]
    /\ tally = [asked |-> 0, overlapped |-> FALSE]

------------------------------------------------------------------------------
(* The generators: which recommendations the business warrants.            *)

\* _generate_price_recommendations(): a group of products below target.
PriceAdvice == IF product.price < TargetPrice THEN {"price"} ELSE {}

\* _generate_order_timing_recommendations(): low stock that sells.
OrderAdvice ==
    IF product.stock <= product.threshold /\ product.sold > 0 THEN {"reorder"} ELSE {}

\* _generate_usd_hedge_recommendations(): open orders with a balance in dollars.
HedgeAdvice == IF \E m \in 1..Months : books.owed[m] > 0 THEN {"usd_purchase"} ELSE {}

\* The runway estimated from three months' revenue, in months.
EstimatedRunway(b) ==
    LET burn == b.cost + b.loan - b.revenue IN
    IF burn > 0 /\ b.revenue > 0 THEN (3 * b.revenue) \div burn ELSE 999

\* _generate_liquidity_recommendations()
LiquidityAdvice ==
    IF CurrentDscr(books) >= 1500 /\ EstimatedRunway(books) >= 4 THEN {} ELSE {"cost_cut"}

Warranted == PriceAdvice \cup OrderAdvice \cup HedgeAdvice \cup LiquidityAdvice

\* Liquidity recommendations expire in half the time.
Life(kind) == IF kind = "cost_cut" THEN Expiry \div 2 ELSE Expiry

------------------------------------------------------------------------------
Pending == {rec \in recs : rec.status = "PENDING"}
Expired(rec) == rec.expires < clock.day

Ask(r, what) ==
    /\ request[r] = Idle
    /\ request' = [request EXCEPT ![r] = what]
    /\ tally' = [tally EXCEPT !.asked = @ + 1,
                              !.overlapped = @ \/ \E q \in Requests \ {r} : request[q] # Idle]
    /\ UNCHANGED <<product, recs, suggestions>>

\* generate_all_recommendations(): no recommendation is looked for before it is
\* made again.
Generate(r) ==
    Ask(r, [kind |-> "generate", n |-> tally.asked + 1,
            expired |-> {rec \in Pending : Expired(rec)}, new |-> Warranted])

\* apply_recommendation(): refused when decided, expired, or not confirmed.
\* (The EXPIRED status is rolled back with the refusal.)
ApplyRec(r) ==
    \E rec \in Pending, confirmed \in BOOLEAN :
       /\ ~Expired(rec)
       /\ rec.kind \in NeedsConfirmation => confirmed
       /\ Ask(r, [kind |-> "apply", rec |-> rec])

DecidableBugAny == recs

\* dismiss_recommendation() does not ask whether it has expired.
Decidable == Pending

Dismiss(r) == \E rec \in Decidable : Ask(r, [kind |-> "dismiss", rec |-> rec])

\* UPDATE of the rows by their key, whatever their status has become.
Mark(rows, status) ==
    {IF \E row \in rows : row.n = rec.n /\ row.kind = rec.kind
        THEN [rec EXCEPT !.status = status] ELSE rec : rec \in recs}

Answered(r) == request' = [request EXCEPT ![r] = Idle] /\ UNCHANGED suggestions

StoreRecs(r) ==
    LET q == request[r] IN
    /\ q.kind = "generate"
    /\ recs' = Mark(q.expired, "EXPIRED") \cup
          {[n |-> q.n, kind |-> kind, status |-> "PENDING",
            expires |-> clock.day + Life(kind)] : kind \in q.new}
    /\ Answered(r)
    /\ UNCHANGED <<product, tally>>

\* Only the payload of a single product changes a price.
StoreApplied(r) ==
    LET q == request[r]
        prices == q.kind = "apply" /\ q.rec.kind = "legacy_price"
    IN /\ q.kind = "apply"
       /\ recs' = Mark({q.rec}, "APPLIED")
       /\ product' = IF prices THEN [product EXCEPT !.price = TargetPrice] ELSE product
       /\ Answered(r)
       /\ UNCHANGED tally

StoreDismissed(r) ==
    /\ request[r].kind = "dismiss"
    /\ recs' = Mark({request[r].rec}, "DISMISSED")
    /\ Answered(r)
    /\ UNCHANGED <<product, tally>>

------------------------------------------------------------------------------
(* Reorder suggestions.  avg_daily_demand is sold/90; 1.643 is 1.5*0.2*sqrt(30).*)
SafetyStock == (product.sold * 1643) \div 90000
ReorderPoint == product.sold \div 3 + SafetyStock

\* Wilson's formula with an ordering cost of 50000 and a holding cost of 20%.
Eoq ==
    IF product.cost = 0 THEN 100
    ELSE Max({q \in 0..MaxEoq : q * q <= (product.sold * 2027777) \div product.cost})

\* At least what the lead time's demand takes, with a fifth to spare.
Quantity == Max({Eoq, (product.sold * 36) \div 90})

\* generate_reorder_suggestions(): a new row each time.
SuggestReorder ==
    /\ product.sold > 0 /\ product.stock <= ReorderPoint
    /\ suggestions' = suggestions \cup
          {[n |-> Cardinality(suggestions), stock |-> product.stock, point |-> ReorderPoint,
            quantity |-> Quantity, status |-> "PENDING"]}
    /\ tally' = [tally EXCEPT !.asked = @ + 1]
    /\ UNCHANGED <<product, recs, request>>

\* approve_reorder() takes the newest pending suggestion.
ApproveReorder ==
    LET waiting == {s \in suggestions : s.status = "PENDING"} IN
    \E s \in waiting :
       /\ \A t \in waiting : t.n <= s.n
       /\ suggestions' = (suggestions \ {s}) \cup {[s EXCEPT !.status = "APPROVED"]}
       /\ tally' = [tally EXCEPT !.asked = @ + 1]
       /\ UNCHANGED <<product, recs, request>>

\* Sales and deliveries.
Trade ==
    /\ \E stock \in 0..1 : stock # product.stock /\ product' = [product EXCEPT !.stock = stock]
    /\ tally' = [tally EXCEPT !.asked = @ + 1]
    /\ UNCHANGED <<recs, suggestions, request>>

AdviceStep ==
    \/ /\ tally.asked < MaxAsked
       /\ \/ SuggestReorder \/ ApproveReorder \/ Trade
          \/ \E r \in Requests : Generate(r) \/ ApplyRec(r) \/ Dismiss(r)
    \/ \E r \in Requests : StoreRecs(r) \/ StoreApplied(r) \/ StoreDismissed(r)

AdviceNext ==
    \/ CashNext /\ UNCHANGED adviceVars
    \/ /\ market.about = "advice"
       /\ \/ AdviceStep /\ UNCHANGED cashVars
          \/ Outside /\ UNCHANGED adviceVars
       /\ UNCHANGED fxVars

AdviceSpec == AdviceInit /\ [][AdviceNext]_<<fxVars, cashVars, adviceVars>>

------------------------------------------------------------------------------
\* What was decided of a recommendation stands: an applied one is never dismissed
\* or expired, nor the other way round, unless requests overlapped.
DecisionsStand ==
    [][\A rec \in recs :
          rec.status # "PENDING" /\ ~tally'.overlapped => rec \in recs']_<<recs, tally>>

=============================================================================
