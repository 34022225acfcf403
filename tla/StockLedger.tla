----------------------------- MODULE StockLedger -----------------------------
(***************************************************************************)
(* The stock books of one ModishLog product: what create_sale(),           *)
(* update_sale(), void_sale(), an order's delivery and its revert,         *)
(* purchase returns, manual adjustments and cost corrections do to         *)
(*                                                                         *)
(*   - InventoryLevel.quantity_on_hand, one row per variant and one for    *)
(*     untagged stock                                        (onHand)      *)
(*   - InventoryBatch, the costed FIFO batches of delivered  (batch,       *)
(*     order lines                                            receivedAt)  *)
(*   - OrderLineItem.quantity and .units_remaining           (ordered,     *)
(*                                                            units)       *)
(*   - the FifoConsumption and LotConsumption ledgers        (fifoUsed,    *)
(*                                                            lotUsed)     *)
(*   - Sale.status, quantity, price, fifo_cogs, fifo_gross_profit (sale)   *)
(*   - PurchaseReturn rows                                   (returned)    *)
(*                                                                         *)
(* Here every request is one atomic transaction (core/database.py get_db   *)
(* commits at the end or rolls everything back), so a guard that is false  *)
(* stands for the exception that leaves the books unchanged.  What happens *)
(* when requests overlap is the subject of SaleTx.                         *)
(*                                                                         *)
(* An order is its place in the lot order (order_date, created_at), and    *)
(* has at most one line per row of the product.  Only the two statuses     *)
(* between which stock moves are kept.  Which rows may be sold is left to  *)
(* the catalogue, which can switch a product's variants on and off at any  *)
(* time, so a sale of any row is possible in any state.                    *)
(***************************************************************************)
EXTENDS Fifo, FiniteSets

CONSTANTS
    Orders,        \* purchase orders, ranked by (order_date, created_at)
    Sales,         \* ids of the sales that may be recorded
    Variants,      \* the product's variants
    Untagged,      \* the row of stock without a variant (variant_id IS NULL)
    None,          \* SQL NULL
    LineChoices,   \* the line-item lists an order may carry: row |-> quantity
    Days,          \* the delivery dates a user may enter
    Quantities,    \* the quantities of sales
    Adjustments,   \* the changes a manual adjustment may make
    InitialStock,  \* the untagged stock a product may be created with
    Prices,        \* unit prices
    Discounts,     \* discount amounts
    Costs,         \* landed costs per unit
    MaxMoney,      \* bound on an amount of money (the Numeric(18, 6) column)
    MaxReturned,   \* bound on the units returned from one order line
    MaxStock       \* bound on the units in one row that adjustments may reach

Rows  == Variants \cup {Untagged}
Slots == Orders \X Rows          \* one per order line, and the batch it becomes
Money == -MaxMoney .. MaxMoney

ASSUME OrdersAssumption ==
    Orders \subseteq Nat
ASSUME FiniteAssumption ==
    IsFiniteSet(Orders) /\ IsFiniteSet(Sales) /\ IsFiniteSet(Variants)
ASSUME RowsAssumption ==
    /\ Untagged \notin Variants
    /\ LineChoices \subseteq [Rows -> Nat]
ASSUME AmountsAssumption ==
    /\ Quantities \subseteq Nat \ {0}
    /\ Adjustments \subseteq Int
    /\ InitialStock \subseteq Nat
    /\ Days \subseteq Nat \ {0}
    /\ Prices \subseteq Nat \ {0}
    /\ Discounts \subseteq Nat
    /\ Costs \subseteq Nat
    /\ MaxMoney \in Nat
    /\ MaxReturned \in Nat
    /\ MaxStock \in Nat
ASSUME NoneAssumption ==
    None \notin Int

VARIABLES
    status,        \* order -> its status
    ordered,       \* slot -> quantity of the line, 0 when there is no line
    units,         \* slot -> units_remaining of the line, or None
    receivedAt,    \* order -> day its delivery was dated, 0 before that
    batch,         \* slot -> the batch its delivery created, or NoBatch
    onHand,        \* row -> quantity_on_hand, None when there is no such row
    sale,          \* sale id -> the sale
    fifoUsed,      \* sale id -> slot -> units its FifoConsumption records
    lotUsed,       \* sale id -> slot -> units its LotConsumption records
    returned,      \* slot -> units its PurchaseReturns took back
    manual,        \* row -> net units adjusted by hand or sold outside the books
    reverted       \* orders whose delivery was ever reverted

orderVars == <<status, ordered, receivedAt, reverted>>
bookVars  == <<units, batch, fifoUsed, lotUsed>>
vars == <<orderVars, bookVars, onHand, sale, returned, manual>>

------------------------------------------------------------------------------
NoBatch == [received |-> 0, remaining |-> 0, landed |-> 0]
Batch   == [received : Nat, remaining : Nat, landed : Nat]

NoSale == [state |-> "NEW", row |-> Untagged, quantity |-> 0, price |-> 0,
           discount |-> 0, cogs |-> None, profit |-> None]
Sale   == [state : {"NEW", "COMPLETED", "VOIDED"}, row : Rows, quantity : Nat,
           price : Nat, discount : Nat, cogs : Money \cup {None},
           profit : Money \cup {None}]

Nothing == [k \in Slots |-> 0]
Lines(o) == {o} \X Rows

\* Every assignment to a sale's quantity, price or discount recomputes
\* total_amount, so it is derived.
TotalAmount(quantity, price, discount) == price * quantity - discount

Init ==
    /\ status = [o \in Orders |-> "CLEARED"]
    /\ \E choice \in [Orders -> LineChoices] :
          ordered = [k \in Slots |-> choice[k[1]][k[2]]]
    /\ units = [k \in Slots |-> None]
    /\ receivedAt = [o \in Orders |-> 0]
    /\ batch = [k \in Slots |-> NoBatch]
    /\ \E initial \in InitialStock :
          /\ onHand = [r \in Rows |-> IF r = Untagged THEN initial ELSE None]
          /\ manual = [r \in Rows |-> IF r = Untagged THEN initial ELSE 0]
    /\ sale = [s \in Sales |-> NoSale]
    /\ fifoUsed = [s \in Sales |-> Nothing]
    /\ lotUsed = [s \in Sales |-> Nothing]
    /\ returned = Nothing
    /\ reverted = {}

------------------------------------------------------------------------------
(* The shared helpers of the inventory, order and sales services.          *)

\* The definitions named ...Bug are what a plausible mistake would make of the
\* definition after them; they only serve to show that the properties can fail.

AdjustStockBugUnchecked(r, change) ==
    /\ onHand[r] # None
    /\ onHand' = [onHand EXCEPT ![r] = @ + change]

AdjustStockBugUntagged(r, change) ==
    /\ onHand[Untagged] # None
    /\ onHand[Untagged] + change >= 0
    /\ onHand' = [onHand EXCEPT ![Untagged] = @ + change]

\* adjust_stock(): a strict lookup of the row, and never below zero.
AdjustStock(r, change) ==
    /\ onHand[r] # None
    /\ onHand[r] + change >= 0
    /\ onHand' = [onHand EXCEPT ![r] = @ + change]

VariantOrUntaggedBugAny(r) == Slots

\* variant_or_untagged_filter(): a row draws on its own lots and on untagged
\* ones, never on a sibling variant's.
VariantOrUntagged(r) == Orders \X {r, Untagged}

DrawsBugUndecremented(held, age, r, quantity) ==
    { [k \in Slots |-> IF k \in VariantOrUntagged(r)
                       THEN LesserOf(held[k], quantity) ELSE 0] }

\* fifo_deduct() and _deduct_lot_units(): what a sale of `quantity` units of
\* row r takes from each slot, given the units the slots hold.
Draws(held, age, r, quantity) ==
    LET eligible == {k \in VariantOrUntagged(r) : held[k] > 0}
    IN  { [k \in Slots |-> IF k \in eligible THEN take[k] ELSE 0] :
            take \in Allocations(Restrict(held, eligible), age, quantity) }

ReceivedDate == [k \in Slots |-> receivedAt[k[1]]]
OrderDate    == [k \in Slots |-> k[1]]

FifoDraws(remaining, r, quantity) == Draws(remaining, ReceivedDate, r, quantity)
LotDraws(lots, r, quantity) ==
    Draws([k \in Slots |-> IF lots[k] = None THEN 0 ELSE lots[k]],
          OrderDate, r, quantity)

Remaining == [k \in Slots |-> batch[k].remaining]

FifoCreditedBugNone(s) == Remaining
LotsCreditedBugNone(s) == units

\* reverse_ledger_consumption(): credit back exactly what the ledger says the
\* sale took; a NULL target counts as zero, an untouched one stays as it is.
FifoCredited(s) ==
    [k \in Slots |-> IF batch[k].received = 0 THEN batch[k].remaining
                     ELSE batch[k].remaining + fifoUsed[s][k]]
LotsCredited(s) ==
    [k \in Slots |->
        IF lotUsed[s][k] = 0 THEN units[k]
        ELSE (IF units[k] = None THEN 0 ELSE units[k]) + lotUsed[s][k]]

ReleasedBugKept(used, s) == used

\* ... and delete the ledger rows.
Released(used, s) == [used EXCEPT ![s] = Nothing]

\* The batches after a walk took `take` out of what they held.
BatchesLess(remaining, take) ==
    [k \in Slots |-> [batch[k] EXCEPT !.remaining = remaining[k] - take[k]]]
LotsLess(lots, take) ==
    [k \in Slots |-> IF take[k] = 0 THEN lots[k] ELSE lots[k] - take[k]]

\* The cost of the units a ledger row set records, at the batches' prices.
Cogs(take, landed) == SumFunction([k \in Slots |-> take[k] * landed[k]])
Landed == [k \in Slots |-> batch[k].landed]

------------------------------------------------------------------------------
(* Sales.                                                                  *)

\* fifo_cogs and fifo_gross_profit as _apply_fifo_deduction() stamps them.
Costed(record, cogs) ==
    [record EXCEPT
        !.cogs = cogs,
        !.profit = TotalAmount(record.quantity, record.price, record.discount)
                      - cogs]

\* The part create_sale() and update_sale() share: cost the record by FIFO and
\* write both ledgers, starting from the given batches and lots.
Deplete(s, record, remaining, lots) ==
    \E take \in FifoDraws(remaining, record.row, record.quantity),
       taken \in LotDraws(lots, record.row, record.quantity) :
        LET costed == Costed(record, Cogs(take, Landed))
        IN  /\ costed.cogs \in Money
            /\ costed.profit \in Money
            /\ sale' = [sale EXCEPT ![s] = costed]
            /\ batch' = BatchesLess(remaining, take)
            /\ fifoUsed' = [fifoUsed EXCEPT ![s] = take]
            /\ units' = LotsLess(lots, taken)
            /\ lotUsed' = [lotUsed EXCEPT ![s] = taken]

CreateSale(s, r, quantity, price, discount) ==
    /\ sale[s].state = "NEW"
    /\ discount <= price * quantity
    /\ AdjustStock(r, -quantity)
    /\ Deplete(s,
               [state |-> "COMPLETED", row |-> r, quantity |-> quantity,
                price |-> price, discount |-> discount,
                cogs |-> None, profit |-> None],
               Remaining, units)
    /\ UNCHANGED <<orderVars, returned, manual>>

\* A sale the POS sync or the POS migration inserts: no stock movement, no
\* ledger rows, fifo_cogs NULL.  Its units left the shelf outside these books.
InsertPosSale(s, r, quantity, price) ==
    /\ sale[s].state = "NEW"
    /\ sale' = [sale EXCEPT ![s] =
                  [state |-> "COMPLETED", row |-> r, quantity |-> quantity,
                   price |-> price, discount |-> 0,
                   cogs |-> None, profit |-> None]]
    /\ manual' = [manual EXCEPT ![r] = @ + quantity]
    /\ UNCHANGED <<orderVars, bookVars, onHand, returned>>

\* update_sale(), new price or discount only: the total follows, the cost
\* stamps do not.
UpdateSaleTerms(s, price, discount) ==
    /\ sale[s].state = "COMPLETED"
    /\ sale' = [sale EXCEPT ![s].price = price, ![s].discount = discount]
    /\ UNCHANGED <<orderVars, bookVars, onHand, returned, manual>>

\* update_sale(), new quantity: the stock row moves by the difference and, for
\* a sale that was costed, both ledgers are reversed and written anew.
UpdateSaleQuantity(s, quantity, price, discount) ==
    LET updated == [sale[s] EXCEPT !.quantity = quantity, !.price = price,
                                   !.discount = discount]
    IN  /\ sale[s].state = "COMPLETED"
        /\ quantity # sale[s].quantity
        /\ AdjustStock(sale[s].row, sale[s].quantity - quantity)
        /\ \/ /\ sale[s].cogs # None
              /\ Deplete(s, updated, FifoCredited(s), LotsCredited(s))
           \/ /\ sale[s].cogs = None
              /\ sale' = [sale EXCEPT ![s] = updated]
              /\ UNCHANGED bookVars
        /\ UNCHANGED <<orderVars, returned, manual>>

VoidSale(s) ==
    /\ sale[s].state = "COMPLETED"
    /\ AdjustStock(sale[s].row, sale[s].quantity)
    /\ sale' = [sale EXCEPT ![s].state = "VOIDED"]
    /\ batch' = BatchesLess(FifoCredited(s), Nothing)
    /\ fifoUsed' = Released(fifoUsed, s)
    /\ units' = LotsCredited(s)
    /\ lotUsed' = Released(lotUsed, s)
    /\ UNCHANGED <<orderVars, returned, manual>>

------------------------------------------------------------------------------
(* Orders.                                                                 *)

\* transition_status(..., DELIVERED): restock every line, backfilling a
\* variant's stock row, and open one batch per line.
Deliver(o, day, landed) ==
    /\ status[o] = "CLEARED"
    /\ status' = [status EXCEPT ![o] = "DELIVERED"]
    /\ receivedAt' = [receivedAt EXCEPT ![o] = day]
    /\ units' = [k \in Slots |->
                    IF k[1] = o /\ ordered[k] > 0 THEN ordered[k] ELSE units[k]]
    /\ onHand' = [r \in Rows |->
                    IF ordered[<<o, r>>] = 0 THEN onHand[r]
                    ELSE (IF onHand[r] = None THEN 0 ELSE onHand[r])
                            + ordered[<<o, r>>]]
    /\ batch' = [k \in Slots |->
                    IF k[1] = o /\ ordered[k] > 0
                    THEN [received |-> ordered[k], remaining |-> ordered[k],
                          landed |-> landed[k[2]]]
                    ELSE batch[k]]
    /\ UNCHANGED <<ordered, reverted, fifoUsed, lotUsed, sale, returned, manual>>

UntouchedBugUnitsLeft(o) ==
    \A k \in Lines(o) : batch[k].received > 0 => batch[k].remaining > 0
UntouchedBugUnchecked(o) == TRUE

\* The check revert_delivered_order() makes before it undoes a delivery: every
\* batch is whole and no sale has a FifoConsumption row on it.
Untouched(o) ==
    \A k \in Lines(o) :
        /\ batch[k].remaining = batch[k].received
        /\ batch[k].received > 0 => \A s \in Sales : fifoUsed[s][k] = 0

RevertDelivery(o) ==
    /\ status[o] = "DELIVERED"
    /\ Untouched(o)
    /\ \A r \in Rows : batch[<<o, r>>].received > 0 =>
          onHand[r] # None /\ onHand[r] >= batch[<<o, r>>].received
    /\ status' = [status EXCEPT ![o] = "CLEARED"]
    /\ receivedAt' = [receivedAt EXCEPT ![o] = 0]
    /\ onHand' = [r \in Rows |->
                    IF batch[<<o, r>>].received = 0 THEN onHand[r]
                    ELSE onHand[r] - batch[<<o, r>>].received]
    /\ batch' = [k \in Slots |-> IF k[1] = o THEN NoBatch ELSE batch[k]]
    /\ units' = [k \in Slots |-> IF k[1] = o THEN None ELSE units[k]]
    /\ reverted' = reverted \cup {o}
    /\ UNCHANGED <<ordered, fifoUsed, lotUsed, sale, returned, manual>>

\* update_order() with line items: the old lines go (LotConsumption rows
\* cascade), the new ones inherit units_remaining by product alone, that is,
\* from whichever old line of the product came last.
ReplaceLines(o, lines) ==
    LET inherited == {units[k] : k \in Lines(o)} \ {None}
    IN  /\ status[o] = "CLEARED"
        /\ ordered' = [k \in Slots |->
                          IF k[1] = o THEN lines[k[2]] ELSE ordered[k]]
        /\ \E kept \in IF inherited = {} THEN {None} ELSE inherited :
              units' = [k \in Slots |->
                          IF k[1] # o THEN units[k]
                          ELSE IF lines[k[2]] > 0 THEN kept ELSE None]
        /\ lotUsed' = [s \in Sales |->
                          [k \in Slots |->
                              IF k[1] = o THEN 0 ELSE lotUsed[s][k]]]
        /\ UNCHANGED <<status, receivedAt, reverted, batch, fifoUsed, onHand,
                       sale, returned, manual>>

\* create_purchase_return(): the row must be on the order; only the stock row
\* moves, the batches and lots stay as they are.
PurchaseReturn(o, r, quantity) ==
    /\ ordered[<<o, r>>] > 0
    /\ returned[<<o, r>>] + quantity <= MaxReturned
    /\ AdjustStock(r, -quantity)
    /\ returned' = [returned EXCEPT ![<<o, r>>] = @ + quantity]
    /\ UNCHANGED <<orderVars, bookVars, sale, manual>>

SalesCostedFromBugOnly(slots) ==
    {s \in Sales : \E k \in slots : fifoUsed[s][k] = sale[s].quantity}

\* The sales with a FifoConsumption row on one of these batches.
SalesCostedFrom(slots) ==
    {s \in Sales : \E k \in slots : fifoUsed[s][k] > 0}

\* correct_delivered_order_costs(): new landed costs for the batches of some
\* lines (or of all, after an order-wide correction), and the cost stamps of
\* every sale that drew on one of them summed anew over all its ledger rows.
CorrectCosts(o, touched, landed) ==
    LET Touched(k) == k[1] = o /\ k[2] \in touched /\ batch[k].received > 0
        corrected == [k \in Slots |->
                        IF Touched(k) THEN landed[k[2]] ELSE batch[k].landed]
        resummed == SalesCostedFrom({k \in Slots : Touched(k)})
        sales == [s \in Sales |->
                    IF s \in resummed
                    THEN Costed(sale[s], Cogs(fifoUsed[s], corrected))
                    ELSE sale[s]]
    IN  /\ status[o] = "DELIVERED"
        /\ \A s \in resummed : sales[s].cogs \in Money /\ sales[s].profit \in Money
        /\ batch' = [k \in Slots |-> [batch[k] EXCEPT !.landed = corrected[k]]]
        /\ sale' = sales
        /\ UNCHANGED <<orderVars, units, fifoUsed, lotUsed, onHand, returned,
                       manual>>

\* The manual adjustment endpoint, which only reaches the untagged row.
AdjustManually(change) ==
    /\ onHand[Untagged] + change <= MaxStock
    /\ AdjustStock(Untagged, change)
    /\ manual' = [manual EXCEPT ![Untagged] = @ + change]
    /\ UNCHANGED <<orderVars, bookVars, sale, returned>>

------------------------------------------------------------------------------
SaleStep ==
    \E s \in Sales :
        \/ \E r \in Rows, q \in Quantities, p \in Prices :
              \/ \E d \in Discounts : CreateSale(s, r, q, p, d)
              \/ InsertPosSale(s, r, q, p)
        \/ \E p \in Prices, d \in Discounts :
              \/ UpdateSaleTerms(s, p, d)
              \/ \E q \in Quantities : UpdateSaleQuantity(s, q, p, d)
        \/ VoidSale(s)

OrderStep ==
    \E o \in Orders :
        \/ \E day \in Days, landed \in [Rows -> Costs] : Deliver(o, day, landed)
        \/ RevertDelivery(o)
        \/ \E lines \in LineChoices : ReplaceLines(o, lines)
        \/ \E r \in Rows, q \in 1..MaxReturned : PurchaseReturn(o, r, q)
        \/ \E touched \in SUBSET Rows : \E landed \in [touched -> Costs] :
              CorrectCosts(o, touched, landed)

StockStep == \E change \in Adjustments : AdjustManually(change)

Next == SaleStep \/ OrderStep \/ StockStep

Spec == Init /\ [][Next]_vars

------------------------------------------------------------------------------
(* Properties.                                                             *)

TypeOK ==
    /\ status \in [Orders -> {"CLEARED", "DELIVERED"}]
    /\ ordered \in [Slots -> Nat]
    /\ units \in [Slots -> Nat \cup {None}]
    /\ receivedAt \in [Orders -> Nat]
    /\ batch \in [Slots -> Batch]
    /\ onHand \in [Rows -> Nat \cup {None}]
    /\ sale \in [Sales -> Sale]
    /\ fifoUsed \in [Sales -> [Slots -> Nat]]
    /\ lotUsed \in [Sales -> [Slots -> Nat]]
    /\ returned \in [Slots -> Nat]
    /\ manual \in [Rows -> Int]
    /\ reverted \subseteq Orders

\* Every unit of stock is accounted for: the on-hand figure of a row is what
\* was delivered to it and adjusted by hand, less what was returned to the
\* supplier and what its completed sales sold.  The on-hand figure is kept by
\* increments in six handlers and never recomputed.
StockConserved ==
    \A r \in Rows :
        (IF onHand[r] = None THEN 0 ELSE onHand[r])
          = manual[r]
              + SumFunction([o \in Orders |-> batch[<<o, r>>].received
                                                - returned[<<o, r>>]])
              - SumFunction([s \in Sales |->
                    IF sale[s].state = "COMPLETED" /\ sale[s].row = r
                    THEN sale[s].quantity ELSE 0])

\* A batch holds exactly what was received less what the FifoConsumption
\* ledger says sales took from it: no unit is costed twice or lost, over any
\* sequence of sales, edits, voids, deliveries and reverts.
BatchConserved ==
    \A k \in Slots :
        batch[k].remaining + SumFunction([s \in Sales |-> fifoUsed[s][k]])
          = batch[k].received

\* The same for an order's lots and the LotConsumption ledger, as long as the
\* order's delivery was never reverted.
LotConserved ==
    \A k \in Slots : k[1] \notin reverted =>
        SumFunction([s \in Sales |-> lotUsed[s][k]])
           + (IF units[k] = None THEN 0 ELSE units[k])
          = IF status[k[1]] = "DELIVERED" THEN ordered[k] ELSE 0

\* No sale is ever matched to a sibling variant's stock: the rows of both
\* ledgers belong to the sale's own variant or are untagged.
LedgersOwnVariant ==
    \A s \in Sales, k \in Slots :
        fifoUsed[s][k] > 0 \/ lotUsed[s][k] > 0 => k[2] \in {sale[s].row, Untagged}

\* A voided sale holds nothing: all its ledger rows are gone, so its units are
\* back in the batches and lots they came from.  (Nor does one not recorded.)
VoidedReleased ==
    \A s \in Sales : sale[s].state # "COMPLETED" =>
        \A k \in Slots : fifoUsed[s][k] = 0 /\ lotUsed[s][k] = 0

\* A batch that a sale was costed from is never deleted by a revert: every
\* FifoConsumption row points at a batch of a delivered order.
CostHistoryKept ==
    \A s \in Sales, k \in Slots :
        fifoUsed[s][k] > 0 => batch[k].received > 0 /\ status[k[1]] = "DELIVERED"

\* The cost stamped on a completed sale is the cost of the units its ledger
\* rows name at the present landed costs, also after the quantity was edited
\* and after any order it drew on had its costs corrected.
CogsMatchesLedger ==
    \A s \in Sales :
        sale[s].state = "COMPLETED" /\ sale[s].cogs # None =>
            sale[s].cogs = Cogs(fifoUsed[s], Landed)

\* A sale never takes from the lots and batches more than it sold.
LedgersWithinSale ==
    \A s \in Sales :
        /\ SumFunction(fifoUsed[s]) <= sale[s].quantity
        /\ SumFunction(lotUsed[s]) <= sale[s].quantity

\* Batches exist for delivered orders only, and only an existing batch holds
\* units.
BatchesOfDelivered ==
    \A k \in Slots :
        /\ batch[k].received > 0 => status[k[1]] = "DELIVERED"
        /\ batch[k].remaining > 0 => batch[k].received > 0

\* The inductive invariant behind the three ledger properties: the ledgers and
\* the batches they point at can only be argued about together.
LedgerInv ==
    /\ TypeOK
    /\ BatchesOfDelivered
    /\ LedgersOwnVariant
    /\ VoidedReleased
    /\ CostHistoryKept

\* A sale without a cost holds nothing either: only the POS inserts one, and it
\* writes no ledger rows.
UncostedBare ==
    \A s \in Sales : sale[s].cogs = None =>
        \A k \in Slots : fifoUsed[s][k] = 0 /\ lotUsed[s][k] = 0

\* The inductive invariant behind the sums: each needs the ledgers to be sound,
\* and the bound of a sale's ledgers that uncosted sales have none.
BooksInv ==
    /\ LedgerInv
    /\ UncostedBare
    /\ StockConserved
    /\ BatchConserved
    /\ LotConserved
    /\ CogsMatchesLedger
    /\ LedgersWithinSale

(* Statements of the code's documentation that these steps do not keep.    *)

\* LotConsumption "lets void_sale() reverse a sale's lot consumption exactly":
\* a line never holds more units than were ordered.
LotsWithinOrder ==
    \A k \in Slots : units[k] # None => units[k] <= ordered[k]

\* fifo_gross_profit is the total of the sale less its cost.
ProfitMatchesCogs ==
    \A s \in Sales :
        sale[s].state = "COMPLETED" /\ sale[s].cogs # None =>
            sale[s].profit = TotalAmount(sale[s].quantity, sale[s].price,
                                         sale[s].discount) - sale[s].cogs

\* "Discount cannot exceed gross amount".
DiscountWithinGross ==
    \A s \in Sales :
        sale[s].state = "COMPLETED" =>
            TotalAmount(sale[s].quantity, sale[s].price, sale[s].discount) >= 0

\* A purchase return is a "return of goods against a received purchase order".
ReturnsOnlyReceived ==
    [][\A k \in Slots :
          returned'[k] > returned[k] => status[k[1]] = "DELIVERED"]_vars

=============================================================================
