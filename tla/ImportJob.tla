----------------------------- MODULE ImportJob ------------------------------
(***************************************************************************)
(* One migration job of data_import: a trader's history in another system  *)
(* is validated, confirmed, imported in the background, recomputed (stock  *)
(* deducted and FIFO costs worked out for the imported sales) and may be   *)
(* rolled back, while the shop goes on trading in the same products.       *)
(*                                                                         *)
(* validate, confirm and decline look at the status without a lock, so an  *)
(* import can run twice; its rows of copy c carry the job's migration_id   *)
(* like those of every other copy.                                         *)
(*                                                                         *)
(* Abstractions: the file holds one purchase order, a stock adjustment per *)
(* product and the sales in ImportedSales; customers, expenses, price      *)
(* history, alerts, reorder suggestions and AI signals follow the tagged   *)
(* rows and are left out; a live request (sale, restock, void, payment) is *)
(* one step, taken when every row it needs is free: how such requests      *)
(* overlap each other is the subject of SaleTx.                            *)
(***************************************************************************)
EXTENDS Fifo, RowLocks, FiniteSets

CONSTANTS
    Deduped,       \* products of the file the business already had
    Created,       \* products the import creates
    Opening,       \* deduped product -> units on hand, all in one batch
    Bought,        \* product -> units on the imported purchase order
    Adjusted,      \* product -> units of its imported stock adjustment
    ImportedSales, \* sale -> [product, quantity]
    MaxImports,    \* bound on the imports that start
    MaxLive        \* bound on the live sales and restocks

Products == Deduped \cup Created
SaleIds  == DOMAIN ImportedSales
Copies   == 1..MaxImports
Sources  == {0} \cup Copies       \* 0: the batch from before the import
Missing  == -1                    \* there is no such row

ASSUME ImportAssumption ==
    /\ Deduped \cap Created = {}
    /\ Opening \in [Deduped -> Nat] /\ Bought \in [Products -> Nat]
    /\ Adjusted \in [Products -> Int]
    /\ IsFiniteSet(SaleIds)
    /\ \A s \in SaleIds : /\ ImportedSales[s].product \in Products
                          /\ ImportedSales[s].quantity \in Nat \ {0}
    /\ MaxImports \in Nat /\ MaxLive \in Nat
    /\ 0 \notin Txs              \* 0: a live request

Job         == <<"job">>
Stock(p)    == <<"stock", p>>
Batch(p, c) == <<"batch", p, c>>
Sale(c, s)  == <<"sale", c, s>>
Order(c)    == <<"order", c>>
Received(c) == <<"received", c>>  \* movements of the import's order, adjustments
Deducted    == <<"deducted">>     \* movements of its recomputes

Sales    == {Sale(c, s) : c \in Copies, s \in SaleIds}
Batches  == {Batch(p, c) : p \in Products, c \in Sources}

RowIds == {Job, Deducted} \cup {Stock(p) : p \in Products}
            \cup Batches \cup Sales
            \cup {Order(c) : c \in Copies} \cup {Received(c) : c \in Copies}

VARIABLES
    copy,          \* tx -> the copy its import writes
    fresh,         \* tx -> the products its import means to create
    failed,        \* tx -> products whose deduction failed in its recompute
    ledger,        \* product -> batch -> units live sales were costed from it
    live,          \* product -> units the shop moved itself, or a rollback
                   \*            reports it could not take back
    touched,       \* products with a movement of the shop's own
    liveOps,
    started,       \* imports started so far
    doubled,       \* whether two imports of the job were ever there at once
    crashed

txVars   == <<own, todo, copy, fresh, failed>>
history  == <<liveOps, started, doubled, crashed>>
shop     == <<ledger, live, touched>>
importVars     == <<db, txVars, shop, history>>

NoMoves == [p \in Products |-> 0]
NoUnits == [c \in Sources |-> 0]
NoSale  == [state |-> "NONE", fifo |-> NoUnits, costed |-> FALSE]
NoOrder == [there |-> FALSE, paid |-> FALSE]

NewJob == [status |-> "NEW", recompute |-> "NONE", skipped |-> FALSE,
          extracted |-> FALSE]

ImportInit ==
    /\ db = [i \in RowIds |->
               CASE i = Job        -> NewJob
                 [] i = Deducted \/ i[1] = "received" -> NoMoves
                 [] i[1] = "stock" -> IF i[2] \in Deduped THEN Opening[i[2]]
                                      ELSE Missing
                 [] i[1] = "batch" -> IF i[2] \in Deduped /\ i[3] = 0
                                      THEN Opening[i[2]] ELSE Missing
                 [] i[1] = "sale"  -> NoSale
                 [] i[1] = "order" -> NoOrder]
    /\ InitSessions
    /\ copy = [t \in Txs |-> 0]
    /\ fresh = [t \in Txs |-> {}]
    /\ failed = [t \in Txs |-> {}]
    /\ ledger = [p \in Products |-> NoUnits]
    /\ live = NoMoves /\ touched = {}
    /\ liveOps = 0 /\ started = 0
    /\ doubled = FALSE /\ crashed = FALSE

------------------------------------------------------------------------------
(* The job's state machine                                                 *)

Status == db[Job].status
SetJob(job) == db' = [db EXCEPT ![Job] = job]

\* create_job(): a failed API extraction is committed as FAILED.
CreateJob ==
    /\ db[Job] = NewJob
    /\ \E ok \in BOOLEAN :
          SetJob([NewJob EXCEPT !.status = IF ok THEN "PENDING" ELSE "FAILED",
                               !.extracted = ok])
    /\ UNCHANGED <<txVars, shop, history>>

\* validate_job() asks for no particular status.
Validate ==
    /\ db[Job].extracted
    /\ Free(0, {Job})
    /\ \E errors \in BOOLEAN :
          SetJob([db[Job] EXCEPT !.status =
                    IF errors THEN "TRANSFORMING" ELSE "AWAITING_CONFIRMATION"])
    /\ UNCHANGED <<txVars, shop, history>>

\* confirm_job() and start_confirmed_import() check the status as loaded ...
Decide(t, approved) ==
    /\ Idle(t)
    /\ Status = "AWAITING_CONFIRMATION"
    /\ approved => started < MaxImports
    /\ todo' = [todo EXCEPT ![t] = IF approved THEN <<"confirm">> ELSE <<"decline">>]
    /\ copy' = [copy EXCEPT ![t] = IF approved THEN started + 1 ELSE 0]
    /\ started' = IF approved THEN started + 1 ELSE started
    /\ UNCHANGED <<db, own, fresh, failed, shop, liveOps, doubled, crashed>>

\* ... and write it later, whatever it is by then.
Decline(t) ==
    /\ At(t, "decline")
    /\ Free(t, {Job})
    /\ SetJob([db[Job] EXCEPT !.status = "CANCELLED"])
    /\ Advance(t)
    /\ UNCHANGED <<own, copy, fresh, failed, shop, history>>

ImportSteps == <<"transform", "load", "orders", "adjust", "flush", "deduct", "cogs", "done">>

Confirm(t) ==
    /\ At(t, "confirm")
    /\ Free(t, {Job})
    /\ SetJob([db[Job] EXCEPT !.status = "IMPORTING"])
    /\ todo' = [todo EXCEPT ![t] = ImportSteps]
    /\ UNCHANGED <<own, copy, fresh, failed, shop, history>>

\* _claim_job_status(): UPDATE ... WHERE status = 'done'.
Claimable(status) == status = "DONE"

Claim(t, status, steps) ==
    /\ Idle(t)
    /\ Free(t, {Job})
    /\ Claimable(Status)
    /\ Write(t, Only(Job, [db[Job] EXCEPT !.status = status]))
    /\ todo' = [todo EXCEPT ![t] = steps]
    /\ UNCHANGED <<db, copy, fresh, failed, shop, history>>

Recompute(t) == Claim(t, "RECOMPUTING", <<"deduct", "cogs", "done">>)
RollbackJob(t) == Claim(t, "ROLLED_BACK", <<"unfifo", "delete", "reverse">>)

------------------------------------------------------------------------------
(* A session ends                                                          *)

Stop(t) ==
    /\ Release(t)
    /\ copy' = [copy EXCEPT ![t] = 0]
    /\ fresh' = [fresh EXCEPT ![t] = {}]
    /\ failed' = [failed EXCEPT ![t] = {}]

Importing(t) == copy[t] # 0 /\ Head(todo[t]) # "confirm"

\* An error that nothing isolates.  A request is rolled back by get_db(); the
\* background task rolls back and then writes the status: a refused row sends
\* the job back to confirmation, anything unexpected fails it.
Raise(t, status) ==
    /\ own' = [own EXCEPT ![t] = <<>>]
    /\ todo' = [todo EXCEPT ![t] = IF Importing(t) THEN <<status>> ELSE <<>>]
    /\ copy' = [copy EXCEPT ![t] = 0]
    /\ fresh' = [fresh EXCEPT ![t] = {}]
    /\ failed' = [failed EXCEPT ![t] = {}]
    /\ UNCHANGED <<db, shop, history>>

Fail(t) == ~Idle(t) /\ Head(todo[t]) \notin {"FAILED", "AWAITING_CONFIRMATION"}
             /\ Raise(t, "FAILED")

\* The definitions named ...Bug are plausible mistakes in the definition that
\* follows; they only serve to show that the properties can fail.
AfterFailureBugUnwritten(t) ==
    /\ At(t, "FAILED") \/ At(t, "AWAITING_CONFIRMATION")
    /\ Advance(t)
    /\ UNCHANGED <<db, own, copy, fresh, failed, shop, history>>

AfterFailure(t) ==
    \E status \in {"FAILED", "AWAITING_CONFIRMATION"} :
        /\ At(t, status)
        /\ Free(t, {Job})
        /\ SetJob([db[Job] EXCEPT !.status = status])
        /\ Advance(t)
        /\ UNCHANGED <<own, copy, fresh, failed, shop, history>>

Crash ==
    /\ \E t \in Txs : ~Idle(t)
    /\ own' = [t \in Txs |-> <<>>] /\ todo' = [t \in Txs |-> <<>>]
    /\ copy' = [t \in Txs |-> 0]
    /\ fresh' = [t \in Txs |-> {}] /\ failed' = [t \in Txs |-> {}]
    /\ crashed' = TRUE
    /\ UNCHANGED <<db, shop, liveOps, started, doubled>>

------------------------------------------------------------------------------
(* _execute_import()                                                       *)

Step(t, step, ids, values) ==
    /\ At(t, step)
    /\ Advance(t)
    /\ UNCHANGED <<db, copy, fresh, failed, shop, history>>
    /\ Free(t, ids)
    /\ Write(t, values)

Exists(p) == db[Stock(p)] # Missing

\* _extract_and_transform(): products found by barcode or SKU are not created.
Transform(t) ==
    /\ At(t, "transform")
    /\ fresh' = [fresh EXCEPT ![t] = {p \in Created : ~Exists(p)}]
    /\ Advance(t)
    /\ UNCHANGED <<db, own, copy, failed, shop, history>>

\* load(): the new products, with a zeroed stock row each, and the sales.  It
\* waits for a session that creates or deletes these products, and ends on a
\* unique or foreign key when one has done so.
There(c) == db[Order(c)].there
Load(t) ==
    \/ /\ At(t, "load")
       /\ fresh[t] = {p \in Created : ~Exists(p)}
       /\ Step(t, "load", {Stock(p) : p \in fresh[t]}
                            \cup {Order(c) : c \in {d \in Copies : There(d)}},
               Over(Only(Order(copy[t]), [NoOrder EXCEPT !.there = TRUE]),
               Over([i \in {Sale(copy[t], s) : s \in SaleIds} |->
                        [NoSale EXCEPT !.state = "COMPLETED"]],
                    [i \in {Stock(p) : p \in fresh[t]} |-> 0])))
    \/ /\ At(t, "load")
       /\ fresh[t] # {p \in Created : ~Exists(p)}
       /\ Raise(t, "FAILED")

\* adjust_stock() for every product with a non-zero amount.
Moving(amount) == {Stock(p) : p \in {q \in Products : amount[q] # 0}}
Moves(t, amount) ==
    Over(Only(Received(copy[t]),
              [p \in Products |-> See(t, Received(copy[t]))[p] + amount[p]]),
         [i \in Moving(amount) |-> See(t, i) + amount[i[2]]])

\* load_purchase_orders(): created and taken to DELIVERED, batches tagged.
LoadOrders(t) ==
    Step(t, "orders", Moving(Bought),
         Over([i \in {Batch(p, copy[t]) : p \in {q \in Products : Bought[q] > 0}}
                  |-> Bought[i[2]]],
              Moves(t, Bought)))

\* load_stock_adjustments(): one below zero is refused and ends the import.
LoadAdjustments(t) ==
    \/ /\ At(t, "adjust")
       /\ \A p \in Products : See(t, Stock(p)) + Adjusted[p] >= 0
       /\ Step(t, "adjust", Moving(Adjusted), Moves(t, Adjusted))
    \/ /\ At(t, "adjust")
       /\ \E p \in Products : See(t, Stock(p)) + Adjusted[p] < 0
       /\ Raise(t, "AWAITING_CONFIRMATION")

\* _run_recompute() flushes the job row, which so far was not locked.
StartRecompute(t) ==
    Step(t, "flush", {Job}, Only(Job, [db[Job] EXCEPT !.status = "RECOMPUTING"]))

------------------------------------------------------------------------------
(* recompute_after_import()                                                *)

ProductOf(i)  == ImportedSales[i[3]].product
QuantityOf(i) == ImportedSales[i[3]].quantity
SaleRows(t) == [i \in Sales |-> See(t, i)]
Present(t)  == {i \in Sales : See(t, i).state # "NONE"}

\* The units of product p in the imported sales among these rows.
Recorded(rows, p) ==
    SumFunction([i \in Sales |->
        IF rows[i].state # "NONE" /\ ProductOf(i) = p THEN QuantityOf(i) ELSE 0])
UnitsSold(t, p) == Recorded(SaleRows(t), p)

AppliedBugForgotten(t, p) == FALSE

\* Groups a former run has deducted carry its tag.
Applied(t, p) == See(t, Deducted)[p] # 0

\* _deduct_imported_sales_stock(): one adjust_stock() per product, each in its
\* savepoint; an error other than short stock may stop them all.
Deduct(t) ==
    /\ At(t, "deduct")
    /\ Advance(t)
    /\ UNCHANGED <<db, copy, fresh, shop, history>>
    /\ LET due    == {p \in Products : UnitsSold(t, p) > 0 /\ ~Applied(t, p)}
           enough == {p \in due : See(t, Stock(p)) >= UnitsSold(t, p)}
       IN  /\ Free(t, {Stock(p) : p \in due})
           /\ \E done \in {{}, enough} :
                /\ Write(t, Over(Only(Deducted, [p \in Products |->
                                        IF p \in done THEN UnitsSold(t, p)
                                        ELSE See(t, Deducted)[p]]),
                                 [i \in {Stock(p) : p \in done} |->
                                      See(t, i) - UnitsSold(t, i[2])]))
                /\ failed' = [failed EXCEPT ![t] = due \ done]

\* _compute_fifo_cogs_for_imported_sales(): a sale at a time, none of a
\* product whose deduction failed.
SkippedBugNone(t) == {}
Skipped(t) == failed[t]
Uncosted(t) == {i \in Present(t) :
                  ~See(t, i).costed /\ ProductOf(i) \notin Skipped(t)}

\* Batches by received_at: the imported deliveries are the older ones.
Age == [c \in Sources |-> IF c = 0 THEN 1 ELSE 0]
Eligible(t, p) == {c \in Sources : See(t, Batch(p, c)) > 0}
Held(t, p) == [c \in Eligible(t, p) |-> See(t, Batch(p, c))]

CostSale(t) ==
    /\ At(t, "cogs")
    /\ UNCHANGED <<db, todo, copy, fresh, failed, shop, history>>
    /\ \E i \in Uncosted(t) :
         LET p == ProductOf(i)
         IN  /\ Free(t, {Batch(p, c) : c \in Eligible(t, p)} \cup {i})
             /\ \E take \in Allocations(Held(t, p), Age, QuantityOf(i)) :
                  Write(t, Over(Only(i, [See(t, i) EXCEPT !.fifo = Over(take, NoUnits),
                                                          !.costed = TRUE]),
                                [b \in {Batch(p, c) : c \in DOMAIN take} |->
                                     See(t, b) - take[b[3]]]))

CostingEnds(t) ==
    /\ At(t, "cogs")
    /\ Advance(t)
    /\ UNCHANGED <<db, own, copy, fresh, failed, shop, history>>
    /\ Uncosted(t) = {}

Done(t) ==
    /\ At(t, "done")
    /\ Stop(t)
    /\ UNCHANGED <<shop, liveOps, started, crashed>>
    /\ db' = [Over(own[t], db) EXCEPT ![Job] =
                 [db[Job] EXCEPT !.status = "DONE", !.skipped = FALSE,
                    !.recompute = IF failed[t] = {} THEN "DONE" ELSE "FAILED"]]
    /\ doubled' = (doubled \/ \E c \in Copies \ {copy[t]} :
                                copy[t] # 0 /\ There(c))

------------------------------------------------------------------------------
(* rollback_job()                                                          *)

\* The units of a batch the imported sales among these rows were costed from.
Consumed(rows, p, c) ==
    SumFunction([i \in Sales |-> IF ProductOf(i) = p THEN rows[i].fifo[c] ELSE 0])

\* reverse_fifo_consumption() of the tagged sales.
CreditedBugForgotten(b) == 0
Credited(b) == Consumed(db, b[2], b[3])
Unfifo(t) ==
    LET ids == {b \in Batches : Credited(b) > 0}
    IN  Step(t, "unfifo", ids, [b \in ids |-> See(t, b) + Credited(b)])

\* loader rollback(): refused while a real payment stands against an order ...
Blocked == \E c \in Copies : There(c) /\ db[Order(c)].paid

\* ... and ended by a foreign key when the shop has moved a product it deletes.
ReferredTo == \E p \in Created : p \in touched

\* It waits for an import that refers to those products.
DeleteTagged(t) ==
    LET there   == {c \in Copies : There(c)}
        deleted == {Sale(c, s) : c \in there, s \in SaleIds}
                     \cup {Batch(p, c) : p \in Products, c \in there}
                     \cup {Order(c) : c \in there}
                     \cup {Received(c) : c \in there}
                     \cup {Stock(p) : p \in Created} \cup {Deducted}
        referring == IF Created = {} THEN {} ELSE {Order(c) : c \in Copies}
    IN  \/ /\ At(t, "delete") /\ ~Blocked /\ ~ReferredTo
           /\ Step(t, "delete", deleted \cup referring,
                   [i \in deleted |->
                      CASE i[1] = "sale"  -> NoSale
                        [] i[1] = "order" -> NoOrder
                        [] i = Deducted \/ i[1] = "received" -> NoMoves
                        [] OTHER          -> Missing])
        \/ At(t, "delete") /\ (Blocked \/ ReferredTo) /\ Raise(t, "FAILED")

\* The sum of the tagged movements, read before they were deleted.
Moved(rows, p) == SumFunction([c \in Copies |-> rows[Received(c)][p]]) - rows[Deducted][p]
Net(p) == Moved(db, p)

\* They are undone product by product, each in its savepoint; one that would
\* take the row below zero is skipped and recorded.  The FifoConsumption rows
\* of live sales went with the batches (ON DELETE CASCADE).
Reverse(t) ==
    LET moving  == {p \in Deduped : Net(p) # 0}
        skipped == {p \in moving : See(t, Stock(p)) - Net(p) < 0}
    IN  /\ At(t, "reverse")
        /\ Stop(t)
        /\ UNCHANGED <<touched, history>>
        /\ Free(t, {Stock(p) : p \in moving})
        /\ db' = Over([i \in {Stock(p) : p \in moving \ skipped} |->
                            See(t, i) - Net(i[2])],
                  Over([own[t] EXCEPT ![Job].skipped = @ \/ skipped # {}], db))
        /\ ledger' = [p \in Products |-> [NoUnits EXCEPT ![0] = ledger[p][0]]]
        /\ live' = [p \in Products |->
                      IF p \in skipped THEN live[p] + Net(p) ELSE live[p]]

------------------------------------------------------------------------------
(* The shop trades on                                                      *)

Live(p, ids) ==
    /\ db[Stock(p)] # Missing
    /\ Free(0, ids)
    /\ touched' = touched \cup {p}
    /\ UNCHANGED <<txVars, started, doubled, crashed>>

SellLive(p) ==
    LET held == [c \in {d \in Sources : db[Batch(p, d)] > 0} |-> db[Batch(p, c)]]
    IN  /\ liveOps < MaxLive /\ liveOps' = liveOps + 1
        /\ Live(p, {Stock(p)} \cup {Batch(p, c) : c \in DOMAIN held})
        /\ db[Stock(p)] > 0
        /\ \E take \in Allocations(held, Age, 1) :
             /\ db' = Over(Over(Only(Stock(p), db[Stock(p)] - 1),
                                [b \in {Batch(p, c) : c \in DOMAIN take} |->
                                     db[b] - take[b[3]]]), db)
             /\ ledger' = [ledger EXCEPT ![p] =
                             [c \in Sources |-> @[c] + Over(take, NoUnits)[c]]]
        /\ live' = [live EXCEPT ![p] = @ - 1]

\* A manual adjustment.
Restock(p) ==
    /\ liveOps < MaxLive /\ liveOps' = liveOps + 1
    /\ Live(p, {Stock(p)})
    /\ db' = [db EXCEPT ![Stock(p)] = @ + 1]
    /\ live' = [live EXCEPT ![p] = @ + 1]
    /\ UNCHANGED ledger

\* void_sale() of an imported sale: its movement is not tagged.
VoidImported(c, s) ==
    LET i == Sale(c, s)
        p == ProductOf(i)
        used == {d \in Sources : db[i].fifo[d] > 0}
    IN  /\ db[i].state = "COMPLETED"
        /\ Live(p, {i, Stock(p)} \cup {Batch(p, d) : d \in used})
        /\ db' = Over(Over(Only(Stock(p), db[Stock(p)] + QuantityOf(i)),
                      Over(Only(i, [db[i] EXCEPT !.state = "VOIDED", !.fifo = NoUnits]),
                           [b \in {Batch(p, d) : d \in used} |-> db[b] + db[i].fifo[b[3]]])),
                      db)
        /\ live' = [live EXCEPT ![p] = @ + QuantityOf(i)]
        /\ UNCHANGED <<ledger, liveOps>>

\* A real payment against an imported order.
Pay(c) ==
    /\ There(c) /\ ~db[Order(c)].paid
    /\ Free(0, {Order(c)})
    /\ db' = [db EXCEPT ![Order(c)].paid = TRUE]
    /\ UNCHANGED <<txVars, shop, history>>

------------------------------------------------------------------------------
ImportStep(t) ==
    \/ Transform(t) \/ Load(t) \/ LoadOrders(t) \/ LoadAdjustments(t)
    \/ StartRecompute(t)
RecomputeStep(t) == Deduct(t) \/ CostSale(t) \/ CostingEnds(t) \/ Done(t)
RollbackStep(t)  == Unfifo(t) \/ DeleteTagged(t) \/ Reverse(t)
SessionStep(t) ==
    \/ Confirm(t) \/ Decline(t) \/ AfterFailure(t)
    \/ ImportStep(t) \/ RecomputeStep(t) \/ RollbackStep(t)

ImportNext ==
    \/ CreateJob \/ Validate \/ Crash
    \/ \E t \in Txs :
          \/ \E approved \in BOOLEAN : Decide(t, approved)
          \/ Recompute(t) \/ RollbackJob(t)
          \/ SessionStep(t) \/ Fail(t)
    \/ \E p \in Products : SellLive(p) \/ Restock(p)
    \/ \E c \in Copies : Pay(c) \/ \E s \in SaleIds : VoidImported(c, s)

ImportSpec == ImportInit /\ [][ImportNext]_importVars

\* The event loop runs every session on.
ImportFairSpec == ImportSpec /\ \A t \in Txs : WF_importVars(SessionStep(t))

------------------------------------------------------------------------------
\* While no two imports of the job were there at once, a sale is costed only
\* when every unit the imported sales of its product took is off the stock row:
\* no cost of goods for goods that still count as on hand.
CostedMeansDeducted ==
    ~doubled =>
        \A i \in Sales : db[i].costed =>
            db[Deducted][ProductOf(i)] = Recorded(db, ProductOf(i))

\* However often and by whomever recompute is started again, the imported sales
\* leave the stock row once, and a rollback takes back everything the import
\* and its recomputes moved except what the job reports as skipped.
StockExplained ==
    \A p \in Products : Exists(p) =>
        db[Stock(p)] \in Nat /\ db[Stock(p)] =
            (IF p \in Deduped THEN Opening[p] ELSE 0) + live[p] + Net(p)

\* A batch holds what was received less what the sales were costed from it:
\* no import, recompute, void or rollback loses a unit of a surviving batch.
BatchesConserved ==
    \A p \in Products, c \in Sources : db[Batch(p, c)] # Missing =>
        db[Batch(p, c)] \in Nat /\ db[Batch(p, c)] + ledger[p][c] + Consumed(db, p, c)
           = IF c = 0 THEN Opening[p] ELSE Bought[p]

\* An import the server lives through ends: the job never stays IMPORTING.
ImportsEnd == Status = "IMPORTING" ~> (Status # "IMPORTING" \/ crashed)

(* What the code's documentation says and these steps do not keep.         *)

\* A reversal that cannot be made is "surfaced via the API, or a trader would
\* believe the import was fully undone when a product's on-hand quantity is
\* still inflated by it": with no sale of the shop's own, no restock and
\* nothing reported, a rollback leaves no more on hand than before the import.
NothingInflated ==
    Status = "ROLLED_BACK" /\ liveOps = 0 /\ ~db[Job].skipped =>
        \A p \in Deduped : db[Stock(p)] <= Opening[p]

=============================================================================
