------------------------------- MODULE SaleTx -------------------------------
(***************************************************************************)
(* Overlapping requests on the sales of one product: create_sale(),        *)
(* update_sale() of the quantity and void_sale(), statement by statement,  *)
(* as PostgreSQL runs them under READ COMMITTED.  StockLedger takes each   *)
(* request as one step; this module asks what is left of that when they    *)
(* interleave.                                                             *)
(*                                                                         *)
(* What the code loaded without a lock and uses later (was, seen) it       *)
(* keeps: the ORM does not read it again.                                  *)
(*                                                                         *)
(* Abstractions: the two ledgers are fields of the sale (only transactions *)
(* holding the sale's row touch them); every sale is costed; deliveries    *)
(* and the other writers of stock are in OrderTx.                          *)
(***************************************************************************)
EXTENDS Fifo, RowLocks, FiniteSets

CONSTANTS
    Sales,         \* ids of the sales that may be recorded
    Variants,
    Untagged,      \* the row without a variant
    Quantities,
    Received,      \* slot -> units of its batch and of its lot at the start
    ReceivedAt,    \* slot -> the batch's date
    OrderDate,     \* slot -> the lot's date
    OnHand,        \* row -> units on hand at the start
    MaxStock       \* bound: no request begins while a row holds more units

Rows  == Variants \cup {Untagged}
Slots == DOMAIN Received          \* pairs <<order, row>>

ASSUME SlotsAssumption ==
    /\ \A k \in Slots : k[2] \in Rows /\ Received[k] \in Nat
    /\ DOMAIN ReceivedAt = Slots /\ DOMAIN OrderDate = Slots
    /\ OnHand \in [Rows -> Nat]
ASSUME QuantitiesAssumption ==
    Quantities \subseteq Nat \ {0}
ASSUME FiniteAssumption ==
    IsFiniteSet(Sales) /\ IsFiniteSet(Slots)

SaleRow(s)  == <<"sale", s>>
StockRow(r) == <<"stock", r>>
Batch(k)    == <<"batch", k>>
Lot(k)      == <<"lot", k>>

RowIds == {SaleRow(s) : s \in Sales} \cup {StockRow(r) : r \in Rows}
             \cup {Batch(k) : k \in Slots} \cup {Lot(k) : k \in Slots}

VARIABLES
    moved,         \* row -> sum of its committed StockMovements
    request,       \* tx -> [kind, sale, row, quantity] of its request
    was,           \* tx -> quantity of the sale object it loaded
    seen,          \* tx -> the lots it read and what it means to take
    change,        \* tx -> the StockMovement it inserted
    voids          \* sale -> number of committed voids

txVars == <<own, todo, request, was, seen, change>>
vars == <<db, moved, voids, txVars>>

Nothing == [k \in Slots |-> 0]
Plus(used, take) == [k \in Slots |-> used[k] + take[k]]
NoSale  == [state |-> "NEW", row |-> Untagged, quantity |-> 0,
            fifo |-> Nothing, lots |-> Nothing]
NoRequest == [kind |-> "none"]
NoLots    == [held |-> Nothing, take |-> Nothing]

\* The definitions named ...Bug are plausible mistakes in the definition that
\* follows; they only serve to show that the properties can fail.
StepsBugBatchesFirst ==
    [create |-> <<"stock", "fifo", "lots", "write", "commit">>,
     update |-> <<"sale", "unfifo", "stock", "fifo", "unlots", "lots", "write",
                  "commit">>,
     void   |-> <<"sale", "unfifo", "stock", "unlots", "commit">>]

StepsBugBatchesKept ==
    [create |-> <<"stock", "fifo", "lots", "write", "commit">>,
     update |-> <<"sale", "stock", "fifo", "unlots", "lots", "write", "commit">>,
     void   |-> <<"sale", "stock", "unfifo", "unlots", "commit">>]

Steps ==
    [create |-> <<"stock", "fifo", "lots", "write", "commit">>,
     update |-> <<"sale", "stock", "unfifo", "fifo", "unlots", "lots", "write",
                  "commit">>,
     void   |-> <<"sale", "stock", "unfifo", "unlots", "commit">>]

\* Every order was delivered and nothing sold yet; what is on hand may differ
\* from what the batches hold, for stock is also adjusted by hand.
Init ==
    /\ db = [i \in RowIds |->
               CASE i[1] = "sale"  -> NoSale
                 [] i[1] = "stock" -> OnHand[i[2]]
                 [] OTHER          -> Received[i[2]]]
    /\ moved = [r \in Rows |-> db[StockRow(r)]]
    /\ InitSessions
    /\ request = [t \in Txs |-> NoRequest]
    /\ was = [t \in Txs |-> 0]
    /\ seen = [t \in Txs |-> NoLots]
    /\ change = [t \in Txs |-> 0]
    /\ voids = [s \in Sales |-> 0]

------------------------------------------------------------------------------
SaleOf(t) == See(t, SaleRow(request[t].sale))

Reset(t) ==
    /\ Release(t)
    /\ request' = [request EXCEPT ![t] = NoRequest]
    /\ was' = [was EXCEPT ![t] = 0]
    /\ seen' = [seen EXCEPT ![t] = NoLots]
    /\ change' = [change EXCEPT ![t] = 0]

Rollback(t) == Reset(t) /\ UNCHANGED <<db, moved, voids>>

\* variant_or_untagged_filter()
VariantOrUntagged(r) == {k \in Slots : k[2] \in {r, Untagged}}

Draws(held, age, r, quantity) ==
    LET eligible == {k \in VariantOrUntagged(r) : held[k] > 0}
    IN  { Over(take, Nothing) :
            take \in Allocations(Restrict(held, eligible), age, quantity) }

\* What a sale's ledger has drawn, and the batches fifo_deduct() considers.
Drawn(t, ledger) == {k \in Slots : SaleOf(t)[ledger][k] > 0}
Eligible(t) == {k \in VariantOrUntagged(request[t].row) : See(t, Batch(k)) > 0}

\* The rows a request's next statement locks, by a flush or FOR UPDATE.
Wanted(t) ==
    CASE At(t, "sale")   -> {SaleRow(request[t].sale)}
      [] At(t, "stock")  -> {StockRow(request[t].row)}
      [] At(t, "unfifo") -> {Batch(k) : k \in Drawn(t, "fifo")}
      [] At(t, "fifo")   -> {Batch(k) : k \in Eligible(t)}
      [] At(t, "unlots") -> {Lot(k) : k \in Drawn(t, "lots")}
      [] At(t, "write")  -> {Lot(k) : k \in {l \in Slots : seen[t].take[l] > 0}}
      [] OTHER           -> {}

------------------------------------------------------------------------------
\* create_sale() inserts the sale; get_sale() of the other two loads it, and
\* they stop when it is voided.
Begin(t, kind, s, r, quantity) ==
    /\ Idle(t)
    /\ \A i \in Rows : db[StockRow(i)] <= MaxStock
    /\ \/ /\ kind = "create"
          /\ db[SaleRow(s)] = NoSale
          /\ \A u \in Txs : SaleRow(s) \notin Locked(u)
          /\ Write(t, Only(SaleRow(s), [NoSale EXCEPT !.state = "COMPLETED",
                                            !.row = r, !.quantity = quantity]))
       \/ /\ kind \in {"update", "void"}
          /\ db[SaleRow(s)].state = "COMPLETED"
          /\ r = db[SaleRow(s)].row
          /\ kind = "update" => quantity # db[SaleRow(s)].quantity
          /\ kind = "void" => quantity = db[SaleRow(s)].quantity
          /\ UNCHANGED own
    /\ todo' = [todo EXCEPT ![t] = Steps[kind]]
    /\ request' = [request EXCEPT ![t] = [kind |-> kind, sale |-> s, row |-> r,
                                          quantity |-> quantity]]
    /\ was' = [was EXCEPT ![t] = db[SaleRow(s)].quantity]
    /\ UNCHANGED <<db, moved, seen, change, voids>>

\* The flush of the changed columns: UPDATE sales SET status (or quantity).
WriteSale(t) ==
    LET s == request[t].sale
    IN  /\ At(t, "sale")
        /\ Free(t, Wanted(t))
        /\ Write(t, Only(SaleRow(s),
              IF request[t].kind = "void"
              THEN [db[SaleRow(s)] EXCEPT !.state = "VOIDED"]
              ELSE [db[SaleRow(s)] EXCEPT !.quantity = request[t].quantity]))
        /\ Advance(t)
        /\ UNCHANGED <<db, moved, request, was, seen, change, voids>>

\* adjust_stock(), by what the loaded sale object says was sold.
StockChange(t) ==
    CASE request[t].kind = "create" -> -request[t].quantity
      [] request[t].kind = "update" -> was[t] - request[t].quantity
      [] request[t].kind = "void"   -> was[t]

SufficientBugUnchecked(level) == TRUE
Sufficient(level) == level >= 0

AdjustStock(t) ==
    LET row   == StockRow(request[t].row)
        level == See(t, row) + StockChange(t)
    IN  /\ At(t, "stock")
        /\ Free(t, Wanted(t))
        /\ \/ /\ Sufficient(level)
              /\ Write(t, Only(row, level))
              /\ change' = [change EXCEPT ![t] = StockChange(t)]
              /\ Advance(t)
              /\ UNCHANGED <<db, moved, request, was, seen, voids>>
           \/ ~Sufficient(level) /\ Rollback(t)

\* reverse_ledger_consumption(): lock the targets, credit them, delete the rows.
Credit(t, step, ledger) ==
    LET used == SaleOf(t)[ledger]
    IN  /\ At(t, step)
        /\ Free(t, Wanted(t))
        /\ Write(t, Over(Only(SaleRow(request[t].sale),
                             [SaleOf(t) EXCEPT ![ledger] = Nothing]),
                         [i \in Wanted(t) |-> See(t, i) + used[i[2]]]))
        /\ Advance(t)
        /\ UNCHANGED <<db, moved, request, was, seen, change, voids>>

CreditBatches(t) == Credit(t, "unfifo", "fifo")
CreditLots(t)    == Credit(t, "unlots", "lots")

\* fifo_deduct(): every eligible batch is locked, used or not.
FifoDeduct(t) ==
    LET held == [k \in Slots |-> See(t, Batch(k))]
    IN  /\ At(t, "fifo")
        /\ Free(t, Wanted(t))
        /\ \E take \in Draws(held, ReceivedAt, request[t].row, request[t].quantity) :
              Write(t, Over(Only(SaleRow(request[t].sale),
                                 [SaleOf(t) EXCEPT !.fifo = Plus(@, take)]),
                            [i \in Wanted(t) |-> held[i[2]] - take[i[2]]]))
        /\ Advance(t)
        /\ UNCHANGED <<db, moved, request, was, seen, change, voids>>

\* _deduct_lot_units(): the lots are read without a lock ...
ReadLots(t) ==
    LET held == [k \in Slots |-> See(t, Lot(k))]
    IN  /\ At(t, "lots")
        /\ \E take \in Draws(held, OrderDate, request[t].row,
                             request[t].quantity) :
              seen' = [seen EXCEPT ![t] = [held |-> held, take |-> take]]
        /\ Advance(t)
        /\ UNCHANGED <<db, moved, own, request, was, change, voids>>

\* ... and the flush writes what was computed from that reading.
WriteLots(t) ==
    LET take == seen[t].take
    IN  /\ At(t, "write")
        /\ Free(t, Wanted(t))
        /\ Write(t, Over(Only(SaleRow(request[t].sale),
                             [SaleOf(t) EXCEPT !.lots = Plus(@, take)]),
                         [i \in Wanted(t) |-> seen[t].held[i[2]] - take[i[2]]]))
        /\ Advance(t)
        /\ UNCHANGED <<db, moved, request, was, seen, change, voids>>

Commit(t) ==
    /\ At(t, "commit")
    /\ Publish(t)
    /\ moved' = [moved EXCEPT ![request[t].row] = @ + change[t]]
    /\ voids' = IF request[t].kind = "void"
                THEN [voids EXCEPT ![request[t].sale] = @ + 1] ELSE voids
    /\ Reset(t)

Statement(t) ==
    \/ WriteSale(t)
    \/ AdjustStock(t)
    \/ CreditBatches(t)
    \/ FifoDeduct(t)
    \/ CreditLots(t)
    \/ ReadLots(t)
    \/ WriteLots(t)
    \/ Commit(t)

\* A request may also end in an error of its own at any statement (a lost
\* connection, a deadlock the server resolves): get_db() rolls it back.
Fail(t) == ~Idle(t) /\ Rollback(t)

Next ==
    \E t \in Txs :
        \/ \E s \in Sales, r \in Rows, q \in Quantities,
              kind \in {"create", "update", "void"} : Begin(t, kind, s, r, q)
        \/ Statement(t)
        \/ Fail(t)

Spec == Init /\ [][Next]_vars

------------------------------------------------------------------------------
\* Types of the committed rows; no stock row, batch or lot is ever negative.
TypeOK ==
    /\ \A r \in Rows : db[StockRow(r)] \in Nat
    /\ \A k \in Slots : db[Batch(k)] \in Nat /\ db[Lot(k)] \in Nat
    /\ \A s \in Sales :
          /\ db[SaleRow(s)].state \in {"NEW", "COMPLETED", "VOIDED"}
          /\ db[SaleRow(s)].fifo \in [Slots -> Nat]
          /\ db[SaleRow(s)].lots \in [Slots -> Nat]

\* The stock rows seen as accounts: what is committed, and its movements.
Account == INSTANCE StockAccount WITH
    Accounts <- Rows,
    onHand   <- [r \in Rows |-> db[StockRow(r)]],
    booked   <- moved

\* However requests overlap, adjust_stock() never loses another request's
\* movement and never takes a row below zero: the requests implement the
\* account.
ImplementsAccount == Account!Spec

\* ... and so the on-hand figure of a row is the sum of its StockMovements.
MovementsExplainStock == \A r \in Rows : db[StockRow(r)] = moved[r]

\* However requests overlap, a batch holds what was received less what the
\* FifoConsumption rows say: no unit is costed twice and no credit is lost.
BatchConserved ==
    \A k \in Slots :
        db[Batch(k)] + SumFunction([s \in Sales |-> db[SaleRow(s)].fifo[k]])
          = Received[k]

\* However edits of one sale overlap, its ledgers never record more units than
\* the quantity the sale ends up with.
LedgersWithinSale ==
    \A s \in Sales :
        /\ SumFunction(db[SaleRow(s)].fifo) <= db[SaleRow(s)].quantity
        /\ SumFunction(db[SaleRow(s)].lots) <= db[SaleRow(s)].quantity

\* Requests never wait for each other's row locks in a circle: while any runs,
\* one of them can take its next statement.  Two edits of sales of different
\* variants are the exception: each credits the untagged batches its sale drew
\* on before it locks those it may draw on now, and may find the other's there.
EditsCross ==
    \E t, u \in Txs :
        /\ request[t].kind = "update" /\ request[u].kind = "update"
        /\ request[t].row # request[u].row

NoDeadlock ==
    (\E t \in Txs : ~Idle(t)) /\ ~EditsCross =>
        \E t \in Txs : ~Idle(t) /\ Free(t, Wanted(t))

(* What the code's documentation says and overlapping requests break.      *)

\* "A sale that has already been voided" is not voided again.
VoidedOnce == \A s \in Sales : voids[s] <= 1

\* ... nor updated: a voided sale holds no units.
VoidedReleased ==
    \A s \in Sales : db[SaleRow(s)].state = "VOIDED" =>
        db[SaleRow(s)].fifo = Nothing /\ db[SaleRow(s)].lots = Nothing

\* The LotConsumption rows are "exactly which" lots a sale consumed "and how
\* much of each".
LotConserved ==
    \A k \in Slots :
        db[Lot(k)] + SumFunction([s \in Sales |-> db[SaleRow(s)].lots[k]])
          = Received[k]

=============================================================================
