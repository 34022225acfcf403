-------------------------- MODULE StockLedger_proofs --------------------------
(***************************************************************************)
(* Type correctness of StockLedger, the safety of its two consumption      *)
(* ledgers, and the sums that stock, batches, lots and costs must keep:    *)
(* for any orders, sales, variants, quantities and costs.                  *)
(***************************************************************************)
EXTENDS StockLedger, SumTheorems, TLAPS

USE OrdersAssumption, RowsAssumption, AmountsAssumption, NoneAssumption

\* The function type of what a walk over lots takes.
Taken == [Slots -> Nat]

\* A draw takes whole units, no more than a slot holds, and only from the
\* row's own lots or untagged ones.
LEMMA DrawsBounded ==
    ASSUME NEW STATE held, held \in [Slots -> Nat], NEW STATE age,
           NEW STATE r, r \in Rows, NEW STATE quantity, quantity \in Nat,
           NEW take \in Draws(held, age, r, quantity)
    PROVE  /\ take \in Taken
           /\ \A k \in Slots : take[k] <= held[k]
           /\ \A k \in Slots : take[k] > 0 => k[2] \in {r, Untagged}
<1> DEFINE eligible == {k \in VariantOrUntagged(r) : held[k] > 0}
           avail    == Restrict(held, eligible)
<1>1. PICK t \in Allocations(avail, age, quantity) :
          take = [k \in Slots |-> IF k \in eligible THEN t[k] ELSE 0]
  BY DEF Draws
<1>2. /\ DOMAIN avail = eligible
      /\ \A k \in eligible : avail[k] = held[k]
  BY DEF Restrict
<1>3. /\ t \in [eligible -> 0..quantity]
      /\ \A k \in eligible : t[k] <= held[k]
  BY <1>1, <1>2 DEF Allocations
<1>4. \A k \in Slots : k \in eligible => t[k] \in Nat /\ t[k] <= held[k]
  BY <1>3
<1> HIDE DEF avail
<1>5. take \in Taken
  BY <1>1, <1>4 DEF Taken
<1>6. ASSUME NEW k \in Slots
      PROVE  take[k] <= held[k] /\ (take[k] > 0 => k[2] \in {r, Untagged})
  BY <1>1, <1>4 DEF VariantOrUntagged
<1>7. QED
  BY <1>5, <1>6

\* Crediting a sale's ledger rows back yields units again.
LEMMA CreditTypes ==
    ASSUME TypeOK, NEW s \in Sales
    PROVE  /\ FifoCredited(s) \in [Slots -> Nat]
           /\ LotsCredited(s) \in [Slots -> Nat \cup {None}]
<1>1. ASSUME NEW k \in Slots
      PROVE  /\ batch[k].remaining \in Nat
             /\ fifoUsed[s][k] \in Nat
             /\ lotUsed[s][k] \in Nat
             /\ units[k] \in Nat \cup {None}
  BY DEF TypeOK, Batch
<1>2. FifoCredited(s) \in [Slots -> Nat]
  BY <1>1 DEF FifoCredited
<1>3. LotsCredited(s) \in [Slots -> Nat \cup {None}]
  BY <1>1 DEF LotsCredited
<1>4. QED
  BY <1>2, <1>3

\* Costing a record changes its two cost stamps only.
LEMMA CostedRecord ==
    ASSUME NEW STATE record, record \in Sale, NEW STATE cogs,
           Costed(record, cogs).cogs \in Money,
           Costed(record, cogs).profit \in Money
    PROVE  /\ Costed(record, cogs) \in Sale
           /\ Costed(record, cogs).state = record.state
           /\ Costed(record, cogs).row = record.row
  BY DEF Costed, Sale

\* What a costing step (create_sale() or a quantity edit) leaves behind: the
\* sale's new ledger rows lie on its own or untagged slots that held units.
LEMMA DepleteStep ==
    ASSUME TypeOK, NEW s \in Sales, NEW STATE record, record \in Sale,
           NEW STATE remaining, remaining \in [Slots -> Nat],
           NEW STATE lots, lots \in [Slots -> Nat \cup {None}],
           Deplete(s, record, remaining, lots)
    PROVE  /\ sale' \in [Sales -> Sale]
           /\ sale'[s].state = record.state /\ sale'[s].row = record.row
           /\ \A t \in Sales : t # s => sale'[t] = sale[t]
           /\ batch' \in [Slots -> Batch]
           /\ \A k \in Slots : /\ batch'[k].received = batch[k].received
                                /\ batch'[k].remaining <= remaining[k]
           /\ units' \in [Slots -> Nat \cup {None}]
           /\ fifoUsed' \in [Sales -> Taken] /\ lotUsed' \in [Sales -> Taken]
           /\ \A t \in Sales : t # s => /\ fifoUsed'[t] = fifoUsed[t]
                                         /\ lotUsed'[t] = lotUsed[t]
           /\ \A k \in Slots : fifoUsed'[s][k] > 0 => remaining[k] > 0
           /\ \A k \in Slots : fifoUsed'[s][k] > 0 \/ lotUsed'[s][k] > 0
                                 => k[2] \in {record.row, Untagged}
<1> DEFINE held == [k \in Slots |-> IF lots[k] = None THEN 0 ELSE lots[k]]
<1>1. PICK take \in FifoDraws(remaining, record.row, record.quantity),
           taken \in LotDraws(lots, record.row, record.quantity) :
          /\ Costed(record, Cogs(take, Landed)).cogs \in Money
          /\ Costed(record, Cogs(take, Landed)).profit \in Money
          /\ sale' = [sale EXCEPT ![s] = Costed(record, Cogs(take, Landed))]
          /\ batch' = BatchesLess(remaining, take)
          /\ fifoUsed' = [fifoUsed EXCEPT ![s] = take]
          /\ units' = LotsLess(lots, taken)
          /\ lotUsed' = [lotUsed EXCEPT ![s] = taken]
  BY DEF Deplete
<1>2. record.row \in Rows /\ record.quantity \in Nat
  BY DEF Sale
<1>3. /\ take \in Taken
      /\ \A k \in Slots : take[k] <= remaining[k]
      /\ \A k \in Slots : take[k] > 0 => k[2] \in {record.row, Untagged}
  BY <1>1, <1>2, DrawsBounded DEF FifoDraws
<1>4. held \in [Slots -> Nat]
  OBVIOUS
<1>5. /\ taken \in Taken
      /\ \A k \in Slots : taken[k] <= held[k]
      /\ \A k \in Slots : taken[k] > 0 => k[2] \in {record.row, Untagged}
  <2> HIDE DEF held
  <2>1. taken \in Draws(held, OrderDate, record.row, record.quantity)
    BY <1>1 DEF LotDraws, held
  <2>2. QED
    BY <2>1, <1>2, <1>4, DrawsBounded
<1>6. /\ sale' \in [Sales -> Sale]
      /\ sale'[s].state = record.state /\ sale'[s].row = record.row
      /\ \A t \in Sales : t # s => sale'[t] = sale[t]
  <2> DEFINE costed == Costed(record, Cogs(take, Landed))
  <2>1. costed \in Sale /\ costed.state = record.state /\ costed.row = record.row
    BY <1>1, CostedRecord
  <2> HIDE DEF costed
  <2>2. sale' = [sale EXCEPT ![s] = costed] /\ sale \in [Sales -> Sale]
    BY <1>1 DEF costed, TypeOK
  <2>3. QED
    BY <2>1, <2>2
<1>7. /\ batch' \in [Slots -> Batch]
      /\ \A k \in Slots : /\ batch'[k].received = batch[k].received
                           /\ batch'[k].remaining <= remaining[k]
  <2>1. ASSUME NEW k \in Slots
        PROVE  /\ batch[k] \in Batch
               /\ remaining[k] - take[k] \in Nat
               /\ remaining[k] - take[k] <= remaining[k]
    BY <1>3 DEF TypeOK, Taken
  <2>2. batch' = [k \in Slots |->
                     [batch[k] EXCEPT !.remaining = remaining[k] - take[k]]]
    BY <1>1 DEF BatchesLess
  <2>3. ASSUME NEW k \in Slots
        PROVE  /\ batch'[k] \in Batch
               /\ batch'[k].received = batch[k].received
               /\ batch'[k].remaining <= remaining[k]
    BY <2>1, <2>2 DEF Batch
  <2>4. QED
    BY <2>2, <2>3
<1>8. units' \in [Slots -> Nat \cup {None}]
  BY <1>1, <1>5 DEF LotsLess, Taken
<1>9. /\ fifoUsed' \in [Sales -> Taken] /\ lotUsed' \in [Sales -> Taken]
      /\ fifoUsed'[s] = take /\ lotUsed'[s] = taken
      /\ \A t \in Sales : t # s => /\ fifoUsed'[t] = fifoUsed[t]
                                    /\ lotUsed'[t] = lotUsed[t]
  BY <1>1, <1>3, <1>5 DEF TypeOK, Taken
<1>10. \A k \in Slots : fifoUsed'[s][k] > 0 => remaining[k] > 0
  BY <1>3, <1>9 DEF Taken
<1>11. \A k \in Slots : fifoUsed'[s][k] > 0 \/ lotUsed'[s][k] > 0
                            => k[2] \in {record.row, Untagged}
  BY <1>3, <1>5, <1>9
<1>12. QED
  BY <1>6, <1>7, <1>8, <1>9, <1>10, <1>11

------------------------------------------------------------------------------
LEMMA InitLedgerInv == Init => LedgerInv
<1> SUFFICES ASSUME Init PROVE LedgerInv
  OBVIOUS
<1>1. PICK choice \in [Orders -> LineChoices] :
          ordered = [k \in Slots |-> choice[k[1]][k[2]]]
  BY DEF Init
<1>2. ordered \in [Slots -> Nat]
  <2>1. ASSUME NEW k \in Slots PROVE choice[k[1]][k[2]] \in Nat
    <3>1. k[1] \in Orders /\ k[2] \in Rows
      BY DEF Slots
    <3>2. choice[k[1]] \in [Rows -> Nat]
      BY <3>1
    <3>3. QED
      BY <3>1, <3>2
  <2>2. QED
    BY <1>1, <2>1
<1>3. onHand \in [Rows -> Nat \cup {None}] /\ manual \in [Rows -> Int]
  BY DEF Init, Rows
<1>4. NoSale \in Sale
  BY DEF NoSale, Sale, Rows
<1>5. NoBatch \in Batch /\ NoBatch.received = 0 /\ NoBatch.remaining = 0
  BY DEF NoBatch, Batch
<1>6. Nothing \in [Slots -> Nat] /\ \A k \in Slots : Nothing[k] = 0
  BY DEF Nothing
<1>7. TypeOK
  BY <1>2, <1>3, <1>4, <1>5, <1>6 DEF Init, TypeOK
<1>8. BatchesOfDelivered
  BY <1>5 DEF Init, BatchesOfDelivered
<1>9. /\ \A s \in Sales : sale[s].state = "NEW"
      /\ \A s \in Sales, k \in Slots : fifoUsed[s][k] = 0 /\ lotUsed[s][k] = 0
  BY <1>6 DEF Init, NoSale
<1>10. LedgersOwnVariant /\ VoidedReleased /\ CostHistoryKept
  BY <1>9 DEF LedgersOwnVariant, VoidedReleased, CostHistoryKept
<1>11. QED
  BY <1>7, <1>8, <1>10 DEF LedgerInv

\* adjust_stock() keeps the rows of stock non-negative.
LEMMA AdjustStockType ==
    ASSUME TypeOK, NEW STATE r, r \in Rows, NEW STATE change, change \in Int,
           AdjustStock(r, change)
    PROVE  onHand' \in [Rows -> Nat \cup {None}]
BY DEF AdjustStock, TypeOK

\* Costing a live sale preserves the invariant, whether the sale is new or is
\* being costed again after its own ledger rows were credited back.
LEMMA DepleteKeepsInv ==
    ASSUME LedgerInv, NEW s \in Sales, NEW STATE record, record \in Sale,
           NEW STATE remaining, remaining \in [Slots -> Nat],
           NEW STATE lots, lots \in [Slots -> Nat \cup {None}],
           record.state = "COMPLETED",
           \A k \in Slots : remaining[k] > 0 => batch[k].received > 0,
           Deplete(s, record, remaining, lots),
           onHand' \in [Rows -> Nat \cup {None}],
           UNCHANGED <<orderVars, returned, manual>>
    PROVE  LedgerInv'
<1>1. TypeOK
  BY DEF LedgerInv
<1>2. /\ sale' \in [Sales -> Sale]
      /\ sale'[s].state = "COMPLETED" /\ sale'[s].row = record.row
      /\ \A t \in Sales : t # s => sale'[t] = sale[t]
      /\ batch' \in [Slots -> Batch]
      /\ \A k \in Slots : /\ batch'[k].received = batch[k].received
                           /\ batch'[k].remaining <= remaining[k]
      /\ units' \in [Slots -> Nat \cup {None}]
      /\ fifoUsed' \in [Sales -> [Slots -> Nat]]
      /\ lotUsed' \in [Sales -> [Slots -> Nat]]
      /\ \A t \in Sales : t # s => /\ fifoUsed'[t] = fifoUsed[t]
                                    /\ lotUsed'[t] = lotUsed[t]
      /\ \A k \in Slots : fifoUsed'[s][k] > 0 => remaining[k] > 0
      /\ \A k \in Slots : fifoUsed'[s][k] > 0 \/ lotUsed'[s][k] > 0
                            => k[2] \in {record.row, Untagged}
  BY <1>1, DepleteStep DEF Taken
<1>3. TypeOK'
  BY <1>1, <1>2 DEF TypeOK, orderVars
<1>4. BatchesOfDelivered'
  <2>1. ASSUME NEW k \in Slots
        PROVE  /\ batch'[k].received > 0 => status'[k[1]] = "DELIVERED"
               /\ batch'[k].remaining > 0 => batch'[k].received > 0
    <3>1. /\ batch[k].received > 0 => status[k[1]] = "DELIVERED"
          /\ batch'[k].received = batch[k].received
          /\ batch'[k].remaining \in Nat /\ remaining[k] \in Nat
          /\ batch'[k].remaining <= remaining[k]
      BY <1>2 DEF LedgerInv, BatchesOfDelivered, Batch
    <3>2. status' = status
      BY DEF orderVars
    <3>3. QED
      BY <3>1, <3>2
  <2>2. QED
    BY <2>1 DEF BatchesOfDelivered
<1>5. LedgersOwnVariant'
  BY <1>2 DEF LedgerInv, LedgersOwnVariant
<1>6. VoidedReleased'
  <2>1. ASSUME NEW t \in Sales, NEW k \in Slots, sale'[t].state # "COMPLETED"
        PROVE  fifoUsed'[t][k] = 0 /\ lotUsed'[t][k] = 0
    <3>1. t # s
      BY <1>2, <2>1
    <3>2. sale'[t] = sale[t] /\ fifoUsed'[t] = fifoUsed[t] /\ lotUsed'[t] = lotUsed[t]
      BY <1>2, <3>1
    <3>3. QED
      BY <2>1, <3>2 DEF LedgerInv, VoidedReleased
  <2>2. QED
    BY <2>1 DEF VoidedReleased
<1>7. CostHistoryKept'
  <2>1. ASSUME NEW t \in Sales, NEW k \in Slots, fifoUsed'[t][k] > 0
        PROVE  batch[k].received > 0 /\ status[k[1]] = "DELIVERED"
    <3>1. CASE t = s
      BY <1>2, <2>1, <3>1 DEF LedgerInv, BatchesOfDelivered
    <3>2. CASE t # s
      BY <1>2, <2>1, <3>2 DEF LedgerInv, CostHistoryKept
    <3>3. QED
      BY <3>1, <3>2
  <2>2. QED
    BY <1>2, <2>1 DEF CostHistoryKept, orderVars
<1>8. QED
  BY <1>3, <1>4, <1>5, <1>6, <1>7 DEF LedgerInv

------------------------------------------------------------------------------
LEMMA CreateSaleInv ==
    ASSUME LedgerInv, NEW s \in Sales, NEW r \in Rows, NEW q \in Quantities,
           NEW p \in Prices, NEW d \in Discounts, CreateSale(s, r, q, p, d)
    PROVE  LedgerInv'
<1> DEFINE record == [state |-> "COMPLETED", row |-> r, quantity |-> q,
                      price |-> p, discount |-> d,
                      cogs |-> None, profit |-> None]
<1>1. record \in Sale /\ record.state = "COMPLETED"
  BY DEF Sale
<1>2. TypeOK
  BY DEF LedgerInv
<1>3. Remaining \in [Slots -> Nat] /\ units \in [Slots -> Nat \cup {None}]
  BY <1>2 DEF TypeOK, Remaining, Batch
<1>4. \A k \in Slots : Remaining[k] > 0 => batch[k].received > 0
  BY DEF LedgerInv, BatchesOfDelivered, Remaining
<1>5. -q \in Int /\ AdjustStock(r, -q)
  <2>1. -q \in Int
    <3>1. q \in Nat
      OBVIOUS
    <3>2. QED
      BY <3>1
  <2>2. AdjustStock(r, -q)
    BY DEF CreateSale
  <2>3. QED
    BY <2>1, <2>2
<1>6. onHand' \in [Rows -> Nat \cup {None}]
  BY <1>2, <1>5, AdjustStockType
<1>7. /\ Deplete(s, record, Remaining, units)
      /\ UNCHANGED <<orderVars, returned, manual>>
  BY DEF CreateSale
<1> HIDE DEF record
<1>8. QED
  BY <1>1, <1>3, <1>4, <1>6, <1>7, DepleteKeepsInv

\* Steps that leave the ledgers, the batches and the statuses alone, move only
\* a sale not yet recorded to another row, and end no completed sale.
LEMMA LedgerUntouched ==
    ASSUME LedgerInv, TypeOK',
           UNCHANGED <<status, batch, fifoUsed, lotUsed>>,
           \A t \in Sales :
              /\ sale'[t].row = sale[t].row \/ sale[t].state = "NEW"
              /\ sale[t].state = "COMPLETED" => sale'[t].state = "COMPLETED"
    PROVE  LedgerInv'
<1>1. BatchesOfDelivered' /\ CostHistoryKept'
  BY DEF LedgerInv, BatchesOfDelivered, CostHistoryKept
<1>2. ASSUME NEW t \in Sales, NEW k \in Slots
      PROVE  /\ fifoUsed'[t][k] > 0 \/ lotUsed'[t][k] > 0
                   => k[2] \in {sale'[t].row, Untagged}
             /\ sale'[t].state # "COMPLETED"
                   => fifoUsed'[t][k] = 0 /\ lotUsed'[t][k] = 0
  <2>1. sale[t].state # "COMPLETED" => fifoUsed[t][k] = 0 /\ lotUsed[t][k] = 0
    BY DEF LedgerInv, VoidedReleased
  <2>2. fifoUsed[t][k] > 0 \/ lotUsed[t][k] > 0
           => k[2] \in {sale[t].row, Untagged}
    BY DEF LedgerInv, LedgersOwnVariant
  <2>3. CASE sale[t].state = "NEW"
    BY <2>1, <2>3
  <2>4. CASE sale[t].state # "NEW"
    BY <2>1, <2>2, <2>4
  <2>5. QED
    BY <2>3, <2>4
<1>3. LedgersOwnVariant' /\ VoidedReleased'
  BY <1>2 DEF LedgersOwnVariant, VoidedReleased
<1>4. QED
  BY <1>1, <1>3 DEF LedgerInv

LEMMA InsertPosSaleInv ==
    ASSUME LedgerInv, NEW s \in Sales, NEW r \in Rows, NEW q \in Quantities,
           NEW p \in Prices, InsertPosSale(s, r, q, p)
    PROVE  LedgerInv'
<1> DEFINE record == [state |-> "COMPLETED", row |-> r, quantity |-> q,
                      price |-> p, discount |-> 0,
                      cogs |-> None, profit |-> None]
<1>1. record \in Sale /\ record.state = "COMPLETED"
  BY DEF Sale
<1>2. /\ sale' = [sale EXCEPT ![s] = record]
      /\ manual' = [manual EXCEPT ![r] = @ + q]
      /\ UNCHANGED <<orderVars, bookVars, onHand, returned>>
      /\ sale[s].state = "NEW"
  BY DEF InsertPosSale
<1> HIDE DEF record
<1>3. TypeOK'
  BY <1>1, <1>2 DEF LedgerInv, TypeOK, orderVars, bookVars
<1>4. \A t \in Sales :
         /\ sale'[t].row = sale[t].row \/ sale[t].state = "NEW"
         /\ sale[t].state = "COMPLETED" => sale'[t].state = "COMPLETED"
  BY <1>1, <1>2 DEF LedgerInv, TypeOK
<1>5. QED
  BY <1>2, <1>3, <1>4, LedgerUntouched DEF orderVars, bookVars

LEMMA UpdateSaleTermsInv ==
    ASSUME LedgerInv, NEW s \in Sales, NEW p \in Prices, NEW d \in Discounts,
           UpdateSaleTerms(s, p, d)
    PROVE  LedgerInv'
<1>1. /\ sale' = [sale EXCEPT ![s].price = p, ![s].discount = d]
      /\ UNCHANGED <<orderVars, bookVars, onHand, returned, manual>>
  BY DEF UpdateSaleTerms
<1>2. /\ sale' \in [Sales -> Sale]
      /\ \A t \in Sales : /\ sale'[t].row = sale[t].row
                           /\ sale'[t].state = sale[t].state
  <2>1. sale \in [Sales -> Sale]
    BY DEF LedgerInv, TypeOK
  <2>2. sale' = [sale EXCEPT ![s] =
                    [sale[s] EXCEPT !.price = p, !.discount = d]]
    BY <1>1, <2>1 DEF Sale
  <2>3. sale[s] \in Sale /\ p \in Nat /\ d \in Nat
    BY <2>1
  <2>4. /\ [sale[s] EXCEPT !.price = p, !.discount = d] \in Sale
        /\ [sale[s] EXCEPT !.price = p, !.discount = d].row = sale[s].row
        /\ [sale[s] EXCEPT !.price = p, !.discount = d].state = sale[s].state
    BY <2>3 DEF Sale
  <2>5. QED
    BY <2>1, <2>2, <2>4
<1>3. TypeOK'
  BY <1>1, <1>2 DEF LedgerInv, TypeOK, orderVars, bookVars
<1>4. QED
  BY <1>1, <1>2, <1>3, LedgerUntouched DEF orderVars, bookVars

LEMMA UpdateSaleQuantityInv ==
    ASSUME LedgerInv, NEW s \in Sales, NEW q \in Quantities, NEW p \in Prices,
           NEW d \in Discounts, UpdateSaleQuantity(s, q, p, d)
    PROVE  LedgerInv'
<1> DEFINE updated == [sale[s] EXCEPT !.quantity = q, !.price = p,
                                      !.discount = d]
<1>1. TypeOK
  BY DEF LedgerInv
<1>2. sale[s] \in Sale /\ sale[s].state = "COMPLETED"
  BY <1>1 DEF TypeOK, UpdateSaleQuantity
<1>3. /\ updated \in Sale
      /\ updated.state = "COMPLETED" /\ updated.row = sale[s].row
  BY <1>2 DEF Sale
<1>4. onHand' \in [Rows -> Nat \cup {None}]
  <2>1. /\ AdjustStock(sale[s].row, sale[s].quantity - q)
        /\ sale[s].row \in Rows /\ sale[s].quantity - q \in Int
    BY <1>2 DEF UpdateSaleQuantity, Sale
  <2>2. QED
    BY <1>1, <2>1, AdjustStockType
<1>5. UNCHANGED <<orderVars, returned, manual>>
  BY DEF UpdateSaleQuantity
<1>6. CASE Deplete(s, updated, FifoCredited(s), LotsCredited(s))
  <2>1. /\ FifoCredited(s) \in [Slots -> Nat]
        /\ LotsCredited(s) \in [Slots -> Nat \cup {None}]
    BY <1>1, CreditTypes
  <2>2. \A k \in Slots : FifoCredited(s)[k] > 0 => batch[k].received > 0
    <3>1. ASSUME NEW k \in Slots, FifoCredited(s)[k] > 0
          PROVE  batch[k].received > 0
      <4>1. batch[k].received \in Nat
        BY <1>1 DEF TypeOK, Batch
      <4>2. batch[k].received = 0 => FifoCredited(s)[k] = batch[k].remaining
        BY DEF FifoCredited
      <4>3. QED
        BY <3>1, <4>1, <4>2 DEF LedgerInv, BatchesOfDelivered
    <3>2. QED
      BY <3>1
  <2> HIDE DEF updated
  <2>3. QED
    BY <1>3, <1>4, <1>5, <1>6, <2>1, <2>2, DepleteKeepsInv
<1>7. CASE sale' = [sale EXCEPT ![s] = updated] /\ UNCHANGED bookVars
  <2> HIDE DEF updated
  <2>1. /\ sale' \in [Sales -> Sale]
        /\ \A t \in Sales : /\ sale'[t].row = sale[t].row
                             /\ sale'[t].state = sale[t].state
    BY <1>1, <1>2, <1>3, <1>7 DEF TypeOK
  <2>2. TypeOK'
    BY <1>1, <1>4, <1>5, <1>7, <2>1 DEF TypeOK, orderVars, bookVars
  <2>3. QED
    BY <1>5, <1>7, <2>1, <2>2, LedgerUntouched DEF orderVars, bookVars
<1>8. QED
  BY <1>6, <1>7 DEF UpdateSaleQuantity

LEMMA VoidSaleInv ==
    ASSUME LedgerInv, NEW s \in Sales, VoidSale(s)
    PROVE  LedgerInv'
<1>1. TypeOK
  BY DEF LedgerInv
<1>2. sale[s] \in Sale /\ sale \in [Sales -> Sale]
  BY <1>1 DEF TypeOK
<1>3. onHand' \in [Rows -> Nat \cup {None}]
  <2>1. /\ AdjustStock(sale[s].row, sale[s].quantity)
        /\ sale[s].row \in Rows /\ sale[s].quantity \in Int
    BY <1>2 DEF VoidSale, Sale
  <2>2. QED
    BY <1>1, <2>1, AdjustStockType
<1>4. /\ FifoCredited(s) \in [Slots -> Nat]
      /\ LotsCredited(s) \in [Slots -> Nat \cup {None}]
  BY <1>1, CreditTypes
<1>5. /\ sale' \in [Sales -> Sale]
      /\ \A t \in Sales : sale'[t].row = sale[t].row
      /\ \A t \in Sales : t # s => sale'[t] = sale[t]
  <2>1. [sale[s] EXCEPT !.state = "VOIDED"] \in Sale
    BY <1>2 DEF Sale
  <2>2. sale' = [sale EXCEPT ![s] = [sale[s] EXCEPT !.state = "VOIDED"]]
    BY <1>2 DEF VoidSale
  <2>3. [sale[s] EXCEPT !.state = "VOIDED"].row = sale[s].row
    BY <1>2 DEF Sale
  <2>4. QED
    BY <1>2, <2>1, <2>2, <2>3
<1>6. /\ batch' \in [Slots -> Batch]
      /\ \A k \in Slots : /\ batch'[k].received = batch[k].received
                           /\ batch'[k].remaining = FifoCredited(s)[k]
  <2>1. batch' = [k \in Slots |->
                    [batch[k] EXCEPT !.remaining = FifoCredited(s)[k] - Nothing[k]]]
    BY DEF VoidSale, BatchesLess
  <2>2. ASSUME NEW k \in Slots
        PROVE  /\ FifoCredited(s)[k] - Nothing[k] \in Nat
               /\ FifoCredited(s)[k] - Nothing[k] = FifoCredited(s)[k]
               /\ batch[k] \in Batch
    BY <1>1, <1>4 DEF Nothing, TypeOK
  <2>3. ASSUME NEW k \in Slots
        PROVE  /\ batch'[k] \in Batch
               /\ batch'[k].received = batch[k].received
               /\ batch'[k].remaining = FifoCredited(s)[k]
    BY <2>1, <2>2 DEF Batch
  <2>4. QED
    BY <2>1, <2>3
<1>7. /\ fifoUsed' \in [Sales -> [Slots -> Nat]]
      /\ lotUsed' \in [Sales -> [Slots -> Nat]]
      /\ \A k \in Slots : fifoUsed'[s][k] = 0 /\ lotUsed'[s][k] = 0
      /\ \A t \in Sales : t # s => /\ fifoUsed'[t] = fifoUsed[t]
                                    /\ lotUsed'[t] = lotUsed[t]
  BY <1>1 DEF VoidSale, Released, TypeOK, Nothing
<1>8. UNCHANGED <<orderVars, returned, manual>> /\ units' = LotsCredited(s)
  BY DEF VoidSale
<1>9. TypeOK'
  BY <1>1, <1>3, <1>4, <1>5, <1>6, <1>7, <1>8 DEF TypeOK, orderVars
<1>10. BatchesOfDelivered'
  <2>1. ASSUME NEW k \in Slots
        PROVE  /\ batch'[k].received > 0 => status'[k[1]] = "DELIVERED"
               /\ batch'[k].remaining > 0 => batch'[k].received > 0
    <3>1. /\ batch[k].received \in Nat
          /\ batch[k].received = 0 => batch'[k].remaining = batch[k].remaining
      BY <1>1, <1>6 DEF TypeOK, Batch, FifoCredited
    <3>2. QED
      BY <1>6, <1>8, <3>1 DEF LedgerInv, BatchesOfDelivered, orderVars
  <2>2. QED
    BY <2>1 DEF BatchesOfDelivered
<1>11. ASSUME NEW t \in Sales, NEW k \in Slots
       PROVE  /\ fifoUsed'[t][k] > 0 \/ lotUsed'[t][k] > 0
                    => k[2] \in {sale'[t].row, Untagged}
              /\ sale'[t].state # "COMPLETED"
                    => fifoUsed'[t][k] = 0 /\ lotUsed'[t][k] = 0
              /\ fifoUsed'[t][k] > 0
                    => batch'[k].received > 0 /\ status'[k[1]] = "DELIVERED"
  <2>1. CASE t = s
    BY <1>7, <2>1
  <2>2. CASE t # s
    <3>1. /\ sale'[t] = sale[t]
          /\ fifoUsed'[t] = fifoUsed[t] /\ lotUsed'[t] = lotUsed[t]
          /\ batch'[k].received = batch[k].received
          /\ status' = status
      BY <1>5, <1>6, <1>7, <1>8, <2>2 DEF orderVars
    <3>2. /\ fifoUsed[t][k] > 0 \/ lotUsed[t][k] > 0
                => k[2] \in {sale[t].row, Untagged}
          /\ sale[t].state # "COMPLETED"
                => fifoUsed[t][k] = 0 /\ lotUsed[t][k] = 0
          /\ fifoUsed[t][k] > 0
                => batch[k].received > 0 /\ status[k[1]] = "DELIVERED"
      BY DEF LedgerInv, LedgersOwnVariant, VoidedReleased, CostHistoryKept
    <3>3. QED
      BY <3>1, <3>2
  <2>3. QED
    BY <2>1, <2>2
<1>12. LedgersOwnVariant' /\ VoidedReleased' /\ CostHistoryKept'
  BY <1>11 DEF LedgersOwnVariant, VoidedReleased, CostHistoryKept
<1>13. QED
  BY <1>9, <1>10, <1>12 DEF LedgerInv

\* Steps of an order: the ledgers may only lose rows, the sales keep their
\* rows and states, and a batch a ledger row points at stays as received.
LEMMA OrderStepInv ==
    ASSUME LedgerInv, TypeOK', BatchesOfDelivered',
           \A t \in Sales : /\ sale'[t].row = sale[t].row
                            /\ sale'[t].state = sale[t].state,
           fifoUsed' = fifoUsed,
           \A t \in Sales, k \in Slots :
              lotUsed'[t][k] = lotUsed[t][k] \/ lotUsed'[t][k] = 0,
           \A t \in Sales, k \in Slots :
              fifoUsed[t][k] > 0 => batch'[k].received > 0
    PROVE  LedgerInv'
<1>1. ASSUME NEW t \in Sales, NEW k \in Slots
      PROVE  /\ fifoUsed'[t][k] > 0 \/ lotUsed'[t][k] > 0
                   => k[2] \in {sale'[t].row, Untagged}
             /\ sale'[t].state # "COMPLETED"
                   => fifoUsed'[t][k] = 0 /\ lotUsed'[t][k] = 0
             /\ fifoUsed'[t][k] > 0
                   => batch'[k].received > 0 /\ status'[k[1]] = "DELIVERED"
  <2>1. /\ fifoUsed[t][k] > 0 \/ lotUsed[t][k] > 0
             => k[2] \in {sale[t].row, Untagged}
        /\ sale[t].state # "COMPLETED"
             => fifoUsed[t][k] = 0 /\ lotUsed[t][k] = 0
    BY DEF LedgerInv, LedgersOwnVariant, VoidedReleased
  <2>2. /\ sale'[t].row = sale[t].row /\ sale'[t].state = sale[t].state
        /\ fifoUsed'[t][k] = fifoUsed[t][k]
        /\ lotUsed'[t][k] = lotUsed[t][k] \/ lotUsed'[t][k] = 0
    OBVIOUS
  <2>3. fifoUsed'[t][k] > 0 \/ lotUsed'[t][k] > 0
           => k[2] \in {sale'[t].row, Untagged}
    BY <2>1, <2>2
  <2>4. sale'[t].state # "COMPLETED" => fifoUsed'[t][k] = 0 /\ lotUsed'[t][k] = 0
    BY <2>1, <2>2
  <2>5. ASSUME fifoUsed'[t][k] > 0
        PROVE  batch'[k].received > 0 /\ status'[k[1]] = "DELIVERED"
    <3>1. batch'[k].received > 0
      BY <2>2, <2>5
    <3>2. batch'[k].received > 0 => status'[k[1]] = "DELIVERED"
      BY DEF BatchesOfDelivered
    <3>3. QED
      BY <3>1, <3>2
  <2>6. QED
    BY <2>3, <2>4, <2>5
<1>2. LedgersOwnVariant' /\ VoidedReleased' /\ CostHistoryKept'
  BY <1>1 DEF LedgersOwnVariant, VoidedReleased, CostHistoryKept
<1>3. QED
  BY <1>2 DEF LedgerInv

LEMMA DeliverInv ==
    ASSUME LedgerInv, NEW o \in Orders, NEW day \in Days,
           NEW landed \in [Rows -> Costs], Deliver(o, day, landed)
    PROVE  LedgerInv'
<1>1. TypeOK
  BY DEF LedgerInv
<1>2. ASSUME NEW k \in Slots
      PROVE  /\ ordered[k] \in Nat /\ landed[k[2]] \in Nat
             /\ batch[k] \in Batch /\ units[k] \in Nat \cup {None}
             /\ k[1] \in Orders /\ k[2] \in Rows
  BY <1>1 DEF TypeOK, Slots
<1>3. batch' \in [Slots -> Batch]
  <2>1. ASSUME NEW k \in Slots
        PROVE  [received |-> ordered[k], remaining |-> ordered[k],
                landed |-> landed[k[2]]] \in Batch
    BY <1>2 DEF Batch
  <2>2. QED
    BY <1>2, <2>1 DEF Deliver
<1>4. units' \in [Slots -> Nat \cup {None}]
  BY <1>2 DEF Deliver
<1>5. onHand' \in [Rows -> Nat \cup {None}]
  <2>1. ASSUME NEW r \in Rows
        PROVE  /\ onHand[r] \in Nat \cup {None} /\ ordered[<<o, r>>] \in Nat
    BY <1>1 DEF TypeOK, Slots
  <2>2. QED
    BY <2>1 DEF Deliver
<1>6. /\ status' = [status EXCEPT ![o] = "DELIVERED"]
      /\ receivedAt' = [receivedAt EXCEPT ![o] = day]
      /\ UNCHANGED <<ordered, reverted, fifoUsed, lotUsed, sale, returned, manual>>
  BY DEF Deliver
<1>7. TypeOK'
  BY <1>1, <1>3, <1>4, <1>5, <1>6 DEF TypeOK
<1>8. BatchesOfDelivered'
  <2>1. ASSUME NEW k \in Slots
        PROVE  /\ batch'[k].received > 0 => status'[k[1]] = "DELIVERED"
               /\ batch'[k].remaining > 0 => batch'[k].received > 0
    <3>1. CASE k[1] = o /\ ordered[k] > 0
      <4>1. batch'[k] = [received |-> ordered[k], remaining |-> ordered[k],
                         landed |-> landed[k[2]]]
        BY <3>1 DEF Deliver
      <4>2. status'[k[1]] = "DELIVERED"
        BY <1>1, <1>6, <3>1 DEF TypeOK
      <4>3. QED
        BY <3>1, <4>1, <4>2
    <3>2. CASE ~(k[1] = o /\ ordered[k] > 0)
      <4>1. batch'[k] = batch[k]
        BY <3>2 DEF Deliver
      <4>2. status[k[1]] = "DELIVERED" => status'[k[1]] = "DELIVERED"
        BY <1>1, <1>2, <1>6 DEF TypeOK
      <4>3. QED
        BY <4>1, <4>2 DEF LedgerInv, BatchesOfDelivered
    <3>3. QED
      BY <3>1, <3>2
  <2>2. QED
    BY <2>1 DEF BatchesOfDelivered
<1>9. ASSUME NEW t \in Sales, NEW k \in Slots, fifoUsed[t][k] > 0
      PROVE  batch'[k].received > 0
  <2>1. batch[k].received > 0 /\ status[k[1]] = "DELIVERED"
    BY <1>9 DEF LedgerInv, CostHistoryKept
  <2>2. k[1] # o
    BY <2>1 DEF Deliver
  <2>3. QED
    BY <2>1, <2>2 DEF Deliver
<1>10. QED
  BY <1>6, <1>7, <1>8, <1>9, OrderStepInv

LEMMA RevertDeliveryInv ==
    ASSUME LedgerInv, NEW o \in Orders, RevertDelivery(o)
    PROVE  LedgerInv'
<1>1. TypeOK
  BY DEF LedgerInv
<1>2. batch' = [k \in Slots |-> IF k[1] = o THEN NoBatch ELSE batch[k]]
  BY DEF RevertDelivery
<1>3. NoBatch \in Batch /\ NoBatch.received = 0 /\ NoBatch.remaining = 0
  BY DEF NoBatch, Batch
<1>4. onHand' \in [Rows -> Nat \cup {None}]
  <2>1. ASSUME NEW r \in Rows
        PROVE  /\ onHand[r] \in Nat \cup {None}
               /\ batch[<<o, r>>].received \in Nat
               /\ batch[<<o, r>>].received > 0 =>
                     onHand[r] # None /\ onHand[r] >= batch[<<o, r>>].received
    BY <1>1 DEF TypeOK, Batch, Slots, RevertDelivery
  <2>2. ASSUME NEW r \in Rows
        PROVE  (IF batch[<<o, r>>].received = 0 THEN onHand[r]
                ELSE onHand[r] - batch[<<o, r>>].received) \in Nat \cup {None}
    BY <2>1
  <2>3. QED
    BY <2>2 DEF RevertDelivery
<1>5. /\ status' = [status EXCEPT ![o] = "CLEARED"]
      /\ receivedAt' = [receivedAt EXCEPT ![o] = 0]
      /\ units' = [k \in Slots |-> IF k[1] = o THEN None ELSE units[k]]
      /\ reverted' = reverted \cup {o}
      /\ UNCHANGED <<ordered, fifoUsed, lotUsed, sale, returned, manual>>
  BY DEF RevertDelivery
<1>6. TypeOK'
  BY <1>1, <1>2, <1>3, <1>4, <1>5 DEF TypeOK
<1>7. BatchesOfDelivered'
  <2>1. ASSUME NEW k \in Slots
        PROVE  /\ batch'[k].received > 0 => status'[k[1]] = "DELIVERED"
               /\ batch'[k].remaining > 0 => batch'[k].received > 0
    <3>1. CASE k[1] = o
      BY <1>2, <1>3, <3>1
    <3>2. CASE k[1] # o
      <4>1. batch'[k] = batch[k]
        BY <1>2, <3>2
      <4>2. status'[k[1]] = status[k[1]]
        BY <1>1, <1>5, <3>2 DEF TypeOK, Slots
      <4>3. QED
        BY <4>1, <4>2 DEF LedgerInv, BatchesOfDelivered
    <3>3. QED
      BY <3>1, <3>2
  <2>2. QED
    BY <2>1 DEF BatchesOfDelivered
<1>8. ASSUME NEW t \in Sales, NEW k \in Slots, fifoUsed[t][k] > 0
      PROVE  batch'[k].received > 0
  <2>1. batch[k].received > 0
    BY <1>8 DEF LedgerInv, CostHistoryKept
  <2>2. k[1] # o
    <3>1. k \in Lines(o) => fifoUsed[t][k] = 0
      BY <2>1 DEF RevertDelivery, Untouched
    <3>2. k[1] = o => k \in Lines(o)
      BY DEF Slots, Lines
    <3>3. QED
      BY <1>8, <3>1, <3>2
  <2>3. QED
    BY <1>2, <2>1, <2>2
<1>9. QED
  BY <1>5, <1>6, <1>7, <1>8, OrderStepInv

LEMMA ReplaceLinesInv ==
    ASSUME LedgerInv, NEW o \in Orders, NEW lines \in LineChoices,
           ReplaceLines(o, lines)
    PROVE  LedgerInv'
<1>1. TypeOK
  BY DEF LedgerInv
<1>2. lines \in [Rows -> Nat]
  OBVIOUS
<1>3. ordered' \in [Slots -> Nat]
  <2>1. ASSUME NEW k \in Slots
        PROVE  (IF k[1] = o THEN lines[k[2]] ELSE ordered[k]) \in Nat
    BY <1>1, <1>2 DEF TypeOK, Slots
  <2>2. QED
    BY <2>1 DEF ReplaceLines
<1>4. units' \in [Slots -> Nat \cup {None}]
  <2> DEFINE inherited == {units[k] : k \in Lines(o)} \ {None}
  <2>1. PICK kept \in IF inherited = {} THEN {None} ELSE inherited :
            units' = [k \in Slots |->
                          IF k[1] # o THEN units[k]
                          ELSE IF lines[k[2]] > 0 THEN kept ELSE None]
    BY DEF ReplaceLines
  <2>2. inherited \subseteq Nat
    BY <1>1 DEF TypeOK, Lines, Slots
  <2> HIDE DEF inherited
  <2>3. kept \in Nat \cup {None}
    BY <2>1, <2>2
  <2>4. QED
    BY <1>1, <2>1, <2>3 DEF TypeOK
<1>5. /\ lotUsed' \in [Sales -> [Slots -> Nat]]
      /\ \A t \in Sales, k \in Slots :
            lotUsed'[t][k] = lotUsed[t][k] \/ lotUsed'[t][k] = 0
  <2>1. lotUsed' = [s \in Sales |->
                      [k \in Slots |-> IF k[1] = o THEN 0 ELSE lotUsed[s][k]]]
    BY DEF ReplaceLines
  <2>2. QED
    BY <1>1, <2>1 DEF TypeOK
<1>6. UNCHANGED <<status, receivedAt, reverted, batch, fifoUsed, onHand, sale,
                  returned, manual>>
  BY DEF ReplaceLines
<1>7. TypeOK'
  BY <1>1, <1>3, <1>4, <1>5, <1>6 DEF TypeOK
<1>8. BatchesOfDelivered'
  BY <1>6 DEF LedgerInv, BatchesOfDelivered
<1>9. \A t \in Sales, k \in Slots : fifoUsed[t][k] > 0 => batch'[k].received > 0
  BY <1>6 DEF LedgerInv, CostHistoryKept
<1>10. QED
  BY <1>5, <1>6, <1>7, <1>8, <1>9, OrderStepInv

LEMMA PurchaseReturnInv ==
    ASSUME LedgerInv, NEW o \in Orders, NEW r \in Rows,
           NEW q \in 1..MaxReturned, PurchaseReturn(o, r, q)
    PROVE  LedgerInv'
<1>1. TypeOK
  BY DEF LedgerInv
<1>2. onHand' \in [Rows -> Nat \cup {None}]
  <2>1. AdjustStock(r, -q) /\ -q \in Int
    BY DEF PurchaseReturn
  <2>2. QED
    BY <1>1, <2>1, AdjustStockType
<1>3. returned' \in [Slots -> Nat]
  <2>1. returned' = [returned EXCEPT ![<<o, r>>] = @ + q]
    BY DEF PurchaseReturn
  <2>2. <<o, r>> \in Slots /\ q \in Nat /\ returned \in [Slots -> Nat]
    BY <1>1 DEF Slots, TypeOK
  <2>3. returned[<<o, r>>] + q \in Nat
    BY <2>2
  <2>4. QED
    BY <2>1, <2>2, <2>3
<1>4. UNCHANGED <<orderVars, bookVars, sale, manual>>
  BY DEF PurchaseReturn
<1>5. TypeOK'
  BY <1>1, <1>2, <1>3, <1>4 DEF TypeOK, orderVars, bookVars
<1>6. QED
  BY <1>4, <1>5, LedgerUntouched DEF orderVars, bookVars

LEMMA CorrectCostsInv ==
    ASSUME LedgerInv, NEW o \in Orders, NEW touched \in SUBSET Rows,
           NEW landed \in [touched -> Costs], CorrectCosts(o, touched, landed)
    PROVE  LedgerInv'
<1> DEFINE Touched(k) == k[1] = o /\ k[2] \in touched /\ batch[k].received > 0
           corrected == [k \in Slots |->
                           IF Touched(k) THEN landed[k[2]] ELSE batch[k].landed]
           resummed == SalesCostedFrom({k \in Slots : Touched(k)})
           Recosted(s) == Costed(sale[s], Cogs(fifoUsed[s], corrected))
           sales == [s \in Sales |->
                       IF s \in resummed THEN Recosted(s) ELSE sale[s]]
<1>1. TypeOK
  BY DEF LedgerInv
<1>2. /\ \A s \in resummed : sales[s].cogs \in Money /\ sales[s].profit \in Money
      /\ batch' = [k \in Slots |-> [batch[k] EXCEPT !.landed = corrected[k]]]
      /\ sale' = sales
      /\ UNCHANGED <<orderVars, units, fifoUsed, lotUsed, onHand, returned, manual>>
  BY DEF CorrectCosts
<1>3. ASSUME NEW k \in Slots
      PROVE  corrected[k] \in Nat /\ batch[k] \in Batch
  BY <1>1 DEF TypeOK, Batch, Slots
<1>4. resummed \subseteq Sales
  BY DEF SalesCostedFrom
<1>5. ASSUME NEW s \in Sales
      PROVE  /\ sales[s] \in Sale
             /\ sales[s].row = sale[s].row /\ sales[s].state = sale[s].state
  <2>1. sale[s] \in Sale
    BY <1>1 DEF TypeOK
  <2>2. CASE s \in resummed
    <3>1. sales[s] = Recosted(s)
      BY <2>2
    <3>2. Recosted(s).cogs \in Money /\ Recosted(s).profit \in Money
      BY <1>2, <2>2, <3>1
    <3> HIDE DEF sales, corrected, resummed
    <3>3. /\ Recosted(s) \in Sale
          /\ Recosted(s).state = sale[s].state /\ Recosted(s).row = sale[s].row
      BY <2>1, <3>2, CostedRecord
    <3>4. QED
      BY <3>1, <3>3
  <2>3. CASE s \notin resummed
    BY <2>1, <2>3
  <2>4. QED
    BY <2>2, <2>3
<1> HIDE DEF corrected, resummed, sales
<1>6. /\ batch' \in [Slots -> Batch]
      /\ \A k \in Slots : /\ batch'[k].received = batch[k].received
                           /\ batch'[k].remaining = batch[k].remaining
  <2>1. ASSUME NEW k \in Slots
        PROVE  /\ [batch[k] EXCEPT !.landed = corrected[k]] \in Batch
               /\ [batch[k] EXCEPT !.landed = corrected[k]].received
                    = batch[k].received
               /\ [batch[k] EXCEPT !.landed = corrected[k]].remaining
                    = batch[k].remaining
    BY <1>3 DEF Batch
  <2>2. QED
    BY <1>2, <2>1
<1>7. sale' \in [Sales -> Sale]
  <2>1. sales = [s \in Sales |-> sales[s]]
    BY DEF sales
  <2>2. QED
    BY <1>2, <1>5, <2>1
<1>8. TypeOK'
  BY <1>1, <1>2, <1>6, <1>7 DEF TypeOK, orderVars
<1>9. BatchesOfDelivered'
  BY <1>2, <1>6 DEF LedgerInv, BatchesOfDelivered, orderVars
<1>10. \A t \in Sales, k \in Slots : fifoUsed[t][k] > 0 => batch'[k].received > 0
  BY <1>6 DEF LedgerInv, CostHistoryKept
<1>11. \A t \in Sales : /\ sale'[t].row = sale[t].row
                        /\ sale'[t].state = sale[t].state
  BY <1>2, <1>5
<1>12. QED
  BY <1>2, <1>8, <1>9, <1>10, <1>11, OrderStepInv

LEMMA AdjustManuallyInv ==
    ASSUME LedgerInv, NEW change \in Adjustments, AdjustManually(change)
    PROVE  LedgerInv'
<1>1. TypeOK
  BY DEF LedgerInv
<1>2. change \in Int /\ Untagged \in Rows
  BY DEF Rows
<1>3. onHand' \in [Rows -> Nat \cup {None}]
  <2>1. AdjustStock(Untagged, change)
    BY DEF AdjustManually
  <2>2. QED
    BY <1>1, <1>2, <2>1, AdjustStockType
<1>4. /\ manual' = [manual EXCEPT ![Untagged] = @ + change]
      /\ UNCHANGED <<orderVars, bookVars, sale, returned>>
  BY DEF AdjustManually
<1>5. TypeOK'
  BY <1>1, <1>2, <1>3, <1>4 DEF TypeOK, orderVars, bookVars
<1>6. QED
  BY <1>4, <1>5, LedgerUntouched DEF orderVars, bookVars

------------------------------------------------------------------------------
LEMMA NextLedgerInv == LedgerInv /\ [Next]_vars => LedgerInv'
<1> SUFFICES ASSUME LedgerInv, [Next]_vars
             PROVE  LedgerInv'
  OBVIOUS
<1>1. CASE SaleStep
  <2>1. PICK s \in Sales :
          \/ \E r \in Rows, q \in Quantities, p \in Prices :
                \/ \E d \in Discounts : CreateSale(s, r, q, p, d)
                \/ InsertPosSale(s, r, q, p)
          \/ \E p \in Prices, d \in Discounts :
                \/ UpdateSaleTerms(s, p, d)
                \/ \E q \in Quantities : UpdateSaleQuantity(s, q, p, d)
          \/ VoidSale(s)
    BY <1>1 DEF SaleStep
  <2>2. QED
    BY <2>1, CreateSaleInv, InsertPosSaleInv, UpdateSaleTermsInv,
       UpdateSaleQuantityInv, VoidSaleInv
<1>2. CASE OrderStep
  <2>1. PICK o \in Orders :
          \/ \E day \in Days, landed \in [Rows -> Costs] : Deliver(o, day, landed)
          \/ RevertDelivery(o)
          \/ \E lines \in LineChoices : ReplaceLines(o, lines)
          \/ \E r \in Rows, q \in 1..MaxReturned : PurchaseReturn(o, r, q)
          \/ \E touched \in SUBSET Rows : \E landed \in [touched -> Costs] :
                CorrectCosts(o, touched, landed)
    BY <1>2 DEF OrderStep
  <2>2. QED
    BY <2>1, DeliverInv, RevertDeliveryInv, ReplaceLinesInv, PurchaseReturnInv,
       CorrectCostsInv
<1>3. CASE StockStep
  BY <1>3, AdjustManuallyInv DEF StockStep
<1>4. CASE UNCHANGED vars
  BY <1>4 DEF vars, orderVars, bookVars, LedgerInv, TypeOK, BatchesOfDelivered,
              LedgersOwnVariant, VoidedReleased, CostHistoryKept
<1>5. QED
  BY <1>1, <1>2, <1>3, <1>4 DEF Next

\* The ledgers stay sound in every reachable state: they are well typed, no row
\* of them crosses to a sibling variant, outlives its sale's void, or points at
\* a batch that a revert deleted.
THEOREM LedgerSafety == Spec => []LedgerInv
BY InitLedgerInv, NextLedgerInv, PTL DEF Spec

\* Every value the handlers write keeps its type; in particular no stock row,
\* batch or lot is ever negative.
THEOREM TypeCorrect == Spec => []TypeOK
<1>1. LedgerInv => TypeOK
  BY DEF LedgerInv
<1>2. QED
  BY <1>1, LedgerSafety, PTL

\* Neither FIFO costing nor lot depletion crosses from one variant to another.
THEOREM NoCrossVariantDraw == Spec => []LedgersOwnVariant
<1>1. LedgerInv => LedgersOwnVariant
  BY DEF LedgerInv
<1>2. QED
  BY <1>1, LedgerSafety, PTL

\* A voided sale leaves no ledger row behind.
THEOREM VoidReleases == Spec => []VoidedReleased
<1>1. LedgerInv => VoidedReleased
  BY DEF LedgerInv
<1>2. QED
  BY <1>1, LedgerSafety, PTL

\* A revert never deletes a batch that a sale was costed from.
THEOREM CostHistorySafe == Spec => []CostHistoryKept
<1>1. LedgerInv => CostHistoryKept
  BY DEF LedgerInv
<1>2. QED
  BY <1>1, LedgerSafety, PTL

------------------------------------------------------------------------------
(* The sums: stock, batches, lots and costs.                               *)

LEMMA FiniteRows == IsFiniteSet(Orders) /\ IsFiniteSet(Sales) /\ IsFiniteSet(Rows)
                    /\ IsFiniteSet(Slots)
<1>1. IsFiniteSet(Rows)
  BY FiniteAssumption, FS_AddElement DEF Rows
<1>2. QED
  BY <1>1, FiniteAssumption, FS_Product DEF Slots

\* What the ledger rows of every sale on one slot are.
Column(used, k) == [s \in Sales |-> used[s][k]]
\* NULL counts as no unit.
Held(n) == IF n = None THEN 0 ELSE n
\* What one sale takes off the shelf of a row, and what one order brings there.
SoldOf(record, r) ==
    IF record.state = "COMPLETED" /\ record.row = r THEN record.quantity ELSE 0
SoldFrom(sales, r) == [s \in Sales |-> SoldOf(sales[s], r)]
BroughtTo(batches, sent, r) ==
    [o \in Orders |-> batches[<<o, r>>].received - sent[<<o, r>>]]

LEMMA ColumnTypes ==
    ASSUME NEW used \in [Sales -> Taken], NEW k \in Slots
    PROVE  /\ Column(used, k) \in [Sales -> Nat]
           /\ Column(used, k) \in [Sales -> Int]
           /\ SumFunction(Column(used, k)) \in Nat
           /\ \A s \in Sales : /\ Column(used, k)[s] = used[s][k]
                               /\ used[s][k] \in Nat
                               /\ used[s][k] <= SumFunction(Column(used, k))
<1>1. \A s \in Sales : used[s][k] \in Nat
  BY DEF Taken
<1>2. Column(used, k) \in [Sales -> Nat] /\ \A s \in Sales : Column(used, k)[s] = used[s][k]
  BY <1>1 DEF Column
<1>3. Column(used, k) \in [Sales -> Int]
  BY <1>2
<1>4. /\ SumFunction(Column(used, k)) \in Nat
      /\ \A s \in Sales : Column(used, k)[s] <= SumFunction(Column(used, k))
  BY <1>2, FiniteRows, FunctionNat
<1>5. QED
  BY <1>1, <1>2, <1>3, <1>4

LEMMA ColumnChanged ==
    ASSUME NEW used \in [Sales -> Taken], NEW newer \in [Sales -> Taken],
           NEW s \in Sales, \A t \in Sales : t # s => newer[t] = used[t],
           NEW k \in Slots
    PROVE  SumFunction(Column(newer, k))
             = SumFunction(Column(used, k)) - used[s][k] + newer[s][k]
<1>1. \A t \in Sales : t # s => Column(newer, k)[t] = Column(used, k)[t]
  BY DEF Column
<1>2. /\ Column(newer, k) \in [Sales -> Int] /\ Column(used, k) \in [Sales -> Int]
      /\ Column(newer, k)[s] = newer[s][k] /\ Column(used, k)[s] = used[s][k]
  BY ColumnTypes
<1>3. QED
  BY <1>1, <1>2, FiniteRows, FunctionChanged

LEMMA ColumnZero ==
    ASSUME NEW used \in [Sales -> Taken], NEW k \in Slots,
           \A s \in Sales : used[s][k] = 0
    PROVE  SumFunction(Column(used, k)) = 0
<1>1. Column(used, k) \in [Sales -> Int] /\ \A s \in Sales : Column(used, k)[s] = 0
  BY ColumnTypes
<1>2. QED
  BY <1>1, FiniteRows, FunctionZero

LEMMA SoldTypes ==
    ASSUME NEW sales \in [Sales -> Sale], NEW r \in Rows
    PROVE  /\ SoldFrom(sales, r) \in [Sales -> Int]
           /\ \A s \in Sales : /\ SoldFrom(sales, r)[s] = SoldOf(sales[s], r)
                               /\ SoldOf(sales[s], r) \in Nat
           /\ SumFunction(SoldFrom(sales, r)) \in Int
<1>1. \A s \in Sales : SoldOf(sales[s], r) \in Nat
  BY DEF SoldOf, Sale
<1>2. /\ SoldFrom(sales, r) \in [Sales -> Int]
      /\ \A s \in Sales : SoldFrom(sales, r)[s] = SoldOf(sales[s], r)
  BY <1>1 DEF SoldFrom
<1>3. QED
  BY <1>1, <1>2, FiniteRows, FunctionInt

LEMMA SoldChanged ==
    ASSUME NEW sales \in [Sales -> Sale], NEW newer \in [Sales -> Sale],
           NEW s \in Sales, \A t \in Sales : t # s => newer[t] = sales[t],
           NEW r \in Rows
    PROVE  SumFunction(SoldFrom(newer, r))
             = SumFunction(SoldFrom(sales, r)) - SoldOf(sales[s], r) + SoldOf(newer[s], r)
<1>1. \A t \in Sales : t # s => SoldFrom(newer, r)[t] = SoldFrom(sales, r)[t]
  BY SoldTypes
<1>2. /\ SoldFrom(newer, r) \in [Sales -> Int] /\ SoldFrom(sales, r) \in [Sales -> Int]
      /\ SoldFrom(newer, r)[s] = SoldOf(newer[s], r)
      /\ SoldFrom(sales, r)[s] = SoldOf(sales[s], r)
  BY SoldTypes
<1>3. QED
  BY <1>1, <1>2, FiniteRows, FunctionChanged

LEMMA SoldSame ==
    ASSUME NEW sales \in [Sales -> Sale], NEW newer \in [Sales -> Sale], NEW r \in Rows,
           \A s \in Sales : SoldOf(newer[s], r) = SoldOf(sales[s], r)
    PROVE  SoldFrom(newer, r) = SoldFrom(sales, r)
BY DEF SoldFrom

LEMMA BroughtTypes ==
    ASSUME NEW batches \in [Slots -> Batch], NEW sent \in [Slots -> Nat], NEW r \in Rows
    PROVE  /\ BroughtTo(batches, sent, r) \in [Orders -> Int]
           /\ \A o \in Orders : /\ BroughtTo(batches, sent, r)[o]
                                      = batches[<<o, r>>].received - sent[<<o, r>>]
                                /\ batches[<<o, r>>].received \in Nat
                                /\ sent[<<o, r>>] \in Nat
           /\ SumFunction(BroughtTo(batches, sent, r)) \in Int
<1>1. \A o \in Orders : batches[<<o, r>>].received \in Nat /\ sent[<<o, r>>] \in Nat
  BY DEF Slots, Batch
<1>2. /\ BroughtTo(batches, sent, r) \in [Orders -> Int]
      /\ \A o \in Orders : BroughtTo(batches, sent, r)[o]
                             = batches[<<o, r>>].received - sent[<<o, r>>]
  BY <1>1 DEF BroughtTo
<1>3. QED
  BY <1>1, <1>2, FiniteRows, FunctionInt

LEMMA BroughtChanged ==
    ASSUME NEW batches \in [Slots -> Batch], NEW newer \in [Slots -> Batch],
           NEW sent \in [Slots -> Nat], NEW again \in [Slots -> Nat],
           NEW o \in Orders, NEW r \in Rows,
           \A p \in Orders : p # o =>
              /\ newer[<<p, r>>].received = batches[<<p, r>>].received
              /\ again[<<p, r>>] = sent[<<p, r>>]
    PROVE  SumFunction(BroughtTo(newer, again, r))
             = SumFunction(BroughtTo(batches, sent, r))
                 - (batches[<<o, r>>].received - sent[<<o, r>>])
                 + (newer[<<o, r>>].received - again[<<o, r>>])
<1> DEFINE f == BroughtTo(batches, sent, r)
           g == BroughtTo(newer, again, r)
<1>1. /\ f \in [Orders -> Int]
      /\ \A p \in Orders : f[p] = batches[<<p, r>>].received - sent[<<p, r>>]
  BY BroughtTypes
<1>2. /\ g \in [Orders -> Int]
      /\ \A p \in Orders : g[p] = newer[<<p, r>>].received - again[<<p, r>>]
  BY BroughtTypes
<1> HIDE DEF f, g
<1>3. \A p \in Orders : p # o => g[p] = f[p]
  BY <1>1, <1>2
<1>4. SumFunction(g) = SumFunction(f) - f[o] + g[o]
  <2>1. IsFiniteSet(Orders) /\ f \in [Orders -> Int] /\ g \in [Orders -> Int]
    BY <1>1, <1>2, FiniteRows
  <2> HIDE OrdersAssumption
  <2>2. QED
    BY <2>1, <1>3, FunctionChanged
<1>5. QED
  BY <1>1, <1>2, <1>4 DEF f, g

\* The conservation properties in these terms.
LEMMA StockIs ==
    /\ StockConserved <=>
         \A r \in Rows : Held(onHand[r])
                           = manual[r] + SumFunction(BroughtTo(batch, returned, r))
                                       - SumFunction(SoldFrom(sale, r))
    /\ StockConserved' <=>
         \A r \in Rows : Held(onHand'[r])
                           = manual'[r] + SumFunction(BroughtTo(batch', returned', r))
                                        - SumFunction(SoldFrom(sale', r))
BY DEF StockConserved, Held, BroughtTo, SoldFrom, SoldOf

LEMMA BatchIs ==
    /\ BatchConserved <=>
         \A k \in Slots : batch[k].remaining + SumFunction(Column(fifoUsed, k))
                            = batch[k].received
    /\ BatchConserved' <=>
         \A k \in Slots : batch'[k].remaining + SumFunction(Column(fifoUsed', k))
                            = batch'[k].received
BY DEF BatchConserved, Column

LEMMA LotIs ==
    /\ LotConserved <=>
         \A k \in Slots : k[1] \notin reverted =>
            SumFunction(Column(lotUsed, k)) + Held(units[k])
              = IF status[k[1]] = "DELIVERED" THEN ordered[k] ELSE 0
    /\ LotConserved' <=>
         \A k \in Slots : k[1] \notin reverted' =>
            SumFunction(Column(lotUsed', k)) + Held(units'[k])
              = IF status'[k[1]] = "DELIVERED" THEN ordered'[k] ELSE 0
BY DEF LotConserved, Column, Held

\* A draw takes no more than was asked for.
LEMMA DrawsWithin ==
    ASSUME NEW STATE held, held \in [Slots -> Nat], NEW STATE age,
           NEW STATE r, r \in Rows, NEW STATE quantity, quantity \in Nat,
           NEW take \in Draws(held, age, r, quantity)
    PROVE  SumFunction(take) <= quantity
<1> DEFINE eligible == {k \in VariantOrUntagged(r) : held[k] > 0}
           avail    == Restrict(held, eligible)
<1>1. PICK t \in Allocations(avail, age, quantity) :
          take = [k \in Slots |-> IF k \in eligible THEN t[k] ELSE 0]
  BY DEF Draws
<1>2. eligible \in SUBSET Slots
  BY DEF VariantOrUntagged, Slots, Rows
<1>3. DOMAIN avail = eligible /\ avail \in [eligible -> Nat]
  BY <1>2 DEF Restrict
<1>4. /\ t \in [eligible -> 0..quantity]
      /\ SumFunction(t) = LesserOf(quantity, SumFunction(avail))
  BY <1>1, <1>3 DEF Allocations
<1> HIDE DEF avail, eligible
<1>5. IsFiniteSet(Slots) /\ IsFiniteSet(eligible)
  BY <1>2, FiniteRows, FS_Subset
<1>6. SumFunction(avail) \in Nat
  BY <1>3, <1>5, FunctionNat
<1>7. SumFunction(t) <= quantity
  BY <1>4, <1>6 DEF LesserOf
<1>8. SumFunctionOnSet(take, Slots) = SumFunctionOnSet(take, eligible)
  <2>1. \A k \in Slots : take[k] \in Int
    BY <1>1, <1>4
  <2>2. \A k \in Slots \ eligible : take[k] = 0
    BY <1>1
  <2>3. QED
    BY <1>2, <1>5, <2>1, <2>2, SumWithin
<1>9. SumFunctionOnSet(take, eligible) = SumFunctionOnSet(t, eligible)
  <2>1. \A k \in eligible : take[k] = t[k]
    BY <1>1, <1>2
  <2>2. QED
    BY <1>5, <2>1, SumSame
<1>10. t \in [eligible -> Int] /\ take \in [Slots -> Int]
  BY <1>1, <1>4
<1>11. SumFunction(t) = SumFunctionOnSet(t, eligible) /\ SumFunction(take) = SumFunctionOnSet(take, Slots)
  BY <1>10, FunctionSum
<1>12. QED
  BY <1>7, <1>8, <1>9, <1>11

\* What a costing step leaves in the ledgers of its sale, in units and money.
LEMMA DepleteBooks ==
    ASSUME TypeOK, NEW s \in Sales, NEW STATE record, record \in Sale,
           NEW STATE remaining, remaining \in [Slots -> Nat],
           NEW STATE lots, lots \in [Slots -> Nat \cup {None}],
           Deplete(s, record, remaining, lots)
    PROVE  /\ \A k \in Slots :
                 /\ batch'[k].received = batch[k].received
                 /\ batch'[k].landed = batch[k].landed
                 /\ batch'[k].remaining = remaining[k] - fifoUsed'[s][k]
                 /\ Held(units'[k]) = Held(lots[k]) - lotUsed'[s][k]
           /\ SumFunction(fifoUsed'[s]) <= record.quantity
           /\ SumFunction(lotUsed'[s]) <= record.quantity
           /\ sale'[s] = Costed(record, Cogs(fifoUsed'[s], Landed))
           /\ Cogs(fifoUsed'[s], Landed) \in Money
<1> DEFINE held == [k \in Slots |-> IF lots[k] = None THEN 0 ELSE lots[k]]
<1>1. PICK take \in FifoDraws(remaining, record.row, record.quantity),
           taken \in LotDraws(lots, record.row, record.quantity) :
          /\ Costed(record, Cogs(take, Landed)).cogs \in Money
          /\ sale' = [sale EXCEPT ![s] = Costed(record, Cogs(take, Landed))]
          /\ batch' = BatchesLess(remaining, take)
          /\ fifoUsed' = [fifoUsed EXCEPT ![s] = take]
          /\ units' = LotsLess(lots, taken)
          /\ lotUsed' = [lotUsed EXCEPT ![s] = taken]
  BY DEF Deplete
<1>2. record.row \in Rows /\ record.quantity \in Nat
  BY DEF Sale
<1>3. take \in Taken /\ SumFunction(take) <= record.quantity
  BY <1>1, <1>2, DrawsBounded, DrawsWithin DEF FifoDraws
<1>4. held \in [Slots -> Nat] /\ \A k \in Slots : held[k] = Held(lots[k])
  BY DEF Held
<1>5. /\ taken \in Taken /\ SumFunction(taken) <= record.quantity
      /\ \A k \in Slots : taken[k] <= Held(lots[k])
  <2> HIDE DEF held
  <2>1. taken \in Draws(held, OrderDate, record.row, record.quantity)
    BY <1>1 DEF LotDraws, held
  <2>2. taken \in Taken /\ \A k \in Slots : taken[k] <= held[k]
    BY <2>1, <1>2, <1>4, DrawsBounded
  <2>3. SumFunction(taken) <= record.quantity
    BY <2>1, <1>2, <1>4, DrawsWithin
  <2>4. QED
    BY <1>4, <2>2, <2>3
<1>6. fifoUsed'[s] = take /\ lotUsed'[s] = taken
  BY <1>1 DEF TypeOK
<1>7. ASSUME NEW k \in Slots
      PROVE  /\ batch'[k].received = batch[k].received
             /\ batch'[k].landed = batch[k].landed
             /\ batch'[k].remaining = remaining[k] - take[k]
  <2>1. batch'[k] = [batch[k] EXCEPT !.remaining = remaining[k] - take[k]]
    BY <1>1 DEF BatchesLess
  <2>2. batch[k] \in Batch
    BY DEF TypeOK
  <2>3. QED
    BY <2>1, <2>2 DEF Batch
<1>8. ASSUME NEW k \in Slots PROVE Held(units'[k]) = Held(lots[k]) - taken[k]
  <2>1. units'[k] = IF taken[k] = 0 THEN lots[k] ELSE lots[k] - taken[k]
    BY <1>1 DEF LotsLess
  <2>2. taken[k] \in Nat /\ lots[k] \in Nat \cup {None} /\ taken[k] <= Held(lots[k])
    BY <1>5 DEF Taken
  <2>3. CASE taken[k] = 0
    BY <2>1, <2>2, <2>3 DEF Held
  <2>4. CASE taken[k] # 0
    <3>1. lots[k] # None /\ lots[k] \in Nat
      BY <2>2, <2>4 DEF Held
    <3>2. lots[k] - taken[k] \in Int
      BY <2>2, <3>1
    <3>3. lots[k] - taken[k] # None
      BY <3>2
    <3>4. QED
      BY <2>1, <2>4, <3>1, <3>3 DEF Held
  <2>5. QED
    BY <2>3, <2>4
<1>9. sale'[s] = Costed(record, Cogs(take, Landed))
  BY <1>1 DEF TypeOK
<1>10. Cogs(take, Landed) \in Money
  BY <1>1 DEF Costed, Sale
<1>11. QED
  BY <1>3, <1>5, <1>6, <1>7, <1>8, <1>9, <1>10

\* The cost of a sale's ledger rows only looks at the prices of its batches.
LEMMA CogsSame ==
    ASSUME NEW used \in Taken, NEW prices \in [Slots -> Nat], NEW newer \in [Slots -> Nat],
           \A k \in Slots : used[k] > 0 => newer[k] = prices[k]
    PROVE  Cogs(used, newer) = Cogs(used, prices)
<1>1. ASSUME NEW k \in Slots PROVE used[k] * newer[k] = used[k] * prices[k]
  <2>1. used[k] \in Nat /\ newer[k] \in Nat /\ prices[k] \in Nat
    BY DEF Taken
  <2>2. CASE used[k] = 0
    BY <2>1, <2>2
  <2>3. CASE used[k] > 0
    BY <2>3
  <2>4. QED
    BY <2>1, <2>2, <2>3
<1>2. [k \in Slots |-> used[k] * newer[k]] = [k \in Slots |-> used[k] * prices[k]]
  BY <1>1
<1>3. QED
  BY <1>2 DEF Cogs

LEMMA TypesAre ==
    ASSUME TypeOK
    PROVE  /\ sale \in [Sales -> Sale] /\ batch \in [Slots -> Batch]
           /\ fifoUsed \in [Sales -> Taken] /\ lotUsed \in [Sales -> Taken]
           /\ onHand \in [Rows -> Nat \cup {None}]
           /\ units \in [Slots -> Nat \cup {None}]
           /\ manual \in [Rows -> Int] /\ returned \in [Slots -> Nat]
           /\ \A r \in Rows : Held(onHand[r]) \in Nat /\ manual[r] \in Int
           /\ \A k \in Slots : Held(units[k]) \in Nat /\ batch[k].remaining \in Nat
                               /\ batch[k].received \in Nat /\ batch[k].landed \in Nat
BY DEF TypeOK, Taken, Held, Batch

\* What the columns of the present tables are.
LEMMA SumsAre ==
    ASSUME TypeOK
    PROVE  /\ \A k \in Slots : /\ SumFunction(Column(fifoUsed, k)) \in Nat
                               /\ SumFunction(Column(lotUsed, k)) \in Nat
           /\ \A t \in Sales, k \in Slots :
                 /\ fifoUsed[t][k] \in Nat /\ lotUsed[t][k] \in Nat
                 /\ fifoUsed[t][k] <= SumFunction(Column(fifoUsed, k))
                 /\ lotUsed[t][k] <= SumFunction(Column(lotUsed, k))
           /\ \A r \in Rows : /\ SumFunction(SoldFrom(sale, r)) \in Int
                              /\ SumFunction(BroughtTo(batch, returned, r)) \in Int
           /\ \A t \in Sales, r \in Rows : SoldOf(sale[t], r) \in Nat
<1>1. /\ sale \in [Sales -> Sale] /\ batch \in [Slots -> Batch]
      /\ fifoUsed \in [Sales -> Taken] /\ lotUsed \in [Sales -> Taken]
      /\ returned \in [Slots -> Nat]
  BY TypesAre
<1>2. ASSUME NEW k \in Slots
      PROVE  /\ SumFunction(Column(fifoUsed, k)) \in Nat
             /\ \A t \in Sales : /\ fifoUsed[t][k] \in Nat
                                 /\ fifoUsed[t][k] <= SumFunction(Column(fifoUsed, k))
  BY <1>1, ColumnTypes
<1>3. ASSUME NEW k \in Slots
      PROVE  /\ SumFunction(Column(lotUsed, k)) \in Nat
             /\ \A t \in Sales : /\ lotUsed[t][k] \in Nat
                                 /\ lotUsed[t][k] <= SumFunction(Column(lotUsed, k))
  BY <1>1, ColumnTypes
<1>4. ASSUME NEW r \in Rows
      PROVE  /\ SumFunction(SoldFrom(sale, r)) \in Int
             /\ \A t \in Sales : SoldOf(sale[t], r) \in Nat
  BY <1>1, SoldTypes
<1>5. ASSUME NEW r \in Rows PROVE SumFunction(BroughtTo(batch, returned, r)) \in Int
  BY <1>1, BroughtTypes
<1>6. QED
  BY <1>2, <1>3, <1>4, <1>5

\* What a step of one sale does to the columns.
LEMMA SumsOfStep ==
    ASSUME TypeOK, TypeOK', NEW s \in Sales,
           \A t \in Sales : t # s => /\ sale'[t] = sale[t]
                                     /\ fifoUsed'[t] = fifoUsed[t]
                                     /\ lotUsed'[t] = lotUsed[t]
    PROVE  /\ \A k \in Slots :
                /\ SumFunction(Column(fifoUsed', k))
                     = SumFunction(Column(fifoUsed, k)) - fifoUsed[s][k] + fifoUsed'[s][k]
                /\ SumFunction(Column(lotUsed', k))
                     = SumFunction(Column(lotUsed, k)) - lotUsed[s][k] + lotUsed'[s][k]
                /\ fifoUsed'[s][k] \in Nat /\ lotUsed'[s][k] \in Nat
           /\ \A r \in Rows :
                /\ SumFunction(SoldFrom(sale', r))
                     = SumFunction(SoldFrom(sale, r)) - SoldOf(sale[s], r) + SoldOf(sale'[s], r)
                /\ SoldOf(sale'[s], r) \in Nat
<1>1. /\ sale \in [Sales -> Sale] /\ sale' \in [Sales -> Sale]
      /\ fifoUsed \in [Sales -> Taken] /\ fifoUsed' \in [Sales -> Taken]
      /\ lotUsed \in [Sales -> Taken] /\ lotUsed' \in [Sales -> Taken]
  BY DEF TypeOK, Taken
<1>2. /\ \A t \in Sales : t # s => sale'[t] = sale[t]
      /\ \A t \in Sales : t # s => fifoUsed'[t] = fifoUsed[t]
      /\ \A t \in Sales : t # s => lotUsed'[t] = lotUsed[t]
  OBVIOUS
<1>3. ASSUME NEW k \in Slots
      PROVE  SumFunction(Column(fifoUsed', k))
               = SumFunction(Column(fifoUsed, k)) - fifoUsed[s][k] + fifoUsed'[s][k]
  BY <1>1, <1>2, ColumnChanged
<1>4. ASSUME NEW k \in Slots
      PROVE  SumFunction(Column(lotUsed', k))
               = SumFunction(Column(lotUsed, k)) - lotUsed[s][k] + lotUsed'[s][k]
  BY <1>1, <1>2, ColumnChanged
<1>5. ASSUME NEW r \in Rows
      PROVE  SumFunction(SoldFrom(sale', r))
               = SumFunction(SoldFrom(sale, r)) - SoldOf(sale[s], r) + SoldOf(sale'[s], r)
  BY <1>1, <1>2, SoldChanged
<1>6. ASSUME NEW k \in Slots PROVE fifoUsed'[s][k] \in Nat /\ lotUsed'[s][k] \in Nat
  BY <1>1 DEF Taken
<1>7. ASSUME NEW r \in Rows PROVE SoldOf(sale'[s], r) \in Nat
  BY <1>1 DEF SoldOf, Sale
<1>8. QED
  BY <1>3, <1>4, <1>5, <1>6, <1>7

------------------------------------------------------------------------------
\* A step of one sale keeps the books when it moves the stock row, the batches
\* and the lots by what it changes in the sale and in its ledger rows.
LEMMA SaleStepBooks ==
    ASSUME BooksInv, LedgerInv', NEW s \in Sales,
           UNCHANGED <<orderVars, returned>>,
           \A t \in Sales : t # s => /\ sale'[t] = sale[t]
                                     /\ fifoUsed'[t] = fifoUsed[t]
                                     /\ lotUsed'[t] = lotUsed[t],
           \A k \in Slots :
              /\ batch'[k].received = batch[k].received
              /\ batch'[k].landed = batch[k].landed
              /\ batch'[k].remaining
                   = batch[k].remaining + fifoUsed[s][k] - fifoUsed'[s][k]
              /\ Held(units'[k]) = Held(units[k]) + lotUsed[s][k] - lotUsed'[s][k],
           \A r \in Rows :
              Held(onHand'[r]) - manual'[r]
                = Held(onHand[r]) - manual[r]
                    + SoldOf(sale[s], r) - SoldOf(sale'[s], r),
           sale'[s].cogs = None =>
              \A k \in Slots : fifoUsed'[s][k] = 0 /\ lotUsed'[s][k] = 0,
           sale'[s].state = "COMPLETED" /\ sale'[s].cogs # None =>
              sale'[s].cogs = Cogs(fifoUsed'[s], Landed),
           SumFunction(fifoUsed'[s]) <= sale'[s].quantity,
           SumFunction(lotUsed'[s]) <= sale'[s].quantity
    PROVE  BooksInv'
<1>1. TypeOK /\ TypeOK'
  BY DEF BooksInv, LedgerInv
<1>2. /\ \A r \in Rows : Held(onHand[r]) \in Nat /\ manual[r] \in Int
      /\ \A r \in Rows : Held(onHand'[r]) \in Nat /\ manual'[r] \in Int
      /\ \A k \in Slots : Held(units[k]) \in Nat /\ batch[k].remaining \in Nat
  BY <1>1 DEF TypeOK, Held, Batch
<1>20. /\ \A k \in Slots :
            /\ SumFunction(Column(fifoUsed', k))
                 = SumFunction(Column(fifoUsed, k)) - fifoUsed[s][k] + fifoUsed'[s][k]
            /\ SumFunction(Column(lotUsed', k))
                 = SumFunction(Column(lotUsed, k)) - lotUsed[s][k] + lotUsed'[s][k]
            /\ fifoUsed'[s][k] \in Nat /\ lotUsed'[s][k] \in Nat
       /\ \A r \in Rows :
            /\ SumFunction(SoldFrom(sale', r))
                 = SumFunction(SoldFrom(sale, r)) - SoldOf(sale[s], r) + SoldOf(sale'[s], r)
            /\ SoldOf(sale'[s], r) \in Nat
  BY <1>1, SumsOfStep
<1>3. StockConserved'
  <2>1. ASSUME NEW r \in Rows
        PROVE  Held(onHand'[r]) = manual'[r] + SumFunction(BroughtTo(batch', returned', r))
                                    - SumFunction(SoldFrom(sale', r))
    <3>1. Held(onHand[r]) = manual[r] + SumFunction(BroughtTo(batch, returned, r))
                              - SumFunction(SoldFrom(sale, r))
      BY StockIs DEF BooksInv
    <3>2. BroughtTo(batch', returned', r) = BroughtTo(batch, returned, r)
      <4>1. \A o \in Orders : batch'[<<o, r>>].received = batch[<<o, r>>].received
        BY DEF Slots
      <4>2. QED
        BY <4>1 DEF BroughtTo
    <3>3. SumFunction(SoldFrom(sale', r))
            = SumFunction(SoldFrom(sale, r)) - SoldOf(sale[s], r) + SoldOf(sale'[s], r)
      BY <1>20
    <3>4. /\ SumFunction(SoldFrom(sale, r)) \in Int
          /\ SoldOf(sale[s], r) \in Int /\ SoldOf(sale'[s], r) \in Int
      BY <1>1, <1>20, SumsAre
    <3>5. SumFunction(BroughtTo(batch, returned, r)) \in Int
      BY <1>1, SumsAre
    <3>6. /\ Held(onHand[r]) \in Int /\ Held(onHand'[r]) \in Int
          /\ manual[r] \in Int /\ manual'[r] \in Int
      BY <1>2
    <3>7. Held(onHand'[r]) - manual'[r]
            = Held(onHand[r]) - manual[r] + SoldOf(sale[s], r) - SoldOf(sale'[s], r)
      OBVIOUS
    <3> DEFINE a == Held(onHand[r])
               b == Held(onHand'[r])
               brought == SumFunction(BroughtTo(batch, returned, r))
               sold == SumFunction(SoldFrom(sale, r))
    <3> HIDE DEF a, b, brought, sold
    <3>8. b = manual'[r] + brought - (sold - SoldOf(sale[s], r) + SoldOf(sale'[s], r))
      BY <3>1, <3>4, <3>5, <3>6, <3>7 DEF a, b, brought, sold
    <3>9. QED
      BY <3>2, <3>3, <3>8 DEF b, brought, sold
  <2>2. QED
    BY <2>1, StockIs
<1>4. BatchConserved'
  <2>1. ASSUME NEW k \in Slots
        PROVE  batch'[k].remaining + SumFunction(Column(fifoUsed', k)) = batch'[k].received
    <3>1. batch[k].remaining + SumFunction(Column(fifoUsed, k)) = batch[k].received
      BY BatchIs DEF BooksInv
    <3>2. SumFunction(Column(fifoUsed', k))
            = SumFunction(Column(fifoUsed, k)) - fifoUsed[s][k] + fifoUsed'[s][k]
      BY <1>20
    <3>3. /\ SumFunction(Column(fifoUsed, k)) \in Nat /\ fifoUsed[s][k] \in Nat
          /\ fifoUsed'[s][k] \in Nat /\ batch[k].remaining \in Nat
      BY <1>1, <1>2, <1>20, SumsAre
    <3>4. QED
      BY <3>1, <3>2, <3>3
  <2>2. QED
    BY <2>1, BatchIs
<1>5. LotConserved'
  <2>1. ASSUME NEW k \in Slots, k[1] \notin reverted'
        PROVE  SumFunction(Column(lotUsed', k)) + Held(units'[k])
                 = IF status'[k[1]] = "DELIVERED" THEN ordered'[k] ELSE 0
    <3>1. SumFunction(Column(lotUsed, k)) + Held(units[k])
            = IF status[k[1]] = "DELIVERED" THEN ordered[k] ELSE 0
      BY <2>1, LotIs DEF BooksInv, orderVars
    <3>2. SumFunction(Column(lotUsed', k))
            = SumFunction(Column(lotUsed, k)) - lotUsed[s][k] + lotUsed'[s][k]
      BY <1>20
    <3>3. /\ SumFunction(Column(lotUsed, k)) \in Nat /\ lotUsed[s][k] \in Nat
          /\ lotUsed'[s][k] \in Nat /\ Held(units[k]) \in Nat
      BY <1>1, <1>2, <1>20, SumsAre
    <3>4. Held(units'[k]) = Held(units[k]) + lotUsed[s][k] - lotUsed'[s][k]
      OBVIOUS
    <3>5. SumFunction(Column(lotUsed', k)) + Held(units'[k])
            = SumFunction(Column(lotUsed, k)) + Held(units[k])
      BY <3>2, <3>3, <3>4
    <3>6. QED
      BY <3>1, <3>5 DEF orderVars
  <2>2. QED
    BY <2>1, LotIs
<1>6. CogsMatchesLedger'
  <2>1. Landed' = Landed
    BY DEF Landed
  <2>2. ASSUME NEW t \in Sales, sale'[t].state = "COMPLETED", sale'[t].cogs # None
        PROVE  sale'[t].cogs = Cogs(fifoUsed'[t], Landed)
    <3>1. CASE t = s
      BY <2>2, <3>1
    <3>2. CASE t # s
      BY <2>2, <3>2 DEF BooksInv, CogsMatchesLedger
    <3>3. QED
      BY <3>1, <3>2
  <2>3. QED
    BY <2>1, <2>2 DEF CogsMatchesLedger
<1>7. UncostedBare' /\ LedgersWithinSale'
  <2>1. ASSUME NEW t \in Sales
        PROVE  /\ sale'[t].cogs = None =>
                    \A k \in Slots : fifoUsed'[t][k] = 0 /\ lotUsed'[t][k] = 0
               /\ SumFunction(fifoUsed'[t]) <= sale'[t].quantity
               /\ SumFunction(lotUsed'[t]) <= sale'[t].quantity
    <3>1. CASE t = s
      BY <3>1
    <3>2. CASE t # s
      BY <3>2 DEF BooksInv, UncostedBare, LedgersWithinSale
    <3>3. QED
      BY <3>1, <3>2
  <2>2. QED
    BY <2>1 DEF UncostedBare, LedgersWithinSale
<1>8. QED
  BY <1>3, <1>4, <1>5, <1>6, <1>7 DEF BooksInv

\* What an adjustment of one row leaves on every row.
LEMMA AdjustHeld ==
    ASSUME TypeOK, NEW STATE r, r \in Rows, NEW STATE change, change \in Int,
           AdjustStock(r, change)
    PROVE  \A x \in Rows : Held(onHand'[x])
                             = Held(onHand[x]) + (IF x = r THEN change ELSE 0)
<1> SUFFICES ASSUME NEW x \in Rows
             PROVE  Held(onHand'[x]) = Held(onHand[x]) + (IF x = r THEN change ELSE 0)
  OBVIOUS
<1>1. /\ onHand' = [onHand EXCEPT ![r] = @ + change]
      /\ onHand[r] # None
      /\ onHand \in [Rows -> Nat \cup {None}]
  BY DEF AdjustStock, TypeOK
<1>2. CASE x = r
  <2>1. onHand[r] \in Nat /\ onHand[r] + change \in Int
    BY <1>1
  <2>2. onHand'[x] = onHand[r] + change /\ onHand'[x] # None
    BY <1>1, <1>2, <2>1
  <2>3. QED
    BY <1>1, <1>2, <2>2 DEF Held
<1>3. CASE x # r
  <2>1. onHand'[x] = onHand[x] /\ Held(onHand[x]) \in Int
    BY <1>1, <1>3 DEF Held
  <2>2. QED
    BY <1>3, <2>1
<1>4. QED
  BY <1>2, <1>3

LEMMA CostedIs ==
    ASSUME NEW STATE record, record \in Sale, NEW STATE cogs
    PROVE  /\ Costed(record, cogs).state = record.state
           /\ Costed(record, cogs).row = record.row
           /\ Costed(record, cogs).quantity = record.quantity
           /\ Costed(record, cogs).cogs = cogs
BY DEF Costed, Sale

\* What reverse_ledger_consumption() credits back.
LEMMA CreditIs ==
    ASSUME LedgerInv, NEW s \in Sales, NEW k \in Slots
    PROVE  /\ FifoCredited(s)[k] = batch[k].remaining + fifoUsed[s][k]
           /\ Held(LotsCredited(s)[k]) = Held(units[k]) + lotUsed[s][k]
<1>1. /\ batch[k] \in Batch /\ units[k] \in Nat \cup {None}
      /\ fifoUsed[s][k] \in Nat /\ lotUsed[s][k] \in Nat
  BY DEF LedgerInv, TypeOK
<1>2. batch[k].received = 0 => fifoUsed[s][k] = 0
  BY <1>1 DEF LedgerInv, CostHistoryKept, Batch
<1>3. FifoCredited(s)[k] = batch[k].remaining + fifoUsed[s][k]
  BY <1>1, <1>2 DEF FifoCredited, Batch
<1>4. Held(LotsCredited(s)[k]) = Held(units[k]) + lotUsed[s][k]
  <2>1. CASE lotUsed[s][k] = 0
    BY <1>1, <2>1 DEF LotsCredited, Held
  <2>2. CASE lotUsed[s][k] # 0
    <3>1. LotsCredited(s)[k] = Held(units[k]) + lotUsed[s][k]
      BY <2>2 DEF LotsCredited, Held
    <3>2. Held(units[k]) + lotUsed[s][k] \in Int
      BY <1>1 DEF Held
    <3>3. QED
      BY <3>1, <3>2 DEF Held
  <2>3. QED
    BY <2>1, <2>2
<1>5. QED
  BY <1>3, <1>4

\* An empty ledger sums to nothing.
LEMMA EmptySum ==
    ASSUME NEW used \in Taken, \A k \in Slots : used[k] = 0
    PROVE  SumFunction(used) = 0
<1>1. used \in [Slots -> Int]
  BY DEF Taken
<1>2. QED
  BY <1>1, FiniteRows, FunctionZero

\* Costing a sale keeps the books when what it starts from is what is held and
\* what its own ledger rows give back.
LEMMA DepleteKeepsBooks ==
    ASSUME BooksInv, LedgerInv', NEW s \in Sales, NEW STATE record, record \in Sale,
           NEW STATE remaining, remaining \in [Slots -> Nat],
           NEW STATE lots, lots \in [Slots -> Nat \cup {None}],
           \A k \in Slots : /\ remaining[k] = batch[k].remaining + fifoUsed[s][k]
                            /\ Held(lots[k]) = Held(units[k]) + lotUsed[s][k],
           record.state = "COMPLETED",
           Deplete(s, record, remaining, lots),
           \A x \in Rows : Held(onHand'[x])
                             = Held(onHand[x]) + SoldOf(sale[s], x) - SoldOf(record, x),
           UNCHANGED <<orderVars, returned, manual>>
    PROVE  BooksInv'
<1>1. TypeOK
  BY DEF BooksInv, LedgerInv
<1>2. /\ \A k \in Slots :
            /\ batch'[k].received = batch[k].received
            /\ batch'[k].landed = batch[k].landed
            /\ batch'[k].remaining = remaining[k] - fifoUsed'[s][k]
            /\ Held(units'[k]) = Held(lots[k]) - lotUsed'[s][k]
      /\ SumFunction(fifoUsed'[s]) <= record.quantity
      /\ SumFunction(lotUsed'[s]) <= record.quantity
      /\ sale'[s] = Costed(record, Cogs(fifoUsed'[s], Landed))
      /\ Cogs(fifoUsed'[s], Landed) \in Money
  BY <1>1, DepleteBooks
<1>3. \A t \in Sales : t # s => /\ sale'[t] = sale[t]
                                /\ fifoUsed'[t] = fifoUsed[t]
                                /\ lotUsed'[t] = lotUsed[t]
  <2>1. \A t \in Sales : t # s => sale'[t] = sale[t]
    BY <1>1, DepleteStep
  <2>2. \A t \in Sales : t # s => /\ fifoUsed'[t] = fifoUsed[t]
                                  /\ lotUsed'[t] = lotUsed[t]
    BY <1>1, DepleteStep
  <2>3. QED
    BY <2>1, <2>2
<1>4. /\ sale'[s].state = "COMPLETED" /\ sale'[s].row = record.row
      /\ sale'[s].quantity = record.quantity
      /\ sale'[s].cogs = Cogs(fifoUsed'[s], Landed)
      /\ sale'[s].cogs # None
  <2> DEFINE cost == Cogs(fifoUsed'[s], Landed)
  <2>1. sale'[s] = Costed(record, cost) /\ cost \in Money
    BY <1>2
  <2> HIDE DEF cost
  <2>2. cost # None
    BY <2>1 DEF Money
  <2>3. QED
    BY <2>1, <2>2, CostedIs DEF cost
<1>5. ASSUME NEW k \in Slots
      PROVE  /\ batch'[k].remaining
                  = batch[k].remaining + fifoUsed[s][k] - fifoUsed'[s][k]
             /\ Held(units'[k]) = Held(units[k]) + lotUsed[s][k] - lotUsed'[s][k]
  <2>1. /\ remaining[k] = batch[k].remaining + fifoUsed[s][k]
        /\ Held(lots[k]) = Held(units[k]) + lotUsed[s][k]
    OBVIOUS
  <2>2. /\ batch'[k].remaining = remaining[k] - fifoUsed'[s][k]
        /\ Held(units'[k]) = Held(lots[k]) - lotUsed'[s][k]
    BY <1>2
  <2>3. /\ batch[k].remaining \in Nat /\ fifoUsed[s][k] \in Nat /\ lotUsed[s][k] \in Nat
        /\ Held(units[k]) \in Nat /\ fifoUsed'[s][k] \in Nat /\ lotUsed'[s][k] \in Nat
    <3>1. /\ batch[k].remaining \in Nat /\ fifoUsed[s][k] \in Nat /\ lotUsed[s][k] \in Nat
          /\ Held(units[k]) \in Nat
      BY <1>1, TypesAre, SumsAre
    <3>2. fifoUsed'[s][k] \in Nat /\ lotUsed'[s][k] \in Nat
      BY DEF BooksInv, LedgerInv, TypeOK
    <3>3. QED
      BY <3>1, <3>2
  <2>4. QED
    BY <2>1, <2>2, <2>3
<1>6. ASSUME NEW x \in Rows
      PROVE  Held(onHand'[x]) - manual'[x]
               = Held(onHand[x]) - manual[x] + SoldOf(sale[s], x) - SoldOf(sale'[s], x)
  <2>1. SoldOf(sale'[s], x) = SoldOf(record, x)
    BY <1>4 DEF SoldOf
  <2>2. /\ Held(onHand[x]) \in Int /\ manual[x] \in Int
        /\ SoldOf(sale[s], x) \in Int
    BY <1>1, TypesAre, SumsAre
  <2>3. SoldOf(record, x) \in Int
    BY DEF SoldOf, Sale
  <2>4. /\ Held(onHand'[x]) = Held(onHand[x]) + SoldOf(sale[s], x) - SoldOf(record, x)
        /\ manual' = manual
    OBVIOUS
  <2>5. QED
    BY <2>1, <2>2, <2>3, <2>4
<1>7. QED
  BY <1>2, <1>3, <1>4, <1>5, <1>6, SaleStepBooks

LEMMA CreateSaleBooks ==
    ASSUME BooksInv, LedgerInv', NEW s \in Sales, NEW r \in Rows, NEW q \in Quantities,
           NEW p \in Prices, NEW d \in Discounts, CreateSale(s, r, q, p, d)
    PROVE  BooksInv'
<1> DEFINE record == [state |-> "COMPLETED", row |-> r, quantity |-> q,
                      price |-> p, discount |-> d,
                      cogs |-> None, profit |-> None]
<1>1. /\ record \in Sale /\ record.state = "COMPLETED"
      /\ \A x \in Rows : SoldOf(record, x) = IF x = r THEN q ELSE 0
  BY DEF Sale, SoldOf
<1>2. TypeOK
  BY DEF BooksInv, LedgerInv
<1>3. Remaining \in [Slots -> Nat] /\ units \in [Slots -> Nat \cup {None}]
  BY <1>2 DEF TypeOK, Remaining, Batch
<1>4. q \in Int /\ -q \in Int
  <2>1. q \in Nat
    OBVIOUS
  <2>2. QED
    BY <2>1
<1>5. \A x \in Rows : Held(onHand'[x]) = Held(onHand[x]) + (IF x = r THEN -q ELSE 0)
  BY <1>2, <1>4, AdjustHeld DEF CreateSale
<1>6. /\ Deplete(s, record, Remaining, units)
      /\ UNCHANGED <<orderVars, returned, manual>>
      /\ sale[s].state = "NEW"
  BY DEF CreateSale
<1>7. ASSUME NEW x \in Rows
      PROVE  Held(onHand'[x]) = Held(onHand[x]) + SoldOf(sale[s], x) - SoldOf(record, x)
  <2>1. SoldOf(sale[s], x) = 0
    BY <1>6 DEF SoldOf
  <2>2. Held(onHand[x]) \in Int
    BY <1>2, TypesAre
  <2>3. QED
    BY <1>1, <1>4, <1>5, <2>1, <2>2
<1>8. ASSUME NEW k \in Slots
      PROVE  /\ Remaining[k] = batch[k].remaining + fifoUsed[s][k]
             /\ Held(units[k]) = Held(units[k]) + lotUsed[s][k]
  <2>1. fifoUsed[s][k] = 0 /\ lotUsed[s][k] = 0
    BY <1>6 DEF BooksInv, LedgerInv, VoidedReleased
  <2>2. batch[k].remaining \in Nat /\ Held(units[k]) \in Nat /\ Remaining[k] = batch[k].remaining
    BY <1>2, TypesAre DEF Remaining
  <2>3. QED
    BY <2>1, <2>2
<1> HIDE DEF record
<1>9. QED
  BY <1>1, <1>3, <1>6, <1>7, <1>8, DepleteKeepsBooks

\* Steps of one sale that leave its ledger rows and the goods alone.
LEMMA SaleAloneBooks ==
    ASSUME BooksInv, LedgerInv', NEW s \in Sales,
           UNCHANGED <<orderVars, bookVars, returned>>,
           \A t \in Sales : t # s => sale'[t] = sale[t],
           \A r \in Rows :
              Held(onHand'[r]) - manual'[r]
                = Held(onHand[r]) - manual[r]
                    + SoldOf(sale[s], r) - SoldOf(sale'[s], r),
           \/ /\ \A k \in Slots : fifoUsed[s][k] = 0 /\ lotUsed[s][k] = 0
              /\ sale'[s].cogs = None
           \/ /\ sale'[s].cogs = sale[s].cogs
              /\ sale'[s].state = sale[s].state
              /\ sale'[s].quantity = sale[s].quantity
    PROVE  BooksInv'
<1>1. TypeOK /\ TypeOK'
  BY DEF BooksInv, LedgerInv
<1>2. UNCHANGED <<orderVars, returned>> /\ UNCHANGED <<batch, units, fifoUsed, lotUsed>>
  BY DEF bookVars
<1>3. \A t \in Sales : t # s => /\ sale'[t] = sale[t]
                                /\ fifoUsed'[t] = fifoUsed[t]
                                /\ lotUsed'[t] = lotUsed[t]
  BY <1>2
<1>4. ASSUME NEW k \in Slots
      PROVE  /\ batch'[k].received = batch[k].received
             /\ batch'[k].landed = batch[k].landed
             /\ batch'[k].remaining
                  = batch[k].remaining + fifoUsed[s][k] - fifoUsed'[s][k]
             /\ Held(units'[k]) = Held(units[k]) + lotUsed[s][k] - lotUsed'[s][k]
  <2>1. /\ fifoUsed[s][k] \in Nat /\ lotUsed[s][k] \in Nat
        /\ batch[k].remaining \in Nat /\ Held(units[k]) \in Nat
    BY <1>1, TypesAre, SumsAre
  <2>2. QED
    BY <1>2, <2>1
<1>5. CASE /\ \A k \in Slots : fifoUsed[s][k] = 0 /\ lotUsed[s][k] = 0
           /\ sale'[s].cogs = None
  <2>1. SumFunction(fifoUsed'[s]) = 0 /\ SumFunction(lotUsed'[s]) = 0
    <3>1. fifoUsed[s] \in Taken /\ lotUsed[s] \in Taken
      BY <1>1 DEF TypeOK, Taken
    <3>2. QED
      BY <1>2, <1>5, <3>1, EmptySum
  <2>2. sale'[s].quantity \in Nat
    BY <1>1 DEF TypeOK, Sale
  <2>3. SumFunction(fifoUsed'[s]) <= sale'[s].quantity /\ SumFunction(lotUsed'[s]) <= sale'[s].quantity
    BY <2>1, <2>2
  <2>4. \A k \in Slots : fifoUsed'[s][k] = 0 /\ lotUsed'[s][k] = 0
    BY <1>2, <1>5
  <2>5. sale'[s].cogs = None
    BY <1>5
  <2>6. QED
    BY <1>2, <1>3, <1>4, <2>3, <2>4, <2>5, SaleStepBooks
<1>6. CASE /\ sale'[s].cogs = sale[s].cogs
           /\ sale'[s].state = sale[s].state
           /\ sale'[s].quantity = sale[s].quantity
  <2>1. /\ SumFunction(fifoUsed'[s]) <= sale'[s].quantity
        /\ SumFunction(lotUsed'[s]) <= sale'[s].quantity
    BY <1>2, <1>6 DEF BooksInv, LedgersWithinSale
  <2>2. sale'[s].cogs = None =>
           \A k \in Slots : fifoUsed'[s][k] = 0 /\ lotUsed'[s][k] = 0
    BY <1>2, <1>6 DEF BooksInv, UncostedBare
  <2>3. sale'[s].state = "COMPLETED" /\ sale'[s].cogs # None =>
           sale'[s].cogs = Cogs(fifoUsed'[s], Landed)
    BY <1>2, <1>6 DEF BooksInv, CogsMatchesLedger
  <2>4. QED
    BY <1>2, <1>3, <1>4, <2>1, <2>2, <2>3, SaleStepBooks
<1>7. QED
  BY <1>5, <1>6

LEMMA InsertPosSaleBooks ==
    ASSUME BooksInv, LedgerInv', NEW s \in Sales, NEW r \in Rows, NEW q \in Quantities,
           NEW p \in Prices, InsertPosSale(s, r, q, p)
    PROVE  BooksInv'
<1> DEFINE record == [state |-> "COMPLETED", row |-> r, quantity |-> q,
                      price |-> p, discount |-> 0,
                      cogs |-> None, profit |-> None]
<1>1. /\ record.cogs = None
      /\ \A x \in Rows : SoldOf(record, x) = IF x = r THEN q ELSE 0
  BY DEF SoldOf
<1>2. /\ sale' = [sale EXCEPT ![s] = record]
      /\ manual' = [manual EXCEPT ![r] = @ + q]
      /\ UNCHANGED <<orderVars, bookVars, onHand, returned>>
      /\ sale[s].state = "NEW"
  BY DEF InsertPosSale
<1> HIDE DEF record
<1>3. TypeOK
  BY DEF BooksInv, LedgerInv
<1>4. sale'[s] = record /\ \A t \in Sales : t # s => sale'[t] = sale[t]
  BY <1>2, <1>3 DEF TypeOK
<1>5. ASSUME NEW x \in Rows
      PROVE  Held(onHand'[x]) - manual'[x]
               = Held(onHand[x]) - manual[x] + SoldOf(sale[s], x) - SoldOf(sale'[s], x)
  <2>1. /\ SoldOf(sale[s], x) = 0 /\ SoldOf(sale'[s], x) = IF x = r THEN q ELSE 0
    BY <1>1, <1>2, <1>4 DEF SoldOf
  <2>2. Held(onHand[x]) \in Int /\ manual[x] \in Int /\ q \in Int
    <3>1. q \in Nat
      OBVIOUS
    <3>2. QED
      BY <1>3, <3>1, TypesAre
  <2>3. onHand' = onHand /\ manual'[x] = IF x = r THEN manual[x] + q ELSE manual[x]
    BY <1>2, <1>3 DEF TypeOK
  <2>4. QED
    BY <2>1, <2>2, <2>3
<1>6. \A k \in Slots : fifoUsed[s][k] = 0 /\ lotUsed[s][k] = 0
  BY <1>2 DEF BooksInv, LedgerInv, VoidedReleased
<1>7. UNCHANGED <<orderVars, bookVars, returned>> /\ sale'[s].cogs = None
  BY <1>1, <1>2, <1>4
<1>8. QED
  BY <1>4, <1>5, <1>6, <1>7, SaleAloneBooks

LEMMA UpdateSaleTermsBooks ==
    ASSUME BooksInv, LedgerInv', NEW s \in Sales, NEW p \in Prices, NEW d \in Discounts,
           UpdateSaleTerms(s, p, d)
    PROVE  BooksInv'
<1>1. TypeOK
  BY DEF BooksInv, LedgerInv
<1>2. /\ sale' = [sale EXCEPT ![s].price = p, ![s].discount = d]
      /\ UNCHANGED <<orderVars, bookVars, onHand, returned, manual>>
  BY DEF UpdateSaleTerms
<1>3. /\ \A t \in Sales : t # s => sale'[t] = sale[t]
      /\ sale'[s].row = sale[s].row /\ sale'[s].state = sale[s].state
      /\ sale'[s].quantity = sale[s].quantity /\ sale'[s].cogs = sale[s].cogs
  <2>1. sale \in [Sales -> Sale]
    BY <1>1 DEF TypeOK
  <2>2. sale' = [sale EXCEPT ![s] =
                    [sale[s] EXCEPT !.price = p, !.discount = d]]
    BY <1>2, <2>1 DEF Sale
  <2>3. QED
    BY <2>1, <2>2 DEF Sale
<1>4. ASSUME NEW x \in Rows
      PROVE  Held(onHand'[x]) - manual'[x]
               = Held(onHand[x]) - manual[x] + SoldOf(sale[s], x) - SoldOf(sale'[s], x)
  <2>1. SoldOf(sale'[s], x) = SoldOf(sale[s], x)
    BY <1>3 DEF SoldOf
  <2>2. Held(onHand[x]) \in Int /\ manual[x] \in Int /\ SoldOf(sale[s], x) \in Int
    BY <1>1, TypesAre, SumsAre
  <2>3. QED
    BY <1>2, <2>1, <2>2
<1>5. QED
  BY <1>2, <1>3, <1>4, SaleAloneBooks

LEMMA UpdateSaleQuantityBooks ==
    ASSUME BooksInv, LedgerInv', NEW s \in Sales, NEW q \in Quantities, NEW p \in Prices,
           NEW d \in Discounts, UpdateSaleQuantity(s, q, p, d)
    PROVE  BooksInv'
<1> DEFINE updated == [sale[s] EXCEPT !.quantity = q, !.price = p,
                                      !.discount = d]
<1>1. TypeOK /\ LedgerInv
  BY DEF BooksInv, LedgerInv
<1>2. sale[s] \in Sale /\ sale[s].state = "COMPLETED"
  BY <1>1 DEF TypeOK, UpdateSaleQuantity
<1>3. /\ updated \in Sale
      /\ updated.state = "COMPLETED" /\ updated.row = sale[s].row
      /\ updated.quantity = q /\ updated.cogs = sale[s].cogs
  BY <1>2 DEF Sale
<1>4. UNCHANGED <<orderVars, returned, manual>>
  BY DEF UpdateSaleQuantity
<1>5. /\ sale[s].row \in Rows /\ q \in Nat /\ sale[s].quantity \in Nat
      /\ AdjustStock(sale[s].row, sale[s].quantity - q)
  BY <1>2 DEF UpdateSaleQuantity, Sale
<1> HIDE DEF updated
<1>6. ASSUME NEW x \in Rows
      PROVE  Held(onHand'[x]) = Held(onHand[x]) + SoldOf(sale[s], x) - SoldOf(updated, x)
  <2>1. sale[s].quantity - q \in Int
    BY <1>5
  <2>2. Held(onHand'[x])
          = Held(onHand[x]) + (IF x = sale[s].row THEN sale[s].quantity - q ELSE 0)
    BY <1>1, <1>5, <2>1, AdjustHeld
  <2>3. /\ SoldOf(sale[s], x) = IF x = sale[s].row THEN sale[s].quantity ELSE 0
        /\ SoldOf(updated, x) = IF x = sale[s].row THEN q ELSE 0
    BY <1>2, <1>3 DEF SoldOf
  <2>4. Held(onHand[x]) \in Int
    BY <1>1, TypesAre
  <2>5. QED
    BY <1>5, <2>2, <2>3, <2>4
<1>7. CASE Deplete(s, updated, FifoCredited(s), LotsCredited(s))
  <2>1. /\ FifoCredited(s) \in [Slots -> Nat]
        /\ LotsCredited(s) \in [Slots -> Nat \cup {None}]
    BY <1>1, CreditTypes
  <2>2. \A k \in Slots :
           /\ FifoCredited(s)[k] = batch[k].remaining + fifoUsed[s][k]
           /\ Held(LotsCredited(s)[k]) = Held(units[k]) + lotUsed[s][k]
    BY <1>1, CreditIs
  <2>3. QED
    BY <1>3, <1>4, <1>6, <1>7, <2>1, <2>2, DepleteKeepsBooks
<1>8. CASE sale[s].cogs = None /\ sale' = [sale EXCEPT ![s] = updated] /\ UNCHANGED bookVars
  <2>1. sale'[s] = updated /\ \A t \in Sales : t # s => sale'[t] = sale[t]
    BY <1>1, <1>8 DEF TypeOK
  <2>2. \A k \in Slots : fifoUsed[s][k] = 0 /\ lotUsed[s][k] = 0
    BY <1>8 DEF BooksInv, UncostedBare
  <2>3. ASSUME NEW x \in Rows
        PROVE  Held(onHand'[x]) - manual'[x]
                 = Held(onHand[x]) - manual[x] + SoldOf(sale[s], x) - SoldOf(sale'[s], x)
    <3>1. Held(onHand[x]) \in Int /\ manual[x] \in Int /\ SoldOf(sale[s], x) \in Int
      BY <1>1, TypesAre, SumsAre
    <3>2. SoldOf(updated, x) \in Int
      BY <1>3, <1>5 DEF SoldOf
    <3>3. QED
      BY <1>4, <1>6, <2>1, <3>1, <3>2
  <2>4. UNCHANGED <<orderVars, bookVars, returned>> /\ sale'[s].cogs = None
    BY <1>3, <1>4, <1>8, <2>1
  <2>5. QED
    BY <2>1, <2>2, <2>3, <2>4, SaleAloneBooks
<1>9. QED
  BY <1>7, <1>8 DEF UpdateSaleQuantity, updated

LEMMA VoidSaleBooks ==
    ASSUME BooksInv, LedgerInv', NEW s \in Sales, VoidSale(s)
    PROVE  BooksInv'
<1>1. TypeOK /\ LedgerInv
  BY DEF BooksInv, LedgerInv
<1>2. sale[s] \in Sale /\ sale \in [Sales -> Sale] /\ sale[s].state = "COMPLETED"
  BY <1>1 DEF TypeOK, VoidSale
<1>3. /\ sale'[s].state = "VOIDED" /\ sale'[s].cogs = sale[s].cogs
      /\ sale'[s].quantity = sale[s].quantity
      /\ \A t \in Sales : t # s => sale'[t] = sale[t]
  <2>1. sale' = [sale EXCEPT ![s] = [sale[s] EXCEPT !.state = "VOIDED"]]
    BY <1>2 DEF VoidSale
  <2>2. QED
    BY <1>2, <2>1 DEF Sale
<1>4. /\ fifoUsed'[s] = Nothing /\ lotUsed'[s] = Nothing
      /\ \A t \in Sales : t # s => fifoUsed'[t] = fifoUsed[t] /\ lotUsed'[t] = lotUsed[t]
  BY <1>1 DEF VoidSale, Released, TypeOK
<1>5. Nothing \in Taken /\ \A k \in Slots : Nothing[k] = 0
  BY DEF Nothing, Taken
<1>6. UNCHANGED <<orderVars, returned, manual>> /\ units' = LotsCredited(s)
  BY DEF VoidSale
<1>7. ASSUME NEW k \in Slots
      PROVE  /\ batch'[k].received = batch[k].received
             /\ batch'[k].landed = batch[k].landed
             /\ batch'[k].remaining
                  = batch[k].remaining + fifoUsed[s][k] - fifoUsed'[s][k]
             /\ Held(units'[k]) = Held(units[k]) + lotUsed[s][k] - lotUsed'[s][k]
  <2>1. batch'[k] = [batch[k] EXCEPT !.remaining = FifoCredited(s)[k] - Nothing[k]]
    BY DEF VoidSale, BatchesLess
  <2>2. batch[k] \in Batch /\ FifoCredited(s)[k] = batch[k].remaining + fifoUsed[s][k]
    BY <1>1, CreditIs DEF TypeOK
  <2>3. Held(LotsCredited(s)[k]) = Held(units[k]) + lotUsed[s][k]
    BY <1>1, CreditIs
  <2>4. /\ fifoUsed[s][k] \in Nat /\ lotUsed[s][k] \in Nat
        /\ Held(units[k]) \in Nat /\ batch[k].remaining \in Nat
    BY <1>1, TypesAre, SumsAre
  <2>5. /\ batch'[k].received = batch[k].received
        /\ batch'[k].landed = batch[k].landed
        /\ batch'[k].remaining = FifoCredited(s)[k] - Nothing[k]
    BY <2>1, <2>2 DEF Batch
  <2>6. QED
    BY <1>4, <1>5, <1>6, <2>2, <2>3, <2>4, <2>5
<1>8. ASSUME NEW x \in Rows
      PROVE  Held(onHand'[x]) - manual'[x]
               = Held(onHand[x]) - manual[x] + SoldOf(sale[s], x) - SoldOf(sale'[s], x)
  <2>1. /\ sale[s].row \in Rows /\ sale[s].quantity \in Int
        /\ AdjustStock(sale[s].row, sale[s].quantity)
    BY <1>2 DEF VoidSale, Sale
  <2>2. Held(onHand'[x])
          = Held(onHand[x]) + (IF x = sale[s].row THEN sale[s].quantity ELSE 0)
    BY <1>1, <2>1, AdjustHeld
  <2>3. /\ SoldOf(sale[s], x) = IF x = sale[s].row THEN sale[s].quantity ELSE 0
        /\ SoldOf(sale'[s], x) = 0
    BY <1>2, <1>3 DEF SoldOf
  <2>4. Held(onHand[x]) \in Int /\ manual[x] \in Int
    BY <1>1, TypesAre
  <2>5. QED
    BY <1>6, <2>1, <2>2, <2>3, <2>4
<1>9. SumFunction(fifoUsed'[s]) <= sale'[s].quantity /\ SumFunction(lotUsed'[s]) <= sale'[s].quantity
  <2>1. SumFunction(Nothing) = 0
    BY <1>5, EmptySum
  <2>2. sale[s].quantity \in Nat
    BY <1>2 DEF Sale
  <2>3. QED
    BY <1>3, <1>4, <2>1, <2>2
<1>10. \A k \in Slots : fifoUsed'[s][k] = 0 /\ lotUsed'[s][k] = 0
  BY <1>4, <1>5
<1>11. /\ UNCHANGED <<orderVars, returned>>
       /\ sale'[s].state # "COMPLETED"
       /\ \A t \in Sales : t # s => /\ sale'[t] = sale[t]
                                    /\ fifoUsed'[t] = fifoUsed[t]
                                    /\ lotUsed'[t] = lotUsed[t]
  BY <1>3, <1>4, <1>6
<1>12. QED
  BY <1>7, <1>8, <1>9, <1>10, <1>11, SaleStepBooks

------------------------------------------------------------------------------
\* What a step of one order does to what the orders brought.
LEMMA BroughtStep ==
    ASSUME TypeOK, TypeOK', NEW o \in Orders,
           \A p \in Orders, x \in Rows : p # o =>
              /\ batch'[<<p, x>>].received = batch[<<p, x>>].received
              /\ returned'[<<p, x>>] = returned[<<p, x>>]
    PROVE  \A r \in Rows :
              SumFunction(BroughtTo(batch', returned', r))
                = SumFunction(BroughtTo(batch, returned, r))
                    - (batch[<<o, r>>].received - returned[<<o, r>>])
                    + (batch'[<<o, r>>].received - returned'[<<o, r>>])
<1> SUFFICES ASSUME NEW r \in Rows
             PROVE  SumFunction(BroughtTo(batch', returned', r))
                      = SumFunction(BroughtTo(batch, returned, r))
                          - (batch[<<o, r>>].received - returned[<<o, r>>])
                          + (batch'[<<o, r>>].received - returned'[<<o, r>>])
  OBVIOUS
<1>1. /\ batch \in [Slots -> Batch] /\ batch' \in [Slots -> Batch]
      /\ returned \in [Slots -> Nat] /\ returned' \in [Slots -> Nat]
  BY DEF TypeOK
<1>2. \A p \in Orders : p # o =>
        /\ batch'[<<p, r>>].received = batch[<<p, r>>].received
        /\ returned'[<<p, r>>] = returned[<<p, r>>]
  OBVIOUS
<1> DEFINE f == BroughtTo(batch, returned, r)
           g == BroughtTo(batch', returned', r)
<1>3. /\ f \in [Orders -> Int]
      /\ \A p \in Orders : f[p] = batch[<<p, r>>].received - returned[<<p, r>>]
  BY <1>1, BroughtTypes
<1>4. /\ g \in [Orders -> Int]
      /\ \A p \in Orders : g[p] = batch'[<<p, r>>].received - returned'[<<p, r>>]
  BY <1>1, BroughtTypes
<1> HIDE DEF f, g
<1>5. \A p \in Orders : p # o => g[p] = f[p]
  BY <1>2, <1>3, <1>4
<1>6. SumFunction(g) = SumFunction(f) - f[o] + g[o]
  <2>1. IsFiniteSet(Orders) /\ f \in [Orders -> Int] /\ g \in [Orders -> Int]
    BY <1>3, <1>4, FiniteRows
  <2> HIDE OrdersAssumption
  <2>2. QED
    BY <2>1, <1>5, FunctionChanged
<1>7. QED
  BY <1>3, <1>4, <1>6 DEF f, g

\* A step of one order keeps the sums of stock and batches when the stock rows
\* move by what it brings and each batch by as much as what it holds.
LEMMA OrderStepBooks ==
    ASSUME BooksInv, LedgerInv', NEW o \in Orders,
           UNCHANGED <<fifoUsed, manual>>,
           \A t \in Sales : /\ sale'[t].state = sale[t].state
                            /\ sale'[t].row = sale[t].row
                            /\ sale'[t].quantity = sale[t].quantity
                            /\ sale'[t].cogs = None => sale[t].cogs = None,
           \A p \in Orders, r \in Rows : p # o =>
              /\ batch'[<<p, r>>].received = batch[<<p, r>>].received
              /\ returned'[<<p, r>>] = returned[<<p, r>>],
           \A r \in Rows :
              Held(onHand'[r])
                = Held(onHand[r])
                    - (batch[<<o, r>>].received - returned[<<o, r>>])
                    + (batch'[<<o, r>>].received - returned'[<<o, r>>]),
           \A k \in Slots : batch'[k].received - batch'[k].remaining
                              = batch[k].received - batch[k].remaining,
           \A t \in Sales, k \in Slots :
              lotUsed'[t][k] = lotUsed[t][k] \/ lotUsed'[t][k] = 0,
           LotConserved', CogsMatchesLedger'
    PROVE  BooksInv'
<1>1. TypeOK /\ TypeOK'
  BY DEF BooksInv, LedgerInv
<1>2. StockConserved'
  <2>1. ASSUME NEW r \in Rows
        PROVE  Held(onHand'[r]) = manual'[r] + SumFunction(BroughtTo(batch', returned', r))
                                    - SumFunction(SoldFrom(sale', r))
    <3> DEFINE brought == SumFunction(BroughtTo(batch, returned, r))
               sold == SumFunction(SoldFrom(sale, r))
               was == batch[<<o, r>>].received - returned[<<o, r>>]
               is == batch'[<<o, r>>].received - returned'[<<o, r>>]
    <3>1. Held(onHand[r]) = manual[r] + brought - sold
      BY StockIs DEF BooksInv
    <3>2. SoldFrom(sale', r) = SoldFrom(sale, r)
      BY DEF SoldFrom, SoldOf
    <3>3. SumFunction(BroughtTo(batch', returned', r)) = brought - was + is
      <4>1. \A p \in Orders, x \in Rows : p # o =>
              /\ batch'[<<p, x>>].received = batch[<<p, x>>].received
              /\ returned'[<<p, x>>] = returned[<<p, x>>]
        OBVIOUS
      <4>2. QED
        BY <1>1, <4>1, BroughtStep
    <3>4. was \in Int /\ is \in Int
      <4>1. <<o, r>> \in Slots
        BY DEF Slots
      <4>2. QED
        BY <1>1, <4>1 DEF TypeOK, Batch
    <3>5. brought \in Int /\ sold \in Int /\ Held(onHand[r]) \in Int /\ manual[r] \in Int
      BY <1>1, SumsAre, TypesAre
    <3>6. Held(onHand'[r]) = Held(onHand[r]) - was + is /\ manual'[r] = manual[r]
      OBVIOUS
    <3> HIDE DEF brought, sold, was, is
    <3>7. Held(onHand'[r]) = manual'[r] + (brought - was + is) - sold
      BY <3>1, <3>4, <3>5, <3>6
    <3>8. QED
      BY <3>2, <3>3, <3>7 DEF sold
  <2>2. QED
    BY <2>1, StockIs
<1>3. BatchConserved'
  <2>1. ASSUME NEW k \in Slots
        PROVE  batch'[k].remaining + SumFunction(Column(fifoUsed', k)) = batch'[k].received
    <3>1. batch[k].remaining + SumFunction(Column(fifoUsed, k)) = batch[k].received
      BY BatchIs DEF BooksInv
    <3>2. SumFunction(Column(fifoUsed, k)) \in Int
      BY <1>1, SumsAre
    <3>3. /\ batch[k].remaining \in Int /\ batch[k].received \in Int
          /\ batch'[k].remaining \in Int /\ batch'[k].received \in Int
      BY <1>1 DEF TypeOK, Batch
    <3>4. batch'[k].received - batch'[k].remaining = batch[k].received - batch[k].remaining
      OBVIOUS
    <3>5. fifoUsed' = fifoUsed
      OBVIOUS
    <3> DEFINE used == SumFunction(Column(fifoUsed, k))
    <3> HIDE DEF used
    <3>6. batch'[k].remaining + used = batch'[k].received
      BY <3>1, <3>2, <3>3, <3>4 DEF used
    <3>7. QED
      BY <3>5, <3>6 DEF used
  <2>2. QED
    BY <2>1, BatchIs
<1>4. UncostedBare' /\ LedgersWithinSale'
  <2>1. ASSUME NEW t \in Sales
        PROVE  /\ sale'[t].cogs = None =>
                    \A k \in Slots : fifoUsed'[t][k] = 0 /\ lotUsed'[t][k] = 0
               /\ SumFunction(fifoUsed'[t]) <= sale'[t].quantity
               /\ SumFunction(lotUsed'[t]) <= sale'[t].quantity
    <3>1. sale'[t].cogs = None =>
             \A k \in Slots : fifoUsed'[t][k] = 0 /\ lotUsed'[t][k] = 0
      BY DEF BooksInv, UncostedBare
    <3>2. SumFunction(fifoUsed'[t]) <= sale'[t].quantity
      BY DEF BooksInv, LedgersWithinSale
    <3>3. SumFunction(lotUsed'[t]) <= SumFunction(lotUsed[t])
      <4>1. lotUsed[t] \in [Slots -> Int] /\ lotUsed'[t] \in [Slots -> Int]
        BY <1>1 DEF TypeOK
      <4>2. \A k \in Slots : lotUsed'[t][k] <= lotUsed[t][k]
        <5>1. ASSUME NEW k \in Slots PROVE lotUsed'[t][k] <= lotUsed[t][k]
          <6>1. lotUsed[t][k] \in Nat
            BY <1>1 DEF TypeOK
          <6>2. lotUsed'[t][k] = lotUsed[t][k] \/ lotUsed'[t][k] = 0
            OBVIOUS
          <6>3. QED
            BY <6>1, <6>2
        <5>2. QED
          BY <5>1
      <4>3. QED
        BY <4>1, <4>2, FiniteRows, FunctionAtMost
    <3>4. SumFunction(lotUsed[t]) <= sale[t].quantity /\ sale'[t].quantity = sale[t].quantity
      BY DEF BooksInv, LedgersWithinSale
    <3>5. /\ SumFunction(lotUsed[t]) \in Int /\ SumFunction(lotUsed'[t]) \in Int
          /\ sale[t].quantity \in Int
      <4>1. lotUsed[t] \in [Slots -> Int] /\ lotUsed'[t] \in [Slots -> Int]
        BY <1>1 DEF TypeOK
      <4>2. sale[t].quantity \in Int
        BY <1>1 DEF TypeOK, Sale
      <4>3. QED
        BY <4>1, <4>2, FiniteRows, FunctionInt
    <3>6. SumFunction(lotUsed'[t]) <= sale'[t].quantity
      BY <3>3, <3>4, <3>5
    <3>7. QED
      BY <3>1, <3>2, <3>6
  <2>2. QED
    BY <2>1 DEF UncostedBare, LedgersWithinSale
<1>5. QED
  BY <1>2, <1>3, <1>4 DEF BooksInv

\* The cost of a sale does not move when the batches it was costed from keep
\* their prices.
LEMMA CogsKept ==
    ASSUME BooksInv, LedgerInv', UNCHANGED <<fifoUsed, sale>>,
           \A t \in Sales, k \in Slots :
              fifoUsed[t][k] > 0 => batch'[k].landed = batch[k].landed
    PROVE  CogsMatchesLedger'
<1>1. TypeOK /\ TypeOK'
  BY DEF BooksInv, LedgerInv
<1>2. /\ Landed \in [Slots -> Nat] /\ Landed' \in [Slots -> Nat]
      /\ \A k \in Slots : Landed[k] = batch[k].landed /\ Landed'[k] = batch'[k].landed
  BY <1>1 DEF TypeOK, Batch, Landed
<1>3. ASSUME NEW t \in Sales, sale'[t].state = "COMPLETED", sale'[t].cogs # None
      PROVE  sale'[t].cogs = Cogs(fifoUsed'[t], Landed')
  <2>1. sale[t].cogs = Cogs(fifoUsed[t], Landed)
    BY <1>3 DEF BooksInv, CogsMatchesLedger
  <2>2. fifoUsed[t] \in Taken /\ \A k \in Slots : fifoUsed[t][k] > 0 => Landed'[k] = Landed[k]
    BY <1>1, <1>2 DEF TypeOK, Taken
  <2>3. Cogs(fifoUsed[t], Landed') = Cogs(fifoUsed[t], Landed)
    BY <1>2, <2>2, CogsSame
  <2>4. QED
    BY <2>1, <2>3
<1>4. QED
  BY <1>3 DEF CogsMatchesLedger

\* An order without a delivery holds nothing that was received, and unless it
\* was once reverted nothing of its lots either.
LEMMA NothingReceived ==
    ASSUME BooksInv, NEW k \in Slots, status[k[1]] = "CLEARED"
    PROVE  /\ batch[k].received = 0 /\ batch[k].remaining = 0
           /\ \A t \in Sales : fifoUsed[t][k] = 0
           /\ k[1] \notin reverted =>
                 Held(units[k]) = 0 /\ \A t \in Sales : lotUsed[t][k] = 0
<1>1. TypeOK
  BY DEF BooksInv, LedgerInv
<1>2. /\ SumFunction(Column(lotUsed, k)) \in Nat /\ Held(units[k]) \in Nat
      /\ \A t \in Sales : /\ fifoUsed[t][k] \in Nat /\ lotUsed[t][k] \in Nat
                          /\ lotUsed[t][k] <= SumFunction(Column(lotUsed, k))
      /\ batch[k].received \in Nat /\ batch[k].remaining \in Nat
  BY <1>1, TypesAre, SumsAre
<1>3. batch[k].received = 0 /\ batch[k].remaining = 0
  BY <1>2 DEF BooksInv, LedgerInv, BatchesOfDelivered
<1>4. \A t \in Sales : fifoUsed[t][k] = 0
  BY <1>2 DEF BooksInv, LedgerInv, CostHistoryKept
<1>5. ASSUME k[1] \notin reverted
      PROVE  Held(units[k]) = 0 /\ \A t \in Sales : lotUsed[t][k] = 0
  <2>1. SumFunction(Column(lotUsed, k)) + Held(units[k]) = 0
    BY <1>5, LotIs DEF BooksInv
  <2>2. SumFunction(Column(lotUsed, k)) = 0 /\ Held(units[k]) = 0
    BY <1>2, <2>1
  <2>3. QED
    BY <1>2, <2>2
<1>6. QED
  BY <1>3, <1>4, <1>5

LEMMA DeliverBooks ==
    ASSUME BooksInv, LedgerInv', NEW o \in Orders, NEW day \in Days,
           NEW landed \in [Rows -> Costs], Deliver(o, day, landed)
    PROVE  BooksInv'
<1>1. TypeOK /\ TypeOK'
  BY DEF BooksInv, LedgerInv
<1>2. /\ status[o] = "CLEARED"
      /\ status' = [status EXCEPT ![o] = "DELIVERED"]
      /\ UNCHANGED <<ordered, reverted, fifoUsed, lotUsed, sale, returned, manual>>
  BY DEF Deliver
<1>3. ASSUME NEW k \in Slots
      PROVE  /\ k[1] \in Orders /\ k[2] \in Rows
             /\ k[1] # o => /\ batch'[k] = batch[k] /\ units'[k] = units[k]
                            /\ status'[k[1]] = status[k[1]]
             /\ k[1] = o => /\ batch'[k].received = ordered[k]
                            /\ batch'[k].remaining = ordered[k]
                            /\ batch[k].received = 0 /\ batch[k].remaining = 0
                            /\ \A t \in Sales : fifoUsed[t][k] = 0
                            /\ status'[k[1]] = "DELIVERED"
             /\ ordered[k] \in Nat
             /\ batch'[k] = IF k[1] = o /\ ordered[k] > 0
                            THEN [received |-> ordered[k], remaining |-> ordered[k],
                                  landed |-> landed[k[2]]]
                            ELSE batch[k]
             /\ units'[k] = IF k[1] = o /\ ordered[k] > 0 THEN ordered[k] ELSE units[k]
  <2>1. k[1] \in Orders /\ k[2] \in Rows /\ ordered[k] \in Nat
    BY <1>1 DEF Slots, TypeOK
  <2>2. /\ batch'[k] = IF k[1] = o /\ ordered[k] > 0
                       THEN [received |-> ordered[k], remaining |-> ordered[k],
                             landed |-> landed[k[2]]]
                       ELSE batch[k]
        /\ units'[k] = IF k[1] = o /\ ordered[k] > 0 THEN ordered[k] ELSE units[k]
    BY DEF Deliver
  <2>3. status'[k[1]] = IF k[1] = o THEN "DELIVERED" ELSE status[k[1]]
    BY <1>1, <1>2, <2>1 DEF TypeOK
  <2>4. k[1] = o => /\ batch[k].received = 0 /\ batch[k].remaining = 0
                    /\ \A t \in Sales : fifoUsed[t][k] = 0
    BY <1>2, NothingReceived
  <2>5. k[1] = o => batch'[k].received = ordered[k] /\ batch'[k].remaining = ordered[k]
    BY <2>1, <2>2, <2>4
  <2>6. QED
    BY <2>1, <2>2, <2>3, <2>4, <2>5
<1>13. \A k \in Slots :
          units'[k] = IF k[1] = o /\ ordered[k] > 0 THEN ordered[k] ELSE units[k]
  BY DEF Deliver
<1>4. \A p \in Orders, r \in Rows : p # o =>
         /\ batch'[<<p, r>>].received = batch[<<p, r>>].received
         /\ returned'[<<p, r>>] = returned[<<p, r>>]
  <2>1. SUFFICES ASSUME NEW p \in Orders, NEW r \in Rows, p # o
                 PROVE  batch'[<<p, r>>] = batch[<<p, r>>]
    BY <1>2
  <2>2. <<p, r>> \in Slots /\ <<p, r>>[1] = p
    BY DEF Slots
  <2>3. QED
    BY <1>3, <2>1, <2>2
<1>5. ASSUME NEW r \in Rows
      PROVE  Held(onHand'[r])
                = Held(onHand[r])
                    - (batch[<<o, r>>].received - returned[<<o, r>>])
                    + (batch'[<<o, r>>].received - returned'[<<o, r>>])
  <2>1. <<o, r>> \in Slots /\ <<o, r>>[1] = o
    BY DEF Slots
  <2>2. /\ batch'[<<o, r>>].received = ordered[<<o, r>>] /\ batch[<<o, r>>].received = 0
        /\ ordered[<<o, r>>] \in Nat
    BY <1>3, <2>1
  <2>3. returned[<<o, r>>] \in Nat /\ returned' = returned /\ Held(onHand[r]) \in Nat
    BY <1>1, <1>2, <2>1, TypesAre
  <2>4. onHand'[r] = IF ordered[<<o, r>>] = 0 THEN onHand[r]
                     ELSE Held(onHand[r]) + ordered[<<o, r>>]
    BY DEF Deliver, Held
  <2>5. Held(onHand'[r]) = Held(onHand[r]) + ordered[<<o, r>>]
    <3>1. CASE ordered[<<o, r>>] = 0
      BY <2>3, <2>4, <3>1
    <3>2. CASE ordered[<<o, r>>] # 0
      <4>1. Held(onHand[r]) + ordered[<<o, r>>] \in Int
        BY <2>2, <2>3
      <4>2. onHand'[r] # None
        BY <2>4, <3>2, <4>1
      <4>3. QED
        BY <2>4, <3>2, <4>2 DEF Held
    <3>3. QED
      BY <3>1, <3>2
  <2>6. QED
    BY <2>2, <2>3, <2>5
<1>6. ASSUME NEW k \in Slots
      PROVE  batch'[k].received - batch'[k].remaining = batch[k].received - batch[k].remaining
  <2>1. CASE k[1] = o
    <3>1. batch'[k].received = ordered[k] /\ batch'[k].remaining = ordered[k]
      BY <1>3, <2>1
    <3>2. batch[k].received = 0 /\ batch[k].remaining = 0 /\ ordered[k] \in Nat
      BY <1>3, <2>1
    <3>3. QED
      BY <3>1, <3>2
  <2>2. CASE k[1] # o
    BY <1>3, <2>2
  <2>3. QED
    BY <2>1, <2>2
<1>7. LotConserved'
  <2>1. ASSUME NEW k \in Slots, k[1] \notin reverted
        PROVE  SumFunction(Column(lotUsed, k)) + Held(units'[k])
                 = IF status'[k[1]] = "DELIVERED" THEN ordered[k] ELSE 0
    <3>1. SumFunction(Column(lotUsed, k)) + Held(units[k])
            = IF status[k[1]] = "DELIVERED" THEN ordered[k] ELSE 0
      BY <2>1, LotIs DEF BooksInv
    <3>2. CASE k[1] # o
      BY <1>3, <3>1, <3>2
    <3>3. CASE k[1] = o
      <4>1. SumFunction(Column(lotUsed, k)) \in Nat /\ Held(units[k]) \in Nat
        BY <1>1, TypesAre, SumsAre
      <4>2. SumFunction(Column(lotUsed, k)) = 0 /\ Held(units[k]) = 0
        BY <1>2, <3>1, <3>3, <4>1
      <4>3. Held(units'[k]) = ordered[k]
        <5>1. ordered[k] \in Nat
          BY <1>1 DEF TypeOK
        <5>2. CASE ordered[k] > 0
          <6>1. units'[k] = ordered[k]
            BY <1>13, <3>3, <5>2
          <6>2. ordered[k] # None
            BY <5>1
          <6>3. QED
            BY <6>1, <6>2 DEF Held
        <5>3. CASE ordered[k] = 0
          <6>1. units'[k] = units[k]
            BY <1>13, <5>3
          <6>2. QED
            BY <4>2, <5>3, <6>1
        <5>4. QED
          BY <5>1, <5>2, <5>3
      <4>4. ordered[k] \in Nat /\ status'[k[1]] = "DELIVERED"
        BY <1>3, <3>3
      <4>5. QED
        BY <4>2, <4>3, <4>4
    <3>4. QED
      BY <3>2, <3>3
  <2>2. QED
    BY <1>2, <2>1, LotIs
<1>8. CogsMatchesLedger'
  <2>1. ASSUME NEW t \in Sales, NEW k \in Slots, fifoUsed[t][k] > 0
        PROVE  batch'[k].landed = batch[k].landed
    <3>1. ASSUME k[1] = o PROVE FALSE
      <4>1. fifoUsed[t][k] = 0
        BY <1>2, <3>1, NothingReceived
      <4>2. QED
        BY <2>1, <4>1
    <3>2. QED
      BY <1>3, <3>1
  <2>2. QED
    BY <1>2, <2>1, CogsKept
<1>9. \A t \in Sales, k \in Slots : lotUsed'[t][k] = lotUsed[t][k] \/ lotUsed'[t][k] = 0
  BY <1>2
<1>10. \A t \in Sales : /\ sale'[t].state = sale[t].state
                        /\ sale'[t].row = sale[t].row
                        /\ sale'[t].quantity = sale[t].quantity
                        /\ sale'[t].cogs = None => sale[t].cogs = None
  BY <1>2
<1>11. UNCHANGED <<fifoUsed, manual>>
  BY <1>2
<1>12. QED
  BY <1>4, <1>5, <1>6, <1>7, <1>8, <1>9, <1>10, <1>11, OrderStepBooks

LEMMA RevertDeliveryBooks ==
    ASSUME BooksInv, LedgerInv', NEW o \in Orders, RevertDelivery(o)
    PROVE  BooksInv'
<1>1. TypeOK /\ TypeOK'
  BY DEF BooksInv, LedgerInv
<1>2. /\ status' = [status EXCEPT ![o] = "CLEARED"]
      /\ batch' = [k \in Slots |-> IF k[1] = o THEN NoBatch ELSE batch[k]]
      /\ units' = [k \in Slots |-> IF k[1] = o THEN None ELSE units[k]]
      /\ reverted' = reverted \cup {o}
      /\ UNCHANGED <<ordered, fifoUsed, lotUsed, sale, returned, manual>>
  BY DEF RevertDelivery
<1>3. ASSUME NEW k \in Slots
      PROVE  /\ k[1] \in Orders /\ k[2] \in Rows
             /\ k[1] # o => /\ batch'[k] = batch[k] /\ units'[k] = units[k]
                            /\ status'[k[1]] = status[k[1]]
             /\ k[1] = o => /\ batch'[k].received = 0 /\ batch'[k].remaining = 0
                            /\ batch[k].remaining = batch[k].received
                            /\ \A t \in Sales : fifoUsed[t][k] = 0
             /\ batch[k].received \in Nat
  <2>1. k[1] \in Orders /\ k[2] \in Rows /\ batch[k].received \in Nat
    BY <1>1 DEF Slots, TypeOK, Batch
  <2>2. k[1] # o => /\ batch'[k] = batch[k] /\ units'[k] = units[k]
                    /\ status'[k[1]] = status[k[1]]
    BY <1>1, <1>2, <2>1 DEF TypeOK
  <2>3. ASSUME k[1] = o
        PROVE  /\ batch'[k].received = 0 /\ batch'[k].remaining = 0
               /\ batch[k].remaining = batch[k].received
               /\ \A t \in Sales : fifoUsed[t][k] = 0
    <3>1. k \in Lines(o)
      BY <2>3 DEF Lines, Slots
    <3>2. /\ batch[k].remaining = batch[k].received
          /\ batch[k].received > 0 => \A t \in Sales : fifoUsed[t][k] = 0
      BY <3>1 DEF RevertDelivery, Untouched
    <3>3. batch[k].received = 0 => \A t \in Sales : fifoUsed[t][k] = 0
      <4>1. ASSUME NEW t \in Sales, batch[k].received = 0 PROVE fifoUsed[t][k] = 0
        <5>1. fifoUsed[t][k] \in Nat /\ ~(fifoUsed[t][k] > 0)
          BY <1>1, <4>1, SumsAre DEF BooksInv, LedgerInv, CostHistoryKept
        <5>2. QED
          BY <5>1
      <4>2. QED
        BY <4>1
    <3>4. QED
      BY <1>2, <2>1, <2>3, <3>2, <3>3 DEF NoBatch
  <2>4. QED
    BY <2>1, <2>2, <2>3
<1>4. \A p \in Orders, r \in Rows : p # o =>
         /\ batch'[<<p, r>>].received = batch[<<p, r>>].received
         /\ returned'[<<p, r>>] = returned[<<p, r>>]
  <2>1. SUFFICES ASSUME NEW p \in Orders, NEW r \in Rows, p # o
                 PROVE  batch'[<<p, r>>] = batch[<<p, r>>]
    BY <1>2
  <2>2. <<p, r>> \in Slots /\ <<p, r>>[1] = p
    BY DEF Slots
  <2>3. QED
    BY <1>3, <2>1, <2>2
<1>5. ASSUME NEW r \in Rows
      PROVE  Held(onHand'[r])
                = Held(onHand[r])
                    - (batch[<<o, r>>].received - returned[<<o, r>>])
                    + (batch'[<<o, r>>].received - returned'[<<o, r>>])
  <2>1. <<o, r>> \in Slots /\ <<o, r>>[1] = o
    BY DEF Slots
  <2> DEFINE received == batch[<<o, r>>].received
  <2>2. batch'[<<o, r>>].received = 0 /\ received \in Nat
    BY <1>3, <2>1
  <2>3. returned[<<o, r>>] \in Nat /\ returned' = returned /\ Held(onHand[r]) \in Nat
    BY <1>1, <1>2, <2>1, TypesAre
  <2>4. /\ onHand'[r] = IF received = 0 THEN onHand[r] ELSE onHand[r] - received
        /\ received > 0 => onHand[r] # None /\ onHand[r] >= received
    BY DEF RevertDelivery
  <2>5. Held(onHand'[r]) = Held(onHand[r]) - received
    <3> HIDE DEF received
    <3>1. CASE received = 0
      BY <2>3, <2>4, <3>1
    <3>2. CASE received # 0
      <4>1. onHand[r] # None /\ onHand[r] \in Nat /\ onHand'[r] = onHand[r] - received
        BY <1>1, <2>2, <2>4, <3>2 DEF TypeOK
      <4>2. onHand[r] - received \in Int
        BY <2>2, <4>1
      <4>3. onHand'[r] # None
        BY <4>1, <4>2
      <4>4. QED
        BY <4>1, <4>3 DEF Held
    <3>3. QED
      BY <3>1, <3>2
  <2>6. QED
    BY <2>2, <2>3, <2>5
<1>6. ASSUME NEW k \in Slots
      PROVE  batch'[k].received - batch'[k].remaining = batch[k].received - batch[k].remaining
  <2>1. CASE k[1] = o
    <3>1. batch'[k].received = 0 /\ batch'[k].remaining = 0
      BY <1>3, <2>1
    <3>2. batch[k].remaining = batch[k].received /\ batch[k].received \in Nat
      BY <1>3, <2>1
    <3>3. QED
      BY <3>1, <3>2
  <2>2. CASE k[1] # o
    BY <1>3, <2>2
  <2>3. QED
    BY <2>1, <2>2
<1>7. LotConserved'
  <2>1. ASSUME NEW k \in Slots, k[1] \notin reverted'
        PROVE  SumFunction(Column(lotUsed, k)) + Held(units'[k])
                 = IF status'[k[1]] = "DELIVERED" THEN ordered[k] ELSE 0
    <3>1. k[1] \notin reverted /\ k[1] # o
      BY <1>2, <2>1
    <3>2. SumFunction(Column(lotUsed, k)) + Held(units[k])
            = IF status[k[1]] = "DELIVERED" THEN ordered[k] ELSE 0
      BY <3>1, LotIs DEF BooksInv
    <3>3. QED
      BY <1>3, <3>1, <3>2
  <2>2. QED
    BY <1>2, <2>1, LotIs
<1>8. CogsMatchesLedger'
  <2>1. ASSUME NEW t \in Sales, NEW k \in Slots, fifoUsed[t][k] > 0
        PROVE  batch'[k].landed = batch[k].landed
    <3>1. k[1] # o
      BY <1>3, <2>1
    <3>2. QED
      BY <1>3, <3>1
  <2>2. QED
    BY <1>2, <2>1, CogsKept
<1>9. \A t \in Sales, k \in Slots : lotUsed'[t][k] = lotUsed[t][k] \/ lotUsed'[t][k] = 0
  BY <1>2
<1>10. \A t \in Sales : /\ sale'[t].state = sale[t].state
                        /\ sale'[t].row = sale[t].row
                        /\ sale'[t].quantity = sale[t].quantity
                        /\ sale'[t].cogs = None => sale[t].cogs = None
  BY <1>2
<1>11. UNCHANGED <<fifoUsed, manual>>
  BY <1>2
<1>12. QED
  BY <1>4, <1>5, <1>6, <1>7, <1>8, <1>9, <1>10, <1>11, OrderStepBooks

LEMMA ReplaceLinesBooks ==
    ASSUME BooksInv, LedgerInv', NEW o \in Orders, NEW lines \in LineChoices,
           ReplaceLines(o, lines)
    PROVE  BooksInv'
<1>1. TypeOK /\ TypeOK'
  BY DEF BooksInv, LedgerInv
<1>2. /\ status[o] = "CLEARED"
      /\ UNCHANGED <<status, receivedAt, reverted, batch, fifoUsed, onHand, sale,
                     returned, manual>>
  BY DEF ReplaceLines
<1>3. \A t \in Sales, k \in Slots :
         lotUsed'[t][k] = IF k[1] = o THEN 0 ELSE lotUsed[t][k]
  BY DEF ReplaceLines
<1>4. \A k \in Slots : k[1] # o => units'[k] = units[k] /\ ordered'[k] = ordered[k]
  BY DEF ReplaceLines
<1>5. ASSUME o \notin reverted, NEW k \in Slots, k[1] = o PROVE Held(units'[k]) = 0
  <2>1. ASSUME NEW j \in Lines(o) PROVE units[j] = None \/ units[j] = 0
    <3>1. j \in Slots /\ j[1] = o
      BY <2>1 DEF Lines, Slots
    <3>2. Held(units[j]) = 0
      BY <1>2, <1>5, <3>1, NothingReceived
    <3>3. QED
      BY <3>2 DEF Held
  <2> DEFINE inherited == {units[j] : j \in Lines(o)} \ {None}
  <2>2. PICK kept \in IF inherited = {} THEN {None} ELSE inherited :
           units' = [j \in Slots |->
                       IF j[1] # o THEN units[j]
                       ELSE IF lines[j[2]] > 0 THEN kept ELSE None]
    BY DEF ReplaceLines
  <2>3. kept = None \/ kept = 0
    BY <2>1, <2>2
  <2>4. units'[k] = None \/ units'[k] = 0
    BY <1>5, <2>2, <2>3
  <2>5. QED
    BY <2>4 DEF Held
<1>6. LotConserved'
  <2>1. ASSUME NEW k \in Slots, k[1] \notin reverted
        PROVE  SumFunction(Column(lotUsed', k)) + Held(units'[k])
                 = IF status[k[1]] = "DELIVERED" THEN ordered'[k] ELSE 0
    <3>1. CASE k[1] # o
      <4>1. Column(lotUsed', k) = Column(lotUsed, k)
        BY <1>3, <3>1 DEF Column
      <4>2. SumFunction(Column(lotUsed, k)) + Held(units[k])
              = IF status[k[1]] = "DELIVERED" THEN ordered[k] ELSE 0
        BY <2>1, LotIs DEF BooksInv
      <4>3. units'[k] = units[k] /\ ordered'[k] = ordered[k]
        BY <1>4, <3>1
      <4>4. QED
        BY <4>1, <4>2, <4>3
    <3>2. CASE k[1] = o
      <4>1. lotUsed' \in [Sales -> Taken]
        BY <1>1 DEF TypeOK, Taken
      <4>2. \A t \in Sales : lotUsed'[t][k] = 0
        BY <1>3, <3>2
      <4>3. SumFunction(Column(lotUsed', k)) = 0
        BY <4>1, <4>2, ColumnZero
      <4>4. Held(units'[k]) = 0
        BY <1>5, <2>1, <3>2
      <4>5. QED
        BY <1>2, <3>2, <4>3, <4>4
    <3>3. QED
      BY <3>1, <3>2
  <2>2. QED
    BY <1>2, <2>1, LotIs
<1>7. CogsMatchesLedger'
  <2>1. \A t \in Sales, k \in Slots :
           fifoUsed[t][k] > 0 => batch'[k].landed = batch[k].landed
    BY <1>2
  <2>2. QED
    BY <1>2, <2>1, CogsKept
<1>8. \A r \in Rows :
         Held(onHand'[r]) = Held(onHand[r])
                              - (batch[<<o, r>>].received - returned[<<o, r>>])
                              + (batch'[<<o, r>>].received - returned'[<<o, r>>])
  <2>1. ASSUME NEW r \in Rows
        PROVE  Held(onHand[r]) = Held(onHand[r])
                                   - (batch[<<o, r>>].received - returned[<<o, r>>])
                                   + (batch[<<o, r>>].received - returned[<<o, r>>])
    <3>1. <<o, r>> \in Slots
      BY DEF Slots
    <3>2. /\ Held(onHand[r]) \in Nat /\ batch[<<o, r>>].received \in Nat
          /\ returned[<<o, r>>] \in Nat
      BY <1>1, <3>1, TypesAre
    <3>3. QED
      BY <3>2
  <2>2. QED
    BY <1>2, <2>1
<1>9. \A t \in Sales, k \in Slots : lotUsed'[t][k] = lotUsed[t][k] \/ lotUsed'[t][k] = 0
  BY <1>3
<1>10. UNCHANGED <<fifoUsed, manual, sale, batch, returned>>
  BY <1>2
<1>11. QED
  BY <1>6, <1>7, <1>8, <1>9, <1>10, OrderStepBooks

LEMMA PurchaseReturnBooks ==
    ASSUME BooksInv, LedgerInv', NEW o \in Orders, NEW r \in Rows, NEW q \in 1..MaxReturned,
           PurchaseReturn(o, r, q)
    PROVE  BooksInv'
<1>1. TypeOK /\ TypeOK'
  BY DEF BooksInv, LedgerInv
<1>2. /\ AdjustStock(r, -q)
      /\ returned' = [returned EXCEPT ![<<o, r>>] = @ + q]
      /\ UNCHANGED <<status, ordered, reverted, units, batch, fifoUsed, lotUsed, sale, manual>>
  BY DEF PurchaseReturn, orderVars, bookVars
<1>3. \A p \in Orders, x \in Rows : <<p, x>> # <<o, r>> =>
         returned'[<<p, x>>] = returned[<<p, x>>]
  <2>1. SUFFICES ASSUME NEW p \in Orders, NEW x \in Rows, <<p, x>> # <<o, r>>
                 PROVE  returned'[<<p, x>>] = returned[<<p, x>>]
    OBVIOUS
  <2>2. <<p, x>> \in Slots
    BY DEF Slots
  <2>3. QED
    BY <1>1, <1>2, <2>1, <2>2 DEF TypeOK
<1>4. returned'[<<o, r>>] = returned[<<o, r>>] + q
  <2>1. <<o, r>> \in Slots
    BY DEF Slots
  <2>2. QED
    BY <1>1, <1>2, <2>1 DEF TypeOK
<1>5. \A x \in Rows :
         Held(onHand'[x]) = Held(onHand[x])
                              - (batch[<<o, x>>].received - returned[<<o, x>>])
                              + (batch'[<<o, x>>].received - returned'[<<o, x>>])
  <2>1. ASSUME NEW x \in Rows
        PROVE  Held(onHand'[x]) = Held(onHand[x])
                                    - (batch[<<o, x>>].received - returned[<<o, x>>])
                                    + (batch[<<o, x>>].received - returned'[<<o, x>>])
    <3>1. q \in Int /\ -q \in Int
      OBVIOUS
    <3>2. Held(onHand'[x]) = Held(onHand[x]) + (IF x = r THEN -q ELSE 0)
      BY <1>1, <1>2, <3>1, AdjustHeld
    <3>3. <<o, x>> \in Slots
      BY DEF Slots
    <3>4. /\ Held(onHand[x]) \in Nat /\ batch[<<o, x>>].received \in Nat
          /\ returned[<<o, x>>] \in Nat
      BY <1>1, <3>3, TypesAre
    <3>5. CASE x = r
      BY <1>4, <3>1, <3>2, <3>4, <3>5
    <3>6. CASE x # r
      <4>1. returned'[<<o, x>>] = returned[<<o, x>>]
        BY <1>3, <3>6
      <4>2. Held(onHand'[x]) = Held(onHand[x]) + 0
        BY <3>2, <3>6
      <4>3. QED
        BY <3>4, <4>1, <4>2
    <3>7. QED
      BY <3>5, <3>6
  <2>2. QED
    BY <1>2, <2>1
<1>6. LotConserved'
  BY <1>2, LotIs DEF BooksInv
<1>7. CogsMatchesLedger'
  <2>1. \A t \in Sales, k \in Slots :
           fifoUsed[t][k] > 0 => batch'[k].landed = batch[k].landed
    BY <1>2
  <2>2. QED
    BY <1>2, <2>1, CogsKept
<1>8. \A p \in Orders, x \in Rows : p # o =>
         /\ batch'[<<p, x>>].received = batch[<<p, x>>].received
         /\ returned'[<<p, x>>] = returned[<<p, x>>]
  BY <1>2, <1>3
<1>9. UNCHANGED <<fifoUsed, lotUsed, manual, sale, batch>>
  BY <1>2
<1>10. QED
  BY <1>5, <1>6, <1>7, <1>8, <1>9, OrderStepBooks

LEMMA CorrectCostsBooks ==
    ASSUME BooksInv, LedgerInv', NEW o \in Orders, NEW touched \in SUBSET Rows,
           NEW landed \in [touched -> Costs], CorrectCosts(o, touched, landed)
    PROVE  BooksInv'
<1> DEFINE Touched(k) == k[1] = o /\ k[2] \in touched /\ batch[k].received > 0
           corrected == [k \in Slots |->
                           IF Touched(k) THEN landed[k[2]] ELSE batch[k].landed]
           resummed == SalesCostedFrom({k \in Slots : Touched(k)})
<1>1. TypeOK /\ TypeOK'
  BY DEF BooksInv, LedgerInv
<1>2. /\ batch' = [k \in Slots |-> [batch[k] EXCEPT !.landed = corrected[k]]]
      /\ sale' = [t \in Sales |->
                    IF t \in resummed THEN Costed(sale[t], Cogs(fifoUsed[t], corrected))
                    ELSE sale[t]]
      /\ \A t \in resummed : sale'[t].cogs \in Money
      /\ UNCHANGED <<status, ordered, reverted, units, fifoUsed, lotUsed, onHand,
                     returned, manual>>
  BY DEF CorrectCosts, orderVars
<1>3. ASSUME NEW k \in Slots
      PROVE  /\ batch'[k].received = batch[k].received
             /\ batch'[k].remaining = batch[k].remaining
             /\ batch'[k].landed = corrected[k]
             /\ batch[k].received \in Nat /\ batch[k].remaining \in Nat
  <2>1. batch[k] \in Batch
    BY <1>1 DEF TypeOK
  <2> HIDE DEF corrected
  <2>2. batch'[k] = [batch[k] EXCEPT !.landed = corrected[k]]
    BY <1>2
  <2>3. QED
    BY <2>1, <2>2 DEF Batch
<1>4. Landed' = corrected
  BY <1>3 DEF Landed
<1>5. corrected \in [Slots -> Nat] /\ Landed \in [Slots -> Nat]
  <2>1. ASSUME NEW k \in Slots
        PROVE  /\ k[2] \in touched => landed[k[2]] \in Nat
               /\ batch[k].landed \in Nat
    BY <1>1, TypesAre
  <2>2. QED
    BY <2>1 DEF Landed
<1>6. ASSUME NEW t \in Sales
      PROVE  /\ sale'[t].state = sale[t].state /\ sale'[t].row = sale[t].row
             /\ sale'[t].quantity = sale[t].quantity
             /\ sale'[t].cogs = None => sale[t].cogs = None
             /\ t \in resummed => sale'[t].cogs = Cogs(fifoUsed[t], corrected)
             /\ t \notin resummed => sale'[t].cogs = sale[t].cogs
  <2>1. CASE t \in resummed
    <3> HIDE DEF resummed, corrected
    <3>1. sale'[t] = Costed(sale[t], Cogs(fifoUsed[t], corrected)) /\ sale[t] \in Sale
      BY <1>1, <1>2, <2>1 DEF TypeOK
    <3>2. /\ sale'[t].state = sale[t].state /\ sale'[t].row = sale[t].row
          /\ sale'[t].quantity = sale[t].quantity
          /\ sale'[t].cogs = Cogs(fifoUsed[t], corrected)
      BY <3>1, CostedIs
    <3>3. sale'[t].cogs # None
      <4>1. sale'[t].cogs \in Money
        BY <1>2, <2>1
      <4>2. \A n \in Money : n \in Int
        BY DEF Money
      <4>3. QED
        BY <4>1, <4>2
    <3>4. QED
      BY <2>1, <3>2, <3>3
  <2>2. CASE t \notin resummed
    <3> HIDE DEF resummed, corrected
    <3>1. sale'[t] = sale[t]
      BY <1>2, <2>2
    <3>2. QED
      BY <2>2, <3>1
  <2>3. QED
    BY <2>1, <2>2
<1>7. CogsMatchesLedger'
  <2>1. ASSUME NEW t \in Sales, sale'[t].state = "COMPLETED", sale'[t].cogs # None
        PROVE  sale'[t].cogs = Cogs(fifoUsed[t], corrected)
    <3>1. CASE t \in resummed
      BY <1>6, <3>1
    <3>2. CASE t \notin resummed
      <4>1. sale[t].cogs = Cogs(fifoUsed[t], Landed)
        BY <1>6, <2>1, <3>2 DEF BooksInv, CogsMatchesLedger
      <4>2. \A k \in Slots : fifoUsed[t][k] > 0 => corrected[k] = Landed[k]
        BY <3>2 DEF SalesCostedFrom, Landed
      <4>3. fifoUsed[t] \in Taken
        BY <1>1 DEF TypeOK, Taken
      <4> HIDE DEF corrected
      <4>4. Cogs(fifoUsed[t], corrected) = Cogs(fifoUsed[t], Landed)
        BY <1>5, <4>2, <4>3, CogsSame
      <4>5. QED
        BY <1>6, <3>2, <4>1, <4>4
    <3>3. QED
      BY <3>1, <3>2
  <2> HIDE DEF corrected
  <2>2. fifoUsed' = fifoUsed
    BY <1>2
  <2>3. QED
    BY <1>4, <2>1, <2>2 DEF CogsMatchesLedger
<1> HIDE DEF corrected, resummed
<1>8. \A r \in Rows :
         Held(onHand'[r]) = Held(onHand[r])
                              - (batch[<<o, r>>].received - returned[<<o, r>>])
                              + (batch'[<<o, r>>].received - returned'[<<o, r>>])
  <2>1. ASSUME NEW r \in Rows
        PROVE  Held(onHand'[r]) = Held(onHand[r])
                                    - (batch[<<o, r>>].received - returned[<<o, r>>])
                                    + (batch'[<<o, r>>].received - returned'[<<o, r>>])
    <3>1. <<o, r>> \in Slots
      BY DEF Slots
    <3>2. /\ Held(onHand[r]) \in Nat /\ batch[<<o, r>>].received \in Nat
          /\ returned[<<o, r>>] \in Nat
      BY <1>1, <3>1, TypesAre
    <3>3. /\ batch'[<<o, r>>].received = batch[<<o, r>>].received
          /\ returned' = returned /\ onHand' = onHand
      BY <1>2, <1>3, <3>1
    <3>4. QED
      BY <3>2, <3>3
  <2>2. QED
    BY <2>1
<1>9. \A p \in Orders, x \in Rows : p # o =>
         /\ batch'[<<p, x>>].received = batch[<<p, x>>].received
         /\ returned'[<<p, x>>] = returned[<<p, x>>]
  <2>1. \A p \in Orders, x \in Rows : <<p, x>> \in Slots
    BY DEF Slots
  <2>2. QED
    BY <1>2, <1>3, <2>1
<1>10. \A k \in Slots : batch'[k].received - batch'[k].remaining
                         = batch[k].received - batch[k].remaining
  BY <1>3
<1>11. LotConserved'
  BY <1>2, LotIs DEF BooksInv
<1>12. /\ UNCHANGED <<fifoUsed, manual>>
       /\ \A t \in Sales, k \in Slots : lotUsed'[t][k] = lotUsed[t][k] \/ lotUsed'[t][k] = 0
  BY <1>2
<1>13. \A t \in Sales : /\ sale'[t].state = sale[t].state
                        /\ sale'[t].row = sale[t].row
                        /\ sale'[t].quantity = sale[t].quantity
                        /\ sale'[t].cogs = None => sale[t].cogs = None
  BY <1>6
<1>14. QED
  BY <1>7, <1>8, <1>9, <1>10, <1>11, <1>12, <1>13, OrderStepBooks

LEMMA AdjustManuallyBooks ==
    ASSUME BooksInv, LedgerInv', NEW change \in Adjustments, AdjustManually(change)
    PROVE  BooksInv'
<1>1. TypeOK /\ TypeOK'
  BY DEF BooksInv, LedgerInv
<1>2. /\ AdjustStock(Untagged, change)
      /\ manual' = [manual EXCEPT ![Untagged] = @ + change]
      /\ UNCHANGED <<status, ordered, reverted, units, batch, fifoUsed, lotUsed, sale, returned>>
  BY DEF AdjustManually, orderVars, bookVars
<1>3. StockConserved'
  <2>1. ASSUME NEW r \in Rows
        PROVE  Held(onHand'[r]) = manual'[r] + SumFunction(BroughtTo(batch, returned, r))
                                    - SumFunction(SoldFrom(sale, r))
    <3> DEFINE brought == SumFunction(BroughtTo(batch, returned, r))
               sold == SumFunction(SoldFrom(sale, r))
               moved == IF r = Untagged THEN change ELSE 0
    <3>1. Held(onHand[r]) = manual[r] + brought - sold
      BY StockIs DEF BooksInv
    <3>2. change \in Int /\ Untagged \in Rows
      BY DEF Rows
    <3>3. Held(onHand'[r]) = Held(onHand[r]) + moved
      BY <1>1, <1>2, <3>2, AdjustHeld
    <3>4. manual'[r] = manual[r] + moved
      <4>1. manual \in [Rows -> Int]
        BY <1>1 DEF TypeOK
      <4>2. QED
        BY <1>2, <3>2, <4>1
    <3>5. brought \in Int /\ sold \in Int /\ Held(onHand[r]) \in Int /\ manual[r] \in Int
      BY <1>1, SumsAre, TypesAre
    <3>6. moved \in Int
      BY <3>2
    <3> HIDE DEF brought, sold, moved
    <3>7. Held(onHand'[r]) = manual'[r] + brought - sold
      BY <3>1, <3>3, <3>4, <3>5, <3>6
    <3>8. QED
      BY <3>7 DEF brought, sold
  <2>2. QED
    BY <1>2, <2>1, StockIs
<1>4. UncostedBare' /\ LedgersWithinSale'
  BY <1>2 DEF BooksInv, UncostedBare, LedgersWithinSale
<1>5. CogsMatchesLedger'
  BY <1>2 DEF BooksInv, CogsMatchesLedger, Landed
<1>6. BatchConserved' /\ LotConserved'
  BY <1>2, BatchIs, LotIs DEF BooksInv
<1>7. QED
  BY <1>3, <1>4, <1>5, <1>6 DEF BooksInv

LEMMA InitBooks ==
    ASSUME Init
    PROVE  BooksInv
<1>1. LedgerInv
  BY InitLedgerInv
<1>2. TypeOK
  BY <1>1 DEF LedgerInv
<1>3. \A t \in Sales, k \in Slots : fifoUsed[t][k] = 0 /\ lotUsed[t][k] = 0
  BY DEF Init, Nothing
<1>4. \A k \in Slots : /\ SumFunction(Column(fifoUsed, k)) = 0
                       /\ SumFunction(Column(lotUsed, k)) = 0
  <2>1. fifoUsed \in [Sales -> Taken] /\ lotUsed \in [Sales -> Taken]
    BY <1>2, TypesAre
  <2>2. QED
    BY <1>3, <2>1, ColumnZero
<1>5. BatchConserved
  <2>1. \A k \in Slots : batch[k].remaining = 0 /\ batch[k].received = 0
    BY DEF Init, NoBatch
  <2>2. QED
    BY <1>4, <2>1, BatchIs
<1>6. LotConserved
  <2>1. \A k \in Slots : Held(units[k]) = 0 /\ status[k[1]] = "CLEARED"
    BY DEF Init, Held, Slots
  <2>2. QED
    BY <1>4, <2>1, LotIs
<1>7. \A t \in Sales : sale[t] = NoSale
  BY DEF Init
<1>8. UncostedBare /\ CogsMatchesLedger
  BY <1>3, <1>7 DEF UncostedBare, CogsMatchesLedger, NoSale
<1>9. LedgersWithinSale
  <2>1. ASSUME NEW t \in Sales
        PROVE  SumFunction(fifoUsed[t]) = 0 /\ SumFunction(lotUsed[t]) = 0
    <3>1. fifoUsed[t] \in Taken /\ lotUsed[t] \in Taken
      BY <1>2 DEF TypeOK, Taken
    <3>2. QED
      BY <1>3, <3>1, EmptySum
  <2>2. \A t \in Sales : sale[t].quantity = 0
    BY <1>7 DEF NoSale
  <2>3. QED
    BY <2>1, <2>2 DEF LedgersWithinSale
<1>10. StockConserved
  <2>1. ASSUME NEW r \in Rows
        PROVE  Held(onHand[r]) = manual[r] + SumFunction(BroughtTo(batch, returned, r))
                                   - SumFunction(SoldFrom(sale, r))
    <3>1. SumFunction(SoldFrom(sale, r)) = 0
      <4>1. /\ SoldFrom(sale, r) \in [Sales -> Int]
            /\ \A t \in Sales : SoldFrom(sale, r)[t] = SoldOf(sale[t], r)
        BY <1>2, TypesAre, SoldTypes
      <4>2. \A t \in Sales : SoldOf(sale[t], r) = 0
        BY <1>7 DEF NoSale, SoldOf
      <4>3. QED
        BY <4>1, <4>2, FiniteRows, FunctionZero
    <3>2. SumFunction(BroughtTo(batch, returned, r)) = 0
      <4>1. /\ BroughtTo(batch, returned, r) \in [Orders -> Int]
            /\ \A o \in Orders : BroughtTo(batch, returned, r)[o]
                                   = batch[<<o, r>>].received - returned[<<o, r>>]
        BY <1>2, TypesAre, BroughtTypes
      <4>2. \A o \in Orders : <<o, r>> \in Slots
        BY DEF Slots
      <4>3. \A o \in Orders : batch[<<o, r>>].received = 0 /\ returned[<<o, r>>] = 0
        BY <4>2 DEF Init, NoBatch, Nothing
      <4>4. ASSUME NEW o \in Orders PROVE BroughtTo(batch, returned, r)[o] = 0
        <5>1. BroughtTo(batch, returned, r)[o]
                = batch[<<o, r>>].received - returned[<<o, r>>]
          BY <4>1
        <5>2. batch[<<o, r>>].received = 0 /\ returned[<<o, r>>] = 0
          BY <4>3
        <5>3. QED
          BY <5>1, <5>2
      <4>5. QED
        BY <4>1, <4>4, FiniteRows, FunctionZero
    <3>3. Held(onHand[r]) = manual[r] /\ manual[r] \in Int
      <4>1. PICK initial \in InitialStock :
              /\ onHand = [x \in Rows |-> IF x = Untagged THEN initial ELSE None]
              /\ manual = [x \in Rows |-> IF x = Untagged THEN initial ELSE 0]
        BY DEF Init
      <4>2. initial \in Nat /\ initial # None
        OBVIOUS
      <4>3. CASE r = Untagged
        BY <4>1, <4>2, <4>3 DEF Held
      <4>4. CASE r # Untagged
        BY <4>1, <4>4 DEF Held
      <4>5. QED
        BY <4>3, <4>4
    <3>4. QED
      BY <3>1, <3>2, <3>3
  <2>2. QED
    BY <2>1, StockIs
<1>11. QED
  BY <1>1, <1>5, <1>6, <1>8, <1>9, <1>10 DEF BooksInv

LEMMA NextBooks ==
    ASSUME BooksInv, [Next]_vars
    PROVE  BooksInv'
<1>1. LedgerInv'
  BY NextLedgerInv DEF BooksInv
<1>2. ASSUME SaleStep PROVE BooksInv'
  <2>1. PICK s \in Sales :
          \/ \E r \in Rows, q \in Quantities, p \in Prices :
                \/ \E d \in Discounts : CreateSale(s, r, q, p, d)
                \/ InsertPosSale(s, r, q, p)
          \/ \E p \in Prices, d \in Discounts :
                \/ UpdateSaleTerms(s, p, d)
                \/ \E q \in Quantities : UpdateSaleQuantity(s, q, p, d)
          \/ VoidSale(s)
    BY <1>2 DEF SaleStep
  <2>2. ASSUME NEW r \in Rows, NEW q \in Quantities, NEW p \in Prices, NEW d \in Discounts,
               CreateSale(s, r, q, p, d)
        PROVE  BooksInv'
    BY <1>1, <2>2, CreateSaleBooks
  <2>3. ASSUME NEW r \in Rows, NEW q \in Quantities, NEW p \in Prices,
               InsertPosSale(s, r, q, p)
        PROVE  BooksInv'
    BY <1>1, <2>3, InsertPosSaleBooks
  <2>4. ASSUME NEW p \in Prices, NEW d \in Discounts, UpdateSaleTerms(s, p, d)
        PROVE  BooksInv'
    BY <1>1, <2>4, UpdateSaleTermsBooks
  <2>5. ASSUME NEW q \in Quantities, NEW p \in Prices, NEW d \in Discounts,
               UpdateSaleQuantity(s, q, p, d)
        PROVE  BooksInv'
    BY <1>1, <2>5, UpdateSaleQuantityBooks
  <2>6. CASE VoidSale(s)
    BY <1>1, <2>6, VoidSaleBooks
  <2>7. QED
    BY <2>1, <2>2, <2>3, <2>4, <2>5, <2>6
<1>3. ASSUME OrderStep PROVE BooksInv'
  <2>1. PICK o \in Orders :
          \/ \E day \in Days, landed \in [Rows -> Costs] : Deliver(o, day, landed)
          \/ RevertDelivery(o)
          \/ \E lines \in LineChoices : ReplaceLines(o, lines)
          \/ \E r \in Rows, q \in 1..MaxReturned : PurchaseReturn(o, r, q)
          \/ \E touched \in SUBSET Rows : \E landed \in [touched -> Costs] :
                CorrectCosts(o, touched, landed)
    BY <1>3 DEF OrderStep
  <2>2. ASSUME NEW day \in Days, NEW landed \in [Rows -> Costs], Deliver(o, day, landed)
        PROVE  BooksInv'
    BY <1>1, <2>2, DeliverBooks
  <2>3. CASE RevertDelivery(o)
    BY <1>1, <2>3, RevertDeliveryBooks
  <2>4. ASSUME NEW lines \in LineChoices, ReplaceLines(o, lines) PROVE BooksInv'
    BY <1>1, <2>4, ReplaceLinesBooks
  <2>5. ASSUME NEW r \in Rows, NEW q \in 1..MaxReturned, PurchaseReturn(o, r, q)
        PROVE  BooksInv'
    BY <1>1, <2>5, PurchaseReturnBooks
  <2>6. ASSUME NEW touched \in SUBSET Rows, NEW landed \in [touched -> Costs],
               CorrectCosts(o, touched, landed)
        PROVE  BooksInv'
    BY <1>1, <2>6, CorrectCostsBooks
  <2>7. QED
    BY <2>1, <2>2, <2>3, <2>4, <2>5, <2>6
<1>4. ASSUME StockStep PROVE BooksInv'
  <2>1. PICK change \in Adjustments : AdjustManually(change)
    BY <1>4 DEF StockStep
  <2>2. QED
    BY <1>1, <2>1, AdjustManuallyBooks
<1>5. CASE UNCHANGED vars
  <2>1. UNCHANGED <<status, ordered, reverted, units, batch, fifoUsed, lotUsed, onHand,
                    sale, returned, manual>>
    BY <1>5 DEF vars, orderVars, bookVars
  <2>2. StockConserved' /\ BatchConserved' /\ LotConserved'
    BY <2>1, StockIs, BatchIs, LotIs DEF BooksInv
  <2>3. UncostedBare' /\ LedgersWithinSale' /\ CogsMatchesLedger'
    BY <2>1 DEF BooksInv, UncostedBare, LedgersWithinSale, CogsMatchesLedger, Landed
  <2>4. QED
    BY <1>1, <2>2, <2>3 DEF BooksInv
<1>6. QED
  BY <1>2, <1>3, <1>4, <1>5 DEF Next

------------------------------------------------------------------------------
\* The books are always sound: the inductive invariant holds.
THEOREM BooksInvHolds == Spec => []BooksInv
<1>1. Init => BooksInv
  BY InitBooks
<1>2. BooksInv /\ [Next]_vars => BooksInv'
  BY NextBooks
<1>3. QED
  BY <1>1, <1>2, PTL DEF Spec

\* Every unit on every row is explained by deliveries, returns, adjustments and
\* sales, whatever six handlers that move it by increments do in any order.
THEOREM StockConservedHolds == Spec => []StockConserved
<1>1. BooksInv => StockConserved
  BY DEF BooksInv
<1>2. QED
  BY <1>1, BooksInvHolds, PTL

\* No unit of a batch is costed twice or lost.
THEOREM BatchConservedHolds == Spec => []BatchConserved
<1>1. BooksInv => BatchConserved
  BY DEF BooksInv
<1>2. QED
  BY <1>1, BooksInvHolds, PTL

\* What an order's lots lack is what the LotConsumption ledger says sales took.
THEOREM LotConservedHolds == Spec => []LotConserved
<1>1. BooksInv => LotConserved
  BY DEF BooksInv
<1>2. QED
  BY <1>1, BooksInvHolds, PTL

\* The cost stamped on a sale is the cost of the units its ledger rows name.
THEOREM CogsMatchesLedgerHolds == Spec => []CogsMatchesLedger
<1>1. BooksInv => CogsMatchesLedger
  BY DEF BooksInv
<1>2. QED
  BY <1>1, BooksInvHolds, PTL

\* No sale holds more ledger units than it sold.
THEOREM LedgersWithinSaleHolds == Spec => []LedgersWithinSale
<1>1. BooksInv => LedgersWithinSale
  BY DEF BooksInv
<1>2. QED
  BY <1>1, BooksInvHolds, PTL

=============================================================================
