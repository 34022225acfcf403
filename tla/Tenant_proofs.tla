--------------------------- MODULE Tenant_proofs ---------------------------
(***************************************************************************)
(* What a business brings along and how it leaves, for any catalogue, file *)
(* and number of sessions:                                                 *)
(*   ImportJob: however imports, recomputes and rollbacks of its history   *)
(*     overlap each other and the shop's own trade, fail or are cut short, *)
(*     the stock rows and the batches stay accounted for, and no imported  *)
(*     sale is costed before its units are off the shelf;                  *)
(*   Accounts: whoever logs in, is invited, demoted or erased in whatever  *)
(*     order, what refresh tokens stand for, who is left to manage the     *)
(*     business, and that a purge is final.                                *)
(***************************************************************************)
EXTENDS ImportJob, Accounts, SumTheorems, TLAPS

------------------------------------------------------------------------------
(* Rows and sums over them.                                                *)

\* Which table a row is in.
LEMMA Tables ==
    /\ Job[1] = "job" /\ Deducted[1] = "deducted"
    /\ \A p : Stock(p)[1] = "stock" /\ Stock(p)[2] = p
    /\ \A p, c : Batch(p, c)[1] = "batch" /\ Batch(p, c)[2] = p /\ Batch(p, c)[3] = c
    /\ \A c, s : Sale(c, s)[1] = "sale" /\ Sale(c, s)[2] = c /\ Sale(c, s)[3] = s
    /\ \A c : Order(c)[1] = "order" /\ Order(c)[2] = c
    /\ \A c : Received(c)[1] = "received" /\ Received(c)[2] = c
BY DEF Job, Deducted, Stock, Batch, Sale, Order, Received

LEMMA Ids ==
    /\ Job \in RowIds /\ Deducted \in RowIds
    /\ \A p \in Products : Stock(p) \in RowIds
    /\ \A p \in Products, c \in Sources : Batch(p, c) \in Batches /\ Batch(p, c) \in RowIds
    /\ \A c \in Copies, s \in SaleIds : Sale(c, s) \in Sales /\ Sale(c, s) \in RowIds
    /\ \A i \in Sales : i \in RowIds
    /\ \A c \in Copies : Order(c) \in RowIds /\ Received(c) \in RowIds
BY DEF RowIds, Batches, Sales

\* The product and the units of an imported sale.
LEMMA SaleIs ==
    \A i \in Sales : ProductOf(i) \in Products /\ QuantityOf(i) \in Nat /\ QuantityOf(i) > 0 /\ i[1] = "sale"
<1> TAKE i \in Sales
<1>1. PICK c \in Copies, s \in SaleIds : i = Sale(c, s)
  BY DEF Sales
<1>2. i[3] = s /\ i[1] = "sale"
  BY <1>1, Tables
<1>3. QED
  BY <1>2, ImportAssumption DEF ProductOf, QuantityOf

LEMMA Finite == IsFiniteSet(Copies) /\ IsFiniteSet(Sales)
<1>1. IsFiniteSet(Copies)
  BY FS_Interval, ImportAssumption DEF Copies
<1> DEFINE pairs == Copies \X SaleIds
           f == [x \in pairs |-> Sale(x[1], x[2])]
<1>2. IsFiniteSet(pairs)
  BY <1>1, FS_Product, ImportAssumption
<1>3. f \in Surjection(pairs, Sales)
  <2>1. \A x \in pairs : f[x] \in Sales
    BY DEF Sales
  <2>2. \A i \in Sales : \E x \in pairs : f[x] = i
    <3> TAKE i \in Sales
    <3>1. PICK c \in Copies, s \in SaleIds : i = Sale(c, s)
      BY DEF Sales
    <3>2. <<c, s>> \in pairs /\ f[<<c, s>>] = i
      BY <3>1
    <3>3. QED
      BY <3>2
  <2>3. QED
    BY <2>1, <2>2 DEF Surjection
<1>4. QED
  BY <1>1, <1>2, <1>3, FS_Surjection

\* One row.
LEMMA OneRow == ASSUME NEW i, NEW v PROVE DOMAIN Only(i, v) = {i} /\ Only(i, v)[i] = v
BY DEF Only

\* What is on hand, the units a batch started with, the columns of a sale.
OnHand(rows, p) == IF rows[Stock(p)] = Missing THEN 0 ELSE rows[Stock(p)]
Opened(p) == IF p \in Deduped THEN Opening[p] ELSE 0
Filled(p, c) == IF c = 0 THEN Opening[p] ELSE Bought[p]
SaleRow == [state : {"NONE", "COMPLETED", "VOIDED"}, fifo : [Sources -> Nat], costed : BOOLEAN]

\* The tables, and the sales in them.
SalesTyped(rows) == \A i \in Sales : rows[i] \in SaleRow
MovesTyped(rows) ==
    /\ \A c \in Copies : rows[Received(c)] \in [Products -> Int]
    /\ rows[Deducted] \in [Products -> Nat]
LEMMA NoneIsRow == NoSale \in SaleRow /\ NoSale.fifo = NoUnits /\ NoSale.state = "NONE" /\ ~NoSale.costed
                   /\ NoUnits \in [Sources -> Nat] /\ NoMoves \in [Products -> Int]
                   /\ NoMoves \in [Products -> Nat]
BY DEF NoSale, SaleRow, NoUnits, NoMoves

LEMMA SaleColumns ==
    ASSUME NEW rows, SalesTyped(rows), NEW i \in Sales
    PROVE  /\ rows[i].fifo \in [Sources -> Nat] /\ rows[i].costed \in BOOLEAN
           /\ rows[i].state \in {"NONE", "COMPLETED", "VOIDED"}
BY DEF SalesTyped, SaleRow

\* The units consumed of a batch.
Share(rows, p, c) == [i \in Sales |-> IF ProductOf(i) = p THEN rows[i].fifo[c] ELSE 0]

LEMMA ShareIs ==
    ASSUME NEW rows, SalesTyped(rows), NEW p, NEW c \in Sources
    PROVE  /\ Share(rows, p, c) \in [Sales -> Nat] /\ Share(rows, p, c) \in [Sales -> Int]
           /\ Consumed(rows, p, c) = SumFunction(Share(rows, p, c))
<1>1. \A i \in Sales : rows[i].fifo[c] \in Nat
  BY SaleColumns
<1>2. QED
  BY <1>1 DEF Share, Consumed

LEMMA ConsumedNat ==
    ASSUME NEW rows, SalesTyped(rows), NEW p, NEW c \in Sources
    PROVE  /\ Consumed(rows, p, c) \in Nat
           /\ \A i \in Sales : ProductOf(i) = p => rows[i].fifo[c] <= Consumed(rows, p, c)
<1> DEFINE f == Share(rows, p, c)
<1>1. f \in [Sales -> Nat] /\ Consumed(rows, p, c) = SumFunction(f)
  BY ShareIs
<1>2. \A i \in Sales : ProductOf(i) = p => f[i] = rows[i].fifo[c]
  BY DEF Share
<1> HIDE DEF f
<1>3. SumFunction(f) \in Nat /\ \A i \in Sales : f[i] <= SumFunction(f)
  BY <1>1, Finite, FunctionNat
<1>4. QED
  BY <1>1, <1>2, <1>3

LEMMA ConsumedSame ==
    ASSUME NEW rows, NEW next, \A i \in Sales : next[i].fifo = rows[i].fifo, NEW p, NEW c
    PROVE  Consumed(next, p, c) = Consumed(rows, p, c)
<1>1. [i \in Sales |-> IF ProductOf(i) = p THEN next[i].fifo[c] ELSE 0]
        = [i \in Sales |-> IF ProductOf(i) = p THEN rows[i].fifo[c] ELSE 0]
  OBVIOUS
<1>2. QED
  BY <1>1 DEF Consumed

LEMMA ConsumedChanged ==
    ASSUME NEW rows, NEW next, SalesTyped(rows), SalesTyped(next), NEW p, NEW c \in Sources,
           NEW k \in Sales, \A i \in Sales \ {k} : next[i].fifo = rows[i].fifo
    PROVE  Consumed(next, p, c)
             = IF ProductOf(k) = p THEN Consumed(rows, p, c) - rows[k].fifo[c] + next[k].fifo[c]
               ELSE Consumed(rows, p, c)
<1> DEFINE f == Share(rows, p, c)
           g == Share(next, p, c)
<1>1. /\ f \in [Sales -> Int] /\ Consumed(rows, p, c) = SumFunction(f)
      /\ g \in [Sales -> Int] /\ Consumed(next, p, c) = SumFunction(g)
  BY ShareIs
<1>2. \A i \in Sales : i # k => g[i] = f[i]
  BY DEF Share
<1>3. /\ ProductOf(k) = p => f[k] = rows[k].fifo[c] /\ g[k] = next[k].fifo[c]
      /\ ProductOf(k) # p => f[k] = 0 /\ g[k] = 0
  BY DEF Share
<1> HIDE DEF f, g
<1>4. SumFunction(g) = SumFunction(f) - f[k] + g[k] /\ SumFunction(f) \in Int
  BY <1>1, <1>2, Finite, FunctionChanged
<1>5. QED
  BY <1>1, <1>3, <1>4

LEMMA ConsumedNone ==
    ASSUME NEW rows, \A i \in Sales : rows[i].fifo = NoUnits, NEW p, NEW c \in Sources
    PROVE  Consumed(rows, p, c) = 0
<1> DEFINE f == [i \in Sales |-> IF ProductOf(i) = p THEN rows[i].fifo[c] ELSE 0]
<1>1. f \in [Sales -> Int] /\ \A i \in Sales : f[i] = 0
  BY DEF NoUnits
<1>2. Consumed(rows, p, c) = SumFunction(f)
  BY DEF Consumed
<1> HIDE DEF f
<1>3. QED
  BY <1>1, <1>2, Finite, FunctionZero

\* The units recorded of a product.
LEMMA RecordedSame ==
    ASSUME NEW rows, NEW next, \A i \in Sales : next[i].state = "NONE" <=> rows[i].state = "NONE", NEW p
    PROVE  Recorded(next, p) = Recorded(rows, p)
<1>1. [i \in Sales |-> IF next[i].state # "NONE" /\ ProductOf(i) = p THEN QuantityOf(i) ELSE 0]
        = [i \in Sales |-> IF rows[i].state # "NONE" /\ ProductOf(i) = p THEN QuantityOf(i) ELSE 0]
  OBVIOUS
<1>2. QED
  BY <1>1 DEF Recorded

LEMMA RecordedNat ==
    ASSUME NEW rows, NEW p
    PROVE  /\ Recorded(rows, p) \in Nat
           /\ \A i \in Sales : rows[i].state # "NONE" /\ ProductOf(i) = p => Recorded(rows, p) > 0
<1> DEFINE f == [i \in Sales |-> IF rows[i].state # "NONE" /\ ProductOf(i) = p THEN QuantityOf(i) ELSE 0]
<1>1. f \in [Sales -> Nat]
  BY SaleIs
<1>2. \A i \in Sales : rows[i].state # "NONE" /\ ProductOf(i) = p => f[i] > 0 /\ f[i] \in Nat
  BY SaleIs
<1>3. Recorded(rows, p) = SumFunction(f)
  BY DEF Recorded
<1> HIDE DEF f
<1>4. SumFunction(f) \in Nat /\ \A i \in Sales : f[i] <= SumFunction(f)
  BY <1>1, Finite, FunctionNat
<1>5. QED
  BY <1>2, <1>3, <1>4

LEMMA RecordedNone ==
    ASSUME NEW rows, \A i \in Sales : rows[i].state = "NONE", NEW p
    PROVE  Recorded(rows, p) = 0
<1> DEFINE f == [i \in Sales |-> IF rows[i].state # "NONE" /\ ProductOf(i) = p THEN QuantityOf(i) ELSE 0]
<1>1. f \in [Sales -> Int] /\ \A i \in Sales : f[i] = 0
  OBVIOUS
<1>2. Recorded(rows, p) = SumFunction(f)
  BY DEF Recorded
<1> HIDE DEF f
<1>3. QED
  BY <1>1, <1>2, Finite, FunctionZero

\* The movements of a product.
Arrivals(rows, p) == [c \in Copies |-> rows[Received(c)][p]]

LEMMA MovedIs ==
    ASSUME NEW rows, MovesTyped(rows), NEW p \in Products
    PROVE  /\ Arrivals(rows, p) \in [Copies -> Int] /\ SumFunction(Arrivals(rows, p)) \in Int
           /\ rows[Deducted][p] \in Nat
           /\ Moved(rows, p) = SumFunction(Arrivals(rows, p)) - rows[Deducted][p]
           /\ Moved(rows, p) \in Int
<1>1. \A c \in Copies : rows[Received(c)][p] \in Int
  BY DEF MovesTyped
<1>2. Arrivals(rows, p) \in [Copies -> Int]
  BY <1>1 DEF Arrivals
<1>3. SumFunction(Arrivals(rows, p)) \in Int
  BY <1>2, Finite, FunctionInt
<1>4. rows[Deducted][p] \in Nat
  BY DEF MovesTyped
<1>5. Moved(rows, p) = SumFunction(Arrivals(rows, p)) - rows[Deducted][p]
  BY DEF Moved, Arrivals
<1> HIDE DEF Moved
<1>6. QED
  BY <1>2, <1>3, <1>4, <1>5

LEMMA MovedSame ==
    ASSUME NEW rows, NEW next, NEW p, \A c \in Copies : next[Received(c)] = rows[Received(c)],
           next[Deducted] = rows[Deducted]
    PROVE  Moved(next, p) = Moved(rows, p)
<1>1. [c \in Copies |-> next[Received(c)][p]] = [c \in Copies |-> rows[Received(c)][p]]
  OBVIOUS
<1>2. QED
  BY <1>1 DEF Moved

LEMMA MovedDeducted ==
    ASSUME NEW rows, NEW next, NEW p \in Products, MovesTyped(rows), MovesTyped(next),
           \A c \in Copies : next[Received(c)] = rows[Received(c)]
    PROVE  Moved(next, p) = Moved(rows, p) + rows[Deducted][p] - next[Deducted][p]
<1>1. Arrivals(next, p) = Arrivals(rows, p)
  BY DEF Arrivals
<1>2. QED
  BY <1>1, MovedIs

LEMMA MovedReceived ==
    ASSUME NEW rows, NEW next, NEW p \in Products, MovesTyped(rows), MovesTyped(next), NEW c \in Copies,
           \A d \in Copies \ {c} : next[Received(d)] = rows[Received(d)],
           next[Deducted] = rows[Deducted]
    PROVE  Moved(next, p) = Moved(rows, p) - rows[Received(c)][p] + next[Received(c)][p]
<1> DEFINE f == Arrivals(rows, p)
           g == Arrivals(next, p)
<1>1. /\ f \in [Copies -> Int] /\ g \in [Copies -> Int]
      /\ Moved(rows, p) = SumFunction(f) - rows[Deducted][p]
      /\ Moved(next, p) = SumFunction(g) - rows[Deducted][p]
      /\ rows[Deducted][p] \in Nat
  BY MovedIs
<1>2. /\ \A d \in Copies : d # c => g[d] = f[d]
      /\ f[c] = rows[Received(c)][p] /\ g[c] = next[Received(c)][p]
  BY DEF Arrivals
<1> HIDE DEF f, g
<1>3. SumFunction(g) = SumFunction(f) - f[c] + g[c] /\ SumFunction(f) \in Int
  BY <1>1, <1>2, Finite, FunctionChanged
<1>4. f[c] \in Int /\ g[c] \in Int
  BY <1>1
<1>5. QED
  BY <1>1, <1>2, <1>3, <1>4

LEMMA MovedNone ==
    ASSUME NEW rows, NEW p \in Products, \A c \in Copies : rows[Received(c)] = NoMoves,
           rows[Deducted] = NoMoves
    PROVE  Moved(rows, p) = 0
<1> DEFINE f == [c \in Copies |-> rows[Received(c)][p]]
<1>1. f \in [Copies -> Int] /\ \A c \in Copies : f[c] = 0
  BY DEF NoMoves
<1>2. Moved(rows, p) = SumFunction(f) - rows[Deducted][p]
  BY DEF Moved
<1> HIDE DEF f
<1>3. SumFunction(f) = 0
  BY <1>1, Finite, FunctionZero
<1>4. rows[Deducted][p] = 0
  BY DEF NoMoves
<1>5. QED
  BY <1>2, <1>3, <1>4
------------------------------------------------------------------------------
(* The books that a complete set of rows keeps.                            *)

\* What is on hand is what was there, what the shop moved and what the import
\* and its recomputes moved.
StockBook(rows, liv) ==
    /\ MovesTyped(rows)
    /\ \A p \in Products : /\ rows[Stock(p)] \in Nat \cup {Missing}
                           /\ p \in Deduped => rows[Stock(p)] # Missing
                           /\ OnHand(rows, p) = Opened(p) + liv[p] + Moved(rows, p)

\* What is left of a batch and what was costed from it is what it held.
BatchBook(rows, led) ==
    /\ SalesTyped(rows)
    /\ \A p \in Products : rows[Batch(p, 0)] # Missing <=> p \in Deduped
    /\ \A p \in Products, c \in Sources :
          /\ rows[Batch(p, c)] \in Nat \cup {Missing}
          /\ rows[Batch(p, c)] = Missing => led[p][c] = 0 /\ Consumed(rows, p, c) = 0
          /\ rows[Batch(p, c)] # Missing =>
                rows[Batch(p, c)] + led[p][c] + Consumed(rows, p, c) = Filled(p, c)

\* A copy is there with its order; without any copy there is nothing imported.
CopyBook(rows) ==
    /\ \A c \in Copies :
          /\ rows[Order(c)] \in [there : BOOLEAN, paid : BOOLEAN]
          /\ ~rows[Order(c)].there =>
                /\ \A s \in SaleIds : rows[Sale(c, s)] = NoSale
                /\ rows[Received(c)] = NoMoves
                /\ \A p \in Products : rows[Batch(p, c)] = Missing
    /\ (\A c \in Copies : ~rows[Order(c)].there) =>
          /\ rows[Deducted] = NoMoves
          /\ \A p \in Created : rows[Stock(p)] = Missing

\* A costed sale's product has been deducted, and once only.
SaleBook(rows, once) ==
    /\ \A i \in Sales : /\ rows[i].costed => rows[Deducted][ProductOf(i)] > 0
                        /\ ~rows[i].costed => rows[i].fifo = NoUnits
    /\ once => \A p \in Products : rows[Deducted][p] \in {0, Recorded(rows, p)}

Books(rows, once, led, liv) ==
    /\ DOMAIN rows = RowIds
    /\ StockBook(rows, liv)
    /\ BatchBook(rows, led)
    /\ CopyBook(rows)
    /\ SaleBook(rows, once)

MovesInt(liv) == DOMAIN liv = Products /\ \A p \in Products : liv[p] \in Int
UnitsNat(led) == DOMAIN led = Products /\ \A p \in Products, c \in Sources : led[p][c] \in Nat

LEMMA StockSame ==
    ASSUME NEW rows, NEW next, NEW liv, StockBook(rows, liv),
           \A p \in Products : next[Stock(p)] = rows[Stock(p)],
           \A c \in Copies : next[Received(c)] = rows[Received(c)],
           next[Deducted] = rows[Deducted]
    PROVE  StockBook(next, liv)
<1>1. MovesTyped(next)
  BY DEF StockBook, MovesTyped
<1>2. \A p \in Products : Moved(next, p) = Moved(rows, p) /\ OnHand(next, p) = OnHand(rows, p)
  BY MovedSame DEF OnHand
<1>3. QED
  BY <1>1, <1>2 DEF StockBook

\* The shop moves k units of a product.
ShopMoved(rows, next, liv, liv2, p, k) ==
    /\ rows[Stock(p)] # Missing /\ next[Stock(p)] = rows[Stock(p)] + k /\ next[Stock(p)] \in Nat
    /\ liv2[p] = liv[p] + k
    /\ \A q \in Products \ {p} : next[Stock(q)] = rows[Stock(q)] /\ liv2[q] = liv[q]
    /\ \A c \in Copies : next[Received(c)] = rows[Received(c)]
    /\ next[Deducted] = rows[Deducted]

LEMMA StockMoved ==
    ASSUME NEW rows, NEW next, NEW liv, NEW liv2, NEW p \in Products, NEW k \in Int,
           StockBook(rows, liv), MovesInt(liv),
           ShopMoved(rows, next, liv, liv2, p, k)
    PROVE  StockBook(next, liv2)
<1>0. /\ rows[Stock(p)] # Missing /\ next[Stock(p)] = rows[Stock(p)] + k /\ next[Stock(p)] \in Nat
      /\ liv2[p] = liv[p] + k
      /\ \A q \in Products \ {p} : next[Stock(q)] = rows[Stock(q)] /\ liv2[q] = liv[q]
      /\ \A c \in Copies : next[Received(c)] = rows[Received(c)]
      /\ next[Deducted] = rows[Deducted]
  BY DEF ShopMoved
<1>1. MovesTyped(next) /\ MovesTyped(rows)
  BY <1>0 DEF StockBook, MovesTyped
<1>2. \A q \in Products : Moved(next, q) = Moved(rows, q) /\ Moved(rows, q) \in Int /\ Opened(q) \in Int
  BY <1>0, <1>1, MovedSame, MovedIs, ImportAssumption DEF Opened
<1>3. \A q \in Products \ {p} : OnHand(next, q) = OnHand(rows, q)
  BY <1>0 DEF OnHand
<1>4. Missing \notin Nat
  BY DEF Missing
<1>5. OnHand(next, p) = rows[Stock(p)] + k /\ OnHand(rows, p) = rows[Stock(p)] /\ rows[Stock(p)] \in Nat
  BY <1>0, <1>4 DEF OnHand, StockBook
<1>6. OnHand(rows, p) = Opened(p) + liv[p] + Moved(rows, p) /\ liv[p] \in Int
  BY DEF StockBook, MovesInt
<1>7. OnHand(next, p) = Opened(p) + liv2[p] + Moved(next, p)
  BY <1>0, <1>2, <1>5, <1>6
<1>8. \A q \in Products \ {p} : /\ next[Stock(q)] \in Nat \cup {Missing}
                                /\ q \in Deduped => next[Stock(q)] # Missing
                                /\ OnHand(next, q) = Opened(q) + liv2[q] + Moved(next, q)
  BY <1>0, <1>2, <1>3 DEF StockBook
<1>9. next[Stock(p)] # Missing
  BY <1>0, <1>4
<1>10. QED
  BY <1>0, <1>1, <1>7, <1>8, <1>9 DEF StockBook

\* A recompute deducts these units of these products.
ImportDeducted(rows, next, done, units) ==
    /\ \A p \in done : /\ units[p] \in Nat /\ rows[Stock(p)] >= units[p]
                       /\ rows[Stock(p)] \in Nat /\ next[Stock(p)] = rows[Stock(p)] - units[p]
                       /\ rows[Deducted][p] = 0 /\ next[Deducted][p] = units[p]
    /\ \A p \in Products \ done : next[Stock(p)] = rows[Stock(p)]
                                 /\ next[Deducted][p] = rows[Deducted][p]
    /\ \A c \in Copies : next[Received(c)] = rows[Received(c)]

LEMMA StockDeducted ==
    ASSUME NEW rows, NEW next, NEW liv, NEW done \in SUBSET Products, NEW units,
           StockBook(rows, liv), MovesInt(liv), MovesTyped(next),
           ImportDeducted(rows, next, done, units)
    PROVE  StockBook(next, liv)
<1>0. /\ \A p \in done : /\ units[p] \in Nat /\ rows[Stock(p)] >= units[p]
                         /\ rows[Stock(p)] \in Nat /\ next[Stock(p)] = rows[Stock(p)] - units[p]
                         /\ rows[Deducted][p] = 0 /\ next[Deducted][p] = units[p]
      /\ \A p \in Products \ done : next[Stock(p)] = rows[Stock(p)]
                                   /\ next[Deducted][p] = rows[Deducted][p]
      /\ \A c \in Copies : next[Received(c)] = rows[Received(c)]
  BY DEF ImportDeducted
<1>1. MovesTyped(rows) /\ Missing \notin Nat
  BY DEF StockBook, Missing
<1>2. \A p \in Products : /\ Moved(next, p) = Moved(rows, p) + rows[Deducted][p] - next[Deducted][p]
                          /\ Moved(rows, p) \in Int /\ rows[Deducted][p] \in Nat /\ next[Deducted][p] \in Nat
  BY <1>0, <1>1, MovedIs, MovedDeducted
<1>3. \A p \in Products : liv[p] \in Int /\ Opened(p) \in Int
  BY ImportAssumption DEF MovesInt, Opened
<1>4. ASSUME NEW p \in Products
      PROVE  /\ next[Stock(p)] \in Nat \cup {Missing}
             /\ p \in Deduped => next[Stock(p)] # Missing
             /\ OnHand(next, p) = Opened(p) + liv[p] + Moved(next, p)
  <2>1. /\ rows[Stock(p)] \in Nat \cup {Missing}
        /\ p \in Deduped => rows[Stock(p)] # Missing
        /\ OnHand(rows, p) = Opened(p) + liv[p] + Moved(rows, p)
    BY <1>4 DEF StockBook
  <2>2. CASE p \notin done
    <3>1. Moved(next, p) = Moved(rows, p)
      BY <1>0, <1>2, <2>2
    <3>2. QED
      BY <1>0, <2>1, <2>2, <3>1 DEF OnHand
  <2>3. CASE p \in done
    <3>1. next[Stock(p)] \in Nat
      BY <1>0, <2>3
    <3>2. OnHand(next, p) = rows[Stock(p)] - units[p] /\ OnHand(rows, p) = rows[Stock(p)]
      BY <1>0, <1>1, <2>3, <3>1 DEF OnHand
    <3>3. Moved(next, p) = Moved(rows, p) - units[p]
      BY <1>0, <1>2, <2>3
    <3>4. QED
      BY <1>0, <1>1, <1>2, <1>3, <2>1, <2>3, <3>1, <3>2, <3>3
  <2>4. QED
    BY <2>2, <2>3
<1>5. QED
  BY <1>4 DEF StockBook

LEMMA BatchSame ==
    ASSUME NEW rows, NEW next, NEW led, BatchBook(rows, led), SalesTyped(next),
           \A p \in Products, c \in Sources : next[Batch(p, c)] = rows[Batch(p, c)],
           \A i \in Sales : next[i].fifo = rows[i].fifo
    PROVE  BatchBook(next, led)
<1>1. \A p, c : Consumed(next, p, c) = Consumed(rows, p, c)
  BY ConsumedSame
<1>2. 0 \in Sources
  BY DEF Sources
<1>3. QED
  BY <1>1, <1>2 DEF BatchBook

\* Units of the shop's own sales leave the batches of a product.
ShopTook(rows, next, led, led2, p, gone) ==
    /\ \A i \in Sales : next[i] = rows[i]
    /\ \A q \in Products \ {p}, c \in Sources :
          next[Batch(q, c)] = rows[Batch(q, c)] /\ led2[q][c] = led[q][c]
    /\ \A c \in Sources : /\ led2[p][c] = led[p][c] + gone[c]
                          /\ gone[c] > 0 => rows[Batch(p, c)] >= gone[c]
                          /\ next[Batch(p, c)] = rows[Batch(p, c)] - gone[c]

LEMMA BatchTaken ==
    ASSUME NEW rows, NEW next, NEW led, NEW led2, NEW p \in Products, NEW gone \in [Sources -> Nat],
           BatchBook(rows, led), UnitsNat(led), ShopTook(rows, next, led, led2, p, gone)
    PROVE  BatchBook(next, led2)
<1>0. /\ \A i \in Sales : next[i] = rows[i]
      /\ \A q \in Products \ {p}, c \in Sources :
            next[Batch(q, c)] = rows[Batch(q, c)] /\ led2[q][c] = led[q][c]
      /\ \A c \in Sources : /\ led2[p][c] = led[p][c] + gone[c]
                            /\ gone[c] > 0 => rows[Batch(p, c)] >= gone[c]
                            /\ next[Batch(p, c)] = rows[Batch(p, c)] - gone[c]
  BY DEF ShopTook
<1>1. \A q, c : Consumed(next, q, c) = Consumed(rows, q, c)
  BY <1>0, ConsumedSame
<1>2. SalesTyped(next) /\ SalesTyped(rows) /\ Missing = 0 - 1 /\ 0 \in Sources
  BY <1>0 DEF BatchBook, SalesTyped, Missing, Sources
<1>3. ASSUME NEW c \in Sources
      PROVE  /\ next[Batch(p, c)] \in Nat \cup {Missing}
             /\ next[Batch(p, c)] = Missing <=> rows[Batch(p, c)] = Missing
             /\ next[Batch(p, c)] = Missing => led2[p][c] = 0 /\ Consumed(next, p, c) = 0
             /\ next[Batch(p, c)] # Missing =>
                   next[Batch(p, c)] + led2[p][c] + Consumed(next, p, c) = Filled(p, c)
  <2>1. /\ rows[Batch(p, c)] \in Nat \cup {Missing}
        /\ rows[Batch(p, c)] = Missing => led[p][c] = 0 /\ Consumed(rows, p, c) = 0
        /\ rows[Batch(p, c)] # Missing => rows[Batch(p, c)] + led[p][c] + Consumed(rows, p, c) = Filled(p, c)
    BY DEF BatchBook
  <2>2. gone[c] \in Nat /\ led[p][c] \in Nat /\ Consumed(rows, p, c) \in Nat
    BY <1>2, ConsumedNat DEF UnitsNat
  <2>3. CASE rows[Batch(p, c)] = Missing
    <3>1. gone[c] = 0
      BY <1>0, <1>2, <2>2, <2>3
    <3>2. QED
      BY <1>0, <1>1, <1>2, <2>1, <2>2, <2>3, <3>1
  <2>4. CASE rows[Batch(p, c)] # Missing
    <3>1. rows[Batch(p, c)] \in Nat /\ rows[Batch(p, c)] >= gone[c]
      BY <1>0, <2>1, <2>2, <2>4
    <3>2. next[Batch(p, c)] \in Nat /\ next[Batch(p, c)] # Missing
      BY <1>0, <1>2, <2>2, <3>1
    <3>3. next[Batch(p, c)] + led2[p][c] + Consumed(rows, p, c)
            = rows[Batch(p, c)] + led[p][c] + Consumed(rows, p, c)
      BY <1>0, <2>2, <3>1
    <3>4. QED
      BY <1>1, <2>1, <2>4, <3>2, <3>3
  <2>5. QED
    BY <2>3, <2>4
<1>4. QED
  BY <1>0, <1>1, <1>2, <1>3 DEF BatchBook

\* Units move between the batches of a product and one imported sale of it.
LEMMA BatchCosted ==
    ASSUME NEW rows, NEW next, NEW led, NEW k \in Sales,
           BatchBook(rows, led), UnitsNat(led), SalesTyped(next),
           \A i \in Sales \ {k} : next[i].fifo = rows[i].fifo,
           \A q \in Products \ {ProductOf(k)}, c \in Sources : next[Batch(q, c)] = rows[Batch(q, c)],
           \A c \in Sources :
              /\ next[Batch(ProductOf(k), c)]
                   = rows[Batch(ProductOf(k), c)] + rows[k].fifo[c] - next[k].fifo[c]
              /\ rows[k].fifo[c] # next[k].fifo[c] =>
                    rows[Batch(ProductOf(k), c)] # Missing /\ next[Batch(ProductOf(k), c)] \in Nat
    PROVE  BatchBook(next, led)
<1> DEFINE p == ProductOf(k)
<1>1. SalesTyped(rows) /\ Missing = 0 - 1 /\ 0 \in Sources /\ p \in Products
  BY SaleIs DEF BatchBook, Missing, Sources
<1>2. \A q \in Products \ {p}, c \in Sources : Consumed(next, q, c) = Consumed(rows, q, c)
  BY <1>1, ConsumedChanged
<1>3. ASSUME NEW c \in Sources
      PROVE  /\ next[Batch(p, c)] \in Nat \cup {Missing}
             /\ next[Batch(p, c)] = Missing <=> rows[Batch(p, c)] = Missing
             /\ next[Batch(p, c)] = Missing => led[p][c] = 0 /\ Consumed(next, p, c) = 0
             /\ next[Batch(p, c)] # Missing =>
                   next[Batch(p, c)] + led[p][c] + Consumed(next, p, c) = Filled(p, c)
  <2> DEFINE b == Batch(p, c)
             was == rows[k].fifo[c]
             is == next[k].fifo[c]
  <2>1. /\ rows[b] \in Nat \cup {Missing}
        /\ rows[b] = Missing => led[p][c] = 0 /\ Consumed(rows, p, c) = 0
        /\ rows[b] # Missing => rows[b] + led[p][c] + Consumed(rows, p, c) = Filled(p, c)
    BY <1>1 DEF BatchBook
  <2>2. /\ was \in Nat /\ is \in Nat /\ led[p][c] \in Nat
        /\ Consumed(rows, p, c) \in Nat /\ Consumed(next, p, c) \in Nat
    BY <1>1, ConsumedNat, SaleColumns DEF UnitsNat
  <2>3. Consumed(next, p, c) = Consumed(rows, p, c) - was + is
    BY <1>1, ConsumedChanged
  <2>4. /\ next[b] = rows[b] + was - is
        /\ was # is => rows[b] # Missing /\ next[b] \in Nat
    OBVIOUS
  <2> HIDE DEF b, was, is
  <2>5. CASE rows[b] = Missing
    <3>1. was = is /\ next[b] = rows[b]
      BY <1>1, <2>2, <2>4, <2>5
    <3>2. Consumed(next, p, c) = Consumed(rows, p, c)
      BY <2>2, <2>3, <3>1
    <3>3. QED
      BY <2>1, <2>5, <3>1, <3>2 DEF b
  <2>6. CASE rows[b] # Missing
    <3>1. rows[b] \in Nat
      BY <2>1, <2>6
    <3>2. next[b] \in Nat /\ next[b] # Missing
      BY <1>1, <2>2, <2>4, <3>1
    <3>3. next[b] + led[p][c] + Consumed(next, p, c) = rows[b] + led[p][c] + Consumed(rows, p, c)
      BY <2>2, <2>3, <2>4, <3>1
    <3>4. QED
      BY <2>1, <2>6, <3>2, <3>3 DEF b
  <2>7. QED
    BY <2>5, <2>6
<1>4. QED
  BY <1>1, <1>2, <1>3 DEF BatchBook

LEMMA CopySame ==
    ASSUME NEW rows, NEW next, CopyBook(rows),
           \A c \in Copies :
              /\ next[Order(c)] \in [there : BOOLEAN, paid : BOOLEAN]
              /\ next[Order(c)].there <=> rows[Order(c)].there
              /\ ~rows[Order(c)].there =>
                    /\ \A s \in SaleIds : next[Sale(c, s)] = rows[Sale(c, s)]
                    /\ next[Received(c)] = rows[Received(c)]
                    /\ \A p \in Products : next[Batch(p, c)] = rows[Batch(p, c)],
           (\A c \in Copies : ~rows[Order(c)].there) =>
              /\ next[Deducted] = rows[Deducted]
              /\ \A p \in Created : next[Stock(p)] = rows[Stock(p)]
    PROVE  CopyBook(next)
BY DEF CopyBook

LEMMA SaleSame ==
    ASSUME NEW rows, NEW next, NEW once, SaleBook(rows, once), next[Deducted] = rows[Deducted],
           \A i \in Sales : /\ next[i].costed <=> rows[i].costed
                            /\ ~rows[i].costed => next[i].fifo = NoUnits
                            /\ next[i].state = "NONE" <=> rows[i].state = "NONE"
    PROVE  SaleBook(next, once)
<1>1. \A p : Recorded(next, p) = Recorded(rows, p)
  BY RecordedSame
<1>2. QED
  BY <1>1 DEF SaleBook

\* The job's row and an order's payment are in no book.
LEMMA BooksAlike ==
    ASSUME NEW rows, NEW next, NEW once, NEW led, NEW liv, Books(rows, once, led, liv),
           DOMAIN next = RowIds,
           \A i \in RowIds : i # Job /\ i[1] # "order" => next[i] = rows[i],
           \A c \in Copies : /\ next[Order(c)] \in [there : BOOLEAN, paid : BOOLEAN]
                             /\ next[Order(c)].there <=> rows[Order(c)].there
    PROVE  Books(next, once, led, liv)
<1>1. /\ \A p \in Products : next[Stock(p)] = rows[Stock(p)]
      /\ \A p \in Products, c \in Sources : next[Batch(p, c)] = rows[Batch(p, c)]
      /\ \A c \in Copies : next[Received(c)] = rows[Received(c)]
      /\ next[Deducted] = rows[Deducted]
  BY Ids, Tables
<1>2. \A i \in Sales : next[i] = rows[i]
  BY Ids, Tables, SaleIs
<1>3. SalesTyped(next)
  BY <1>2 DEF Books, BatchBook, SalesTyped
<1>4. StockBook(next, liv)
  BY <1>1, StockSame DEF Books
<1>5. BatchBook(next, led)
  BY <1>1, <1>2, <1>3, BatchSame DEF Books
<1>6. SaleBook(next, once)
  <2>1. \A i \in Sales : ~rows[i].costed => next[i].fifo = NoUnits
    BY <1>2 DEF Books, SaleBook
  <2>2. QED
    BY <1>1, <1>2, <2>1, SaleSame DEF Books
<1>7. CopyBook(next)
  <2>1. \A c \in Copies, s \in SaleIds : next[Sale(c, s)] = rows[Sale(c, s)]
    BY <1>2, Ids
  <2>2. \A p \in Products, c \in Copies : next[Batch(p, c)] = rows[Batch(p, c)]
    BY <1>1 DEF Sources
  <2>3. \A p \in Created : next[Stock(p)] = rows[Stock(p)]
    BY <1>1 DEF Products
  <2>4. QED
    BY <1>1, <2>1, <2>2, <2>3, CopySame DEF Books
<1>8. QED
  BY <1>4, <1>5, <1>6, <1>7 DEF Books

\* Where there is stock of a created product, a copy is there.
LEMMA StockOfCopy ==
    ASSUME NEW rows, CopyBook(rows), NEW p \in Created, rows[Stock(p)] # Missing
    PROVE  \E c \in Copies : rows[Order(c)].there
BY DEF CopyBook

\* A sale of the shop's own, of one unit.
Sold(rows, next, led, liv, led2, liv2, p, gone) ==
    /\ DOMAIN next = RowIds
    /\ \A i \in RowIds : i # Stock(p) /\ (\A c \in Sources : i # Batch(p, c)) => next[i] = rows[i]
    /\ rows[Stock(p)] # Missing /\ rows[Stock(p)] > 0 /\ next[Stock(p)] = rows[Stock(p)] - 1
    /\ \A c \in Sources : /\ gone[c] > 0 => rows[Batch(p, c)] >= gone[c]
                          /\ next[Batch(p, c)] = rows[Batch(p, c)] - gone[c]
    /\ \A q \in Products : liv2[q] = IF q = p THEN liv[q] - 1 ELSE liv[q]
    /\ \A q \in Products, c \in Sources :
          led2[q][c] = IF q = p THEN led[q][c] + gone[c] ELSE led[q][c]

LEMMA SellBooks ==
    ASSUME NEW rows, NEW next, NEW once, NEW led, NEW liv, NEW led2, NEW liv2,
           NEW p \in Products, NEW gone \in [Sources -> Nat],
           Books(rows, once, led, liv), UnitsNat(led), MovesInt(liv),
           Sold(rows, next, led, liv, led2, liv2, p, gone)
    PROVE  Books(next, once, led2, liv2)
<1>a. /\ DOMAIN next = RowIds
      /\ \A i \in RowIds : i # Stock(p) /\ (\A c \in Sources : i # Batch(p, c)) => next[i] = rows[i]
      /\ rows[Stock(p)] # Missing /\ rows[Stock(p)] > 0 /\ next[Stock(p)] = rows[Stock(p)] - 1
      /\ \A c \in Sources : /\ gone[c] > 0 => rows[Batch(p, c)] >= gone[c]
                            /\ next[Batch(p, c)] = rows[Batch(p, c)] - gone[c]
      /\ \A q \in Products : liv2[q] = IF q = p THEN liv[q] - 1 ELSE liv[q]
      /\ \A q \in Products, c \in Sources :
            led2[q][c] = IF q = p THEN led[q][c] + gone[c] ELSE led[q][c]
  BY DEF Sold
<1>1. /\ \A q \in Products \ {p} : next[Stock(q)] = rows[Stock(q)]
      /\ \A q \in Products \ {p}, c \in Sources : next[Batch(q, c)] = rows[Batch(q, c)]
      /\ \A c \in Copies : next[Received(c)] = rows[Received(c)] /\ next[Order(c)] = rows[Order(c)]
      /\ next[Deducted] = rows[Deducted]
  BY <1>a, Ids, Tables
<1>2. \A i \in Sales : next[i] = rows[i]
  BY <1>a, Ids, Tables, SaleIs
<1>3. rows[Stock(p)] \in Nat /\ Missing = 0 - 1
  BY <1>a DEF Books, StockBook, Missing
<1>4. StockBook(next, liv2)
  <2>1. /\ next[Stock(p)] = rows[Stock(p)] + (-1) /\ next[Stock(p)] \in Nat
        /\ liv2[p] = liv[p] + (-1) /\ -1 \in Int
    BY <1>a, <1>3 DEF MovesInt
  <2>2. \A q \in Products \ {p} : liv2[q] = liv[q]
    BY <1>a
  <2>3. StockBook(rows, liv)
    BY DEF Books
  <2>4. rows[Stock(p)] # Missing
    BY <1>a
  <2>5. ShopMoved(rows, next, liv, liv2, p, -1)
    BY <1>1, <2>1, <2>2, <2>4 DEF ShopMoved
  <2>6. QED
    BY <2>1, <2>3, <2>5, StockMoved
<1>5. BatchBook(next, led2)
  <2>1. BatchBook(rows, led)
    BY DEF Books
  <2>2. \A q \in Products \ {p}, c \in Sources :
           next[Batch(q, c)] = rows[Batch(q, c)] /\ led2[q][c] = led[q][c]
    BY <1>a, <1>1
  <2>3. \A c \in Sources : /\ led2[p][c] = led[p][c] + gone[c]
                           /\ gone[c] > 0 => rows[Batch(p, c)] >= gone[c]
                           /\ next[Batch(p, c)] = rows[Batch(p, c)] - gone[c]
    BY <1>a
  <2>4. ShopTook(rows, next, led, led2, p, gone)
    BY <1>2, <2>2, <2>3 DEF ShopTook
  <2>5. QED
    BY <2>1, <2>4, BatchTaken
<1>6. SaleBook(next, once)
  <2>1. \A i \in Sales : ~rows[i].costed => next[i].fifo = NoUnits
    BY <1>2 DEF Books, SaleBook
  <2>2. QED
    BY <1>1, <1>2, <2>1, SaleSame DEF Books
<1>7. CopyBook(next)
  <2>1. \A c \in Copies, s \in SaleIds : next[Sale(c, s)] = rows[Sale(c, s)]
    BY <1>2, Ids
  <2>2. CopyBook(rows)
    BY DEF Books
  <2>3. ASSUME NEW c \in Copies, ~rows[Order(c)].there, NEW q \in Products
        PROVE  next[Batch(q, c)] = rows[Batch(q, c)]
    <3>1. c \in Sources /\ rows[Batch(q, c)] = Missing
      BY <2>2, <2>3 DEF CopyBook, Sources
    <3>2. CASE q # p
      BY <1>1, <3>1, <3>2
    <3>3. CASE q = p
      <4>1. gone[c] \in Nat
        BY <3>1
      <4>2. gone[c] = 0
        BY <1>a, <1>3, <3>1, <3>3, <4>1
      <4>3. QED
        BY <1>a, <1>3, <3>1, <3>3, <4>2
    <3>4. QED
      BY <3>2, <3>3
  <2>4. ASSUME \A c \in Copies : ~rows[Order(c)].there, NEW q \in Created
        PROVE  next[Stock(q)] = rows[Stock(q)]
    BY <1>a, <1>1, <2>2, <2>4, StockOfCopy DEF Products
  <2>5. \A c \in Copies : next[Order(c)] \in [there : BOOLEAN, paid : BOOLEAN]
    BY <1>1, <2>2 DEF CopyBook
  <2>6. QED
    BY <1>1, <2>1, <2>2, <2>3, <2>4, <2>5, CopySame
<1>8. QED
  BY <1>a, <1>4, <1>5, <1>6, <1>7 DEF Books

\* An adjustment by the shop.
Restocked(rows, next, liv, liv2, p, k) ==
    /\ DOMAIN next = RowIds
    /\ \A i \in RowIds : i # Stock(p) => next[i] = rows[i]
    /\ rows[Stock(p)] # Missing /\ next[Stock(p)] = rows[Stock(p)] + k /\ next[Stock(p)] \in Nat
    /\ \A q \in Products : liv2[q] = IF q = p THEN liv[q] + k ELSE liv[q]

LEMMA RestockBooks ==
    ASSUME NEW rows, NEW next, NEW once, NEW led, NEW liv, NEW liv2,
           NEW p \in Products, NEW k \in Int,
           Books(rows, once, led, liv), MovesInt(liv), Restocked(rows, next, liv, liv2, p, k)
    PROVE  Books(next, once, led, liv2)
<1>a. /\ DOMAIN next = RowIds
      /\ \A i \in RowIds : i # Stock(p) => next[i] = rows[i]
      /\ rows[Stock(p)] # Missing /\ next[Stock(p)] = rows[Stock(p)] + k /\ next[Stock(p)] \in Nat
      /\ \A q \in Products : liv2[q] = IF q = p THEN liv[q] + k ELSE liv[q]
  BY DEF Restocked
<1>1. /\ \A q \in Products \ {p} : next[Stock(q)] = rows[Stock(q)]
      /\ \A q \in Products, c \in Sources : next[Batch(q, c)] = rows[Batch(q, c)]
      /\ \A c \in Copies : next[Received(c)] = rows[Received(c)] /\ next[Order(c)] = rows[Order(c)]
      /\ next[Deducted] = rows[Deducted]
  BY <1>a, Ids, Tables
<1>2. \A i \in Sales : next[i] = rows[i]
  BY <1>a, Ids, Tables, SaleIs
<1>3. SalesTyped(next)
  BY <1>2 DEF Books, BatchBook, SalesTyped
<1>4. StockBook(next, liv2)
  <2>1. liv2[p] = liv[p] + k
    BY <1>a
  <2>2. \A q \in Products \ {p} : next[Stock(q)] = rows[Stock(q)] /\ liv2[q] = liv[q]
    BY <1>a, <1>1
  <2>3. StockBook(rows, liv)
    BY DEF Books
  <2>4. /\ \A c \in Copies : next[Received(c)] = rows[Received(c)]
        /\ next[Deducted] = rows[Deducted]
    BY <1>1
  <2>5. /\ rows[Stock(p)] # Missing /\ next[Stock(p)] = rows[Stock(p)] + k /\ next[Stock(p)] \in Nat
    BY <1>a
  <2>6. ShopMoved(rows, next, liv, liv2, p, k)
    BY <2>1, <2>2, <2>4, <2>5 DEF ShopMoved
  <2>7. QED
    BY <2>3, <2>6, StockMoved
<1>5. BatchBook(next, led)
  BY <1>1, <1>2, <1>3, BatchSame DEF Books
<1>6. SaleBook(next, once)
  <2>1. \A i \in Sales : ~rows[i].costed => next[i].fifo = NoUnits
    BY <1>2 DEF Books, SaleBook
  <2>2. QED
    BY <1>1, <1>2, <2>1, SaleSame DEF Books
<1>7. CopyBook(next)
  <2>1. \A c \in Copies, s \in SaleIds : next[Sale(c, s)] = rows[Sale(c, s)]
    BY <1>2, Ids
  <2>2. CopyBook(rows)
    BY DEF Books
  <2>3. \A c \in Copies, q \in Products : next[Batch(q, c)] = rows[Batch(q, c)]
    BY <1>1 DEF Sources
  <2>4. ASSUME \A c \in Copies : ~rows[Order(c)].there, NEW q \in Created
        PROVE  next[Stock(q)] = rows[Stock(q)]
    BY <1>a, <1>1, <2>2, <2>4, StockOfCopy DEF Products
  <2>5. \A c \in Copies : next[Order(c)] \in [there : BOOLEAN, paid : BOOLEAN]
    BY <1>1, <2>2 DEF CopyBook
  <2>6. QED
    BY <1>1, <2>1, <2>2, <2>3, <2>4, <2>5, CopySame
<1>8. QED
  BY <1>a, <1>4, <1>5, <1>6, <1>7 DEF Books

\* A sale that is there is of a copy that is there.
LEMMA SaleOfCopy ==
    ASSUME NEW rows, CopyBook(rows), NEW c \in Copies, NEW s \in SaleIds, rows[Sale(c, s)].state # "NONE"
    PROVE  rows[Order(c)].there
BY NoneIsRow DEF CopyBook

\* A void of an imported sale.
Voided(rows, next, liv, liv2, k) ==
    /\ DOMAIN next = RowIds
    /\ rows[k].state = "COMPLETED"
    /\ next[k] = [rows[k] EXCEPT !.state = "VOIDED", !.fifo = NoUnits]
    /\ \A i \in RowIds : /\ i # Stock(ProductOf(k)) /\ i # k
                         /\ \A d \in Sources : i # Batch(ProductOf(k), d)
                         => next[i] = rows[i]
    /\ rows[Stock(ProductOf(k))] # Missing
    /\ next[Stock(ProductOf(k))] = rows[Stock(ProductOf(k))] + QuantityOf(k)
    /\ \A d \in Sources : next[Batch(ProductOf(k), d)] = rows[Batch(ProductOf(k), d)] + rows[k].fifo[d]
    /\ \A q \in Products : liv2[q] = IF q = ProductOf(k) THEN liv[q] + QuantityOf(k) ELSE liv[q]

LEMMA VoidBooks ==
    ASSUME NEW rows, NEW next, NEW once, NEW led, NEW liv, NEW liv2, NEW c \in Copies, NEW s \in SaleIds,
           Books(rows, once, led, liv), UnitsNat(led), MovesInt(liv),
           Voided(rows, next, liv, liv2, Sale(c, s))
    PROVE  Books(next, once, led, liv2)
<1> DEFINE k == Sale(c, s)
           p == ProductOf(k)
           n == QuantityOf(k)
<1>0. k \in Sales /\ k \in RowIds /\ p \in Products /\ n \in Nat /\ k[1] = "sale" /\ k[2] = c
  BY Ids, SaleIs, Tables
<1>1. /\ rows[k].state = "COMPLETED"
      /\ next[k] = [rows[k] EXCEPT !.state = "VOIDED", !.fifo = NoUnits]
      /\ rows[Stock(p)] # Missing /\ next[Stock(p)] = rows[Stock(p)] + n
      /\ \A d \in Sources : next[Batch(p, d)] = rows[Batch(p, d)] + rows[k].fifo[d]
      /\ \A q \in Products : liv2[q] = IF q = p THEN liv[q] + n ELSE liv[q]
      /\ \A i \in RowIds : i # Stock(p) /\ i # k /\ (\A d \in Sources : i # Batch(p, d)) => next[i] = rows[i]
      /\ DOMAIN next = RowIds
  BY DEF Voided
<1> HIDE DEF k, p, n
<1>2. /\ \A q \in Products \ {p} : next[Stock(q)] = rows[Stock(q)]
      /\ \A q \in Products \ {p}, d \in Sources : next[Batch(q, d)] = rows[Batch(q, d)]
      /\ \A d \in Copies : next[Received(d)] = rows[Received(d)] /\ next[Order(d)] = rows[Order(d)]
      /\ next[Deducted] = rows[Deducted]
  BY <1>0, <1>1, Ids, Tables
<1>3. \A i \in Sales \ {k} : next[i] = rows[i]
  BY <1>0, <1>1, Ids, Tables, SaleIs
<1>4. SalesTyped(rows) /\ Missing = 0 - 1
  BY DEF Books, BatchBook, Missing
<1>5. rows[k] \in SaleRow
  BY <1>0, <1>4 DEF SalesTyped
<1>6. /\ next[k] \in SaleRow /\ next[k].state = "VOIDED" /\ next[k].fifo = NoUnits
      /\ next[k].costed = rows[k].costed
  BY <1>1, <1>5, NoneIsRow DEF SaleRow
<1>7. SalesTyped(next)
  BY <1>3, <1>4, <1>6 DEF SalesTyped
<1>8. StockBook(next, liv2)
  <2>1. StockBook(rows, liv)
    BY DEF Books
  <2>2. rows[Stock(p)] \in Nat
    BY <1>0, <1>1, <2>1 DEF StockBook
  <2>3. /\ next[Stock(p)] \in Nat /\ n \in Int /\ p \in Products
        /\ rows[Stock(p)] # Missing /\ next[Stock(p)] = rows[Stock(p)] + n
    BY <1>0, <1>1, <2>2
  <2>4. liv2[p] = liv[p] + n
    BY <1>0, <1>1
  <2>5. \A q \in Products \ {p} : next[Stock(q)] = rows[Stock(q)] /\ liv2[q] = liv[q]
    BY <1>0, <1>1, <1>2
  <2>6. /\ \A d \in Copies : next[Received(d)] = rows[Received(d)]
        /\ next[Deducted] = rows[Deducted]
    BY <1>2
  <2>7. ShopMoved(rows, next, liv, liv2, p, n)
    BY <2>3, <2>4, <2>5, <2>6 DEF ShopMoved
  <2>8. QED
    BY <2>1, <2>3, <2>7, StockMoved
<1>9. BatchBook(next, led)
  <2>1. BatchBook(rows, led)
    BY DEF Books
  <2>2. ASSUME NEW d \in Sources
        PROVE  /\ next[Batch(ProductOf(k), d)]
                    = rows[Batch(ProductOf(k), d)] + rows[k].fifo[d] - next[k].fifo[d]
               /\ rows[k].fifo[d] # next[k].fifo[d] =>
                     rows[Batch(ProductOf(k), d)] # Missing /\ next[Batch(ProductOf(k), d)] \in Nat
    <3>1. /\ rows[Batch(p, d)] \in Nat \cup {Missing}
          /\ rows[Batch(p, d)] = Missing => Consumed(rows, p, d) = 0
      BY <1>0, <2>1 DEF BatchBook
    <3>2. rows[k].fifo[d] \in Nat /\ rows[k].fifo[d] <= Consumed(rows, p, d)
      BY <1>0, <1>4, ConsumedNat, SaleColumns DEF p
    <3>3. next[k].fifo[d] = 0
      BY <1>6 DEF NoUnits
    <3>4. next[Batch(p, d)] = rows[Batch(p, d)] + rows[k].fifo[d]
      BY <1>1
    <3>5. next[Batch(p, d)] = rows[Batch(p, d)] + rows[k].fifo[d] - next[k].fifo[d]
      BY <1>4, <3>1, <3>2, <3>3, <3>4
    <3>6. rows[k].fifo[d] # next[k].fifo[d] => rows[Batch(p, d)] # Missing /\ next[Batch(p, d)] \in Nat
      BY <1>4, <3>1, <3>2, <3>3, <3>4
    <3>7. QED
      BY <3>5, <3>6 DEF p
  <2>3. \A q \in Products \ {ProductOf(k)}, d \in Sources : next[Batch(q, d)] = rows[Batch(q, d)]
    BY <1>2 DEF p
  <2>4. \A i \in Sales \ {k} : next[i].fifo = rows[i].fifo
    BY <1>3
  <2>5. k \in Sales
    BY <1>0
  <2>6. QED
    BY <1>7, <2>1, <2>2, <2>3, <2>4, <2>5, BatchCosted, ZenonT(60)
<1>10. SaleBook(next, once)
  <2>1. \A i \in Sales : /\ next[i].costed <=> rows[i].costed
                         /\ ~rows[i].costed => next[i].fifo = NoUnits
                         /\ next[i].state = "NONE" <=> rows[i].state = "NONE"
    BY <1>1, <1>3, <1>6 DEF Books, SaleBook
  <2>2. QED
    BY <1>2, <2>1, SaleSame DEF Books
<1>11. CopyBook(next)
  <2>1. CopyBook(rows)
    BY DEF Books
  <2>2. rows[Order(c)].there
    BY <1>1, <2>1, SaleOfCopy DEF k
  <2>3. ASSUME NEW d \in Copies, ~rows[Order(d)].there
        PROVE  \A r \in SaleIds : next[Sale(d, r)] = rows[Sale(d, r)]
    <3>1. d # c
      BY <2>2, <2>3
    <3>2. \A r \in SaleIds : Sale(d, r) \in Sales /\ Sale(d, r) # k
      BY <1>0, <3>1, Ids, Tables
    <3>3. QED
      BY <1>3, <3>2
  <2>4. ASSUME NEW d \in Copies, ~rows[Order(d)].there, NEW q \in Products
        PROVE  next[Batch(q, d)] = rows[Batch(q, d)]
    <3>1. d \in Sources /\ rows[Batch(q, d)] = Missing
      BY <2>1, <2>4 DEF CopyBook, Sources
    <3>2. CASE q # p
      BY <1>2, <3>1, <3>2
    <3>3. CASE q = p
      <4>1. Consumed(rows, p, d) = 0
        BY <3>1, <3>3 DEF Books, BatchBook
      <4>2. rows[k].fifo[d] \in Nat /\ rows[k].fifo[d] <= Consumed(rows, p, d)
        BY <1>0, <1>4, <3>1, ConsumedNat, SaleColumns DEF p
      <4>3. rows[k].fifo[d] = 0
        BY <4>1, <4>2
      <4>4. QED
        BY <1>1, <1>4, <3>1, <3>3, <4>3
    <3>4. QED
      BY <3>2, <3>3
  <2>5. ~ \A d \in Copies : ~rows[Order(d)].there
    BY <2>2
  <2>6. \A d \in Copies : next[Order(d)] \in [there : BOOLEAN, paid : BOOLEAN]
    BY <1>2, <2>1 DEF CopyBook
  <2>7. QED
    BY <1>2, <2>1, <2>3, <2>4, <2>5, <2>6, CopySame
<1>12. QED
  BY <1>1, <1>8, <1>9, <1>10, <1>11 DEF Books

\* The units of imported sales leave the stock rows of these products.
LEMMA DeductBooks ==
    ASSUME NEW rows, NEW next, NEW once, NEW led, NEW liv, NEW done \in SUBSET Products,
           Books(rows, once, led, liv), MovesInt(liv),
           DOMAIN next = RowIds,
           \A i \in RowIds : i # Deducted /\ (\A p \in done : i # Stock(p)) => next[i] = rows[i],
           next[Deducted] = [p \in Products |-> IF p \in done THEN Recorded(rows, p) ELSE rows[Deducted][p]],
           \A p \in done : /\ rows[Stock(p)] >= Recorded(rows, p) /\ Recorded(rows, p) > 0
                           /\ rows[Deducted][p] = 0
                           /\ next[Stock(p)] = rows[Stock(p)] - Recorded(rows, p)
    PROVE  Books(next, once, led, liv)
<1>1. /\ \A p \in Products \ done : next[Stock(p)] = rows[Stock(p)]
      /\ \A p \in Products, c \in Sources : next[Batch(p, c)] = rows[Batch(p, c)]
      /\ \A c \in Copies : next[Received(c)] = rows[Received(c)] /\ next[Order(c)] = rows[Order(c)]
  BY Ids, Tables
<1>2. \A i \in Sales : next[i] = rows[i]
  BY Ids, Tables, SaleIs
<1>3. SalesTyped(next)
  BY <1>2 DEF Books, BatchBook, SalesTyped
<1>4. \A p : Recorded(next, p) = Recorded(rows, p) /\ Recorded(rows, p) \in Nat
  BY <1>2, RecordedSame, RecordedNat
<1>5. StockBook(rows, liv) /\ MovesTyped(rows) /\ Missing = 0 - 1
  BY DEF Books, StockBook, Missing
<1>6. MovesTyped(next)
  <2>1. rows[Deducted] \in [Products -> Nat]
    BY <1>5 DEF MovesTyped
  <2>2. next[Deducted] \in [Products -> Nat]
    BY <1>4, <2>1
  <2>3. QED
    BY <1>1, <1>5, <2>2 DEF MovesTyped
<1>7. StockBook(next, liv)
  <2> DEFINE units == [p \in Products |-> Recorded(rows, p)]
  <2>1. \A p \in done : rows[Stock(p)] \in Nat
    BY <1>4, <1>5 DEF StockBook
  <2>2. \A p \in done : /\ units[p] \in Nat /\ rows[Stock(p)] >= units[p]
                        /\ rows[Stock(p)] \in Nat /\ next[Stock(p)] = rows[Stock(p)] - units[p]
                        /\ rows[Deducted][p] = 0 /\ next[Deducted][p] = units[p]
    BY <1>4, <2>1
  <2>3. \A p \in Products \ done : next[Stock(p)] = rows[Stock(p)]
                                  /\ next[Deducted][p] = rows[Deducted][p]
    BY <1>1
  <2>4. \A c \in Copies : next[Received(c)] = rows[Received(c)]
    BY <1>1
  <2> HIDE DEF units
  <2>5. ImportDeducted(rows, next, done, units)
    BY <2>2, <2>3, <2>4 DEF ImportDeducted
  <2>6. QED
    BY <1>5, <1>6, <2>5, StockDeducted
<1>8. BatchBook(next, led)
  BY <1>1, <1>2, <1>3, BatchSame DEF Books
<1>9. SaleBook(next, once)
  <2>1. SaleBook(rows, once)
    BY DEF Books
  <2>2. \A i \in Sales : ProductOf(i) \in Products
    BY SaleIs
  <2>3. \A p \in Products : rows[Deducted][p] > 0 => next[Deducted][p] > 0
    BY <1>4
  <2>4. \A i \in Sales : /\ next[i].costed => next[Deducted][ProductOf(i)] > 0
                         /\ ~next[i].costed => next[i].fifo = NoUnits
    BY <1>2, <2>1, <2>2, <2>3 DEF SaleBook
  <2>5. once => \A p \in Products : next[Deducted][p] \in {0, Recorded(next, p)}
    BY <1>4, <2>1 DEF SaleBook
  <2>6. QED
    BY <2>4, <2>5 DEF SaleBook
<1>10. CopyBook(next)
  <2>1. \A c \in Copies, s \in SaleIds : next[Sale(c, s)] = rows[Sale(c, s)]
    BY <1>2, Ids
  <2>2. CopyBook(rows)
    BY DEF Books
  <2>3. \A c \in Copies, q \in Products : next[Batch(q, c)] = rows[Batch(q, c)]
    BY <1>1 DEF Sources
  <2>4. ASSUME \A c \in Copies : ~rows[Order(c)].there
        PROVE  next[Deducted] = rows[Deducted] /\ \A q \in Created : next[Stock(q)] = rows[Stock(q)]
    <3>1. \A i \in Sales : rows[i].state = "NONE"
      <4>1. TAKE i \in Sales
      <4>2. PICK c \in Copies, s \in SaleIds : i = Sale(c, s)
        BY DEF Sales
      <4>3. rows[i] = NoSale
        BY <2>2, <2>4, <4>2 DEF CopyBook
      <4>4. QED
        BY <4>3, NoneIsRow
    <3>2. \A p : Recorded(rows, p) = 0
      BY <3>1, RecordedNone
    <3>3. done = {}
      BY <3>2
    <3>4. rows[Deducted] \in [Products -> Nat]
      BY <1>5 DEF MovesTyped
    <3>5. next[Deducted] = rows[Deducted]
      BY <3>3, <3>4
    <3>6. QED
      BY <1>1, <3>3, <3>5 DEF Products
  <2>5. \A c \in Copies : next[Order(c)] \in [there : BOOLEAN, paid : BOOLEAN]
    BY <1>1, <2>2 DEF CopyBook
  <2>6. QED
    BY <1>1, <2>1, <2>2, <2>3, <2>4, <2>5, CopySame
<1>11. QED
  BY <1>7, <1>8, <1>9, <1>10 DEF Books

\* One imported sale is costed from the batches of its product.
SaleCosted(rows, next, k, gone) ==
    /\ DOMAIN next = RowIds
    /\ \A i \in RowIds : i # k /\ (\A c \in Sources : i # Batch(ProductOf(k), c)) => next[i] = rows[i]
    /\ rows[k].state # "NONE" /\ ~rows[k].costed /\ rows[Deducted][ProductOf(k)] > 0
    /\ next[k] = [rows[k] EXCEPT !.fifo = gone, !.costed = TRUE]
    /\ \A c \in Sources :
          /\ gone[c] > 0 => rows[Batch(ProductOf(k), c)] >= gone[c]
          /\ next[Batch(ProductOf(k), c)] = rows[Batch(ProductOf(k), c)] - gone[c]

LEMMA CostBooks ==
    ASSUME NEW rows, NEW next, NEW once, NEW led, NEW liv, NEW k \in Sales, NEW gone \in [Sources -> Nat],
           Books(rows, once, led, liv), UnitsNat(led), SaleCosted(rows, next, k, gone)
    PROVE  Books(next, once, led, liv)
<1>a. /\ DOMAIN next = RowIds
      /\ \A i \in RowIds : i # k /\ (\A c \in Sources : i # Batch(ProductOf(k), c)) => next[i] = rows[i]
      /\ rows[k].state # "NONE" /\ ~rows[k].costed /\ rows[Deducted][ProductOf(k)] > 0
      /\ next[k] = [rows[k] EXCEPT !.fifo = gone, !.costed = TRUE]
      /\ \A c \in Sources :
            /\ gone[c] > 0 => rows[Batch(ProductOf(k), c)] >= gone[c]
            /\ next[Batch(ProductOf(k), c)] = rows[Batch(ProductOf(k), c)] - gone[c]
  BY DEF SaleCosted
<1> DEFINE p == ProductOf(k)
<1>0. k \in RowIds /\ p \in Products /\ k[1] = "sale"
  BY Ids, SaleIs
<1>1. /\ \A q \in Products : next[Stock(q)] = rows[Stock(q)]
      /\ \A q \in Products \ {p}, c \in Sources : next[Batch(q, c)] = rows[Batch(q, c)]
      /\ \A c \in Copies : next[Received(c)] = rows[Received(c)] /\ next[Order(c)] = rows[Order(c)]
      /\ next[Deducted] = rows[Deducted]
  BY <1>0, <1>a, Ids, Tables
<1>2. \A i \in Sales \ {k} : next[i] = rows[i]
  BY <1>0, <1>a, Ids, Tables, SaleIs
<1>3. SalesTyped(rows) /\ Missing = 0 - 1 /\ rows[k].fifo = NoUnits /\ rows[k] \in SaleRow
  BY <1>a DEF Books, BatchBook, SaleBook, Missing, SalesTyped
<1>4. /\ next[k] \in SaleRow /\ next[k].fifo = gone /\ next[k].costed = TRUE
      /\ next[k].state = rows[k].state
  BY <1>a, <1>3 DEF SaleRow
<1>5. SalesTyped(next)
  BY <1>2, <1>3, <1>4 DEF SalesTyped
<1>6. StockBook(next, liv)
  BY <1>1, StockSame DEF Books
<1>7. BatchBook(rows, led)
  BY DEF Books
<1>8. \A c \in Sources : gone[c] \in Nat /\ rows[k].fifo[c] = 0 /\ rows[Batch(p, c)] \in Nat \cup {Missing}
  BY <1>0, <1>3, <1>7 DEF NoUnits, BatchBook
<1>9. BatchBook(next, led)
  <2>2. ASSUME NEW c \in Sources
        PROVE  /\ next[Batch(ProductOf(k), c)]
                    = rows[Batch(ProductOf(k), c)] + rows[k].fifo[c] - next[k].fifo[c]
               /\ rows[k].fifo[c] # next[k].fifo[c] =>
                     rows[Batch(ProductOf(k), c)] # Missing /\ next[Batch(ProductOf(k), c)] \in Nat
    <3> DEFINE b == Batch(p, c)
    <3>1. rows[b] \in Nat \cup {Missing} /\ gone[c] \in Nat /\ rows[k].fifo[c] = 0 /\ next[k].fifo[c] = gone[c]
      BY <1>4, <1>8
    <3>2. (gone[c] > 0 => rows[b] >= gone[c]) /\ next[b] = rows[b] - gone[c]
      BY <1>a
    <3> HIDE DEF b
    <3>3. next[b] = rows[b] + rows[k].fifo[c] - next[k].fifo[c]
      BY <1>3, <3>1, <3>2
    <3>4. rows[k].fifo[c] # next[k].fifo[c] => rows[b] # Missing /\ next[b] \in Nat
      BY <1>3, <3>1, <3>2
    <3>5. QED
      BY <3>3, <3>4 DEF b
  <2>3. \A i \in Sales \ {k} : next[i].fifo = rows[i].fifo
    BY <1>2
  <2>4. \A q \in Products \ {ProductOf(k)}, c \in Sources : next[Batch(q, c)] = rows[Batch(q, c)]
    BY <1>1
  <2>5. QED
    BY <1>5, <1>7, <2>2, <2>3, <2>4, BatchCosted, ZenonT(60)
<1>10. SaleBook(next, once)
  <2>1. SaleBook(rows, once)
    BY DEF Books
  <2>2. \A i \in Sales : next[i].state = "NONE" <=> rows[i].state = "NONE"
    BY <1>2, <1>4
  <2>3. \A q : Recorded(next, q) = Recorded(rows, q)
    BY <2>2, RecordedSame
  <2>4. \A i \in Sales : /\ next[i].costed => next[Deducted][ProductOf(i)] > 0
                         /\ ~next[i].costed => next[i].fifo = NoUnits
    BY <1>a, <1>1, <1>2, <1>4, <2>1 DEF SaleBook
  <2>5. QED
    BY <1>1, <2>1, <2>3, <2>4 DEF SaleBook
<1>11. CopyBook(next)
  <2>1. CopyBook(rows)
    BY DEF Books
  <2>2. PICK e \in Copies, s \in SaleIds : k = Sale(e, s)
    BY DEF Sales
  <2>3. rows[Order(e)].there
    BY <1>a, <2>1, <2>2, SaleOfCopy
  <2>4. ASSUME NEW d \in Copies, ~rows[Order(d)].there
        PROVE  \A r \in SaleIds : next[Sale(d, r)] = rows[Sale(d, r)]
    <3>1. d # e
      BY <2>3, <2>4
    <3>2. \A r \in SaleIds : Sale(d, r) \in Sales /\ Sale(d, r) # k
      BY <2>2, <3>1, Ids, Tables
    <3>3. QED
      BY <1>2, <3>2
  <2>5. ASSUME NEW d \in Copies, ~rows[Order(d)].there, NEW q \in Products
        PROVE  next[Batch(q, d)] = rows[Batch(q, d)]
    <3>1. d \in Sources /\ rows[Batch(q, d)] = Missing
      BY <2>1, <2>5 DEF CopyBook, Sources
    <3>2. CASE q # p
      BY <1>1, <3>1, <3>2
    <3>3. CASE q = p
      <4>1. gone[d] \in Nat /\ gone[d] = 0
        BY <1>a, <1>3, <1>8, <3>1, <3>3
      <4>2. QED
        BY <1>a, <1>3, <3>1, <3>3, <4>1
    <3>4. QED
      BY <3>2, <3>3
  <2>6. \A d \in Copies : next[Order(d)] \in [there : BOOLEAN, paid : BOOLEAN]
    BY <1>1, <2>1 DEF CopyBook
  <2>7. ~ \A d \in Copies : ~rows[Order(d)].there
    BY <2>3
  <2>8. QED
    BY <1>1, <2>1, <2>4, <2>5, <2>6, <2>7, CopySame
<1>12. QED
  BY <1>a, <1>6, <1>9, <1>10, <1>11 DEF Books

------------------------------------------------------------------------------
(* What a session holds at every stage of its work.                        *)

\* The rows as a session sees them.
Laid(mine, rows) == [i \in RowIds |-> IF i \in DOMAIN mine THEN mine[i] ELSE rows[i]]

\* The statements it has left.
ToConfirm  == <<"confirm">>
ToDecline  == <<"decline">>
ToFail     == <<"FAILED">>
ToRefuse   == <<"AWAITING_CONFIRMATION">>
ToLoad     == <<"load", "orders", "adjust", "flush", "deduct", "cogs", "done">>
ToOrders   == <<"orders", "adjust", "flush", "deduct", "cogs", "done">>
ToAdjust   == <<"adjust", "flush", "deduct", "cogs", "done">>
ToFlush    == <<"flush", "deduct", "cogs", "done">>
ToDeduct   == <<"deduct", "cogs", "done">>
ToCost     == <<"cogs", "done">>
ToDone     == <<"done">>
ToUnfifo   == <<"unfifo", "delete", "reverse">>
ToDelete   == <<"delete", "reverse">>
ToReverse  == <<"reverse">>

Waiting     == {<<>>, ToDecline, ToFail, ToRefuse}
Starting    == {ToConfirm, ImportSteps, ToLoad}
Loaded      == {ToOrders, ToAdjust, ToFlush}
Recomputing == {ToDeduct, ToCost, ToDone}
RollingBack == {ToUnfifo, ToDelete, ToReverse}
Stages      == Waiting \cup Starting \cup Loaded \cup Recomputing \cup RollingBack

\* The rows of one copy.
OfCopy(c) == {Order(c), Received(c)} \cup {Sale(c, s) : s \in SaleIds}
               \cup {Batch(p, c) : p \in Products}
Stocks    == {Stock(p) : p \in Products}

\* The rows of a copy are locked by its import, or with a copy that is there.
Tagged(mine, c, rows) ==
    \A d \in Copies : DOMAIN mine \cap OfCopy(d) # {} => d = c \/ rows[Order(d)].there

\* Before the job's row is locked: nothing but the copy and stock it moved.
LoadedRows(mine, c, rows) ==
    /\ c \in Copies
    /\ DOMAIN mine \subseteq Stocks \cup OfCopy(c)
    /\ Order(c) \in DOMAIN mine /\ mine[Order(c)] = [NoOrder EXCEPT !.there = TRUE]
    /\ \A s \in SaleIds : /\ Sale(c, s) \in DOMAIN mine
                          /\ mine[Sale(c, s)] = [NoSale EXCEPT !.state = "COMPLETED"]
    /\ \A p \in Products : Batch(p, c) \in DOMAIN mine => mine[Batch(p, c)] = Bought[p]
    /\ Laid(mine, rows)[Received(c)] \in [Products -> Int]
    /\ \A p \in Products :
          /\ Laid(mine, rows)[Stock(p)] \in Nat
          /\ Laid(mine, rows)[Stock(p)] = OnHand(rows, p) + Laid(mine, rows)[Received(c)][p]

\* From then on the books balance in what the session sees.
RecomputingRows(mine, c, skips, stage, rows, once, led, liv) ==
    /\ Job \in DOMAIN mine /\ DOMAIN mine \subseteq RowIds
    /\ Tagged(mine, c, rows)
    /\ \A d \in Copies : Order(d) \in DOMAIN mine => d = c
    /\ c # 0 => Laid(mine, rows)[Order(c)].there
    /\ \A p \in Products : Stock(p) \in DOMAIN mine => mine[Stock(p)] \in Nat
    /\ Books(Laid(mine, rows), once, led, liv)
    /\ stage = ToCost => \A i \in Sales :
          Laid(mine, rows)[i].state # "NONE" /\ ProductOf(i) \notin skips
             => Laid(mine, rows)[Deducted][ProductOf(i)] > 0

\* Either a batch is locked and what was costed from it is back, or nothing was.
Credit(mine, rows, p, c) ==
    /\ Batch(p, c) \in DOMAIN mine =>
          /\ rows[Batch(p, c)] # Missing
          /\ mine[Batch(p, c)] = rows[Batch(p, c)] + Consumed(rows, p, c)
    /\ Batch(p, c) \notin DOMAIN mine => Consumed(rows, p, c) = 0

\* Everything tagged is deleted; no session of the shop has moved a product
\* that goes.
Cleared(mine, rows, moved) ==
    /\ DOMAIN mine \subseteq {Job, Deducted} \cup {Stock(p) : p \in Created}
                               \cup {Batch(p, 0) : p \in Deduped}
                               \cup UNION {OfCopy(c) : c \in {d \in Copies : rows[Order(d)].there}}
    /\ \A c \in Copies : rows[Order(c)].there =>
          /\ OfCopy(c) \subseteq DOMAIN mine
          /\ mine[Order(c)] = NoOrder /\ mine[Received(c)] = NoMoves
          /\ \A s \in SaleIds : mine[Sale(c, s)] = NoSale
          /\ \A p \in Products : mine[Batch(p, c)] = Missing
    /\ Deducted \in DOMAIN mine /\ mine[Deducted] = NoMoves
    /\ \A p \in Created : Stock(p) \in DOMAIN mine /\ mine[Stock(p)] = Missing /\ p \notin moved
    /\ \A p \in Deduped : Credit(mine, rows, p, 0)

RollingBackRows(mine, stage, rows, moved) ==
    /\ Job \in DOMAIN mine
    /\ Tagged(mine, 0, rows)
    /\ stage = ToUnfifo => DOMAIN mine = {Job}
    /\ stage = ToDelete => /\ DOMAIN mine \subseteq {Job} \cup Batches
                           /\ \A p \in Products, c \in Sources : Credit(mine, rows, p, c)
    /\ stage = ToReverse => Cleared(mine, rows, moved)

SessionRows(mine, c, skips, stage, rows, once, led, liv, moved) ==
    /\ stage \in Stages
    /\ stage \in Waiting \cup Starting => DOMAIN mine = {}
    /\ stage \in Loaded => LoadedRows(mine, c, rows)
    /\ stage \in Recomputing => RecomputingRows(mine, c, skips, stage, rows, once, led, liv)
    /\ stage \in RollingBack => RollingBackRows(mine, stage, rows, moved)

\* No copy but this one is there.
Single(c, rows) == c = 0 \/ \A d \in Copies \ {c} : ~rows[Order(d)].there

\* The copy a session writes is its own and not there yet.
Numbered(t) ==
    /\ copy[t] \in {0} \cup Copies /\ fresh[t] \subseteq Created
    /\ copy[t] # 0 => /\ copy[t] <= started /\ ~There(copy[t])
                      /\ \A u \in Txs \ {t} : copy[u] # copy[t]
    /\ todo[t] \in Starting \cup Loaded => copy[t] # 0
    /\ todo[t] \in Waiting => copy[t] = 0

Session(t) == SessionRows(own[t], copy[t], failed[t], todo[t], db,
                          ~doubled /\ Single(copy[t], db), ledger, live, touched)

Shape ==
    /\ DOMAIN own = Txs /\ DOMAIN todo = Txs /\ DOMAIN copy = Txs
    /\ DOMAIN fresh = Txs /\ DOMAIN failed = Txs
    /\ started \in Nat /\ \A c \in Copies : There(c) => c <= started
    /\ MovesInt(live) /\ UnitsNat(ledger)
    /\ \A p \in Created : p \notin touched => live[p] = 0

\* A row is locked by one session at most.
RowsApart == \A t, u \in Txs : t # u => DOMAIN own[t] \cap DOMAIN own[u] = {}

\* While created products are being deleted, no import refers to them.
NoneReferring ==
    \A t, u \in Txs : t # u /\ todo[t] = ToReverse /\ todo[u] \in Loaded => Created = {}

ImportInv ==
    /\ Shape
    /\ Books(db, ~doubled, ledger, live)
    /\ RowsApart
    /\ NoneReferring
    /\ \A t \in Txs : Numbered(t) /\ Session(t)

LEMMA LaidIs ==
    ASSUME NEW mine, NEW rows
    PROVE  /\ DOMAIN Laid(mine, rows) = RowIds
           /\ \A i \in RowIds : /\ i \in DOMAIN mine => Laid(mine, rows)[i] = mine[i]
                                /\ i \notin DOMAIN mine => Laid(mine, rows)[i] = rows[i]
BY DEF Laid

\* One statement after another.
LEMMA StepsAre ==
    /\ Head(ToConfirm) = "confirm" /\ Tail(ToConfirm) = <<>>
    /\ Head(ToDecline) = "decline" /\ Tail(ToDecline) = <<>>
    /\ Head(ToFail) = "FAILED" /\ Tail(ToFail) = <<>>
    /\ Head(ToRefuse) = "AWAITING_CONFIRMATION" /\ Tail(ToRefuse) = <<>>
    /\ Head(ImportSteps) = "transform" /\ Tail(ImportSteps) = ToLoad
    /\ Head(ToLoad) = "load" /\ Tail(ToLoad) = ToOrders
    /\ Head(ToOrders) = "orders" /\ Tail(ToOrders) = ToAdjust
    /\ Head(ToAdjust) = "adjust" /\ Tail(ToAdjust) = ToFlush
    /\ Head(ToFlush) = "flush" /\ Tail(ToFlush) = ToDeduct
    /\ Head(ToDeduct) = "deduct" /\ Tail(ToDeduct) = ToCost
    /\ Head(ToCost) = "cogs" /\ Tail(ToCost) = ToDone
    /\ Head(ToDone) = "done" /\ Tail(ToDone) = <<>>
    /\ Head(ToUnfifo) = "unfifo" /\ Tail(ToUnfifo) = ToDelete
    /\ Head(ToDelete) = "delete" /\ Tail(ToDelete) = ToReverse
    /\ Head(ToReverse) = "reverse" /\ Tail(ToReverse) = <<>>
BY DEF ToConfirm, ToDecline, ToFail, ToRefuse, ImportSteps, ToLoad, ToOrders, ToAdjust, ToFlush,
       ToDeduct, ToCost, ToDone, ToUnfifo, ToDelete, ToReverse

\* The stages differ.
LEMMA StagesApart ==
    /\ \A s \in Waiting \cup Starting : s \notin Loaded /\ s \notin Recomputing /\ s \notin RollingBack
    /\ \A s \in Loaded : s \notin Waiting \cup Starting /\ s \notin Recomputing /\ s \notin RollingBack
    /\ \A s \in Recomputing : s \notin Waiting \cup Starting /\ s \notin Loaded /\ s \notin RollingBack
    /\ \A s \in RollingBack : s \notin Waiting \cup Starting /\ s \notin Loaded /\ s \notin Recomputing
    /\ \A s \in Waiting : s \notin Starting
    /\ ToCost # ToDeduct /\ ToCost # ToDone /\ ToUnfifo # ToDelete /\ ToUnfifo # ToReverse
    /\ ToDelete # ToReverse
    /\ \A s \in Starting \cup Loaded \cup Recomputing \cup RollingBack : s # <<>>
BY DEF Waiting, Starting, Loaded, Recomputing, RollingBack,
       ToConfirm, ToDecline, ToFail, ToRefuse, ImportSteps, ToLoad, ToOrders, ToAdjust, ToFlush,
       ToDeduct, ToCost, ToDone, ToUnfifo, ToDelete, ToReverse

\* The statement a session is at tells its stage.
LEMMA StageAt ==
    ASSUME NEW t, todo[t] \in Stages
    PROVE  /\ At(t, "confirm") => todo[t] = ToConfirm
           /\ At(t, "decline") => todo[t] = ToDecline
           /\ At(t, "FAILED") => todo[t] = ToFail
           /\ At(t, "AWAITING_CONFIRMATION") => todo[t] = ToRefuse
           /\ At(t, "transform") => todo[t] = ImportSteps
           /\ At(t, "load") => todo[t] = ToLoad
           /\ At(t, "orders") => todo[t] = ToOrders
           /\ At(t, "adjust") => todo[t] = ToAdjust
           /\ At(t, "flush") => todo[t] = ToFlush
           /\ At(t, "deduct") => todo[t] = ToDeduct
           /\ At(t, "cogs") => todo[t] = ToCost
           /\ At(t, "done") => todo[t] = ToDone
           /\ At(t, "unfifo") => todo[t] = ToUnfifo
           /\ At(t, "delete") => todo[t] = ToDelete
           /\ At(t, "reverse") => todo[t] = ToReverse
<1>1. \/ todo[t] = <<>> \/ todo[t] = ToDecline \/ todo[t] = ToFail \/ todo[t] = ToRefuse
      \/ todo[t] = ToConfirm \/ todo[t] = ImportSteps \/ todo[t] = ToLoad
      \/ todo[t] = ToOrders \/ todo[t] = ToAdjust \/ todo[t] = ToFlush
      \/ todo[t] = ToDeduct \/ todo[t] = ToCost \/ todo[t] = ToDone
      \/ todo[t] = ToUnfifo \/ todo[t] = ToDelete \/ todo[t] = ToReverse
  BY DEF Stages, Waiting, Starting, Loaded, Recomputing, RollingBack
<1>2. QED
  BY <1>1, StepsAre DEF At, Idle

\* Rows of one copy are not those of another, nor of any other table.
LEMMA CopyIs ==
    /\ \A c, i : i \in OfCopy(c) =>
          /\ i[1] \in {"order", "received", "sale", "batch"}
          /\ i[1] # "batch" => i[2] = c
          /\ i[1] = "batch" => i[3] = c
    /\ \A c : Order(c) \in OfCopy(c) /\ Received(c) \in OfCopy(c)
    /\ \A c, s : s \in SaleIds => Sale(c, s) \in OfCopy(c)
    /\ \A c, p : p \in Products => Batch(p, c) \in OfCopy(c)
    /\ \A i \in Stocks : i[1] = "stock"
    /\ \A c, d, i : i \in OfCopy(c) /\ i \in OfCopy(d) => c = d
    /\ \A c \in Copies : OfCopy(c) \subseteq RowIds
    /\ Stocks \subseteq RowIds
<1>1. /\ \A c, i : i \in OfCopy(c) =>
            /\ i[1] \in {"order", "received", "sale", "batch"}
            /\ i[1] # "batch" => i[2] = c
            /\ i[1] = "batch" => i[3] = c
  BY Tables DEF OfCopy
<1>2. \A c, d, i : i \in OfCopy(c) /\ i \in OfCopy(d) => c = d
  BY <1>1
<1>3. /\ \A c : Order(c) \in OfCopy(c) /\ Received(c) \in OfCopy(c)
      /\ \A c, s : s \in SaleIds => Sale(c, s) \in OfCopy(c)
      /\ \A c, p : p \in Products => Batch(p, c) \in OfCopy(c)
  BY DEF OfCopy
<1>4. \A i \in Stocks : i[1] = "stock"
  BY Tables DEF Stocks
<1>5. \A c \in Copies : OfCopy(c) \subseteq RowIds
  <2>1. \A c \in Copies : c \in Sources
    BY DEF Sources
  <2>2. QED
    BY <2>1, Ids DEF OfCopy
<1>6. Stocks \subseteq RowIds
  BY Ids DEF Stocks
<1>7. QED
  BY <1>1, <1>2, <1>3, <1>4, <1>5, <1>6

------------------------------------------------------------------------------
(* What a session holds stays true while others change other rows.         *)

LEMMA LoadedKept ==
    ASSUME NEW mine, NEW c, NEW rows, NEW next, LoadedRows(mine, c, rows),
           \A p \in Products : IF Stock(p) \in DOMAIN mine THEN next[Stock(p)] = rows[Stock(p)]
                               ELSE rows[Stock(p)] \in Nat => next[Stock(p)] \in Nat,
           Received(c) \notin DOMAIN mine => next[Received(c)] = rows[Received(c)]
    PROVE  LoadedRows(mine, c, next)
<1>1. c \in Copies /\ Received(c) \in RowIds /\ \A p \in Products : Stock(p) \in RowIds
  BY Ids DEF LoadedRows
<1>2. Laid(mine, next)[Received(c)] = Laid(mine, rows)[Received(c)]
  BY <1>1, LaidIs
<1>3. Laid(mine, rows)[Received(c)] \in [Products -> Int] /\ Missing \notin Nat
  BY DEF LoadedRows, Missing
<1>4. ASSUME NEW p \in Products
      PROVE  /\ Laid(mine, next)[Stock(p)] \in Nat
             /\ Laid(mine, next)[Stock(p)] = OnHand(next, p) + Laid(mine, next)[Received(c)][p]
  <2>1. /\ Laid(mine, rows)[Stock(p)] \in Nat
        /\ Laid(mine, rows)[Stock(p)] = OnHand(rows, p) + Laid(mine, rows)[Received(c)][p]
    BY DEF LoadedRows
  <2>2. CASE Stock(p) \in DOMAIN mine
    <3>1. /\ Laid(mine, next)[Stock(p)] = Laid(mine, rows)[Stock(p)]
          /\ next[Stock(p)] = rows[Stock(p)]
      BY <1>1, <2>2, LaidIs
    <3>2. OnHand(next, p) = OnHand(rows, p)
      BY <3>1 DEF OnHand
    <3>3. QED
      BY <1>2, <2>1, <3>1, <3>2
  <2>3. CASE Stock(p) \notin DOMAIN mine
    <3>1. /\ Laid(mine, next)[Stock(p)] = next[Stock(p)]
          /\ Laid(mine, rows)[Stock(p)] = rows[Stock(p)]
      BY <1>1, <2>3, LaidIs
    <3>2. rows[Stock(p)] \in Nat /\ next[Stock(p)] \in Nat
      BY <2>1, <2>3, <3>1
    <3>3. OnHand(next, p) = next[Stock(p)] /\ OnHand(rows, p) = rows[Stock(p)]
      BY <1>3, <3>2 DEF OnHand
    <3>4. Laid(mine, rows)[Received(c)][p] \in Int
      BY <1>3
    <3>5. Laid(mine, rows)[Received(c)][p] = 0
      BY <2>1, <3>1, <3>2, <3>3, <3>4
    <3>6. QED
      BY <1>2, <3>1, <3>2, <3>3, <3>5
  <2>4. QED
    BY <2>2, <2>3
<1>5. QED
  BY <1>2, <1>3, <1>4 DEF LoadedRows

LEMMA TaggedKept ==
    ASSUME NEW mine, NEW c, NEW rows, NEW next, Tagged(mine, c, rows),
           \A d \in Copies : rows[Order(d)].there => next[Order(d)].there
    PROVE  Tagged(mine, c, next)
BY DEF Tagged

LEMMA RecomputingKept ==
    ASSUME NEW mine, NEW c \in {0} \cup Copies, NEW skips, NEW stage, NEW rows, NEW next,
           NEW once, NEW led, NEW liv, NEW led2, NEW liv2,
           RecomputingRows(mine, c, skips, stage, rows, once, led, liv),
           Books(Laid(mine, next), once, led2, liv2),
           \A d \in Copies : rows[Order(d)].there => next[Order(d)].there,
           \A i \in Sales : Laid(mine, next)[i].state = "NONE" <=> Laid(mine, rows)[i].state = "NONE",
           next[Deducted] = rows[Deducted]
    PROVE  RecomputingRows(mine, c, skips, stage, next, once, led2, liv2)
<1>1. Tagged(mine, c, next)
  BY TaggedKept DEF RecomputingRows
<1>2. c # 0 => Laid(mine, next)[Order(c)].there
  <2>1. SUFFICES ASSUME c # 0 PROVE Laid(mine, next)[Order(c)].there
    OBVIOUS
  <2>2. c \in Copies /\ Order(c) \in RowIds /\ Laid(mine, rows)[Order(c)].there
    BY <2>1, Ids DEF RecomputingRows
  <2>3. QED
    BY <2>2, LaidIs
<1>3. Laid(mine, next)[Deducted] = Laid(mine, rows)[Deducted]
  BY Ids, LaidIs
<1>4. QED
  BY <1>1, <1>2, <1>3 DEF RecomputingRows

LEMMA RollingBackKept ==
    ASSUME NEW mine, NEW stage, NEW rows, NEW next, NEW moved, NEW moved2,
           RollingBackRows(mine, stage, rows, moved),
           \A d \in Copies : next[Order(d)].there <=> rows[Order(d)].there,
           \A p \in Products, c \in Sources : Credit(mine, rows, p, c) => Credit(mine, next, p, c),
           \A p \in Created : Stock(p) \in DOMAIN mine /\ p \in moved2 => p \in moved
    PROVE  RollingBackRows(mine, stage, next, moved2)
<1>1. Tagged(mine, 0, next)
  BY TaggedKept DEF RollingBackRows
<1>2. stage = ToReverse => Cleared(mine, next, moved2)
  <2>1. SUFFICES ASSUME Cleared(mine, rows, moved) PROVE Cleared(mine, next, moved2)
    BY DEF RollingBackRows
  <2>2. {d \in Copies : next[Order(d)].there} = {d \in Copies : rows[Order(d)].there}
    OBVIOUS
  <2>3. \A p \in Deduped : p \in Products
    BY DEF Products
  <2>4. 0 \in Sources
    BY DEF Sources
  <2>5. \A p \in Deduped : Credit(mine, next, p, 0)
    BY <2>1, <2>3, <2>4 DEF Cleared
  <2>6. /\ \A p \in Created : Stock(p) \in DOMAIN mine /\ mine[Stock(p)] = Missing /\ p \notin moved2
        /\ Deducted \in DOMAIN mine /\ mine[Deducted] = NoMoves
    BY <2>1 DEF Cleared
  <2>7. DOMAIN mine \subseteq {Job, Deducted} \cup {Stock(p) : p \in Created}
                               \cup {Batch(p, 0) : p \in Deduped}
                               \cup UNION {OfCopy(c) : c \in {d \in Copies : next[Order(d)].there}}
    BY <2>1, <2>2 DEF Cleared
  <2>8. \A c \in Copies : next[Order(c)].there =>
          /\ OfCopy(c) \subseteq DOMAIN mine
          /\ mine[Order(c)] = NoOrder /\ mine[Received(c)] = NoMoves
          /\ \A s \in SaleIds : mine[Sale(c, s)] = NoSale
          /\ \A p \in Products : mine[Batch(p, c)] = Missing
    BY <2>1 DEF Cleared
  <2>9. QED
    BY <2>5, <2>6, <2>7, <2>8 DEF Cleared
<1>3. QED
  BY <1>1, <1>2 DEF RollingBackRows

\* A change of rows a session does not hold, its job's row aside.
Aside(mine, rows, next, moved, moved2) ==
    /\ \A i \in RowIds : i \in DOMAIN mine /\ i # Job => next[i] = rows[i]
    /\ \A d \in Copies : /\ next[Order(d)].there <=> rows[Order(d)].there
                         /\ next[Received(d)] = rows[Received(d)]
    /\ next[Deducted] = rows[Deducted]
    /\ \A p \in Products : rows[Stock(p)] \in Nat => next[Stock(p)] \in Nat
    /\ \A i \in Sales : next[i].state = "NONE" <=> rows[i].state = "NONE"
    /\ \A p \in Products, c \in Sources : Credit(mine, rows, p, c) => Credit(mine, next, p, c)
    /\ \A p \in Created : Stock(p) \in DOMAIN mine /\ p \in moved2 => p \in moved

LEMMA SessionKept ==
    ASSUME NEW mine, NEW c \in {0} \cup Copies, NEW skips, NEW stage, NEW rows, NEW next, NEW once,
           NEW led, NEW liv, NEW moved, NEW led2, NEW liv2, NEW moved2,
           SessionRows(mine, c, skips, stage, rows, once, led, liv, moved),
           Aside(mine, rows, next, moved, moved2),
           Books(Laid(mine, rows), once, led, liv) => Books(Laid(mine, next), once, led2, liv2)
    PROVE  SessionRows(mine, c, skips, stage, next, once, led2, liv2, moved2)
<1>1. ASSUME stage \in Loaded PROVE LoadedRows(mine, c, next)
  <2>1. LoadedRows(mine, c, rows) /\ c \in Copies
    BY <1>1 DEF SessionRows, LoadedRows
  <2>2. \A p \in Products : Stock(p) \in RowIds /\ Stock(p) # Job
    BY Ids, Tables
  <2>3. \A p \in Products : IF Stock(p) \in DOMAIN mine THEN next[Stock(p)] = rows[Stock(p)]
                            ELSE rows[Stock(p)] \in Nat => next[Stock(p)] \in Nat
    BY <2>2 DEF Aside
  <2>4. next[Received(c)] = rows[Received(c)]
    BY <2>1 DEF Aside
  <2>5. QED
    BY <2>1, <2>3, <2>4, LoadedKept
<1>2. ASSUME stage \in Recomputing
      PROVE  RecomputingRows(mine, c, skips, stage, next, once, led2, liv2)
  <2>1. RecomputingRows(mine, c, skips, stage, rows, once, led, liv)
    BY <1>2 DEF SessionRows
  <2>2. Books(Laid(mine, next), once, led2, liv2)
    BY <2>1 DEF RecomputingRows
  <2>3. \A i \in Sales : i \in RowIds /\ i # Job
    BY Ids, SaleIs, Tables
  <2>4. \A i \in Sales : Laid(mine, next)[i].state = "NONE" <=> Laid(mine, rows)[i].state = "NONE"
    BY <2>3, LaidIs DEF Aside
  <2>5. /\ \A d \in Copies : rows[Order(d)].there => next[Order(d)].there
        /\ next[Deducted] = rows[Deducted]
    BY DEF Aside
  <2>6. QED
    BY <2>1, <2>2, <2>4, <2>5, RecomputingKept
<1>3. ASSUME stage \in RollingBack PROVE RollingBackRows(mine, stage, next, moved2)
  <2>1. RollingBackRows(mine, stage, rows, moved)
    BY <1>3 DEF SessionRows
  <2>2. \A d \in Copies : next[Order(d)].there <=> rows[Order(d)].there
    BY DEF Aside
  <2>3. \A p \in Products, d \in Sources : Credit(mine, rows, p, d) => Credit(mine, next, p, d)
    BY DEF Aside
  <2>4. \A p \in Created : Stock(p) \in DOMAIN mine /\ p \in moved2 => p \in moved
    BY DEF Aside
  <2>5. QED
    BY <2>1, <2>2, <2>3, <2>4, RollingBackKept
<1>4. QED
  BY <1>1, <1>2, <1>3 DEF SessionRows

------------------------------------------------------------------------------
(* A session's own steps.                                                  *)

\* load() writes the copy, with an empty stock row for each new product.
CopyLoaded(mine, c, new) ==
    /\ DOMAIN mine = {Order(c)} \cup {Sale(c, s) : s \in SaleIds} \cup {Stock(p) : p \in new}
    /\ mine[Order(c)] = [NoOrder EXCEPT !.there = TRUE]
    /\ \A s \in SaleIds : mine[Sale(c, s)] = [NoSale EXCEPT !.state = "COMPLETED"]
    /\ \A p \in new : mine[Stock(p)] = 0

LEMMA LoadRows ==
    ASSUME NEW mine, NEW c \in Copies, NEW rows, NEW new \in SUBSET Created, NEW liv,
           CopyLoaded(mine, c, new), CopyBook(rows), StockBook(rows, liv), ~rows[Order(c)].there,
           \A p \in Created : p \in new <=> rows[Stock(p)] = Missing
    PROVE  LoadedRows(mine, c, rows)
<1>1. /\ DOMAIN mine \subseteq Stocks \cup OfCopy(c)
      /\ Order(c) \in DOMAIN mine /\ \A s \in SaleIds : Sale(c, s) \in DOMAIN mine
      /\ \A p \in Products : Batch(p, c) \notin DOMAIN mine
      /\ Received(c) \notin DOMAIN mine
      /\ \A p \in Products : Stock(p) \in DOMAIN mine <=> p \in new
  BY Tables DEF CopyLoaded, Stocks, OfCopy, Products
<1>2. Laid(mine, rows)[Received(c)] = NoMoves
  BY <1>1, Ids, LaidIs DEF CopyBook
<1>3. ASSUME NEW p \in Products
      PROVE  /\ Laid(mine, rows)[Stock(p)] \in Nat
             /\ Laid(mine, rows)[Stock(p)] = OnHand(rows, p) + Laid(mine, rows)[Received(c)][p]
  <2>1. NoMoves[p] = 0 /\ Stock(p) \in RowIds
    BY Ids DEF NoMoves
  <2>2. CASE p \in new
    <3>1. Laid(mine, rows)[Stock(p)] = 0
      BY <1>1, <2>1, <2>2, LaidIs DEF CopyLoaded
    <3>2. OnHand(rows, p) = 0
      BY <2>2 DEF OnHand
    <3>3. QED
      BY <1>2, <2>1, <3>1, <3>2
  <2>3. CASE p \notin new
    <3>1. Laid(mine, rows)[Stock(p)] = rows[Stock(p)]
      BY <1>1, <2>1, <2>3, LaidIs
    <3>2. rows[Stock(p)] # Missing /\ rows[Stock(p)] \in Nat
      BY <2>3 DEF StockBook, Products
    <3>3. OnHand(rows, p) = rows[Stock(p)]
      BY <3>2 DEF OnHand
    <3>4. QED
      BY <1>2, <2>1, <3>1, <3>2, <3>3
  <2>4. QED
    BY <2>2, <2>3
<1>4. QED
  BY <1>1, <1>2, <1>3, NoneIsRow DEF LoadedRows, CopyLoaded

\* adjust_stock() for every product with an amount, and batches of the order.
MovesMade(mine, mine2, c, rows, amount) ==
    /\ DOMAIN mine \subseteq DOMAIN mine2 /\ DOMAIN mine2 \subseteq Stocks \cup OfCopy(c)
    /\ Received(c) \in DOMAIN mine2
    /\ mine2[Received(c)] = [p \in Products |-> Laid(mine, rows)[Received(c)][p] + amount[p]]
    /\ \A p \in Products : Laid(mine2, rows)[Stock(p)] = Laid(mine, rows)[Stock(p)] + amount[p]
    /\ mine2[Order(c)] = mine[Order(c)]
    /\ \A s \in SaleIds : mine2[Sale(c, s)] = mine[Sale(c, s)]
    /\ \A p \in Products : Batch(p, c) \in DOMAIN mine2 => mine2[Batch(p, c)] = Bought[p]

LEMMA MovesRows ==
    ASSUME NEW mine, NEW mine2, NEW c, NEW rows, NEW amount \in [Products -> Int], NEW liv,
           LoadedRows(mine, c, rows), MovesMade(mine, mine2, c, rows, amount), StockBook(rows, liv),
           \A p \in Products : Laid(mine, rows)[Stock(p)] + amount[p] >= 0
    PROVE  LoadedRows(mine2, c, rows)
<1>1. c \in Copies /\ Received(c) \in RowIds
  BY Ids DEF LoadedRows
<1>2. Laid(mine2, rows)[Received(c)] = [p \in Products |-> Laid(mine, rows)[Received(c)][p] + amount[p]]
  BY <1>1, LaidIs DEF MovesMade
<1>3. Laid(mine, rows)[Received(c)] \in [Products -> Int]
  BY DEF LoadedRows
<1>4. Laid(mine2, rows)[Received(c)] \in [Products -> Int]
  BY <1>2, <1>3
<1>5. ASSUME NEW p \in Products
      PROVE  /\ Laid(mine2, rows)[Stock(p)] \in Nat
             /\ Laid(mine2, rows)[Stock(p)] = OnHand(rows, p) + Laid(mine2, rows)[Received(c)][p]
  <2>1. /\ Laid(mine, rows)[Stock(p)] \in Nat
        /\ Laid(mine, rows)[Stock(p)] = OnHand(rows, p) + Laid(mine, rows)[Received(c)][p]
    BY DEF LoadedRows
  <2>2. Laid(mine2, rows)[Stock(p)] = Laid(mine, rows)[Stock(p)] + amount[p]
    BY DEF MovesMade
  <2>3. Laid(mine2, rows)[Received(c)][p] = Laid(mine, rows)[Received(c)][p] + amount[p]
    BY <1>2
  <2>4. Laid(mine, rows)[Received(c)][p] \in Int /\ amount[p] \in Int
    BY <1>3
  <2>5. OnHand(rows, p) \in Int
    BY DEF OnHand, StockBook, Missing
  <2>6. Laid(mine, rows)[Stock(p)] + amount[p] >= 0
    OBVIOUS
  <2> DEFINE a == Laid(mine, rows)[Stock(p)]
             b == Laid(mine2, rows)[Stock(p)]
             d == Laid(mine, rows)[Received(c)][p]
             e == Laid(mine2, rows)[Received(c)][p]
             h == OnHand(rows, p)
             k == amount[p]
  <2>7. a \in Nat /\ a = h + d /\ b = a + k /\ e = d + k /\ d \in Int /\ k \in Int /\ h \in Int /\ a + k >= 0
    BY <2>1, <2>2, <2>3, <2>4, <2>5, <2>6
  <2> HIDE DEF a, b, d, e, h, k
  <2>8. b \in Nat /\ b = h + e
    BY <2>7
  <2>9. QED
    BY <2>8 DEF b, e, h
<1>6. /\ DOMAIN mine2 \subseteq Stocks \cup OfCopy(c)
      /\ Order(c) \in DOMAIN mine2 /\ mine2[Order(c)] = [NoOrder EXCEPT !.there = TRUE]
      /\ \A s \in SaleIds : /\ Sale(c, s) \in DOMAIN mine2
                            /\ mine2[Sale(c, s)] = [NoSale EXCEPT !.state = "COMPLETED"]
      /\ \A p \in Products : Batch(p, c) \in DOMAIN mine2 => mine2[Batch(p, c)] = Bought[p]
  BY DEF LoadedRows, MovesMade
<1>7. QED
  BY <1>1, <1>4, <1>5, <1>6 DEF LoadedRows

\* Another row locked, that of the job.
WithJob(mine, mine2) ==
    /\ DOMAIN mine2 = DOMAIN mine \cup {Job}
    /\ \A i \in DOMAIN mine : i # Job => mine2[i] = mine[i]

LEMMA StartRows ==
    ASSUME NEW mine, NEW mine2, NEW c, NEW rows, NEW skips, NEW once \in BOOLEAN, NEW led, NEW liv,
           LoadedRows(mine, c, rows), WithJob(mine, mine2), Books(rows, once, led, liv),
           MovesInt(liv), UnitsNat(led), ~rows[Order(c)].there
    PROVE  RecomputingRows(mine2, c, skips, ToDeduct, rows, once /\ Single(c, rows), led, liv)
<1> DEFINE next == Laid(mine2, rows)
<1>1. c \in Copies /\ c \in Sources /\ c # 0
  BY ImportAssumption DEF LoadedRows, Sources, Copies
<1>2. \A i \in DOMAIN mine : i \in RowIds /\ i # Job /\ mine2[i] = mine[i] /\ i \in DOMAIN mine2
  BY <1>1, CopyIs, Tables DEF LoadedRows, WithJob
<1>3. \A i \in RowIds : i # Job => next[i] = Laid(mine, rows)[i]
  BY <1>2, LaidIs DEF WithJob
<1>4. /\ next[Order(c)] = [NoOrder EXCEPT !.there = TRUE]
      /\ \A s \in SaleIds : next[Sale(c, s)] = [NoSale EXCEPT !.state = "COMPLETED"]
      /\ next[Received(c)] \in [Products -> Int]
      /\ \A p \in Products : /\ next[Stock(p)] \in Nat
                             /\ next[Stock(p)] = OnHand(rows, p) + next[Received(c)][p]
                             /\ Batch(p, c) \in DOMAIN mine => next[Batch(p, c)] = Bought[p]
                             /\ Batch(p, c) \notin DOMAIN mine => next[Batch(p, c)] = rows[Batch(p, c)]
  <2>1. /\ \A p \in Products : Stock(p) \in RowIds /\ Batch(p, c) \in RowIds /\ Stock(p) # Job /\ Batch(p, c) # Job
        /\ \A s \in SaleIds : Sale(c, s) \in RowIds /\ Sale(c, s) # Job
        /\ Order(c) \in RowIds /\ Received(c) \in RowIds /\ Order(c) # Job /\ Received(c) # Job
    BY <1>1, Ids, Tables
  <2>2. next[Received(c)] = Laid(mine, rows)[Received(c)] /\ \A p \in Products : next[Stock(p)] = Laid(mine, rows)[Stock(p)]
    BY <1>3, <2>1
  <2>3. /\ next[Received(c)] \in [Products -> Int]
        /\ \A p \in Products : /\ next[Stock(p)] \in Nat
                               /\ next[Stock(p)] = OnHand(rows, p) + next[Received(c)][p]
    BY <2>2 DEF LoadedRows
  <2>4. /\ next[Order(c)] = mine[Order(c)] /\ \A s \in SaleIds : next[Sale(c, s)] = mine[Sale(c, s)]
    <3>1. Order(c) \in DOMAIN mine /\ \A s \in SaleIds : Sale(c, s) \in DOMAIN mine
      BY DEF LoadedRows
    <3>2. /\ Laid(mine, rows)[Order(c)] = mine[Order(c)]
          /\ \A s \in SaleIds : Laid(mine, rows)[Sale(c, s)] = mine[Sale(c, s)]
      BY <2>1, <3>1, LaidIs
    <3>3. QED
      BY <1>3, <2>1, <3>2
  <2>5. \A p \in Products : /\ Batch(p, c) \in DOMAIN mine => next[Batch(p, c)] = Bought[p]
                            /\ Batch(p, c) \notin DOMAIN mine => next[Batch(p, c)] = rows[Batch(p, c)]
    BY <1>3, <2>1, LaidIs DEF LoadedRows
  <2>6. QED
    BY <2>3, <2>4, <2>5 DEF LoadedRows
<1>5. \A i \in RowIds : i # Job /\ i \notin OfCopy(c) /\ i \notin Stocks => next[i] = rows[i]
  BY <1>3, LaidIs DEF LoadedRows
<1>6. /\ next[Deducted] = rows[Deducted]
      /\ \A d \in Copies \ {c} : next[Received(d)] = rows[Received(d)] /\ next[Order(d)] = rows[Order(d)]
      /\ \A d \in Copies \ {c}, s \in SaleIds : next[Sale(d, s)] = rows[Sale(d, s)]
      /\ \A p \in Products, d \in Sources \ {c} : next[Batch(p, d)] = rows[Batch(p, d)]
  <2>1. \A i : i \in Stocks => i[1] = "stock"
    BY CopyIs
  <2>2. \A d \in Copies \ {c} : /\ Received(d) \notin OfCopy(c) /\ Order(d) \notin OfCopy(c)
                                /\ \A s \in SaleIds : Sale(d, s) \notin OfCopy(c)
    BY CopyIs
  <2>3. \A p \in Products, d \in Sources \ {c} : Batch(p, d) \notin OfCopy(c)
    BY CopyIs
  <2>4. Deducted \notin OfCopy(c)
    BY CopyIs, Tables
  <2>5. QED
    BY <1>5, <2>1, <2>2, <2>3, <2>4, Ids, Tables
<1>7. DOMAIN next = RowIds
  BY LaidIs
<1>8. \A d \in Copies : d \in Sources
  BY DEF Sources
<1>9. /\ \A s \in SaleIds : rows[Sale(c, s)] = NoSale
      /\ rows[Received(c)] = NoMoves
      /\ \A p \in Products : rows[Batch(p, c)] = Missing
  BY <1>1 DEF Books, CopyBook
<1> HIDE DEF next
<1>10. \A i \in Sales : \/ next[i] = rows[i]
                        \/ rows[i] = NoSale /\ next[i] = [NoSale EXCEPT !.state = "COMPLETED"]
  <2>1. TAKE i \in Sales
  <2>2. PICK d \in Copies, s \in SaleIds : i = Sale(d, s)
    BY DEF Sales
  <2>3. QED
    BY <1>4, <1>6, <1>9, <2>2
<1>11. \A i \in Sales : /\ next[i].fifo = rows[i].fifo /\ next[i].costed = rows[i].costed
                        /\ rows[i] \in SaleRow => next[i] \in SaleRow
  <2>1. /\ [NoSale EXCEPT !.state = "COMPLETED"] \in SaleRow
        /\ [NoSale EXCEPT !.state = "COMPLETED"].fifo = NoSale.fifo
        /\ [NoSale EXCEPT !.state = "COMPLETED"].costed = NoSale.costed
    BY NoneIsRow DEF NoSale, SaleRow
  <2>2. QED
    BY <1>10, <2>1
<1>12. SalesTyped(next)
  BY <1>11 DEF Books, BatchBook, SalesTyped
<1>13. StockBook(rows, liv) /\ MovesTyped(rows)
  BY DEF Books, StockBook
<1>14. MovesTyped(next)
  <2>1. \A d \in Copies : next[Received(d)] \in [Products -> Int]
    BY <1>4, <1>6, <1>13 DEF MovesTyped
  <2>2. QED
    BY <1>6, <1>13, <2>1 DEF MovesTyped
<1>15. StockBook(next, liv)
  <2>1. ASSUME NEW p \in Products
        PROVE  /\ next[Stock(p)] \in Nat
               /\ OnHand(next, p) = Opened(p) + liv[p] + Moved(next, p)
    <3>1. Moved(next, p) = Moved(rows, p) - rows[Received(c)][p] + next[Received(c)][p]
      BY <1>1, <1>6, <1>13, <1>14, MovedReceived
    <3>2. rows[Received(c)][p] = 0 /\ next[Received(c)][p] \in Int /\ Moved(rows, p) \in Int
      BY <1>4, <1>9, <1>13, MovedIs DEF NoMoves
    <3>3. next[Stock(p)] \in Nat /\ OnHand(next, p) = OnHand(rows, p) + next[Received(c)][p]
      BY <1>4 DEF OnHand, Missing
    <3>4. OnHand(rows, p) = Opened(p) + liv[p] + Moved(rows, p)
      BY <1>13 DEF StockBook
    <3>5. Opened(p) \in Int /\ liv[p] \in Int
      BY ImportAssumption DEF Opened, MovesInt
    <3>6. QED
      BY <3>1, <3>2, <3>3, <3>4, <3>5
  <2>2. Missing \notin Nat
    BY DEF Missing
  <2>3. QED
    BY <1>14, <2>1, <2>2 DEF StockBook
<1>16. BatchBook(rows, led)
  BY DEF Books
<1>17. BatchBook(next, led)
  <2>1. \A p, d : Consumed(next, p, d) = Consumed(rows, p, d)
    BY <1>11, ConsumedSame
  <2>2. \A p \in Products : next[Batch(p, 0)] = rows[Batch(p, 0)]
    BY <1>1, <1>6 DEF Sources
  <2>3. ASSUME NEW p \in Products, NEW d \in Sources
        PROVE  /\ next[Batch(p, d)] \in Nat \cup {Missing}
               /\ next[Batch(p, d)] = Missing => led[p][d] = 0 /\ Consumed(next, p, d) = 0
               /\ next[Batch(p, d)] # Missing =>
                     next[Batch(p, d)] + led[p][d] + Consumed(next, p, d) = Filled(p, d)
    <3>1. CASE d # c
      BY <1>6, <1>16, <2>1, <3>1 DEF BatchBook
    <3>2. CASE d = c /\ next[Batch(p, c)] = Missing
      BY <1>9, <1>16, <2>1, <3>2 DEF BatchBook
    <3>3. CASE d = c /\ next[Batch(p, c)] # Missing
      <4>1. next[Batch(p, c)] = Bought[p]
        BY <1>4, <1>9, <3>3
      <4>2. led[p][c] = 0 /\ Consumed(next, p, c) = 0
        BY <1>1, <1>9, <1>16, <2>1 DEF BatchBook
      <4>3. Bought[p] \in Nat /\ Filled(p, c) = Bought[p]
        BY <1>1, ImportAssumption DEF Filled
      <4>4. QED
        BY <3>3, <4>1, <4>2, <4>3
    <3>4. QED
      BY <3>1, <3>2, <3>3
  <2>4. QED
    BY <1>12, <1>16, <2>2, <2>3 DEF BatchBook
<1>18. next[Order(c)].there /\ next[Order(c)] \in [there : BOOLEAN, paid : BOOLEAN]
  BY <1>4 DEF NoOrder
<1>19. CopyBook(rows)
  BY DEF Books
<1>20. CopyBook(next)
  <2>1. ASSUME NEW d \in Copies
        PROVE  /\ next[Order(d)] \in [there : BOOLEAN, paid : BOOLEAN]
               /\ ~next[Order(d)].there =>
                     /\ \A s \in SaleIds : next[Sale(d, s)] = NoSale
                     /\ next[Received(d)] = NoMoves
                     /\ \A p \in Products : next[Batch(p, d)] = Missing
    <3>1. CASE d = c
      BY <1>18, <3>1
    <3>2. CASE d # c
      BY <1>6, <1>8, <1>19, <3>2 DEF CopyBook
    <3>3. QED
      BY <3>1, <3>2
  <2>2. QED
    BY <1>1, <1>18, <2>1 DEF CopyBook
<1>21. SaleBook(next, once /\ Single(c, rows))
  <2>1. \A i \in Sales : /\ next[i].costed => next[Deducted][ProductOf(i)] > 0
                         /\ ~next[i].costed => next[i].fifo = NoUnits
    BY <1>6, <1>11 DEF Books, SaleBook
  <2>2. ASSUME Single(c, rows), NEW p \in Products PROVE next[Deducted][p] = 0
    <3>1. \A d \in Copies : ~rows[Order(d)].there
      BY <1>1, <2>2 DEF Single
    <3>2. rows[Deducted] = NoMoves
      BY <1>19, <3>1 DEF CopyBook
    <3>3. QED
      BY <1>6, <3>2 DEF NoMoves
  <2>3. QED
    BY <2>1, <2>2 DEF SaleBook
<1>22. Books(next, once /\ Single(c, rows), led, liv)
  BY <1>7, <1>15, <1>17, <1>20, <1>21 DEF Books
<1>23. Job \in DOMAIN mine2 /\ DOMAIN mine2 \subseteq RowIds
  BY <1>2, Ids DEF WithJob
<1>24. \A d \in Copies : DOMAIN mine2 \cap OfCopy(d) # {} => d = c
  <2>1. SUFFICES ASSUME NEW d \in Copies, NEW i \in DOMAIN mine2, i \in OfCopy(d) PROVE d = c
    OBVIOUS
  <2>2. i # Job /\ i \notin Stocks
    BY <2>1, CopyIs, Tables
  <2>3. i \in OfCopy(c)
    BY <2>1, <2>2 DEF WithJob, LoadedRows
  <2>4. QED
    BY <2>1, <2>3, CopyIs
<1>25. \A d \in Copies : Order(d) \in DOMAIN mine2 => d = c
  BY <1>24, CopyIs
<1>26. \A p \in Products : Stock(p) \in DOMAIN mine2 => mine2[Stock(p)] \in Nat
  <2>1. \A p \in Products : Stock(p) \in DOMAIN mine2 => next[Stock(p)] = mine2[Stock(p)]
    BY Ids, LaidIs DEF next
  <2>2. QED
    BY <1>4, <2>1
<1>27. ToDeduct # ToCost
  BY StagesApart
<1>28. QED
  BY <1>18, <1>22, <1>23, <1>24, <1>25, <1>26, <1>27 DEF RecomputingRows, Tagged, next

LEMMA ClaimRows ==
    ASSUME NEW mine, NEW rows, NEW skips, NEW once, NEW led, NEW liv, NEW moved,
           DOMAIN mine = {Job}, Books(rows, once, led, liv)
    PROVE  /\ RecomputingRows(mine, 0, skips, ToDeduct, rows, once, led, liv)
           /\ RollingBackRows(mine, ToUnfifo, rows, moved)
<1>1. \A i \in RowIds : i # Job => Laid(mine, rows)[i] = rows[i]
  BY LaidIs
<1>2. \A c \in Copies : Laid(mine, rows)[Order(c)] = rows[Order(c)]
  BY <1>1, Ids, Tables
<1>3. \A c \in Copies : rows[Order(c)] \in [there : BOOLEAN, paid : BOOLEAN]
  BY DEF Books, CopyBook
<1>4. Books(Laid(mine, rows), once, led, liv)
  BY <1>1, <1>2, <1>3, BooksAlike, LaidIs
<1>5. Tagged(mine, 0, rows)
  <2>1. \A d : Job \notin OfCopy(d)
    BY CopyIs, Tables
  <2>2. QED
    BY <2>1 DEF Tagged
<1>6. /\ \A c \in Copies : Order(c) \notin DOMAIN mine
      /\ \A p \in Products : Stock(p) \notin DOMAIN mine
      /\ DOMAIN mine \subseteq RowIds
  BY Ids, Tables
<1>7. QED
  BY <1>4, <1>5, <1>6, StagesApart DEF RecomputingRows, RollingBackRows

\* A recompute deducts what the imported sales of these products took.
Deducts(mine, mine2, rows, done) ==
    /\ DOMAIN mine2 = DOMAIN mine \cup {Deducted} \cup {Stock(p) : p \in done}
    /\ \A i \in RowIds : i # Deducted /\ (\A p \in done : i # Stock(p))
                           => Laid(mine2, rows)[i] = Laid(mine, rows)[i]
    /\ Laid(mine2, rows)[Deducted] = [p \in Products |->
          IF p \in done THEN Recorded(Laid(mine, rows), p) ELSE Laid(mine, rows)[Deducted][p]]
    /\ \A p \in done :
          /\ Laid(mine, rows)[Stock(p)] >= Recorded(Laid(mine, rows), p)
          /\ Recorded(Laid(mine, rows), p) > 0 /\ Laid(mine, rows)[Deducted][p] = 0
          /\ Laid(mine2, rows)[Stock(p)] = Laid(mine, rows)[Stock(p)] - Recorded(Laid(mine, rows), p)

LEMMA DeductRows ==
    ASSUME NEW mine, NEW mine2, NEW c \in {0} \cup Copies, NEW skips, NEW skips2, NEW rows, NEW once,
           NEW led, NEW liv, NEW done \in SUBSET Products,
           RecomputingRows(mine, c, skips, ToDeduct, rows, once, led, liv), MovesInt(liv),
           Deducts(mine, mine2, rows, done),
           \A p \in Products : Recorded(Laid(mine, rows), p) > 0 =>
               Laid(mine, rows)[Deducted][p] # 0 \/ p \in done \/ p \in skips2
    PROVE  RecomputingRows(mine2, c, skips2, ToCost, rows, once, led, liv)
<1> DEFINE seen == Laid(mine, rows)
           next == Laid(mine2, rows)
<1>1. /\ Job \in DOMAIN mine /\ DOMAIN mine \subseteq RowIds
      /\ Tagged(mine, c, rows)
      /\ \A d \in Copies : Order(d) \in DOMAIN mine => d = c
      /\ c # 0 => seen[Order(c)].there
      /\ \A p \in Products : Stock(p) \in DOMAIN mine => mine[Stock(p)] \in Nat
      /\ Books(seen, once, led, liv)
  BY DEF RecomputingRows
<1>2. /\ DOMAIN mine2 = DOMAIN mine \cup {Deducted} \cup {Stock(p) : p \in done}
      /\ \A i \in RowIds : i # Deducted /\ (\A p \in done : i # Stock(p)) => next[i] = seen[i]
      /\ next[Deducted] = [p \in Products |-> IF p \in done THEN Recorded(seen, p) ELSE seen[Deducted][p]]
      /\ \A p \in done : /\ seen[Stock(p)] >= Recorded(seen, p)
                         /\ Recorded(seen, p) > 0 /\ seen[Deducted][p] = 0
                         /\ next[Stock(p)] = seen[Stock(p)] - Recorded(seen, p)
  BY DEF Deducts
<1>3. DOMAIN next = RowIds
  BY LaidIs
<1>4. \A p \in Products : Recorded(seen, p) > 0 => seen[Deducted][p] # 0 \/ p \in done \/ p \in skips2
  OBVIOUS
<1>5. /\ \A i \in DOMAIN mine : i # Deducted /\ (\A p \in done : i # Stock(p)) => mine2[i] = mine[i]
      /\ \A p \in done : mine2[Stock(p)] = next[Stock(p)]
  <2>1. \A i \in DOMAIN mine : i \in RowIds /\ i \in DOMAIN mine2
    BY <1>1, <1>2
  <2>2. \A p \in done : Stock(p) \in RowIds /\ Stock(p) \in DOMAIN mine2
    BY <1>2, Ids
  <2>3. \A i \in DOMAIN mine : next[i] = mine2[i] /\ seen[i] = mine[i]
    BY <2>1, LaidIs
  <2>4. \A p \in done : next[Stock(p)] = mine2[Stock(p)]
    BY <2>2, LaidIs
  <2>5. QED
    BY <1>2, <2>1, <2>3, <2>4
<1> HIDE DEF seen, next
<1>6. Books(next, once, led, liv)
  BY <1>1, <1>2, <1>3, DeductBooks
<1>7. Tagged(mine2, c, rows)
  <2>1. \A d \in Copies : \A i \in DOMAIN mine2 \cap OfCopy(d) : i \in DOMAIN mine
    BY <1>2, CopyIs, Tables
  <2>2. QED
    BY <1>1, <2>1 DEF Tagged
<1>8. \A d \in Copies : Order(d) \in DOMAIN mine2 => Order(d) \in DOMAIN mine
  BY <1>2, Tables
<1>9. c # 0 => next[Order(c)].there
  <2>1. SUFFICES ASSUME c # 0 PROVE next[Order(c)].there
    OBVIOUS
  <2>2. next[Order(c)] = seen[Order(c)]
    BY <1>2, <2>1, Ids, Tables
  <2>3. QED
    BY <1>1, <2>1, <2>2
<1>10. \A p \in Products : Stock(p) \in DOMAIN mine2 => mine2[Stock(p)] \in Nat
  <2>1. TAKE p \in Products
  <2>2. CASE p \in done
    <3>1. seen[Stock(p)] \in Nat \cup {Missing} /\ Recorded(seen, p) \in Nat
      BY <1>1, RecordedNat DEF Books, StockBook
    <3>2. QED
      BY <1>2, <1>5, <2>2, <3>1 DEF Missing
  <2>3. CASE p \notin done
    <3>1. Stock(p) # Deducted /\ \A q \in done : Stock(q) # Stock(p)
      BY <2>3, Tables
    <3>2. QED
      BY <1>1, <1>2, <1>5, <3>1
  <2>4. QED
    BY <2>2, <2>3
<1>11. ASSUME NEW i \in Sales, next[i].state # "NONE", ProductOf(i) \notin skips2
       PROVE  next[Deducted][ProductOf(i)] > 0
  <2> DEFINE p == ProductOf(i)
  <2>1. p \in Products /\ next[i] = seen[i]
    BY <1>2, SaleIs, Ids, Tables
  <2>2. Recorded(seen, p) > 0
    BY <1>11, <2>1, RecordedNat
  <2>3. seen[Deducted][p] # 0 \/ p \in done
    BY <1>4, <1>11, <2>1, <2>2
  <2>4. seen[Deducted][p] \in Nat
    BY <1>1, <2>1 DEF Books, StockBook, MovesTyped
  <2>5. QED
    BY <1>2, <2>1, <2>2, <2>3, <2>4
<1>12. Job \in DOMAIN mine2 /\ DOMAIN mine2 \subseteq RowIds
  BY <1>1, <1>2, Ids
<1>13. QED
  BY <1>1, <1>6, <1>7, <1>8, <1>9, <1>10, <1>11, <1>12 DEF RecomputingRows, next

\* One sale is costed.
Costs(mine, mine2, rows, k, gone) ==
    /\ DOMAIN mine \subseteq DOMAIN mine2
    /\ \A i \in DOMAIN mine2 : \/ i \in DOMAIN mine \/ i = k
                               \/ \E d \in Sources : /\ i = Batch(ProductOf(k), d)
                                                     /\ Laid(mine, rows)[i] > 0
    /\ \A i \in RowIds : i # k /\ (\A d \in Sources : i # Batch(ProductOf(k), d))
                           => Laid(mine2, rows)[i] = Laid(mine, rows)[i]
    /\ Laid(mine2, rows)[k] = [Laid(mine, rows)[k] EXCEPT !.fifo = gone, !.costed = TRUE]
    /\ \A d \in Sources :
          /\ gone[d] > 0 => Laid(mine, rows)[Batch(ProductOf(k), d)] >= gone[d]
          /\ Laid(mine2, rows)[Batch(ProductOf(k), d)] = Laid(mine, rows)[Batch(ProductOf(k), d)] - gone[d]

LEMMA CostRows ==
    ASSUME NEW mine, NEW mine2, NEW c \in {0} \cup Copies, NEW skips, NEW rows, NEW once,
           NEW led, NEW liv, NEW k \in Sales, NEW gone \in [Sources -> Nat],
           RecomputingRows(mine, c, skips, ToCost, rows, once, led, liv), UnitsNat(led),
           Costs(mine, mine2, rows, k, gone),
           Laid(mine, rows)[k].state # "NONE", ~Laid(mine, rows)[k].costed, ProductOf(k) \notin skips
    PROVE  RecomputingRows(mine2, c, skips, ToCost, rows, once, led, liv)
<1> DEFINE seen == Laid(mine, rows)
           next == Laid(mine2, rows)
           p == ProductOf(k)
<1>1. /\ Job \in DOMAIN mine /\ DOMAIN mine \subseteq RowIds
      /\ Tagged(mine, c, rows)
      /\ \A d \in Copies : Order(d) \in DOMAIN mine => d = c
      /\ c # 0 => seen[Order(c)].there
      /\ \A q \in Products : Stock(q) \in DOMAIN mine => mine[Stock(q)] \in Nat
      /\ Books(seen, once, led, liv)
      /\ \A i \in Sales : seen[i].state # "NONE" /\ ProductOf(i) \notin skips
                            => seen[Deducted][ProductOf(i)] > 0
  BY DEF RecomputingRows
<1>2. /\ DOMAIN mine \subseteq DOMAIN mine2
      /\ \A i \in DOMAIN mine2 : \/ i \in DOMAIN mine \/ i = k
                                 \/ \E d \in Sources : i = Batch(p, d) /\ seen[i] > 0
      /\ \A i \in RowIds : i # k /\ (\A d \in Sources : i # Batch(p, d)) => next[i] = seen[i]
      /\ next[k] = [seen[k] EXCEPT !.fifo = gone, !.costed = TRUE]
      /\ \A d \in Sources : /\ gone[d] > 0 => seen[Batch(p, d)] >= gone[d]
                            /\ next[Batch(p, d)] = seen[Batch(p, d)] - gone[d]
  BY DEF Costs
<1>3. DOMAIN next = RowIds /\ k \in RowIds /\ k[1] = "sale" /\ p \in Products
  BY LaidIs, Ids, SaleIs
<1>4. seen[k].state # "NONE" /\ ~seen[k].costed /\ seen[Deducted][p] > 0
  BY <1>1
<1>5. \A d \in Copies : seen[Order(d)].there => d = c \/ rows[Order(d)].there
  BY <1>1, LaidIs, Ids
<1> HIDE DEF seen, next
<1>6. Books(next, once, led, liv)
  <2>1. Books(seen, once, led, liv)
    BY <1>1
  <2>2. \A i \in RowIds : i # k /\ (\A d \in Sources : i # Batch(ProductOf(k), d)) => next[i] = seen[i]
    BY <1>2
  <2>3. next[k] = [seen[k] EXCEPT !.fifo = gone, !.costed = TRUE]
    BY <1>2
  <2>4. \A d \in Sources :
           /\ gone[d] > 0 => seen[Batch(ProductOf(k), d)] >= gone[d]
           /\ next[Batch(ProductOf(k), d)] = seen[Batch(ProductOf(k), d)] - gone[d]
    BY <1>2
  <2>5. DOMAIN next = RowIds /\ seen[k].state # "NONE" /\ ~seen[k].costed /\ seen[Deducted][ProductOf(k)] > 0
    BY <1>3, <1>4
  <2>6. SaleCosted(seen, next, k, gone)
    BY <2>2, <2>3, <2>4, <2>5 DEF SaleCosted
  <2>7. QED
    BY <2>1, <2>6, CostBooks
<1>7. CopyBook(seen)
  BY <1>1 DEF Books
<1>8. Tagged(mine2, c, rows)
  <2>1. SUFFICES ASSUME NEW d \in Copies, NEW i \in DOMAIN mine2, i \in OfCopy(d)
                 PROVE  d = c \/ rows[Order(d)].there
    BY DEF Tagged
  <2>2. CASE i \in DOMAIN mine
    BY <1>1, <2>1, <2>2 DEF Tagged
  <2>3. CASE i = k
    <3>1. PICK e \in Copies, s \in SaleIds : k = Sale(e, s)
      BY DEF Sales
    <3>2. e = d
      BY <2>1, <2>3, <3>1, CopyIs, Tables
    <3>3. seen[Order(d)].there
      BY <1>4, <1>7, <3>1, <3>2, SaleOfCopy
    <3>4. QED
      BY <1>5, <3>3
  <2>4. CASE \E e \in Sources : i = Batch(p, e) /\ seen[i] > 0
    <3>1. PICK e \in Sources : i = Batch(p, e) /\ seen[i] > 0
      BY <2>4
    <3>2. e = d
      BY <2>1, <3>1, CopyIs, Tables
    <3>3. seen[Batch(p, d)] # Missing
      BY <3>1, <3>2 DEF Missing
    <3>4. seen[Order(d)].there
      BY <1>3, <1>7, <2>1, <3>3 DEF CopyBook
    <3>5. QED
      BY <1>5, <3>4
  <2>5. QED
    BY <1>2, <2>2, <2>3, <2>4
<1>9. /\ \A d \in Copies : Order(d) \in DOMAIN mine2 => Order(d) \in DOMAIN mine
      /\ \A q \in Products : Stock(q) \in DOMAIN mine2 => Stock(q) \in DOMAIN mine
  BY <1>2, <1>3, Tables
<1>10. c # 0 => next[Order(c)].there
  <2>1. SUFFICES ASSUME c # 0 PROVE next[Order(c)].there
    OBVIOUS
  <2>2. next[Order(c)] = seen[Order(c)]
    BY <1>2, <1>3, <2>1, Ids, Tables
  <2>3. QED
    BY <1>1, <2>1, <2>2
<1>11. \A q \in Products : Stock(q) \in DOMAIN mine2 => mine2[Stock(q)] \in Nat
  <2>1. TAKE q \in Products
  <2>2. SUFFICES ASSUME Stock(q) \in DOMAIN mine2 PROVE mine2[Stock(q)] \in Nat
    OBVIOUS
  <2>3. next[Stock(q)] = mine2[Stock(q)] /\ seen[Stock(q)] = mine[Stock(q)]
    BY <1>9, <2>2, LaidIs, Ids DEF next, seen
  <2>4. next[Stock(q)] = seen[Stock(q)]
    BY <1>2, <1>3, Ids, Tables
  <2>5. QED
    BY <1>1, <1>9, <2>2, <2>3, <2>4
<1>12. next[Deducted] = seen[Deducted] /\ \A i \in Sales : next[i].state = seen[i].state
  <2>1. next[Deducted] = seen[Deducted] /\ \A i \in Sales \ {k} : next[i] = seen[i]
    BY <1>2, <1>3, Ids, Tables, SaleIs
  <2>2. seen[k] \in SaleRow
    BY <1>1 DEF Books, BatchBook, SalesTyped
  <2>3. next[k].state = seen[k].state
    BY <1>2, <2>2 DEF SaleRow
  <2>4. QED
    BY <2>1, <2>3
<1>13. DOMAIN mine2 \subseteq RowIds
  BY <1>1, <1>2, <1>3, Ids
<1>14. QED
  BY <1>1, <1>2, <1>6, <1>8, <1>9, <1>10, <1>11, <1>12, <1>13 DEF RecomputingRows, next

\* reverse_fifo_consumption() of the imported sales.
Unfifoed(mine, rows) ==
    /\ DOMAIN mine = {Job} \cup {b \in Batches : Consumed(rows, b[2], b[3]) > 0}
    /\ \A b \in Batches : Consumed(rows, b[2], b[3]) > 0 =>
          mine[b] = rows[b] + Consumed(rows, b[2], b[3])

LEMMA BatchIs ==
    /\ \A b \in Batches : \E p \in Products, c \in Sources : b = Batch(p, c)
    /\ \A p \in Products, c \in Sources : /\ Batch(p, c) \in Batches /\ Batch(p, c) # Job
                                          /\ Batch(p, c)[2] = p /\ Batch(p, c)[3] = c
BY Tables DEF Batches

\* A batch there is was there before the import or is of a copy that is there.
LEMMA BatchOfCopy ==
    ASSUME NEW rows, CopyBook(rows), NEW p \in Products, NEW c \in Copies, rows[Batch(p, c)] # Missing
    PROVE  rows[Order(c)].there
BY DEF CopyBook

LEMMA UnfifoRows ==
    ASSUME NEW mine, NEW rows, NEW led, NEW moved, Unfifoed(mine, rows), BatchBook(rows, led), CopyBook(rows)
    PROVE  RollingBackRows(mine, ToDelete, rows, moved)
<1>1. ASSUME NEW p \in Products, NEW c \in Sources PROVE Credit(mine, rows, p, c)
  <2> DEFINE b == Batch(p, c)
  <2>1. b \in Batches /\ b # Job /\ b[2] = p /\ b[3] = c
    BY BatchIs
  <2>2. Consumed(rows, p, c) \in Nat
    BY ConsumedNat DEF BatchBook
  <2>3. /\ b \in DOMAIN mine <=> Consumed(rows, p, c) > 0
        /\ Consumed(rows, p, c) > 0 => mine[b] = rows[b] + Consumed(rows, p, c)
    BY <2>1 DEF Unfifoed
  <2>4. rows[b] = Missing => Consumed(rows, p, c) = 0
    BY DEF BatchBook
  <2>5. QED
    BY <2>2, <2>3, <2>4 DEF Credit
<1>2. Tagged(mine, 0, rows)
  <2>1. SUFFICES ASSUME NEW d \in Copies, NEW i \in DOMAIN mine, i \in OfCopy(d)
                 PROVE  rows[Order(d)].there
    BY DEF Tagged
  <2>2. i \in Batches
    BY <2>1, CopyIs, Tables DEF Unfifoed
  <2>3. PICK p \in Products, c \in Sources : i = Batch(p, c)
    BY <2>2, BatchIs
  <2>4. c = d
    BY <2>1, <2>3, CopyIs, Tables
  <2>5. rows[Batch(p, d)] # Missing
    BY <1>1, <2>1, <2>3, <2>4 DEF Credit
  <2>6. QED
    BY <2>5, BatchOfCopy
<1>3. DOMAIN mine \subseteq {Job} \cup Batches /\ Job \in DOMAIN mine
  BY DEF Unfifoed
<1>4. QED
  BY <1>1, <1>2, <1>3, StagesApart DEF RollingBackRows

\* rollback() deletes what is tagged.
Deletes(mine, mine2, rows) ==
    /\ DOMAIN mine2 = DOMAIN mine \cup {Deducted} \cup {Stock(p) : p \in Created}
                        \cup UNION {OfCopy(c) : c \in {d \in Copies : rows[Order(d)].there}}
    /\ \A c \in Copies : rows[Order(c)].there =>
          /\ mine2[Order(c)] = NoOrder /\ mine2[Received(c)] = NoMoves
          /\ \A s \in SaleIds : mine2[Sale(c, s)] = NoSale
          /\ \A p \in Products : mine2[Batch(p, c)] = Missing
    /\ mine2[Deducted] = NoMoves
    /\ \A p \in Created : mine2[Stock(p)] = Missing
    /\ \A p \in Products : Batch(p, 0) \in DOMAIN mine => mine2[Batch(p, 0)] = mine[Batch(p, 0)]

LEMMA DeleteRows ==
    ASSUME NEW mine, NEW mine2, NEW rows, NEW led, NEW moved,
           RollingBackRows(mine, ToDelete, rows, moved), Deletes(mine, mine2, rows),
           BatchBook(rows, led), CopyBook(rows), Created \cap moved = {}
    PROVE  RollingBackRows(mine2, ToReverse, rows, moved)
<1>1. /\ Job \in DOMAIN mine /\ DOMAIN mine \subseteq {Job} \cup Batches
      /\ \A p \in Products, c \in Sources : Credit(mine, rows, p, c)
  BY DEF RollingBackRows
<1>2. \A i \in DOMAIN mine \ {Job} :
         \/ \E p \in Deduped : i = Batch(p, 0)
         \/ \E c \in Copies : rows[Order(c)].there /\ i \in OfCopy(c)
  <2>1. TAKE i \in DOMAIN mine \ {Job}
  <2>2. PICK p \in Products, c \in Sources : i = Batch(p, c)
    BY <1>1, BatchIs
  <2>3. rows[Batch(p, c)] # Missing
    BY <1>1, <2>2 DEF Credit
  <2>4. CASE c = 0
    BY <2>2, <2>3, <2>4 DEF BatchBook
  <2>5. CASE c \in Copies
    BY <2>2, <2>3, <2>5, BatchOfCopy, CopyIs
  <2>6. QED
    BY <2>4, <2>5 DEF Sources
<1>3. DOMAIN mine2 \subseteq {Job, Deducted} \cup {Stock(p) : p \in Created}
                               \cup {Batch(p, 0) : p \in Deduped}
                               \cup UNION {OfCopy(c) : c \in {d \in Copies : rows[Order(d)].there}}
  BY <1>1, <1>2 DEF Deletes
<1>4. \A p \in Deduped : Credit(mine2, rows, p, 0)
  <2>1. TAKE p \in Deduped
  <2>2. p \in Products /\ 0 \in Sources /\ 0 \notin Copies
    BY ImportAssumption DEF Products, Sources, Copies
  <2>3. Batch(p, 0) \in DOMAIN mine2 <=> Batch(p, 0) \in DOMAIN mine
    <3>1. \A c \in Copies : Batch(p, 0) \notin OfCopy(c)
      BY <2>2, CopyIs, Tables
    <3>2. Batch(p, 0) # Deducted /\ \A q : Batch(p, 0) # Stock(q)
      BY Tables
    <3>3. QED
      BY <3>1, <3>2 DEF Deletes
  <2>4. QED
    BY <1>1, <2>2, <2>3 DEF Credit, Deletes
<1>5. Tagged(mine2, 0, rows)
  <2>1. SUFFICES ASSUME NEW d \in Copies, NEW i \in DOMAIN mine2, i \in OfCopy(d)
                 PROVE  rows[Order(d)].there
    BY DEF Tagged
  <2>2. i # Job /\ i # Deducted /\ \A p : i # Stock(p)
    BY <2>1, CopyIs, Tables
  <2>3. CASE i \in DOMAIN mine
    <3>1. d # 0
      BY ImportAssumption DEF Copies
    <3>2. QED
      BY <2>1, <2>3, <3>1 DEF RollingBackRows, Tagged
  <2>4. CASE \E c \in Copies : rows[Order(c)].there /\ i \in OfCopy(c)
    BY <2>1, <2>4, CopyIs
  <2>5. QED
    BY <2>1, <2>2, <2>3, <2>4 DEF Deletes
<1>6. /\ Deducted \in DOMAIN mine2 /\ mine2[Deducted] = NoMoves
      /\ \A p \in Created : Stock(p) \in DOMAIN mine2 /\ mine2[Stock(p)] = Missing /\ p \notin moved
      /\ \A c \in Copies : rows[Order(c)].there =>
            /\ OfCopy(c) \subseteq DOMAIN mine2
            /\ mine2[Order(c)] = NoOrder /\ mine2[Received(c)] = NoMoves
            /\ \A s \in SaleIds : mine2[Sale(c, s)] = NoSale
            /\ \A p \in Products : mine2[Batch(p, c)] = Missing
  BY DEF Deletes
<1>7. Cleared(mine2, rows, moved)
  BY <1>3, <1>4, <1>6 DEF Cleared
<1>8. Job \in DOMAIN mine2
  BY <1>1 DEF Deletes
<1>9. QED
  BY <1>5, <1>7, <1>8, StagesApart DEF RollingBackRows

------------------------------------------------------------------------------
(* Commits.                                                                *)

\* A recompute publishes what it sees.
Published(mine, rows, next) ==
    /\ DOMAIN next = RowIds
    /\ \A i \in RowIds : i # Job => next[i] = Laid(mine, rows)[i]

LEMMA PublishBooks ==
    ASSUME NEW mine, NEW rows, NEW next, NEW once, NEW led, NEW liv,
           Books(Laid(mine, rows), once, led, liv), Published(mine, rows, next)
    PROVE  Books(next, once, led, liv)
<1>1. \A c \in Copies : /\ next[Order(c)] = Laid(mine, rows)[Order(c)]
                        /\ Laid(mine, rows)[Order(c)] \in [there : BOOLEAN, paid : BOOLEAN]
  BY Ids, Tables DEF Published, Books, CopyBook
<1>2. QED
  BY <1>1, BooksAlike DEF Published

\* rollback_job() publishes the deletions and takes the movements back.
Reversed(mine, rows, next, led, liv, led2, liv2, skips) ==
    /\ DOMAIN next = RowIds
    /\ \A i \in RowIds : i # Job /\ i \notin Stocks => next[i] = Laid(mine, rows)[i]
    /\ \A p \in Created : next[Stock(p)] = Laid(mine, rows)[Stock(p)]
    /\ skips \subseteq Deduped
    /\ \A p \in Deduped : /\ next[Stock(p)] \in Nat
                          /\ next[Stock(p)] = IF p \in skips THEN rows[Stock(p)]
                                              ELSE rows[Stock(p)] - Moved(rows, p)
    /\ \A p \in Products : /\ led2[p] = [NoUnits EXCEPT ![0] = led[p][0]]
                           /\ liv2[p] = IF p \in skips THEN liv[p] + Moved(rows, p) ELSE liv[p]

LEMMA ReverseBooks ==
    ASSUME NEW mine, NEW rows, NEW next, NEW once, NEW led, NEW liv, NEW led2, NEW liv2, NEW moved, NEW skips,
           Books(rows, once, led, liv), MovesInt(liv), UnitsNat(led), Cleared(mine, rows, moved),
           \A p \in Created : p \notin moved => liv[p] = 0,
           Reversed(mine, rows, next, led, liv, led2, liv2, skips)
    PROVE  /\ Books(next, once, led2, liv2)
           /\ \A c \in Copies : ~next[Order(c)].there
           /\ \A p \in Created : liv2[p] = liv[p]
<1> DEFINE seen == Laid(mine, rows)
<1>1. /\ DOMAIN next = RowIds
      /\ \A i \in RowIds : i # Job /\ i \notin Stocks => next[i] = seen[i]
      /\ \A p \in Created : next[Stock(p)] = seen[Stock(p)]
      /\ skips \subseteq Deduped
      /\ \A p \in Deduped : /\ next[Stock(p)] \in Nat
                            /\ next[Stock(p)] = IF p \in skips THEN rows[Stock(p)]
                                                ELSE rows[Stock(p)] - Moved(rows, p)
      /\ \A p \in Products : /\ led2[p] = [NoUnits EXCEPT ![0] = led[p][0]]
                             /\ liv2[p] = IF p \in skips THEN liv[p] + Moved(rows, p) ELSE liv[p]
  BY DEF Reversed
<1>2. StockBook(rows, liv) /\ BatchBook(rows, led) /\ CopyBook(rows) /\ MovesTyped(rows) /\ SalesTyped(rows)
  BY DEF Books, StockBook, BatchBook
<1>3. /\ \A c \in Copies : Order(c) \notin Stocks /\ Received(c) \notin Stocks
      /\ \A i \in Sales : i \notin Stocks
      /\ \A p \in Products, c \in Sources : Batch(p, c) \notin Stocks
      /\ Deducted \notin Stocks
  BY CopyIs, Tables, SaleIs
<1>4. \A c \in Copies :
         /\ ~next[Order(c)].there /\ next[Order(c)] \in [there : BOOLEAN, paid : BOOLEAN]
         /\ next[Received(c)] = NoMoves
         /\ \A s \in SaleIds : next[Sale(c, s)] = NoSale
         /\ \A p \in Products : next[Batch(p, c)] = Missing
  <2>1. TAKE c \in Copies
  <2>2. c \in Sources
    BY DEF Sources
  <2>3. /\ next[Order(c)] = seen[Order(c)] /\ next[Received(c)] = seen[Received(c)]
        /\ \A s \in SaleIds : next[Sale(c, s)] = seen[Sale(c, s)]
        /\ \A p \in Products : next[Batch(p, c)] = seen[Batch(p, c)]
    BY <1>1, <1>3, <2>2, Ids, Tables
  <2>4. CASE rows[Order(c)].there
    <3>1. /\ OfCopy(c) \subseteq DOMAIN mine
          /\ mine[Order(c)] = NoOrder /\ mine[Received(c)] = NoMoves
          /\ \A s \in SaleIds : mine[Sale(c, s)] = NoSale
          /\ \A p \in Products : mine[Batch(p, c)] = Missing
      BY <2>4 DEF Cleared
    <3>2. /\ seen[Order(c)] = NoOrder /\ seen[Received(c)] = NoMoves
          /\ \A s \in SaleIds : seen[Sale(c, s)] = NoSale
          /\ \A p \in Products : seen[Batch(p, c)] = Missing
      BY <2>2, <3>1, CopyIs, Ids, LaidIs
    <3>3. NoOrder \in [there : BOOLEAN, paid : BOOLEAN] /\ ~NoOrder.there
      BY DEF NoOrder
    <3>4. QED
      BY <2>3, <3>2, <3>3
  <2>5. CASE ~rows[Order(c)].there
    <3>1. DOMAIN mine \cap OfCopy(c) = {}
      <4>1. SUFFICES ASSUME NEW i \in DOMAIN mine, i \in OfCopy(c) PROVE FALSE
        OBVIOUS
      <4>2. i # Job /\ i # Deducted /\ \A p : i # Stock(p)
        BY <4>1, CopyIs, Tables
      <4>3. c # 0
        BY ImportAssumption DEF Copies
      <4>4. \A p : i # Batch(p, 0)
        BY <4>1, <4>3, CopyIs, Tables
      <4>5. PICK d \in Copies : rows[Order(d)].there /\ i \in OfCopy(d)
        BY <4>1, <4>2, <4>4 DEF Cleared
      <4>6. d = c
        BY <4>1, <4>5, CopyIs
      <4>7. QED
        BY <2>5, <4>5, <4>6
    <3>2. /\ seen[Order(c)] = rows[Order(c)] /\ seen[Received(c)] = rows[Received(c)]
          /\ \A s \in SaleIds : seen[Sale(c, s)] = rows[Sale(c, s)]
          /\ \A p \in Products : seen[Batch(p, c)] = rows[Batch(p, c)]
      BY <2>2, <3>1, CopyIs, Ids, LaidIs
    <3>3. QED
      BY <1>2, <2>3, <2>5, <3>2 DEF CopyBook
  <2>6. QED
    BY <2>4, <2>5
<1>5. next[Deducted] = NoMoves
  BY <1>1, <1>3, Ids, Tables, LaidIs DEF Cleared
<1>6. \A i \in Sales : next[i] = NoSale
  BY <1>4 DEF Sales
<1>7. \A p \in Products : p \in Deduped \/ p \in Created
  BY DEF Products
<1>8. \A p \in Created : p \notin Deduped /\ p \in Products
  BY ImportAssumption DEF Products
<1>9. \A p \in Created : next[Stock(p)] = Missing /\ liv[p] = 0 /\ liv2[p] = liv[p]
  <2>1. TAKE p \in Created
  <2>2. Stock(p) \in DOMAIN mine /\ mine[Stock(p)] = Missing /\ p \notin moved
    BY DEF Cleared
  <2>3. p \in Products /\ p \notin skips /\ Stock(p) \in RowIds
    BY <1>1, <1>8, Ids
  <2>4. seen[Stock(p)] = Missing
    BY <2>2, <2>3, LaidIs
  <2>5. next[Stock(p)] = seen[Stock(p)]
    BY <1>1
  <2>6. liv2[p] = liv[p]
    BY <1>1, <2>3
  <2>7. liv[p] = 0
    BY <2>2
  <2>8. QED
    BY <2>4, <2>5, <2>6, <2>7
<1>10. \A p \in Deduped : rows[Stock(p)] \in Nat /\ rows[Stock(p)] = Opening[p] + liv[p] + Moved(rows, p)
  <2>1. TAKE p \in Deduped
  <2>2. p \in Products
    BY <1>7 DEF Products
  <2>3. rows[Stock(p)] # Missing /\ rows[Stock(p)] \in Nat \cup {Missing}
        /\ OnHand(rows, p) = Opened(p) + liv[p] + Moved(rows, p)
    BY <1>2, <2>2 DEF StockBook
  <2>4. QED
    BY <2>3 DEF OnHand, Opened
<1>11. StockBook(next, liv2)
  <2>1. MovesTyped(next)
    BY <1>4, <1>5, NoneIsRow DEF MovesTyped
  <2>2. ASSUME NEW p \in Products
        PROVE  /\ next[Stock(p)] \in Nat \cup {Missing}
               /\ p \in Deduped => next[Stock(p)] # Missing
               /\ OnHand(next, p) = Opened(p) + liv2[p] + Moved(next, p)
    <3>1. Moved(next, p) = 0
      BY <1>4, <1>5, MovedNone
    <3>2. CASE p \in Created
      BY <1>8, <1>9, <3>1, <3>2 DEF OnHand, Opened
    <3>3. CASE p \in Deduped
      <4>1. next[Stock(p)] \in Nat /\ next[Stock(p)] # Missing
        BY <1>1, <3>3 DEF Missing
      <4>2. OnHand(next, p) = next[Stock(p)] /\ Opened(p) = Opening[p] /\ Opening[p] \in Int
        BY <3>3, <4>1, ImportAssumption DEF OnHand, Opened
      <4>3. liv[p] \in Int /\ Moved(rows, p) \in Int
        BY <1>2, MovedIs DEF MovesInt
      <4>4. next[Stock(p)] = Opening[p] + liv2[p]
        <5> DEFINE was == rows[Stock(p)]
                   is == next[Stock(p)]
                   net == Moved(rows, p)
                   open == Opening[p]
        <5>1. /\ was = open + liv[p] + net
              /\ is = IF p \in skips THEN was ELSE was - net
              /\ liv2[p] = IF p \in skips THEN liv[p] + net ELSE liv[p]
          BY <1>1, <1>10, <2>2, <3>3
        <5>2. open \in Int /\ net \in Int
          BY <4>2, <4>3
        <5> HIDE DEF was, is, net, open
        <5>3. is = open + liv2[p]
          <6>1. CASE p \in skips
            BY <4>3, <5>1, <5>2, <6>1
          <6>2. CASE p \notin skips
            BY <4>3, <5>1, <5>2, <6>2
          <6>3. QED
            BY <6>1, <6>2
        <5>4. QED
          BY <5>3 DEF is, open
      <4>5. QED
        BY <3>1, <4>1, <4>2, <4>4
    <3>4. QED
      BY <1>7, <3>2, <3>3
  <2>3. QED
    BY <2>1, <2>2 DEF StockBook
<1>12. \A p \in Products, c \in Sources : Consumed(next, p, c) = 0
  BY <1>6, NoneIsRow, ConsumedNone
<1>13. 0 \in Sources /\ \A c \in Sources : c = 0 \/ c \in Copies
  BY DEF Sources
<1>14. \A p \in Products : led2[p][0] = led[p][0] /\ \A c \in Sources : c # 0 => led2[p][c] = 0
  BY <1>1, <1>13 DEF NoUnits
<1>15. ASSUME NEW p \in Products
       PROVE  /\ next[Batch(p, 0)] # Missing <=> p \in Deduped
              /\ next[Batch(p, 0)] \in Nat \cup {Missing}
              /\ next[Batch(p, 0)] = Missing => led[p][0] = 0
              /\ next[Batch(p, 0)] # Missing => next[Batch(p, 0)] + led[p][0] = Filled(p, 0)
  <2> DEFINE b == Batch(p, 0)
  <2>1. next[b] = seen[b] /\ b \in RowIds
    BY <1>1, <1>3, <1>13, Ids, Tables
  <2>2. /\ rows[b] # Missing <=> p \in Deduped
        /\ rows[b] \in Nat \cup {Missing}
        /\ rows[b] = Missing => led[p][0] = 0
        /\ rows[b] # Missing => rows[b] + led[p][0] + Consumed(rows, p, 0) = Filled(p, 0)
    BY <1>2, <1>13 DEF BatchBook
  <2>3. Consumed(rows, p, 0) \in Nat /\ led[p][0] \in Nat
    BY <1>2, <1>13, ConsumedNat DEF UnitsNat
  <2>4. CASE p \in Deduped
    <3>1. Credit(mine, rows, p, 0)
      BY <2>4 DEF Cleared
    <3>2. seen[b] = rows[b] + Consumed(rows, p, 0)
      <4>1. CASE b \in DOMAIN mine
        BY <2>1, <3>1, <4>1, LaidIs DEF Credit
      <4>2. CASE b \notin DOMAIN mine
        <5>1. seen[b] = rows[b] /\ Consumed(rows, p, 0) = 0
          BY <2>1, <3>1, <4>2, LaidIs DEF Credit
        <5>2. rows[b] \in Int
          BY <2>2, <2>4
        <5>3. QED
          BY <5>1, <5>2
      <4>3. QED
        BY <4>1, <4>2
    <3>3. rows[b] \in Nat /\ Missing \notin Nat
      BY <2>2, <2>4 DEF Missing
    <3>4. seen[b] \in Nat /\ seen[b] # Missing
      BY <2>3, <3>2, <3>3
    <3>5. seen[b] + led[p][0] = Filled(p, 0)
      BY <2>2, <2>3, <2>4, <3>2, <3>3
    <3>6. QED
      BY <2>1, <2>4, <3>4, <3>5
  <2>5. CASE p \notin Deduped
    <3>1. b \notin DOMAIN mine
      <4>1. SUFFICES ASSUME b \in DOMAIN mine PROVE FALSE
        OBVIOUS
      <4>2. b # Job /\ b # Deducted /\ (\A q : b # Stock(q)) /\ \A q \in Deduped : b # Batch(q, 0)
        BY <2>5, Tables
      <4>3. PICK c \in Copies : b \in OfCopy(c)
        BY <4>1, <4>2 DEF Cleared
      <4>4. c = 0
        BY <4>3, CopyIs, Tables
      <4>5. QED
        BY <4>3, <4>4, ImportAssumption DEF Copies
    <3>2. seen[b] = rows[b] /\ rows[b] = Missing
      BY <2>1, <2>2, <2>5, <3>1, LaidIs
    <3>3. QED
      BY <2>1, <2>2, <2>5, <3>2
  <2>6. QED
    BY <2>4, <2>5
<1>16. BatchBook(next, led2)
  <2>1. SalesTyped(next)
    BY <1>6, NoneIsRow DEF SalesTyped
  <2>2. ASSUME NEW p \in Products, NEW c \in Sources
        PROVE  /\ next[Batch(p, c)] \in Nat \cup {Missing}
               /\ next[Batch(p, c)] = Missing => led2[p][c] = 0 /\ Consumed(next, p, c) = 0
               /\ next[Batch(p, c)] # Missing =>
                     next[Batch(p, c)] + led2[p][c] + Consumed(next, p, c) = Filled(p, c)
    <3>1. CASE c = 0
      <4>1. led2[p][c] \in Nat
        BY <1>13, <1>14, <3>1 DEF UnitsNat
      <4>2. Consumed(next, p, c) = 0 /\ led2[p][c] = led[p][0]
        BY <1>12, <1>14, <3>1
      <4>3. CASE next[Batch(p, 0)] = Missing
        BY <1>15, <3>1, <4>2, <4>3
      <4>4. CASE next[Batch(p, 0)] # Missing
        BY <1>15, <3>1, <4>1, <4>2, <4>4
      <4>5. QED
        BY <4>3, <4>4
    <3>2. CASE c # 0
      BY <1>4, <1>12, <1>13, <1>14, <3>2
    <3>3. QED
      BY <3>1, <3>2
  <2>3. QED
    BY <1>15, <2>1, <2>2 DEF BatchBook
<1>17. CopyBook(next)
  BY <1>4, <1>5, <1>9 DEF CopyBook
<1>18. SaleBook(next, once)
  <2>1. \A p \in Products : next[Deducted][p] = 0
    BY <1>5 DEF NoMoves
  <2>2. \A i \in Sales : ~next[i].costed /\ next[i].fifo = NoUnits
    BY <1>6, NoneIsRow
  <2>3. QED
    BY <2>1, <2>2 DEF SaleBook
<1>19. QED
  BY <1>1, <1>4, <1>9, <1>11, <1>16, <1>17, <1>18 DEF Books
------------------------------------------------------------------------------
(* One session's step.                                                     *)

LEMMA FreeIs ==
    ASSUME NEW t, NEW ids, Free(t, ids), NEW u \in Txs, u # t
    PROVE  \A i \in ids : i \notin DOMAIN own[u]
BY DEF Free, HeldByOthers, Locked

LEMMA SeeIs ==
    ASSUME NEW t, NEW i \in RowIds
    PROVE  See(t, i) = Laid(own[t], db)[i]
BY LaidIs DEF See

LEMMA OverLaid ==
    ASSUME NEW values, NEW mine, NEW rows, NEW i \in RowIds
    PROVE  Laid(Over(values, mine), rows)[i]
             = IF i \in DOMAIN values THEN values[i] ELSE Laid(mine, rows)[i]
<1>1. DOMAIN Over(values, mine) = DOMAIN values \cup DOMAIN mine
  BY DEF Over
<1>2. CASE i \in DOMAIN values
  <2>1. Over(values, mine)[i] = values[i]
    BY <1>2 DEF Over
  <2>2. Laid(Over(values, mine), rows)[i] = Over(values, mine)[i]
    BY <1>1, <1>2, LaidIs
  <2>3. QED
    BY <1>2, <2>1, <2>2
<1>3. CASE i \notin DOMAIN values /\ i \in DOMAIN mine
  <2>1. Over(values, mine)[i] = mine[i]
    BY <1>3 DEF Over
  <2>2. Laid(Over(values, mine), rows)[i] = Over(values, mine)[i] /\ Laid(mine, rows)[i] = mine[i]
    BY <1>1, <1>3, LaidIs
  <2>3. QED
    BY <1>3, <2>1, <2>2
<1>4. CASE i \notin DOMAIN values /\ i \notin DOMAIN mine
  BY <1>1, <1>4, LaidIs
<1>5. QED
  BY <1>2, <1>3, <1>4

\* A table of the sessions that differs at t only.
OnlyAt(f, g, t, v) == DOMAIN g = Txs /\ g[t] = v /\ \A u \in Txs \ {t} : g[u] = f[u]

LEMMA OnlyAtIs ==
    ASSUME NEW f, DOMAIN f = Txs, NEW t \in Txs, NEW v
    PROVE  OnlyAt(f, [f EXCEPT ![t] = v], t, v) /\ OnlyAt(f, f, t, f[t])
BY DEF OnlyAt

\* Nothing but the job's row is written.
JobOnly(rows, next) == DOMAIN next = RowIds /\ \A i \in RowIds : i # Job => next[i] = rows[i]

LEMMA JobAside ==
    ASSUME NEW mine, NEW c \in {0} \cup Copies, NEW skips, NEW stage, NEW rows, NEW next, NEW once,
           NEW led, NEW liv, NEW moved, JobOnly(rows, next),
           SessionRows(mine, c, skips, stage, rows, once, led, liv, moved)
    PROVE  SessionRows(mine, c, skips, stage, next, once, led, liv, moved)
<1>1. /\ \A d \in Copies : next[Order(d)] = rows[Order(d)] /\ next[Received(d)] = rows[Received(d)]
      /\ next[Deducted] = rows[Deducted]
      /\ \A p \in Products : next[Stock(p)] = rows[Stock(p)]
      /\ \A p \in Products, d \in Sources : next[Batch(p, d)] = rows[Batch(p, d)]
      /\ \A i \in Sales : next[i] = rows[i]
  BY Ids, Tables, SaleIs DEF JobOnly
<1>2. \A p, d : Consumed(next, p, d) = Consumed(rows, p, d)
  BY <1>1, ConsumedSame
<1>3. Aside(mine, rows, next, moved, moved)
  BY <1>1, <1>2 DEF Aside, Credit, JobOnly
<1>4. ASSUME Books(Laid(mine, rows), once, led, liv) PROVE Books(Laid(mine, next), once, led, liv)
  <2>1. \A i \in RowIds : i # Job => Laid(mine, next)[i] = Laid(mine, rows)[i]
    BY LaidIs DEF JobOnly
  <2>2. \A d \in Copies : /\ Laid(mine, next)[Order(d)] = Laid(mine, rows)[Order(d)]
                          /\ Laid(mine, rows)[Order(d)] \in [there : BOOLEAN, paid : BOOLEAN]
    BY <1>4, <2>1, Ids, Tables DEF Books, CopyBook
  <2>3. QED
    BY <1>4, <2>1, <2>2, BooksAlike, LaidIs
<1>5. QED
  BY <1>3, <1>4, SessionKept

LEMMA JobBooks ==
    ASSUME NEW rows, NEW next, NEW once, NEW led, NEW liv, JobOnly(rows, next), Books(rows, once, led, liv)
    PROVE  Books(next, once, led, liv)
<1>1. \A d \in Copies : /\ next[Order(d)] = rows[Order(d)]
                        /\ rows[Order(d)] \in [there : BOOLEAN, paid : BOOLEAN]
  BY Ids, Tables DEF Books, CopyBook, JobOnly
<1>2. QED
  BY <1>1, BooksAlike DEF JobOnly

\* What a session may come to hold, and at which stage.
Sound(t, mine, stage, c, skips) ==
    /\ c \in {0} \cup Copies
    /\ stage \in Starting \cup Loaded => c # 0
    /\ stage \in Waiting => c = 0
    /\ \A u \in Txs \ {t} : DOMAIN mine \cap DOMAIN own[u] = {}
    /\ SessionRows(mine, c, skips, stage, db, ~doubled /\ Single(c, db), ledger, live, touched)
    /\ Created # {} => \A u \in Txs \ {t} : /\ stage = ToReverse => todo[u] \notin Loaded
                                            /\ stage \in Loaded => todo[u] # ToReverse

\* It comes to hold it.
Comes(t, mine, stage, c, skips) ==
    /\ JobOnly(db, db') /\ UNCHANGED <<ledger, live, touched, doubled>>
    /\ OnlyAt(own, own', t, mine) /\ OnlyAt(todo, todo', t, stage)
    /\ OnlyAt(copy, copy', t, c) /\ OnlyAt(failed, failed', t, skips)
    /\ DOMAIN fresh' = Txs /\ \A u \in Txs : fresh'[u] \subseteq Created
    /\ started' \in Nat /\ started <= started'
    /\ c # 0 => c = copy[t] \/ (started < c /\ c <= started')

LEMMA OwnStep ==
    ASSUME ImportInv, NEW t \in Txs, NEW mine, NEW stage, NEW c, NEW skips,
           Sound(t, mine, stage, c, skips), Comes(t, mine, stage, c, skips)
    PROVE  ImportInv'
<1>1. /\ JobOnly(db, db')
      /\ ledger' = ledger /\ live' = live /\ touched' = touched /\ doubled' = doubled
      /\ DOMAIN own' = Txs /\ own'[t] = mine /\ \A u \in Txs \ {t} : own'[u] = own[u]
      /\ DOMAIN todo' = Txs /\ todo'[t] = stage /\ \A u \in Txs \ {t} : todo'[u] = todo[u]
      /\ DOMAIN copy' = Txs /\ copy'[t] = c /\ \A u \in Txs \ {t} : copy'[u] = copy[u]
      /\ DOMAIN failed' = Txs /\ failed'[t] = skips /\ \A u \in Txs \ {t} : failed'[u] = failed[u]
      /\ DOMAIN fresh' = Txs /\ \A u \in Txs : fresh'[u] \subseteq Created
      /\ started' \in Nat /\ started <= started'
      /\ c # 0 => c = copy[t] \/ (started < c /\ c <= started')
  BY DEF Comes, OnlyAt
<1>2. /\ c \in {0} \cup Copies
      /\ stage \in Starting \cup Loaded => c # 0
      /\ stage \in Waiting => c = 0
      /\ \A u \in Txs \ {t} : DOMAIN mine \cap DOMAIN own[u] = {}
      /\ SessionRows(mine, c, skips, stage, db, ~doubled /\ Single(c, db), ledger, live, touched)
      /\ Created # {} => \A u \in Txs \ {t} : /\ stage = ToReverse => todo[u] \notin Loaded
                                              /\ stage \in Loaded => todo[u] # ToReverse
  BY DEF Sound
<1>3. \A d \in Copies : There(d)' <=> There(d)
  BY <1>1, Ids, Tables DEF There, JobOnly
<1>4. \A d : Single(d, db') <=> Single(d, db)
  BY <1>1, Ids, Tables DEF Single, JobOnly
<1>5. \A d \in Copies : d \in Int
  BY ImportAssumption DEF Copies
<1>6. started \in Nat /\ \A d \in Copies : There(d) => d <= started
  BY DEF ImportInv, Shape
<1>7. \A u \in Txs : Numbered(u) /\ Session(u)
  BY DEF ImportInv
<1>8. Shape'
  <2>1. \A d \in Copies : There(d)' => d <= started'
    BY <1>1, <1>3, <1>5, <1>6
  <2>2. MovesInt(live) /\ UnitsNat(ledger) /\ \A p \in Created : p \notin touched => live[p] = 0
    BY DEF ImportInv, Shape
  <2>3. MovesInt(live') /\ UnitsNat(ledger') /\ \A p \in Created : p \notin touched' => live'[p] = 0
    BY <1>1, <2>2
  <2>4. QED
    BY <1>1, <2>1, <2>3 DEF Shape
<1>9. Books(db, ~doubled, ledger, live)'
  <2>1. Books(db, ~doubled, ledger, live)
    BY DEF ImportInv
  <2>2. Books(db', ~doubled, ledger, live)
    BY <1>1, <2>1, JobBooks
  <2>3. QED
    BY <1>1, <2>2
<1>10. RowsApart'
  BY <1>1, <1>2 DEF ImportInv, RowsApart
<1>11. NoneReferring'
  BY <1>1, <1>2 DEF ImportInv, NoneReferring
<1>12. ASSUME NEW u \in Txs PROVE Numbered(u)'
  <2>1. CASE u = t
    <3>1. c # 0 => c \in Copies /\ c <= started' /\ ~There(c)
      BY <1>1, <1>2, <1>5, <1>6, <1>7 DEF Numbered
    <3>2. c # 0 => \A v \in Txs \ {t} : copy[v] # c
      <4>1. SUFFICES ASSUME c # 0, NEW v \in Txs \ {t}, copy[v] = c PROVE FALSE
        OBVIOUS
      <4>2. c \in Copies /\ copy[v] <= started
        BY <1>2, <1>7, <4>1 DEF Numbered
      <4>3. c # copy[t]
        BY <1>7, <4>1 DEF Numbered
      <4>4. QED
        BY <1>1, <1>5, <1>6, <4>1, <4>2, <4>3
    <3>3. c # 0 => ~There(c)'
      BY <1>3, <3>1
    <3>4. \A v \in Txs \ {t} : copy'[v] = copy[v]
      BY <1>1
    <3>5. QED
      BY <1>1, <1>2, <2>1, <3>1, <3>2, <3>3, <3>4 DEF Numbered
  <2>2. CASE u # t
    <3>1. Numbered(u) /\ copy'[u] = copy[u] /\ todo'[u] = todo[u] /\ fresh'[u] \subseteq Created
      BY <1>1, <1>7, <2>2
    <3>2. copy[u] # 0 => copy[u] \in Copies /\ copy[u] <= started' /\ ~There(copy[u])'
      BY <1>1, <1>3, <1>5, <1>6, <3>1 DEF Numbered
    <3>3. copy[u] # 0 => \A v \in Txs \ {u} : copy'[v] # copy[u]
      <4>1. SUFFICES ASSUME copy[u] # 0, NEW v \in Txs \ {u}, copy'[v] = copy[u] PROVE FALSE
        OBVIOUS
      <4>2. copy[v] # copy[u] /\ copy[u] <= started /\ copy[u] \in Copies
        BY <3>1, <4>1 DEF Numbered
      <4>3. v = t /\ c = copy[u]
        BY <1>1, <4>1, <4>2
      <4>4. QED
        BY <1>1, <1>5, <1>6, <4>1, <4>2, <4>3
    <3>4. QED
      BY <3>1, <3>2, <3>3 DEF Numbered
  <2>3. QED
    BY <2>1, <2>2
<1>13. ASSUME NEW u \in Txs PROVE Session(u)'
  <2>1. CASE u = t
    <3>1. SessionRows(mine, c, skips, stage, db', ~doubled /\ Single(c, db), ledger, live, touched)
      BY <1>1, <1>2, JobAside
    <3>2. (~doubled /\ Single(c, db)) = (~doubled' /\ Single(c, db'))
      BY <1>1, <1>4
    <3>3. SessionRows(mine, c, skips, stage, db', ~doubled' /\ Single(c, db'), ledger', live', touched')
      BY <1>1, <3>1, <3>2
    <3>4. QED
      BY <1>1, <2>1, <3>3 DEF Session
  <2>2. CASE u # t
    <3>1. SessionRows(own[u], copy[u], failed[u], todo[u], db, ~doubled /\ Single(copy[u], db), ledger, live, touched)
      BY <1>7 DEF Session
    <3>2. copy[u] \in {0} \cup Copies
      BY <1>7 DEF Numbered
    <3>3. SessionRows(own[u], copy[u], failed[u], todo[u], db', ~doubled /\ Single(copy[u], db), ledger, live, touched)
      BY <1>1, <3>1, <3>2, JobAside
    <3>4. (~doubled /\ Single(copy[u], db)) = (~doubled' /\ Single(copy[u], db'))
      BY <1>1, <1>4
    <3>5. SessionRows(own'[u], copy'[u], failed'[u], todo'[u], db', ~doubled' /\ Single(copy'[u], db'), ledger', live', touched')
      BY <1>1, <2>2, <3>3, <3>4
    <3>6. QED
      BY <3>5 DEF Session
  <2>3. QED
    BY <2>1, <2>2
<1>14. QED
  BY <1>8, <1>9, <1>10, <1>11, <1>12, <1>13 DEF ImportInv
------------------------------------------------------------------------------
(* Locked rows, and the steps that write none.                             *)

\* The sessions next to one that holds the job's row, and rows of a copy.
LEMMA OtherStages ==
    ASSUME ImportInv, NEW t \in Txs, NEW u \in Txs, t # u
    PROVE  /\ todo[u] \in Stages
           /\ Job \in DOMAIN own[t] => todo[u] \in Waiting \cup Starting \cup Loaded
           /\ todo[u] \in Waiting \cup Starting \cup Loaded => DOMAIN own[u] \subseteq Stocks \cup OfCopy(copy[u])
           /\ \A d \in Copies : DOMAIN own[u] \cap OfCopy(d) # {} => d = copy[u] \/ There(d)
<1>1. /\ todo[u] \in Stages
      /\ todo[u] \in Waiting \cup Starting => DOMAIN own[u] = {}
      /\ todo[u] \in Loaded => LoadedRows(own[u], copy[u], db)
      /\ todo[u] \in Recomputing => Job \in DOMAIN own[u] /\ Tagged(own[u], copy[u], db)
      /\ todo[u] \in RollingBack => Job \in DOMAIN own[u] /\ Tagged(own[u], 0, db)
  BY DEF ImportInv, Session, SessionRows, RecomputingRows, RollingBackRows
<1>2. DOMAIN own[t] \cap DOMAIN own[u] = {}
  BY DEF ImportInv, RowsApart
<1>3. todo[u] \in Waiting \cup Starting \/ todo[u] \in Loaded \/ todo[u] \in Recomputing \/ todo[u] \in RollingBack
  BY <1>1 DEF Stages
<1>4. Job \in DOMAIN own[t] => todo[u] \in Waiting \cup Starting \cup Loaded
  BY <1>1, <1>2, <1>3
<1>5. todo[u] \in Waiting \cup Starting \cup Loaded => DOMAIN own[u] \subseteq Stocks \cup OfCopy(copy[u])
  BY <1>1 DEF LoadedRows
<1>6. ASSUME NEW d \in Copies, DOMAIN own[u] \cap OfCopy(d) # {}
      PROVE  d = copy[u] \/ There(d)
  <2>1. PICK i \in DOMAIN own[u] : i \in OfCopy(d)
    BY <1>6
  <2>2. CASE todo[u] \in Loaded
    <3>1. i \in Stocks \cup OfCopy(copy[u])
      BY <1>5, <2>1, <2>2
    <3>2. i \notin Stocks
      BY <2>1, CopyIs
    <3>3. QED
      BY <2>1, <3>1, <3>2, CopyIs
  <2>3. CASE todo[u] \in Recomputing
    BY <1>1, <1>6, <2>3 DEF Tagged, There
  <2>4. CASE todo[u] \in RollingBack
    <3>1. d # 0
      BY ImportAssumption DEF Copies
    <3>2. QED
      BY <1>1, <1>6, <2>4, <3>1 DEF Tagged, There
  <2>5. QED
    BY <1>1, <1>3, <2>1, <2>2, <2>3, <2>4
<1>7. QED
  BY <1>1, <1>4, <1>5, <1>6

\* No other session holds a row of the copy that a session is about to write.
LEMMA CopyIsOwn ==
    ASSUME ImportInv, NEW t \in Txs, NEW u \in Txs, t # u, copy[t] # 0
    PROVE  DOMAIN own[u] \cap OfCopy(copy[t]) = {}
<1>1. copy[t] \in Copies /\ ~There(copy[t]) /\ copy[u] # copy[t]
  BY DEF ImportInv, Numbered
<1>2. QED
  BY <1>1, OtherStages

\* What the invariant says of one session.
LEMMA Of ==
    ASSUME ImportInv, NEW t \in Txs
    PROVE  /\ todo[t] \in Stages /\ copy[t] \in {0} \cup Copies /\ fresh[t] \subseteq Created
           /\ SessionRows(own[t], copy[t], failed[t], todo[t], db, ~doubled /\ Single(copy[t], db),
                          ledger, live, touched)
           /\ todo[t] \in Waiting \cup Starting => DOMAIN own[t] = {}
           /\ todo[t] \in Loaded => LoadedRows(own[t], copy[t], db)
           /\ todo[t] \in Recomputing =>
                 RecomputingRows(own[t], copy[t], failed[t], todo[t], db,
                                 ~doubled /\ Single(copy[t], db), ledger, live)
           /\ todo[t] \in RollingBack => RollingBackRows(own[t], todo[t], db, touched)
           /\ todo[t] \in Starting \cup Loaded => copy[t] # 0
           /\ todo[t] \in Waiting => copy[t] = 0
           /\ copy[t] # 0 => copy[t] \in Copies /\ ~There(copy[t]) /\ copy[t] <= started
           /\ \A u \in Txs \ {t} : DOMAIN own[t] \cap DOMAIN own[u] = {}
           /\ DOMAIN db = RowIds /\ Books(db, ~doubled, ledger, live)
           /\ MovesInt(live) /\ UnitsNat(ledger) /\ started \in Nat
           /\ JobOnly(db, db)
<1>1. Numbered(t) /\ Session(t)
  BY DEF ImportInv
<1>2. Books(db, ~doubled, ledger, live) /\ DOMAIN db = RowIds
  BY DEF ImportInv, Books
<1>3. MovesInt(live) /\ UnitsNat(ledger) /\ started \in Nat
  BY DEF ImportInv, Shape
<1>4. \A u \in Txs \ {t} : DOMAIN own[t] \cap DOMAIN own[u] = {}
  BY DEF ImportInv, RowsApart
<1>5. SessionRows(own[t], copy[t], failed[t], todo[t], db, ~doubled /\ Single(copy[t], db),
                  ledger, live, touched)
  BY <1>1 DEF Session
<1>6. /\ copy[t] \in {0} \cup Copies /\ fresh[t] \subseteq Created
      /\ todo[t] \in Starting \cup Loaded => copy[t] # 0
      /\ todo[t] \in Waiting => copy[t] = 0
      /\ copy[t] # 0 => copy[t] \in Copies /\ ~There(copy[t]) /\ copy[t] <= started
  BY <1>1 DEF Numbered
<1>7. JobOnly(db, db)
  BY <1>2 DEF JobOnly
<1>8. /\ todo[t] \in Stages
      /\ todo[t] \in Waiting \cup Starting => DOMAIN own[t] = {}
      /\ todo[t] \in Loaded => LoadedRows(own[t], copy[t], db)
      /\ todo[t] \in Recomputing =>
            RecomputingRows(own[t], copy[t], failed[t], todo[t], db,
                            ~doubled /\ Single(copy[t], db), ledger, live)
      /\ todo[t] \in RollingBack => RollingBackRows(own[t], todo[t], db, touched)
  BY <1>5 DEF SessionRows
<1>9. QED
  BY <1>2, <1>3, <1>4, <1>5, <1>6, <1>7, <1>8

LEMMA StageSets ==
    /\ <<>> \in Waiting /\ ToDecline \in Waiting /\ ToFail \in Waiting /\ ToRefuse \in Waiting
    /\ ToConfirm \in Starting /\ ImportSteps \in Starting /\ ToLoad \in Starting
    /\ ToOrders \in Loaded /\ ToAdjust \in Loaded /\ ToFlush \in Loaded
    /\ ToDeduct \in Recomputing /\ ToCost \in Recomputing /\ ToDone \in Recomputing
    /\ ToUnfifo \in RollingBack /\ ToDelete \in RollingBack /\ ToReverse \in RollingBack
    /\ \A s \in Waiting \cup Starting : s \in Stages /\ s # ToReverse /\ s \notin Loaded
    /\ \A s \in Loaded : s \in Stages /\ s # ToReverse
    /\ \A s \in Recomputing : s \in Stages /\ s # ToReverse /\ s \notin Loaded
    /\ \A s \in RollingBack : s \in Stages /\ s \notin Loaded
    /\ \A s \in Recomputing \cup RollingBack : s \notin Waiting \cup Starting \cup Loaded
<1>1. /\ <<>> \in Waiting /\ ToDecline \in Waiting /\ ToFail \in Waiting /\ ToRefuse \in Waiting
      /\ ToConfirm \in Starting /\ ImportSteps \in Starting /\ ToLoad \in Starting
      /\ ToOrders \in Loaded /\ ToAdjust \in Loaded /\ ToFlush \in Loaded
      /\ ToDeduct \in Recomputing /\ ToCost \in Recomputing /\ ToDone \in Recomputing
      /\ ToUnfifo \in RollingBack /\ ToDelete \in RollingBack /\ ToReverse \in RollingBack
  BY DEF Waiting, Starting, Loaded, Recomputing, RollingBack
<1>2. QED
  BY <1>1, StagesApart DEF Stages

\* Rows of a session at each kind of stage make up what SessionRows asks.
LEMMA RowsAtStage ==
    ASSUME NEW mine, NEW c, NEW skips, NEW stage, NEW rows, NEW once, NEW led, NEW liv, NEW moved,
           \/ stage \in Waiting \cup Starting /\ DOMAIN mine = {}
           \/ stage \in Loaded /\ LoadedRows(mine, c, rows)
           \/ stage \in Recomputing /\ RecomputingRows(mine, c, skips, stage, rows, once, led, liv)
           \/ stage \in RollingBack /\ RollingBackRows(mine, stage, rows, moved)
    PROVE  SessionRows(mine, c, skips, stage, rows, once, led, liv, moved)
BY StagesApart, StageSets DEF SessionRows

\* A session goes on to its next statement.
Goes(t, mine, skips) ==
    /\ UNCHANGED <<db, shop, doubled, started, copy>> /\ Advance(t)
    /\ OnlyAt(own, own', t, mine) /\ OnlyAt(failed, failed', t, skips)
    /\ DOMAIN fresh' = Txs /\ \A u \in Txs : fresh'[u] \subseteq Created

LEMMA GoesOn ==
    ASSUME ImportInv, NEW t \in Txs, NEW mine, NEW skips, NEW stage, Goes(t, mine, skips),
           Tail(todo[t]) = stage
    PROVE  Comes(t, mine, stage, copy[t], skips)
<1>1. /\ DOMAIN todo = Txs /\ DOMAIN copy = Txs /\ started \in Nat
  BY DEF ImportInv, Shape
<1>2. OnlyAt(todo, todo', t, stage)
  BY <1>1, OnlyAtIs DEF Goes, Advance
<1>3. OnlyAt(copy, copy', t, copy[t])
  BY <1>1, OnlyAtIs DEF Goes
<1>4. JobOnly(db, db')
  BY Of DEF Goes
<1>5. started' \in Nat /\ started <= started'
  BY <1>1 DEF Goes
<1>6. UNCHANGED <<ledger, live, touched, doubled>>
  BY DEF Goes, shop
<1>7. QED
  BY <1>2, <1>3, <1>4, <1>5, <1>6 DEF Comes, Goes
------------------------------------------------------------------------------
(* Each step keeps the invariant: the steps that lock no row of the shop's.  *)

LEMMA AtRest ==
    ASSUME NEW t, NEW mine, NEW stage, NEW c \in {0} \cup Copies, NEW skips, DOMAIN mine = {},
           \/ stage \in Starting /\ c # 0
           \/ stage \in Waiting /\ c = 0
    PROVE  Sound(t, mine, stage, c, skips)
<1>1. SessionRows(mine, c, skips, stage, db, ~doubled /\ Single(c, db), ledger, live, touched)
  BY RowsAtStage
<1>2. stage \notin Loaded /\ stage # ToReverse /\ stage \in Waiting \cup Starting
  BY StageSets
<1>3. stage \in Starting \cup Loaded => c # 0
  BY <1>2, StagesApart
<1>4. stage \in Waiting => c = 0
  BY <1>2, StagesApart
<1>5. QED
  BY <1>1, <1>2, <1>3, <1>4 DEF Sound

LEMMA JobSteps ==
    ASSUME ImportInv, NEW row, SetJob(row)
    PROVE  JobOnly(db, db')
BY Ids DEF SetJob, JobOnly, ImportInv, Books

\* create_job() and validate_job() write the job's row alone.
LEMMA JobOnlyStep ==
    ASSUME ImportInv, NEW row, SetJob(row), UNCHANGED <<txVars, shop, history>>
    PROVE  ImportInv'
<1>1. JobOnly(db, db')
  BY JobSteps
<1>2. /\ own' = own /\ todo' = todo /\ copy' = copy /\ fresh' = fresh /\ failed' = failed
      /\ ledger' = ledger /\ live' = live /\ touched' = touched /\ doubled' = doubled /\ started' = started
  BY DEF txVars, shop, history
<1>3. \A d \in Copies : There(d)' <=> There(d)
  BY <1>1, Ids, Tables DEF There, JobOnly
<1>4. \A d : Single(d, db') <=> Single(d, db)
  BY <1>1, Ids, Tables DEF Single, JobOnly
<1>5. Shape'
  BY <1>2, <1>3 DEF ImportInv, Shape, MovesInt, UnitsNat
<1>6. Books(db, ~doubled, ledger, live)'
  <2>1. Books(db', ~doubled, ledger, live)
    BY <1>1, JobBooks DEF ImportInv
  <2>2. QED
    BY <1>2, <2>1
<1>7. RowsApart' /\ NoneReferring'
  BY <1>2 DEF ImportInv, RowsApart, NoneReferring
<1>8. ASSUME NEW t \in Txs PROVE Numbered(t)' /\ Session(t)'
  <2>1. Numbered(t)'
    BY <1>2, <1>3 DEF ImportInv, Numbered
  <2>2. SessionRows(own[t], copy[t], failed[t], todo[t], db', ~doubled /\ Single(copy[t], db), ledger, live, touched)
    BY <1>1, Of, JobAside
  <2>3. (~doubled /\ Single(copy[t], db)) = (~doubled' /\ Single(copy'[t], db'))
    BY <1>2, <1>4
  <2>4. SessionRows(own'[t], copy'[t], failed'[t], todo'[t], db', ~doubled' /\ Single(copy'[t], db'), ledger', live', touched')
    BY <1>2, <2>2, <2>3
  <2>5. QED
    BY <2>1, <2>4 DEF Session
<1>9. QED
  BY <1>5, <1>6, <1>7, <1>8 DEF ImportInv

LEMMA DecideStep ==
    ASSUME ImportInv, NEW t \in Txs, NEW approved \in BOOLEAN, Decide(t, approved)
    PROVE  ImportInv'
<1>1. /\ todo[t] = <<>> /\ (approved => started < MaxImports)
      /\ todo' = [todo EXCEPT ![t] = IF approved THEN ToConfirm ELSE ToDecline]
      /\ copy' = [copy EXCEPT ![t] = IF approved THEN started + 1 ELSE 0]
      /\ started' = IF approved THEN started + 1 ELSE started
      /\ UNCHANGED <<db, own, fresh, failed, shop, liveOps, doubled, crashed>>
  BY DEF Decide, Idle, ToConfirm, ToDecline
<1> DEFINE c == IF approved THEN started + 1 ELSE 0
           stage == IF approved THEN ToConfirm ELSE ToDecline
<1>2. DOMAIN own[t] = {} /\ started \in Nat /\ JobOnly(db, db)
  BY <1>1, Of, StageSets
<1>3. c \in {0} \cup Copies /\ (approved => c # 0)
  BY <1>1, <1>2, ImportAssumption DEF Copies
<1>4. Sound(t, own[t], stage, c, failed[t])
  <2>1. \/ stage \in Starting /\ c # 0
        \/ stage \in Waiting /\ c = 0
    BY <1>3, StageSets
  <2>2. QED
    BY <1>2, <1>3, <2>1, AtRest
<1>5. Comes(t, own[t], stage, c, failed[t])
  <2>1. /\ DOMAIN own = Txs /\ DOMAIN todo = Txs /\ DOMAIN copy = Txs /\ DOMAIN failed = Txs /\ DOMAIN fresh = Txs
        /\ \A u \in Txs : fresh[u] \subseteq Created
    BY DEF ImportInv, Shape, Numbered
  <2>2. /\ OnlyAt(own, own', t, own[t]) /\ OnlyAt(todo, todo', t, stage)
        /\ OnlyAt(copy, copy', t, c) /\ OnlyAt(failed, failed', t, failed[t])
    BY <1>1, <2>1, OnlyAtIs
  <2>3. started' \in Nat /\ started <= started' /\ (c # 0 => c = copy[t] \/ (started < c /\ c <= started'))
    BY <1>1, <1>2
  <2>4. JobOnly(db, db') /\ UNCHANGED <<ledger, live, touched, doubled>>
    BY <1>1, <1>2 DEF shop
  <2>5. QED
    BY <1>1, <2>1, <2>2, <2>3, <2>4 DEF Comes
<1>6. QED
  BY <1>4, <1>5, OwnStep

\* The request's or the task's next statement writes the job's row alone.
LEMMA JobGoes ==
    ASSUME ImportInv, NEW t \in Txs, NEW row, SetJob(row), NEW stage,
           OnlyAt(todo, todo', t, stage), UNCHANGED <<own, copy, fresh, failed, shop, history>>,
           \/ stage \in Starting /\ todo[t] \in Starting
           \/ stage \in Waiting /\ todo[t] \in Waiting
    PROVE  ImportInv'
<1>1. DOMAIN own[t] = {} /\ copy[t] \in {0} \cup Copies /\ started \in Nat
  BY Of
<1>2. \/ stage \in Starting /\ copy[t] # 0
      \/ stage \in Waiting /\ copy[t] = 0
  BY Of
<1>3. Sound(t, own[t], stage, copy[t], failed[t])
  BY <1>1, <1>2, AtRest
<1>4. Comes(t, own[t], stage, copy[t], failed[t])
  <2>1. /\ DOMAIN own = Txs /\ DOMAIN copy = Txs /\ DOMAIN failed = Txs /\ DOMAIN fresh = Txs
        /\ \A u \in Txs : fresh[u] \subseteq Created
    BY DEF ImportInv, Shape, Numbered
  <2>2. /\ own' = own /\ copy' = copy /\ failed' = failed /\ fresh' = fresh /\ started' = started
        /\ UNCHANGED <<ledger, live, touched, doubled>>
    BY DEF shop, history
  <2>3. /\ OnlyAt(own, own', t, own[t]) /\ OnlyAt(copy, copy', t, copy[t])
        /\ OnlyAt(failed, failed', t, failed[t])
    BY <2>1, <2>2, OnlyAtIs
  <2>4. QED
    BY <1>1, <2>1, <2>2, <2>3, JobSteps DEF Comes
<1>5. QED
  BY <1>3, <1>4, OwnStep

LEMMA ConfirmStep ==
    ASSUME ImportInv, NEW t \in Txs, Confirm(t)
    PROVE  ImportInv'
<1>1. todo[t] = ToConfirm
  BY Of, StageAt DEF Confirm
<1>2. OnlyAt(todo, todo', t, ImportSteps)
  BY OnlyAtIs DEF Confirm, ImportInv, Shape
<1>3. PICK row : SetJob(row)
  BY DEF Confirm
<1>4. UNCHANGED <<own, copy, fresh, failed, shop, history>>
  BY DEF Confirm
<1>5. QED
  BY <1>1, <1>2, <1>3, <1>4, StageSets, JobGoes

LEMMA DeclineStep ==
    ASSUME ImportInv, NEW t \in Txs, Decline(t)
    PROVE  ImportInv'
<1>1. todo[t] = ToDecline
  BY Of, StageAt DEF Decline
<1>2. OnlyAt(todo, todo', t, <<>>)
  BY <1>1, StepsAre, OnlyAtIs DEF Decline, Advance, ImportInv, Shape
<1>3. PICK row : SetJob(row)
  BY DEF Decline
<1>4. UNCHANGED <<own, copy, fresh, failed, shop, history>>
  BY DEF Decline
<1>5. QED
  BY <1>1, <1>2, <1>3, <1>4, StageSets, JobGoes

LEMMA AfterFailureStep ==
    ASSUME ImportInv, NEW t \in Txs, AfterFailure(t)
    PROVE  ImportInv'
<1>1. todo[t] = ToFail \/ todo[t] = ToRefuse
  BY Of, StageAt DEF AfterFailure
<1>2. OnlyAt(todo, todo', t, <<>>)
  <2>1. Advance(t) /\ Tail(todo[t]) = <<>>
    BY <1>1, StepsAre DEF AfterFailure
  <2>2. QED
    BY <2>1, OnlyAtIs DEF Advance, ImportInv, Shape
<1>3. PICK row : SetJob(row)
  BY DEF AfterFailure
<1>4. UNCHANGED <<own, copy, fresh, failed, shop, history>>
  BY DEF AfterFailure
<1>5. QED
  BY <1>1, <1>2, <1>3, <1>4, StageSets, JobGoes

\* An error rolls the session back.
LEMMA RaiseStep ==
    ASSUME ImportInv, NEW t \in Txs, NEW status \in {"FAILED", "AWAITING_CONFIRMATION"}, Raise(t, status)
    PROVE  ImportInv'
<1> DEFINE stage == IF Importing(t) THEN <<status>> ELSE <<>>
<1>1. stage \in Waiting
  BY DEF Waiting, ToFail, ToRefuse
<1>2. Sound(t, <<>>, stage, 0, {})
  BY <1>1, AtRest
<1>3. /\ DOMAIN own = Txs /\ DOMAIN todo = Txs /\ DOMAIN copy = Txs /\ DOMAIN failed = Txs /\ DOMAIN fresh = Txs
      /\ started \in Nat /\ \A u \in Txs : fresh[u] \subseteq Created
  BY DEF ImportInv, Shape, Numbered
<1>4. /\ own' = [own EXCEPT ![t] = <<>>] /\ todo' = [todo EXCEPT ![t] = stage]
      /\ copy' = [copy EXCEPT ![t] = 0] /\ fresh' = [fresh EXCEPT ![t] = {}]
      /\ failed' = [failed EXCEPT ![t] = {}]
      /\ db' = db /\ ledger' = ledger /\ live' = live /\ touched' = touched
      /\ doubled' = doubled /\ started' = started
  BY DEF Raise, shop, history
<1> HIDE DEF stage
<1>5. /\ OnlyAt(own, own', t, <<>>) /\ OnlyAt(todo, todo', t, stage)
      /\ OnlyAt(copy, copy', t, 0) /\ OnlyAt(failed, failed', t, {})
  BY <1>3, <1>4, OnlyAtIs
<1>6. DOMAIN fresh' = Txs /\ \A u \in Txs : fresh'[u] \subseteq Created
  BY <1>3, <1>4
<1>7. JobOnly(db, db')
  BY <1>4, Of
<1>8. Comes(t, <<>>, stage, 0, {})
  BY <1>3, <1>4, <1>5, <1>6, <1>7 DEF Comes
<1>9. QED
  BY <1>2, <1>8, OwnStep

\* recompute_job() and rollback_job() claim the job.
LEMMA ClaimStep ==
    ASSUME ImportInv, NEW t \in Txs, NEW status, NEW stage \in {ToDeduct, ToUnfifo}, Claim(t, status, stage)
    PROVE  ImportInv'
<1> DEFINE values == Only(Job, [db[Job] EXCEPT !.status = status])
           mine == Over(values, own[t])
<1>1. /\ todo[t] = <<>> /\ Free(t, {Job})
      /\ own' = [own EXCEPT ![t] = mine] /\ todo' = [todo EXCEPT ![t] = stage]
      /\ UNCHANGED <<db, copy, fresh, failed, shop, history>>
  BY DEF Claim, Idle, Write
<1>2. /\ DOMAIN own[t] = {} /\ copy[t] = 0 /\ started \in Nat
      /\ Books(db, ~doubled, ledger, live) /\ JobOnly(db, db)
  BY <1>1, Of, StageSets
<1>3. DOMAIN mine = {Job}
  BY <1>2 DEF Over, Only
<1> HIDE DEF mine
<1>4. \A u \in Txs \ {t} : DOMAIN mine \cap DOMAIN own[u] = {}
  BY <1>1, <1>3, FreeIs
<1>5. (~doubled /\ Single(0, db)) = ~doubled
  BY DEF Single
<1>6. /\ RecomputingRows(mine, 0, failed[t], ToDeduct, db, ~doubled, ledger, live)
      /\ RollingBackRows(mine, ToUnfifo, db, touched)
  BY <1>2, <1>3, ClaimRows
<1>7. SessionRows(mine, 0, failed[t], stage, db, ~doubled /\ Single(0, db), ledger, live, touched)
  BY <1>5, <1>6, StageSets, RowsAtStage
<1>8. stage # ToReverse /\ stage \notin Loaded /\ stage \notin Starting /\ stage \notin Waiting
  BY StageSets, StagesApart
<1>9. Sound(t, mine, stage, 0, failed[t])
  BY <1>4, <1>7, <1>8 DEF Sound
<1>10. Comes(t, mine, stage, 0, failed[t])
  <2>1. /\ DOMAIN own = Txs /\ DOMAIN todo = Txs /\ DOMAIN copy = Txs /\ DOMAIN failed = Txs /\ DOMAIN fresh = Txs
        /\ \A u \in Txs : fresh[u] \subseteq Created
    BY DEF ImportInv, Shape, Numbered
  <2>2. /\ copy' = copy /\ failed' = failed /\ fresh' = fresh /\ started' = started /\ db' = db
        /\ UNCHANGED <<ledger, live, touched, doubled>>
    BY <1>1 DEF shop, history
  <2>3. /\ OnlyAt(own, own', t, mine) /\ OnlyAt(todo, todo', t, stage)
        /\ OnlyAt(copy, copy', t, 0) /\ OnlyAt(failed, failed', t, failed[t])
    BY <1>1, <1>2, <2>1, <2>2, OnlyAtIs
  <2>4. QED
    BY <1>2, <2>1, <2>2, <2>3 DEF Comes
<1>11. QED
  BY <1>9, <1>10, OwnStep

LEMMA TransformStep ==
    ASSUME ImportInv, NEW t \in Txs, Transform(t)
    PROVE  ImportInv'
<1>1. todo[t] = ImportSteps
  BY Of, StageAt DEF Transform
<1>2. Tail(todo[t]) = ToLoad /\ DOMAIN own[t] = {} /\ copy[t] # 0 /\ copy[t] \in {0} \cup Copies
  BY <1>1, StepsAre, Of, StageSets
<1>3. Sound(t, own[t], ToLoad, copy[t], failed[t])
  BY <1>2, AtRest, StageSets
<1>4. Goes(t, own[t], failed[t])
  <2>1. /\ DOMAIN own = Txs /\ DOMAIN failed = Txs /\ DOMAIN fresh = Txs
        /\ \A u \in Txs : fresh[u] \subseteq Created
    BY DEF ImportInv, Shape, Numbered
  <2>2. DOMAIN fresh' = Txs /\ \A u \in Txs : fresh'[u] \subseteq Created
    BY <2>1 DEF Transform
  <2>3. QED
    BY <2>1, <2>2, OnlyAtIs DEF Transform, Goes, shop, history
<1>5. Comes(t, own[t], ToLoad, copy[t], failed[t])
  BY <1>2, <1>4, GoesOn
<1>6. QED
  BY <1>3, <1>5, OwnStep

\* The server stops.
LEMMA CrashStep ==
    ASSUME ImportInv, Crash
    PROVE  ImportInv'
<1>1. /\ own' = [t \in Txs |-> <<>>] /\ todo' = [t \in Txs |-> <<>>] /\ copy' = [t \in Txs |-> 0]
      /\ fresh' = [t \in Txs |-> {}] /\ failed' = [t \in Txs |-> {}]
      /\ db' = db /\ ledger' = ledger /\ live' = live /\ touched' = touched
      /\ doubled' = doubled /\ started' = started
  BY DEF Crash, shop
<1>2. Shape'
  BY <1>1 DEF ImportInv, Shape, MovesInt, UnitsNat, There
<1>3. Books(db, ~doubled, ledger, live)'
  BY <1>1 DEF ImportInv
<1>4. RowsApart' /\ NoneReferring'
  BY <1>1, StagesApart DEF RowsApart, NoneReferring
<1>5. ASSUME NEW t \in Txs PROVE Numbered(t)' /\ Session(t)'
  <2>1. own'[t] = <<>> /\ todo'[t] = <<>> /\ copy'[t] = 0 /\ fresh'[t] = {}
    BY <1>1
  <2>2. \A c, skips, rows, once, led, liv, moved : SessionRows(<<>>, c, skips, <<>>, rows, once, led, liv, moved)
    BY RowsAtStage, StageSets
  <2>3. Session(t)'
    BY <2>1, <2>2 DEF Session
  <2>4. Numbered(t)'
    BY <2>1, StagesApart, StageSets DEF Numbered
  <2>5. QED
    BY <2>3, <2>4
<1>6. QED
  BY <1>2, <1>3, <1>4, <1>5 DEF ImportInv
------------------------------------------------------------------------------
(* The import.                                                             *)

LEMMA LoadStep ==
    ASSUME ImportInv, NEW t \in Txs, Load(t)
    PROVE  ImportInv'
<1>1. CASE Raise(t, "FAILED")
  BY <1>1, RaiseStep
<1> DEFINE c == copy[t]
           ids == {Stock(p) : p \in fresh[t]} \cup {Order(d) : d \in {e \in Copies : There(e)}}
           order == Only(Order(c), [NoOrder EXCEPT !.there = TRUE])
           sales == [i \in {Sale(c, s) : s \in SaleIds} |-> [NoSale EXCEPT !.state = "COMPLETED"]]
           stock == [i \in {Stock(p) : p \in fresh[t]} |-> 0]
           values == Over(order, Over(sales, stock))
           mine == Over(values, own[t])
<1>2. CASE /\ At(t, "load")
           /\ fresh[t] = {p \in Created : ~Exists(p)}
           /\ Step(t, "load", ids, values)
  <2>1. todo[t] = ToLoad /\ Tail(todo[t]) = ToOrders
    <3>1. At(t, "load")
      BY <1>2
    <3>2. todo[t] = ToLoad
      BY <3>1, Of, StageAt
    <3>3. QED
      BY <3>2, StepsAre
  <2>2. /\ DOMAIN own[t] = {} /\ c \in Copies /\ ~There(c) /\ fresh[t] \subseteq Created
        /\ Books(db, ~doubled, ledger, live) /\ c # 0
    BY <2>1, Of, StageSets
  <2>3. Free(t, ids) /\ own' = [own EXCEPT ![t] = mine] /\ Advance(t)
        /\ UNCHANGED <<db, copy, fresh, failed, shop, history>>
    BY <1>2 DEF Step, Write
  <2>4. CopyLoaded(mine, c, fresh[t])
    <3>1. DOMAIN order = {Order(c)} /\ order[Order(c)] = [NoOrder EXCEPT !.there = TRUE]
      BY DEF Only
    <3>2. DOMAIN sales = {Sale(c, s) : s \in SaleIds}
          /\ \A s \in SaleIds : sales[Sale(c, s)] = [NoSale EXCEPT !.state = "COMPLETED"]
      OBVIOUS
    <3>3. DOMAIN stock = {Stock(p) : p \in fresh[t]} /\ \A p \in fresh[t] : stock[Stock(p)] = 0
      OBVIOUS
    <3> HIDE DEF order, sales, stock
    <3>4. DOMAIN Over(sales, stock) = DOMAIN sales \cup DOMAIN stock
          /\ (\A i \in DOMAIN sales : Over(sales, stock)[i] = sales[i])
          /\ (\A i \in DOMAIN stock : i \notin DOMAIN sales => Over(sales, stock)[i] = stock[i])
      BY DEF Over
    <3>5. DOMAIN values = DOMAIN order \cup DOMAIN sales \cup DOMAIN stock
          /\ (\A i \in DOMAIN order : values[i] = order[i])
          /\ (\A i \in DOMAIN sales : i \notin DOMAIN order => values[i] = sales[i])
          /\ (\A i \in DOMAIN stock : i \notin DOMAIN order /\ i \notin DOMAIN sales => values[i] = stock[i])
      BY <3>4 DEF Over
    <3> HIDE DEF values
    <3>6. DOMAIN mine = DOMAIN values /\ \A i \in DOMAIN values : mine[i] = values[i]
      BY <2>2 DEF Over
    <3> HIDE DEF mine
    <3>7. DOMAIN mine = {Order(c)} \cup {Sale(c, s) : s \in SaleIds} \cup {Stock(p) : p \in fresh[t]}
      BY <3>1, <3>2, <3>3, <3>5, <3>6
    <3>8. mine[Order(c)] = [NoOrder EXCEPT !.there = TRUE]
      BY <3>1, <3>5, <3>6
    <3>9. \A s \in SaleIds : mine[Sale(c, s)] = [NoSale EXCEPT !.state = "COMPLETED"]
      <4>1. \A s \in SaleIds : Sale(c, s) \in DOMAIN sales /\ Sale(c, s) \notin DOMAIN order
        BY <3>1, <3>2, Tables
      <4>2. QED
        BY <3>2, <3>5, <3>6, <4>1
    <3>10. \A p \in fresh[t] : mine[Stock(p)] = 0
      <4>1. \A p \in fresh[t] : /\ Stock(p) \in DOMAIN stock /\ Stock(p) \notin DOMAIN order
                                /\ Stock(p) \notin DOMAIN sales
        BY <3>1, <3>2, <3>3, Tables
      <4>2. QED
        BY <3>3, <3>5, <3>6, <4>1
    <3>11. QED
      BY <3>7, <3>8, <3>9, <3>10 DEF CopyLoaded
  <2> HIDE DEF values, mine
  <2>5. LoadedRows(mine, c, db)
    <3>1. CopyBook(db) /\ StockBook(db, live) /\ ~db[Order(c)].there
      BY <2>2 DEF Books, There
    <3>2. \A p \in Created : p \in fresh[t] <=> db[Stock(p)] = Missing
      BY <1>2 DEF Exists
    <3>3. QED
      BY <2>2, <2>4, <3>1, <3>2, LoadRows
  <2>6. \A u \in Txs \ {t} : DOMAIN mine \cap DOMAIN own[u] = {}
    <3>1. TAKE u \in Txs \ {t}
    <3>2. DOMAIN own[u] \cap OfCopy(c) = {}
      BY <2>2, CopyIsOwn
    <3>3. \A i \in ids : i \notin DOMAIN own[u]
      BY <2>3, FreeIs
    <3>4. \A i \in DOMAIN mine : i \in OfCopy(c) \/ i \in ids
      BY <2>4, CopyIs DEF CopyLoaded
    <3>5. QED
      BY <3>2, <3>3, <3>4
  <2>7. ASSUME Created # {}, NEW u \in Txs \ {t} PROVE todo[u] # ToReverse
    <3>1. SUFFICES ASSUME todo[u] = ToReverse PROVE FALSE
      OBVIOUS
    <3>2. Cleared(own[u], db, touched)
      BY <3>1, Of, StageSets DEF RollingBackRows
    <3>3. \A i \in ids : i \notin DOMAIN own[u]
      BY <2>3, FreeIs
    <3>4. \A d \in Copies : There(d) => Order(d) \in DOMAIN own[u]
      BY <3>2, CopyIs DEF Cleared, There
    <3>5. \A d \in Copies : ~There(d)
      BY <3>3, <3>4
    <3>6. \A p \in Created : db[Stock(p)] = Missing
      BY <2>2, <3>5 DEF Books, CopyBook, There
    <3>7. fresh[t] = Created
      BY <1>2, <3>6 DEF Exists
    <3>8. PICK p \in Created : TRUE
      BY <2>7
    <3>9. Stock(p) \in ids /\ Stock(p) \in DOMAIN own[u]
      BY <3>2, <3>7 DEF Cleared
    <3>10. QED
      BY <3>3, <3>9
  <2>8. SessionRows(mine, c, failed[t], ToOrders, db, ~doubled /\ Single(c, db), ledger, live, touched)
    BY <2>5, RowsAtStage, StageSets
  <2>9. Sound(t, mine, ToOrders, c, failed[t])
    BY <2>2, <2>6, <2>7, <2>8, StageSets, StagesApart DEF Sound
  <2>10. Goes(t, mine, failed[t])
    <3>1. /\ DOMAIN own = Txs /\ DOMAIN failed = Txs /\ DOMAIN fresh = Txs
          /\ \A u \in Txs : fresh[u] \subseteq Created
      BY DEF ImportInv, Shape, Numbered
    <3>2. QED
      BY <2>3, <3>1, OnlyAtIs DEF Goes, history
  <2>11. Comes(t, mine, ToOrders, c, failed[t])
    BY <2>1, <2>10, GoesOn
  <2>12. QED
    BY <2>9, <2>11, OwnStep
<1>3. QED
  BY <1>1, <1>2 DEF Load

\* adjust_stock() for every product with an amount, and batches of the order.
LEMMA MovesStep ==
    ASSUME ImportInv, NEW t \in Txs, NEW stage \in Loaded, NEW amount \in [Products -> Int], NEW mine,
           todo[t] \in Loaded, Tail(todo[t]) = stage,
           Free(t, Moving(amount)), \A p \in Products : See(t, Stock(p)) + amount[p] >= 0,
           NEW values, own' = [own EXCEPT ![t] = mine], mine = Over(Over(values, Moves(t, amount)), own[t]),
           NEW new \in SUBSET Products,
           values = [i \in {Batch(p, copy[t]) : p \in new} |-> Bought[i[2]]],
           Advance(t), UNCHANGED <<db, copy, fresh, failed, shop, history>>
    PROVE  ImportInv'
<1> DEFINE c == copy[t]
           was == own[t]
           seen == Laid(was, db)
           next == Laid(mine, db)
           moves == Moves(t, amount)
           received == [p \in Products |-> See(t, Received(c))[p] + amount[p]]
           stock == [i \in Moving(amount) |-> See(t, i) + amount[i[2]]]
<1>1. /\ c \in Copies /\ c # 0 /\ LoadedRows(was, c, db) /\ StockBook(db, live)
      /\ \A u \in Txs \ {t} : DOMAIN was \cap DOMAIN own[u] = {}
  BY Of DEF Books
<1>2. /\ \A p \in Products : Stock(p) \in RowIds /\ See(t, Stock(p)) = seen[Stock(p)]
      /\ Received(c) \in RowIds /\ See(t, Received(c)) = seen[Received(c)]
      /\ \A p \in Products : Stock(p) \in Moving(amount) <=> amount[p] # 0
      /\ \A i \in Moving(amount) : \E p \in Products : i = Stock(p) /\ amount[p] # 0
  BY <1>1, Ids, SeeIs, Tables DEF Moving
<1>3. /\ DOMAIN values = {Batch(p, c) : p \in new}
      /\ \A p \in new : values[Batch(p, c)] = Bought[p]
  BY Tables
<1>4. moves = Over(Only(Received(c), received), stock)
  BY DEF Moves
<1>5. /\ DOMAIN moves = {Received(c)} \cup Moving(amount)
      /\ moves[Received(c)] = received
      /\ \A i \in Moving(amount) : moves[i] = See(t, i) + amount[i[2]]
  <2>1. \A i \in Moving(amount) : i # Received(c)
    BY <1>2, Tables
  <2>2. DOMAIN Only(Received(c), received) = {Received(c)} /\ Only(Received(c), received)[Received(c)] = received
    BY OneRow
  <2>3. DOMAIN stock = Moving(amount) /\ \A i \in Moving(amount) : stock[i] = See(t, i) + amount[i[2]]
    OBVIOUS
  <2> HIDE DEF stock, received
  <2>4. QED
    BY <1>4, <2>1, <2>2, <2>3 DEF Over
<1> HIDE DEF moves
<1>6. /\ DOMAIN mine = DOMAIN values \cup DOMAIN moves \cup DOMAIN was
      /\ \A i \in DOMAIN values : mine[i] = values[i]
      /\ \A i \in DOMAIN moves : i \notin DOMAIN values => mine[i] = moves[i]
      /\ \A i \in DOMAIN was : i \notin DOMAIN values /\ i \notin DOMAIN moves => mine[i] = was[i]
  <2>1. mine = Over(Over(values, moves), was)
    BY DEF moves
  <2>2. /\ DOMAIN Over(values, moves) = DOMAIN values \cup DOMAIN moves
        /\ \A i \in DOMAIN values : Over(values, moves)[i] = values[i]
        /\ \A i \in DOMAIN moves : i \notin DOMAIN values => Over(values, moves)[i] = moves[i]
    BY DEF Over
  <2> DEFINE written == Over(values, moves)
  <2>3. /\ DOMAIN mine = DOMAIN written \cup DOMAIN was
        /\ \A i \in DOMAIN written : mine[i] = written[i]
        /\ \A i \in DOMAIN was : i \notin DOMAIN written => mine[i] = was[i]
    BY <2>1 DEF Over
  <2> HIDE DEF written
  <2>4. QED
    BY <2>2, <2>3 DEF written
<1>b. /\ \A i \in DOMAIN values : i[1] = "batch"
      /\ \A i \in Moving(amount) : i[1] = "stock"
      /\ \A i \in DOMAIN moves : i[1] \in {"received", "stock"}
  <2>1. \A i \in DOMAIN values : \E p : i = Batch(p, c)
    BY <1>3
  <2>2. \A i \in DOMAIN moves : i = Received(c) \/ i \in Moving(amount)
    BY <1>5
  <2>3. \A i \in Moving(amount) : i[1] = "stock"
    BY <1>2, Tables
  <2>4. \A i \in DOMAIN values : i[1] = "batch"
    BY <2>1, Tables
  <2>5. Received(c)[1] = "received"
    BY Tables
  <2>6. QED
    BY <2>2, <2>3, <2>4, <2>5
<1>7. \A p : Batch(p, c) \notin DOMAIN moves /\ Stock(p) \notin DOMAIN values
  <2>1. \A p : Batch(p, c)[1] = "batch" /\ Stock(p)[1] = "stock"
    BY Tables
  <2>2. QED
    BY <1>b, <2>1
<1>8. MovesMade(was, mine, c, db, amount)
  <2>1. DOMAIN was \subseteq Stocks \cup OfCopy(c) /\ Order(c) \in DOMAIN was
        /\ \A s \in SaleIds : Sale(c, s) \in DOMAIN was
    BY <1>1 DEF LoadedRows
  <2>2. DOMAIN moves \subseteq Stocks \cup OfCopy(c) /\ DOMAIN values \subseteq OfCopy(c)
    BY <1>2, <1>3, <1>5, CopyIs DEF Stocks
  <2>3. /\ Received(c) \in DOMAIN mine /\ Received(c) \notin DOMAIN values
        /\ mine[Received(c)] = [p \in Products |-> seen[Received(c)][p] + amount[p]]
    <3>1. Received(c) \notin DOMAIN values
      BY <1>b, Tables
    <3>2. Received(c) \in DOMAIN moves /\ moves[Received(c)] = received
      BY <1>5
    <3>3. received = [p \in Products |-> seen[Received(c)][p] + amount[p]]
      BY <1>2
    <3> HIDE DEF received
    <3>4. QED
      BY <1>6, <3>1, <3>2, <3>3
  <2>4. ASSUME NEW p \in Products PROVE next[Stock(p)] = seen[Stock(p)] + amount[p]
    <3>1. CASE amount[p] # 0
      <4>1. Stock(p) \in DOMAIN moves /\ moves[Stock(p)] = seen[Stock(p)] + amount[p]
        BY <1>2, <1>5, <3>1, Tables
      <4>2. mine[Stock(p)] = moves[Stock(p)] /\ Stock(p) \in DOMAIN mine
        BY <1>6, <1>7, <4>1
      <4>3. QED
        BY <1>2, <4>1, <4>2, LaidIs
    <3>2. CASE amount[p] = 0
      <4>1. Stock(p) \notin DOMAIN moves
        BY <1>2, <1>5, <3>2, Tables
      <4>2. next[Stock(p)] = seen[Stock(p)]
        <5>1. Stock(p) \in RowIds /\ Stock(p) \notin DOMAIN values
          BY <1>2, <1>7
        <5>2. Stock(p) \in DOMAIN mine <=> Stock(p) \in DOMAIN was
          BY <1>6, <4>1, <5>1
        <5>3. Stock(p) \in DOMAIN was => mine[Stock(p)] = was[Stock(p)]
          BY <1>6, <4>1, <5>1
        <5> HIDE DEF was
        <5>4. CASE Stock(p) \in DOMAIN was
          BY <5>1, <5>2, <5>3, <5>4, LaidIs
        <5>5. CASE Stock(p) \notin DOMAIN was
          BY <5>1, <5>2, <5>5, LaidIs
        <5>6. QED
          BY <5>4, <5>5
      <4>3. seen[Stock(p)] \in Nat
        BY <1>1 DEF LoadedRows
      <4>4. QED
        BY <3>2, <4>2, <4>3
    <3>3. QED
      BY <3>1, <3>2
  <2>5. /\ mine[Order(c)] = was[Order(c)]
        /\ \A s \in SaleIds : mine[Sale(c, s)] = was[Sale(c, s)]
    <3>1. Order(c) \notin DOMAIN values /\ Order(c) \notin DOMAIN moves
          /\ \A s \in SaleIds : Sale(c, s) \notin DOMAIN values /\ Sale(c, s) \notin DOMAIN moves
      <4>1. Order(c)[1] = "order" /\ \A s : Sale(c, s)[1] = "sale"
        BY Tables
      <4>2. QED
        BY <1>b, <4>1
    <3>2. QED
      BY <1>6, <2>1, <3>1
  <2>6. ASSUME NEW p \in Products, Batch(p, c) \in DOMAIN mine PROVE mine[Batch(p, c)] = Bought[p]
    <3>1. CASE Batch(p, c) \in DOMAIN values
      <4>1. p \in new
        BY <1>3, <3>1, Tables
      <4>2. QED
        BY <1>3, <1>6, <3>1, <4>1
    <3>2. CASE Batch(p, c) \notin DOMAIN values
      <4>1. Batch(p, c) \in DOMAIN was /\ mine[Batch(p, c)] = was[Batch(p, c)]
        BY <1>6, <1>7, <2>6, <3>2
      <4>2. QED
        BY <1>1, <4>1 DEF LoadedRows
    <3>3. QED
      BY <3>1, <3>2
  <2>7. DOMAIN was \subseteq DOMAIN mine /\ DOMAIN mine \subseteq Stocks \cup OfCopy(c)
    BY <1>6, <2>1, <2>2
  <2>8. QED
    BY <2>3, <2>4, <2>5, <2>6, <2>7 DEF MovesMade
<1>9. LoadedRows(mine, c, db)
  <2>1. \A p \in Products : Laid(was, db)[Stock(p)] + amount[p] >= 0
    BY <1>2
  <2> HIDE DEF was, seen, next
  <2>2. QED
    BY <1>1, <1>8, <2>1, MovesRows
<1>10. \A u \in Txs \ {t} : DOMAIN mine \cap DOMAIN own[u] = {}
  <2>1. TAKE u \in Txs \ {t}
  <2>2. DOMAIN own[u] \cap OfCopy(c) = {}
    BY <1>1, CopyIsOwn
  <2>3. \A i \in Moving(amount) : i \notin DOMAIN own[u]
    BY FreeIs
  <2>4. DOMAIN was \cap DOMAIN own[u] = {}
    BY <1>1
  <2>5. \A i \in DOMAIN values \cup {Received(c)} : i \in OfCopy(c)
    BY <1>3, CopyIs
  <2>6. QED
    BY <1>5, <1>6, <2>2, <2>3, <2>4, <2>5
<1>11. ASSUME Created # {}, NEW u \in Txs \ {t} PROVE todo[u] # ToReverse
  BY <1>11 DEF ImportInv, NoneReferring
<1> HIDE DEF was, seen, next
<1>12. SessionRows(mine, c, failed[t], stage, db, ~doubled /\ Single(c, db), ledger, live, touched)
  BY <1>9, RowsAtStage
<1>13. Sound(t, mine, stage, c, failed[t])
  <2>1. c \in {0} \cup Copies /\ stage \notin Waiting /\ stage # ToReverse
    BY <1>1, StagesApart, StageSets
  <2>2. QED
    BY <1>1, <1>10, <1>11, <1>12, <2>1 DEF Sound
<1>14. Goes(t, mine, failed[t])
  <2>1. /\ DOMAIN own = Txs /\ DOMAIN failed = Txs /\ DOMAIN fresh = Txs
        /\ \A u \in Txs : fresh[u] \subseteq Created
    BY DEF ImportInv, Shape, Numbered
  <2>2. OnlyAt(own, own', t, mine)
    BY <2>1, OnlyAtIs
  <2>3. OnlyAt(failed, failed', t, failed[t])
    BY <2>1, OnlyAtIs
  <2>4. QED
    BY <2>1, <2>2, <2>3 DEF Goes, history
<1>15. Comes(t, mine, stage, c, failed[t])
  BY <1>14, GoesOn
<1>16. QED
  BY <1>13, <1>15, OwnStep

LEMMA OverNone ==
    ASSUME NEW values, DOMAIN values = {}, NEW f, f = [i \in DOMAIN f |-> f[i]]
    PROVE  Over(values, f) = f
BY DEF Over

LEMMA LoadOrdersStep ==
    ASSUME ImportInv, NEW t \in Txs, LoadOrders(t)
    PROVE  ImportInv'
<1> DEFINE new == {q \in Products : Bought[q] > 0}
           values == [i \in {Batch(p, copy[t]) : p \in new} |-> Bought[i[2]]]
           mine == Over(Over(values, Moves(t, Bought)), own[t])
<1>1. /\ At(t, "orders") /\ Advance(t) /\ UNCHANGED <<db, copy, fresh, failed, shop, history>>
      /\ Free(t, Moving(Bought)) /\ own' = [own EXCEPT ![t] = mine]
  BY DEF LoadOrders, Step, Write
<1>2. todo[t] = ToOrders
  BY <1>1, Of, StageAt
<1>3. Tail(todo[t]) = ToAdjust /\ todo[t] \in Loaded /\ ToAdjust \in Loaded
  BY <1>2, StepsAre, StageSets
<1>4. Bought \in [Products -> Int] /\ \A p \in Products : Bought[p] \in Nat
  BY ImportAssumption
<1>5. \A p \in Products : See(t, Stock(p)) + Bought[p] >= 0
  <2>1. TAKE p \in Products
  <2>2. LoadedRows(own[t], copy[t], db)
    BY <1>3, Of
  <2>3. See(t, Stock(p)) \in Nat
    BY <2>2, SeeIs, Ids DEF LoadedRows
  <2>4. QED
    BY <1>4, <2>3
<1>6. new \in SUBSET Products /\ values = [i \in {Batch(p, copy[t]) : p \in new} |-> Bought[i[2]]]
      /\ mine = Over(Over(values, Moves(t, Bought)), own[t])
  OBVIOUS
<1> HIDE DEF new, values, mine
<1>7. QED
  BY <1>1, <1>3, <1>4, <1>5, <1>6, MovesStep

LEMMA LoadAdjustmentsStep ==
    ASSUME ImportInv, NEW t \in Txs, LoadAdjustments(t)
    PROVE  ImportInv'
<1>1. CASE Raise(t, "AWAITING_CONFIRMATION")
  BY <1>1, RaiseStep
<1>2. CASE /\ At(t, "adjust")
           /\ \A p \in Products : See(t, Stock(p)) + Adjusted[p] >= 0
           /\ Step(t, "adjust", Moving(Adjusted), Moves(t, Adjusted))
  <2> DEFINE new == {}
             values == [i \in {Batch(p, copy[t]) : p \in new} |-> Bought[i[2]]]
             mine == Over(Over(values, Moves(t, Adjusted)), own[t])
  <2>1. /\ At(t, "adjust") /\ Advance(t) /\ UNCHANGED <<db, copy, fresh, failed, shop, history>>
        /\ Free(t, Moving(Adjusted)) /\ own' = [own EXCEPT ![t] = Over(Moves(t, Adjusted), own[t])]
        /\ \A p \in Products : See(t, Stock(p)) + Adjusted[p] >= 0
    BY <1>2 DEF Step, Write
  <2>2. todo[t] = ToAdjust
    BY <2>1, Of, StageAt
  <2>3. Tail(todo[t]) = ToFlush /\ todo[t] \in Loaded /\ ToFlush \in Loaded
    BY <2>2, StepsAre, StageSets
  <2>4. Over(values, Moves(t, Adjusted)) = Moves(t, Adjusted)
    <3>1. DOMAIN values = {}
      OBVIOUS
    <3>2. Moves(t, Adjusted) = [i \in DOMAIN Moves(t, Adjusted) |-> Moves(t, Adjusted)[i]]
      BY DEF Moves, Over
    <3> HIDE DEF values
    <3>3. QED
      BY <3>1, <3>2, OverNone
  <2>5. own' = [own EXCEPT ![t] = mine]
    BY <2>1, <2>4
  <2>6. new \in SUBSET Products /\ values = [i \in {Batch(p, copy[t]) : p \in new} |-> Bought[i[2]]]
        /\ mine = Over(Over(values, Moves(t, Adjusted)), own[t])
    OBVIOUS
  <2>7. Adjusted \in [Products -> Int]
    BY ImportAssumption
  <2>8. Advance(t) /\ UNCHANGED <<db, copy, fresh, failed, shop, history>> /\ Free(t, Moving(Adjusted))
    BY <2>1
  <2>9. \A p \in Products : See(t, Stock(p)) + Adjusted[p] >= 0
    BY <2>1
  <2> HIDE DEF new, values, mine
  <2>10. QED
    BY <2>3, <2>5, <2>6, <2>7, <2>8, <2>9, MovesStep
<1>3. QED
  BY <1>1, <1>2 DEF LoadAdjustments

LEMMA StartRecomputeStep ==
    ASSUME ImportInv, NEW t \in Txs, StartRecompute(t)
    PROVE  ImportInv'
<1> DEFINE c == copy[t]
           mine == Over(Only(Job, [db[Job] EXCEPT !.status = "RECOMPUTING"]), own[t])
<1>1. /\ At(t, "flush") /\ Advance(t) /\ UNCHANGED <<db, copy, fresh, failed, shop, history>>
      /\ Free(t, {Job}) /\ own' = [own EXCEPT ![t] = mine]
  BY DEF StartRecompute, Step, Write
<1>2. todo[t] = ToFlush
  BY <1>1, Of, StageAt
<1>3. Tail(todo[t]) = ToDeduct /\ todo[t] \in Loaded
  BY <1>2, StepsAre, StageSets
<1>4. /\ c \in Copies /\ c # 0 /\ LoadedRows(own[t], c, db) /\ ~There(c)
      /\ Books(db, ~doubled, ledger, live) /\ MovesInt(live) /\ UnitsNat(ledger)
      /\ \A u \in Txs \ {t} : DOMAIN own[t] \cap DOMAIN own[u] = {}
  BY <1>3, Of
<1>5. WithJob(own[t], mine)
  BY DEF Over, Only, WithJob
<1> HIDE DEF mine
<1>6. RecomputingRows(mine, c, failed[t], ToDeduct, db, ~doubled /\ Single(c, db), ledger, live)
  <2>1. ~db[Order(c)].there
    BY <1>4 DEF There
  <2>2. (~doubled) \in BOOLEAN
    OBVIOUS
  <2>3. QED
    BY <1>4, <1>5, <2>1, <2>2, StartRows
<1>7. \A u \in Txs \ {t} : DOMAIN mine \cap DOMAIN own[u] = {}
  BY <1>1, <1>4, <1>5, FreeIs DEF WithJob
<1>8. SessionRows(mine, c, failed[t], ToDeduct, db, ~doubled /\ Single(c, db), ledger, live, touched)
  BY <1>6, RowsAtStage, StageSets
<1>9. Sound(t, mine, ToDeduct, c, failed[t])
  <2>1. ToDeduct \notin Starting \cup Loaded /\ ToDeduct \notin Waiting /\ ToDeduct # ToReverse
    BY StageSets, StagesApart
  <2>2. QED
    BY <1>4, <1>7, <1>8, <2>1 DEF Sound
<1>10. Goes(t, mine, failed[t])
  <2>1. /\ DOMAIN own = Txs /\ DOMAIN failed = Txs /\ DOMAIN fresh = Txs
        /\ \A u \in Txs : fresh[u] \subseteq Created
    BY DEF ImportInv, Shape, Numbered
  <2>2. OnlyAt(own, own', t, mine)
    BY <1>1, <2>1, OnlyAtIs
  <2>3. OnlyAt(failed, failed', t, failed[t])
    BY <1>1, <2>1, OnlyAtIs
  <2>4. QED
    BY <1>1, <2>1, <2>2, <2>3 DEF Goes, history
<1>11. Comes(t, mine, ToDeduct, c, failed[t])
  BY <1>3, <1>10, GoesOn
<1>12. QED
  BY <1>9, <1>11, OwnStep

------------------------------------------------------------------------------
(* The recompute.                                                          *)

\* The next step of a session that holds the job's row.
LEMMA RecomputeGoes ==
    ASSUME ImportInv, NEW t \in Txs, NEW mine, NEW skips, NEW stage \in Recomputing,
           todo[t] \in Recomputing,
           RecomputingRows(mine, copy[t], skips, stage, db, ~doubled /\ Single(copy[t], db), ledger, live),
           \A u \in Txs \ {t} : DOMAIN mine \cap DOMAIN own[u] = {}
    PROVE  Sound(t, mine, stage, copy[t], skips)
<1>1. copy[t] \in {0} \cup Copies
  BY Of
<1>2. stage \notin Starting \cup Loaded /\ stage \notin Waiting /\ stage # ToReverse
  BY StageSets, StagesApart
<1>3. SessionRows(mine, copy[t], skips, stage, db, ~doubled /\ Single(copy[t], db), ledger, live, touched)
  BY RowsAtStage
<1>4. QED
  BY <1>1, <1>2, <1>3 DEF Sound

\* What the session sees of the imported sales.
LEMMA SoldIs ==
    ASSUME NEW t, NEW p
    PROVE  UnitsSold(t, p) = Recorded(Laid(own[t], db), p)
<1>1. \A i \in Sales : SaleRows(t)[i] = Laid(own[t], db)[i]
  BY SeeIs, Ids DEF SaleRows
<1>2. \A i \in Sales : SaleRows(t)[i].state = "NONE" <=> Laid(own[t], db)[i].state = "NONE"
  BY <1>1
<1>3. QED
  BY <1>2, RecordedSame DEF UnitsSold

LEMMA DeductStep ==
    ASSUME ImportInv, NEW t \in Txs, Deduct(t)
    PROVE  ImportInv'
<1> DEFINE c == copy[t]
           was == own[t]
           seen == Laid(was, db)
           due == {p \in Products : UnitsSold(t, p) > 0 /\ ~Applied(t, p)}
           enough == {p \in due : See(t, Stock(p)) >= UnitsSold(t, p)}
<1>1. /\ At(t, "deduct") /\ Advance(t) /\ UNCHANGED <<db, copy, fresh, shop, history>>
      /\ Free(t, {Stock(p) : p \in due})
  BY DEF Deduct
<1>2. PICK done \in {{}, enough} :
         /\ Write(t, Over(Only(Deducted, [p \in Products |->
                                 IF p \in done THEN UnitsSold(t, p) ELSE See(t, Deducted)[p]]),
                          [i \in {Stock(p) : p \in done} |-> See(t, i) - UnitsSold(t, i[2])]))
         /\ failed' = [failed EXCEPT ![t] = due \ done]
  BY DEF Deduct
<1> DEFINE row == [p \in Products |-> IF p \in done THEN UnitsSold(t, p) ELSE See(t, Deducted)[p]]
           stock == [i \in {Stock(p) : p \in done} |-> See(t, i) - UnitsSold(t, i[2])]
           values == Over(Only(Deducted, row), stock)
           mine == Over(values, was)
           next == Laid(mine, db)
<1>3. todo[t] = ToDeduct
  BY <1>1, Of, StageAt
<1>4. Tail(todo[t]) = ToCost /\ todo[t] \in Recomputing
  BY <1>3, StepsAre, StageSets
<1>5. /\ c \in {0} \cup Copies /\ MovesInt(live)
      /\ RecomputingRows(was, c, failed[t], ToDeduct, db, ~doubled /\ Single(c, db), ledger, live)
      /\ \A u \in Txs \ {t} : DOMAIN was \cap DOMAIN own[u] = {}
  BY <1>3, <1>4, Of
<1>6. /\ \A p : UnitsSold(t, p) = Recorded(seen, p)
      /\ \A p \in Products : Stock(p) \in RowIds /\ See(t, Stock(p)) = seen[Stock(p)]
      /\ Deducted \in RowIds /\ See(t, Deducted) = seen[Deducted]
  BY SoldIs, SeeIs, Ids
<1>7. /\ done \in SUBSET Products
      /\ \A p \in done : /\ seen[Stock(p)] >= Recorded(seen, p) /\ Recorded(seen, p) > 0
                         /\ seen[Deducted][p] = 0
      /\ \A p \in Products : Recorded(seen, p) > 0 => seen[Deducted][p] # 0 \/ p \in due
  <2>1. \A p \in due : p \in Products /\ Recorded(seen, p) > 0 /\ seen[Deducted][p] = 0
    BY <1>6 DEF Applied
  <2>2. \A p \in done : p \in due /\ seen[Stock(p)] >= Recorded(seen, p)
    BY <1>2, <1>6, <2>1
  <2>3. \A p \in Products : Recorded(seen, p) > 0 => seen[Deducted][p] # 0 \/ p \in due
    BY <1>6 DEF Applied
  <2> HIDE DEF due, enough, seen
  <2>4. QED
    BY <2>1, <2>2, <2>3
<1>8. own' = [own EXCEPT ![t] = mine] /\ failed' = [failed EXCEPT ![t] = due \ done]
  BY <1>2 DEF Write
<1>9. /\ DOMAIN values = {Deducted} \cup {Stock(p) : p \in done}
      /\ values[Deducted] = row
      /\ \A p \in done : values[Stock(p)] = seen[Stock(p)] - Recorded(seen, p)
  <2>1. DOMAIN Only(Deducted, row) = {Deducted} /\ Only(Deducted, row)[Deducted] = row
    BY OneRow
  <2>2. DOMAIN stock = {Stock(p) : p \in done}
        /\ \A p \in done : stock[Stock(p)] = seen[Stock(p)] - Recorded(seen, p)
    BY <1>6, <1>7, Tables
  <2>3. \A p : Stock(p) # Deducted
    BY Tables
  <2> HIDE DEF row, stock, seen
  <2>4. QED
    BY <2>1, <2>2, <2>3 DEF Over
<1>10. row = [p \in Products |-> IF p \in done THEN Recorded(seen, p) ELSE seen[Deducted][p]]
  BY <1>6
<1> HIDE DEF row, values, seen, was, due, enough
<1>11. DOMAIN mine = DOMAIN was \cup {Deducted} \cup {Stock(p) : p \in done}
  BY <1>9 DEF Over
<1>12. \A i \in RowIds : next[i] = IF i \in DOMAIN values THEN values[i] ELSE seen[i]
  BY OverLaid DEF seen
<1> HIDE DEF mine, next
<1>13. Deducts(was, mine, db, done)
  <2>1. \A i \in RowIds : i # Deducted /\ (\A p \in done : i # Stock(p)) => next[i] = seen[i]
    BY <1>9, <1>12
  <2>2. next[Deducted] = [p \in Products |-> IF p \in done THEN Recorded(seen, p) ELSE seen[Deducted][p]]
    BY <1>6, <1>9, <1>10, <1>12
  <2>3. \A p \in done : next[Stock(p)] = seen[Stock(p)] - Recorded(seen, p)
    BY <1>6, <1>7, <1>9, <1>12
  <2>4. QED
    BY <1>7, <1>11, <2>1, <2>2, <2>3 DEF Deducts, seen, next
<1>14. RecomputingRows(mine, c, due \ done, ToCost, db, ~doubled /\ Single(c, db), ledger, live)
  <2>1. \A p \in Products : Recorded(Laid(was, db), p) > 0 =>
           Laid(was, db)[Deducted][p] # 0 \/ p \in done \/ p \in due \ done
    BY <1>7 DEF seen
  <2>2. QED
    BY <1>5, <1>7, <1>13, <2>1, DeductRows
<1>15. \A u \in Txs \ {t} : DOMAIN mine \cap DOMAIN own[u] = {}
  <2>1. TAKE u \in Txs \ {t}
  <2>2. \A p \in done : Stock(p) \notin DOMAIN own[u]
    <3>1. \A p \in done : p \in due
      BY <1>2 DEF enough
    <3>2. QED
      BY <1>1, <3>1, FreeIs
  <2>3. Deducted \notin DOMAIN own[u]
    <3>1. Job \in DOMAIN own[t]
      BY <1>5 DEF RecomputingRows, was
    <3>2. DOMAIN own[u] \subseteq Stocks \cup OfCopy(copy[u])
      BY <3>1, OtherStages
    <3>3. Deducted \notin Stocks /\ Deducted \notin OfCopy(copy[u])
      BY CopyIs, Tables
    <3>4. QED
      BY <3>2, <3>3
  <2>4. QED
    BY <1>5, <1>11, <2>2, <2>3
<1>16. Sound(t, mine, ToCost, c, due \ done)
  BY <1>4, <1>14, <1>15, StageSets, RecomputeGoes
<1>17. Goes(t, mine, due \ done)
  <2>1. /\ DOMAIN own = Txs /\ DOMAIN failed = Txs /\ DOMAIN fresh = Txs
        /\ \A u \in Txs : fresh[u] \subseteq Created
    BY DEF ImportInv, Shape, Numbered
  <2>2. OnlyAt(own, own', t, mine)
    BY <1>8, <2>1, OnlyAtIs
  <2>3. OnlyAt(failed, failed', t, due \ done)
    BY <1>8, <2>1, OnlyAtIs
  <2>4. QED
    BY <1>1, <2>1, <2>2, <2>3 DEF Goes, history
<1>18. Comes(t, mine, ToCost, c, due \ done)
  BY <1>4, <1>17, GoesOn
<1>19. QED
  BY <1>16, <1>18, OwnStep

\* One sale takes its units from the batches held.
LEMMA CostSaleStep ==
    ASSUME ImportInv, NEW t \in Txs, CostSale(t)
    PROVE  ImportInv'
<1> DEFINE c == copy[t]
           was == own[t]
           seen == Laid(was, db)
<1>1. /\ At(t, "cogs") /\ UNCHANGED <<db, todo, copy, fresh, failed, shop, history>>
  BY DEF CostSale
<1>2. PICK k \in Uncosted(t) :
         LET p == ProductOf(k)
         IN  /\ Free(t, {Batch(p, d) : d \in Eligible(t, p)} \cup {k})
             /\ \E take \in Allocations(Held(t, p), Age, QuantityOf(k)) :
                  Write(t, Over(Only(k, [See(t, k) EXCEPT !.fifo = Over(take, NoUnits),
                                                          !.costed = TRUE]),
                                [b \in {Batch(p, d) : d \in DOMAIN take} |->
                                     See(t, b) - take[b[3]]]))
  BY DEF CostSale
<1> DEFINE p == ProductOf(k)
           eligible == Eligible(t, p)
<1>3. PICK take \in Allocations(Held(t, p), Age, QuantityOf(k)) :
         Write(t, Over(Only(k, [See(t, k) EXCEPT !.fifo = Over(take, NoUnits), !.costed = TRUE]),
                       [b \in {Batch(p, d) : d \in DOMAIN take} |-> See(t, b) - take[b[3]]]))
  BY <1>2
<1> DEFINE gone == Over(take, NoUnits)
           row == [See(t, k) EXCEPT !.fifo = gone, !.costed = TRUE]
           lots == [b \in {Batch(p, d) : d \in DOMAIN take} |-> See(t, b) - take[b[3]]]
           values == Over(Only(k, row), lots)
           mine == Over(values, was)
           next == Laid(mine, db)
<1>4. todo[t] = ToCost
  BY <1>1, Of, StageAt
<1>5. todo[t] \in Recomputing
  BY <1>4, StageSets
<1>6. /\ c \in {0} \cup Copies /\ UnitsNat(ledger)
      /\ RecomputingRows(was, c, failed[t], ToCost, db, ~doubled /\ Single(c, db), ledger, live)
      /\ \A u \in Txs \ {t} : DOMAIN was \cap DOMAIN own[u] = {}
  BY <1>4, <1>5, Of
<1>7. /\ k \in Sales /\ k \in RowIds /\ k[1] = "sale" /\ p \in Products /\ See(t, k) = seen[k]
      /\ \A d \in Sources : See(t, Batch(p, d)) = seen[Batch(p, d)] /\ Batch(p, d) \in RowIds
  <2>1. k \in Sales
    BY DEF Uncosted, Present
  <2>2. QED
    BY <2>1, Ids, SaleIs, SeeIs
<1>8. seen[k].state # "NONE" /\ ~seen[k].costed /\ p \notin failed[t]
  BY <1>7 DEF Uncosted, Present, Skipped
<1>9. /\ eligible \subseteq Sources /\ \A d \in eligible : seen[Batch(p, d)] > 0
      /\ DOMAIN take = eligible
      /\ \A d \in eligible : take[d] \in Nat /\ take[d] <= seen[Batch(p, d)]
  <2>1. eligible \subseteq Sources /\ \A d \in eligible : seen[Batch(p, d)] > 0
    BY <1>7 DEF Eligible
  <2>2. Held(t, p) = [d \in eligible |-> See(t, Batch(p, d))]
    BY DEF Held
  <2>3. \A d \in eligible : Held(t, p)[d] = seen[Batch(p, d)]
    BY <1>7, <2>1, <2>2
  <2>4. DOMAIN Held(t, p) = eligible
    BY <2>2
  <2>5. take \in [eligible -> 0..QuantityOf(k)] /\ \A d \in eligible : take[d] <= Held(t, p)[d]
    BY <1>3, <2>4 DEF Allocations
  <2>6. QuantityOf(k) \in Nat
    BY <1>7, SaleIs
  <2> HIDE DEF eligible
  <2>7. QED
    BY <2>1, <2>3, <2>5, <2>6
<1>10. own' = [own EXCEPT ![t] = mine]
  BY <1>3 DEF Write
<1> HIDE DEF eligible
<1>11. /\ gone \in [Sources -> Nat]
       /\ \A d \in Sources : gone[d] = IF d \in eligible THEN take[d] ELSE 0
  BY <1>9 DEF Over, NoUnits
<1>12. /\ DOMAIN values = {k} \cup {Batch(p, d) : d \in eligible}
       /\ values[k] = row
       /\ \A d \in eligible : values[Batch(p, d)] = seen[Batch(p, d)] - take[d]
  <2>1. DOMAIN Only(k, row) = {k} /\ Only(k, row)[k] = row
    BY OneRow
  <2>2. DOMAIN lots = {Batch(p, d) : d \in eligible}
        /\ \A d \in eligible : lots[Batch(p, d)] = seen[Batch(p, d)] - take[d]
    BY <1>7, <1>9, Tables
  <2>3. \A d : Batch(p, d) # k
    BY <1>7, Tables
  <2> HIDE DEF row, lots, seen, p
  <2>4. QED
    BY <2>1, <2>2, <2>3 DEF Over
<1>13. row = [seen[k] EXCEPT !.fifo = gone, !.costed = TRUE]
  BY <1>7
<1> HIDE DEF row, values, seen, was, gone
<1>14. DOMAIN mine = DOMAIN was \cup {k} \cup {Batch(p, d) : d \in eligible}
  BY <1>12 DEF Over
<1>15. \A i \in RowIds : next[i] = IF i \in DOMAIN values THEN values[i] ELSE seen[i]
  BY OverLaid DEF seen
<1>16. \A d \in Sources : seen[Batch(p, d)] \in Nat \cup {Missing}
  BY <1>6, <1>7 DEF RecomputingRows, Books, BatchBook, seen
<1> HIDE DEF mine, next
<1>17. \A d \in Sources : /\ gone[d] > 0 => seen[Batch(p, d)] >= gone[d]
                          /\ next[Batch(p, d)] = seen[Batch(p, d)] - gone[d]
  <2>1. TAKE d \in Sources
  <2>2. CASE d \in eligible
    <3>1. Batch(p, d) \in DOMAIN values /\ Batch(p, d) \in RowIds
      BY <1>7, <1>12, <2>2
    <3>2. next[Batch(p, d)] = seen[Batch(p, d)] - take[d] /\ gone[d] = take[d]
      BY <1>11, <1>12, <1>15, <2>2, <3>1
    <3>3. QED
      BY <1>9, <1>16, <2>2, <3>2 DEF Missing
  <2>3. CASE d \notin eligible
    <3>1. Batch(p, d) \notin DOMAIN values /\ Batch(p, d) \in RowIds
      BY <1>7, <1>12, <2>3, Tables
    <3>2. next[Batch(p, d)] = seen[Batch(p, d)] /\ gone[d] = 0
      BY <1>11, <1>15, <2>3, <3>1
    <3>3. QED
      BY <1>16, <3>2 DEF Missing
  <2>4. QED
    BY <2>2, <2>3
<1>18. Costs(was, mine, db, k, gone)
  <2>1. next[k] = [seen[k] EXCEPT !.fifo = gone, !.costed = TRUE]
    BY <1>7, <1>12, <1>13, <1>15
  <2>2. \A i \in RowIds : i # k /\ (\A d \in Sources : i # Batch(p, d)) => next[i] = seen[i]
    BY <1>9, <1>12, <1>15
  <2>3. \A i \in DOMAIN mine : \/ i \in DOMAIN was \/ i = k
                               \/ \E d \in Sources : i = Batch(p, d) /\ seen[i] > 0
    BY <1>9, <1>14
  <2>4. DOMAIN was \subseteq DOMAIN mine
    BY <1>14
  <2>5. QED
    BY <1>17, <2>1, <2>2, <2>3, <2>4 DEF Costs, seen, next, p
<1>19. RecomputingRows(mine, c, failed[t], ToCost, db, ~doubled /\ Single(c, db), ledger, live)
  <2>1. Laid(was, db)[k].state # "NONE" /\ ~Laid(was, db)[k].costed /\ ProductOf(k) \notin failed[t]
    BY <1>8 DEF seen, p
  <2>2. k \in Sales
    BY <1>7
  <2>3. QED
    BY <1>6, <1>11, <1>18, <2>1, <2>2, CostRows
<1>20. \A u \in Txs \ {t} : DOMAIN mine \cap DOMAIN own[u] = {}
  <2>1. TAKE u \in Txs \ {t}
  <2>2. \A i \in {Batch(p, d) : d \in eligible} \cup {k} : i \notin DOMAIN own[u]
    BY <1>2, FreeIs DEF eligible, p
  <2>3. QED
    BY <1>6, <1>14, <2>2
<1>21. Sound(t, mine, ToCost, c, failed[t])
  BY <1>5, <1>19, <1>20, StageSets, RecomputeGoes
<1>22. Comes(t, mine, ToCost, c, failed[t])
  <2>1. /\ DOMAIN own = Txs /\ DOMAIN todo = Txs /\ DOMAIN copy = Txs /\ DOMAIN failed = Txs /\ DOMAIN fresh = Txs
        /\ started \in Nat /\ \A u \in Txs : fresh[u] \subseteq Created
    BY DEF ImportInv, Shape, Numbered
  <2>2. /\ db' = db /\ todo' = todo /\ copy' = copy /\ failed' = failed /\ fresh' = fresh /\ started' = started
        /\ UNCHANGED <<ledger, live, touched, doubled>>
    BY <1>1 DEF shop, history
  <2>3. JobOnly(db, db') /\ started <= started' /\ started' \in Nat
    BY <2>1, <2>2, Of
  <2>4. OnlyAt(own, own', t, mine)
    BY <1>10, <2>1, OnlyAtIs
  <2>5. OnlyAt(todo, todo', t, ToCost) /\ OnlyAt(copy, copy', t, c) /\ OnlyAt(failed, failed', t, failed[t])
    BY <1>4, <2>1, <2>2, OnlyAtIs
  <2>6. QED
    BY <2>1, <2>2, <2>3, <2>4, <2>5 DEF Comes
<1>23. QED
  BY <1>21, <1>22, OwnStep

LEMMA CostingEndsStep ==
    ASSUME ImportInv, NEW t \in Txs, CostingEnds(t)
    PROVE  ImportInv'
<1>1. todo[t] = ToCost
  BY Of, StageAt DEF CostingEnds
<1>2. Tail(todo[t]) = ToDone /\ todo[t] \in Recomputing
  BY <1>1, StepsAre, StageSets
<1>3. RecomputingRows(own[t], copy[t], failed[t], ToCost, db, ~doubled /\ Single(copy[t], db), ledger, live)
  BY <1>1, <1>2, Of
<1>4. RecomputingRows(own[t], copy[t], failed[t], ToDone, db, ~doubled /\ Single(copy[t], db), ledger, live)
  BY <1>3, StagesApart DEF RecomputingRows
<1>5. \A u \in Txs \ {t} : DOMAIN own[t] \cap DOMAIN own[u] = {}
  BY Of
<1>6. Sound(t, own[t], ToDone, copy[t], failed[t])
  BY <1>2, <1>4, <1>5, StageSets, RecomputeGoes
<1>7. Goes(t, own[t], failed[t])
  <2>1. /\ DOMAIN own = Txs /\ DOMAIN failed = Txs /\ DOMAIN fresh = Txs
        /\ \A u \in Txs : fresh[u] \subseteq Created
    BY DEF ImportInv, Shape, Numbered
  <2>2. own' = own /\ failed' = failed /\ fresh' = fresh
    BY DEF CostingEnds
  <2>3. OnlyAt(own, own', t, own[t]) /\ OnlyAt(failed, failed', t, failed[t])
    BY <2>1, <2>2, OnlyAtIs
  <2>4. QED
    BY <2>1, <2>2, <2>3 DEF CostingEnds, Goes, shop, history
<1>8. Comes(t, own[t], ToDone, copy[t], failed[t])
  BY <1>2, <1>7, GoesOn
<1>9. QED
  BY <1>6, <1>8, OwnStep

------------------------------------------------------------------------------
(* The rollback.                                                           *)

LEMMA RollbackGoes ==
    ASSUME ImportInv, NEW t \in Txs, NEW mine, NEW stage \in RollingBack,
           RollingBackRows(mine, stage, db, touched),
           \A u \in Txs \ {t} : DOMAIN mine \cap DOMAIN own[u] = {},
           stage = ToReverse /\ Created # {} => \A u \in Txs \ {t} : todo[u] \notin Loaded,
           Advance(t), Tail(todo[t]) = stage, own' = [own EXCEPT ![t] = mine],
           UNCHANGED <<db, copy, fresh, failed, shop, history>>
    PROVE  ImportInv'
<1>1. copy[t] \in {0} \cup Copies
  BY Of
<1>2. stage \notin Starting \cup Loaded /\ stage \notin Waiting
  BY StageSets, StagesApart
<1>3. SessionRows(mine, copy[t], failed[t], stage, db, ~doubled /\ Single(copy[t], db), ledger, live, touched)
  BY RowsAtStage
<1>4. Sound(t, mine, stage, copy[t], failed[t])
  BY <1>1, <1>2, <1>3 DEF Sound
<1>5. Goes(t, mine, failed[t])
  <2>1. /\ DOMAIN own = Txs /\ DOMAIN failed = Txs /\ DOMAIN fresh = Txs
        /\ \A u \in Txs : fresh[u] \subseteq Created
    BY DEF ImportInv, Shape, Numbered
  <2>2. OnlyAt(own, own', t, mine)
    BY <2>1, OnlyAtIs
  <2>3. OnlyAt(failed, failed', t, failed[t])
    BY <2>1, OnlyAtIs
  <2>4. QED
    BY <2>1, <2>2, <2>3 DEF Goes, history
<1>6. Comes(t, mine, stage, copy[t], failed[t])
  BY <1>5, GoesOn
<1>7. QED
  BY <1>4, <1>6, OwnStep

LEMMA UnfifoStep ==
    ASSUME ImportInv, NEW t \in Txs, Unfifo(t)
    PROVE  ImportInv'
<1> DEFINE ids == {b \in Batches : Credited(b) > 0}
           values == [b \in ids |-> See(t, b) + Credited(b)]
           mine == Over(values, own[t])
<1>1. /\ At(t, "unfifo") /\ Advance(t) /\ UNCHANGED <<db, copy, fresh, failed, shop, history>>
      /\ Free(t, ids) /\ own' = [own EXCEPT ![t] = mine]
  BY DEF Unfifo, Step, Write
<1>2. todo[t] = ToUnfifo
  BY <1>1, Of, StageAt
<1>3. Tail(todo[t]) = ToDelete /\ todo[t] \in RollingBack /\ ToDelete # ToReverse
  BY <1>2, StepsAre, StageSets, StagesApart
<1>4. /\ DOMAIN own[t] = {Job} /\ Books(db, ~doubled, ledger, live)
      /\ \A u \in Txs \ {t} : DOMAIN own[t] \cap DOMAIN own[u] = {}
  BY <1>2, <1>3, Of DEF RollingBackRows
<1>5. \A b \in ids : See(t, b) = db[b] /\ b \in Batches
  <2>1. \A b \in Batches : b # Job
    BY BatchIs
  <2>2. QED
    BY <1>4, <2>1 DEF See
<1>6. Unfifoed(mine, db)
  <2>1. \A b \in Batches : Credited(b) = Consumed(db, b[2], b[3])
    BY DEF Credited
  <2>2. DOMAIN mine = {Job} \cup {b \in Batches : Consumed(db, b[2], b[3]) > 0}
    <3>1. DOMAIN mine = ids \cup {Job}
      BY <1>4 DEF Over
    <3>2. ids = {b \in Batches : Consumed(db, b[2], b[3]) > 0}
      BY <2>1
    <3> HIDE DEF ids, mine
    <3>3. QED
      BY <3>1, <3>2
  <2>3. ASSUME NEW b \in Batches, Consumed(db, b[2], b[3]) > 0
        PROVE  mine[b] = db[b] + Consumed(db, b[2], b[3])
    <3>1. b \in ids
      BY <2>1, <2>3
    <3>2. mine[b] = values[b] /\ values[b] = See(t, b) + Credited(b)
      BY <3>1 DEF Over
    <3>3. QED
      BY <1>5, <2>1, <3>1, <3>2
  <2>4. QED
    BY <2>2, <2>3 DEF Unfifoed
<1>7. DOMAIN mine = {Job} \cup ids
  BY <1>4 DEF Over
<1> HIDE DEF mine, values, ids
<1>8. RollingBackRows(mine, ToDelete, db, touched)
  BY <1>4, <1>6, UnfifoRows DEF Books
<1>9. \A u \in Txs \ {t} : DOMAIN mine \cap DOMAIN own[u] = {}
  BY <1>1, <1>4, <1>7, FreeIs
<1>10. QED
  BY <1>1, <1>3, <1>8, <1>9, StageSets, RollbackGoes

LEMMA DeleteTaggedStep ==
    ASSUME ImportInv, NEW t \in Txs, DeleteTagged(t)
    PROVE  ImportInv'
<1>1. CASE Raise(t, "FAILED")
  BY <1>1, RaiseStep
<1> DEFINE there == {c \in Copies : There(c)}
           deleted == {Sale(c, s) : c \in there, s \in SaleIds}
                        \cup {Batch(p, c) : p \in Products, c \in there}
                        \cup {Order(c) : c \in there}
                        \cup {Received(c) : c \in there}
                        \cup {Stock(p) : p \in Created} \cup {Deducted}
           referring == IF Created = {} THEN {} ELSE {Order(c) : c \in Copies}
           values == [i \in deleted |->
                        CASE i[1] = "sale"  -> NoSale
                          [] i[1] = "order" -> NoOrder
                          [] i = Deducted \/ i[1] = "received" -> NoMoves
                          [] OTHER          -> Missing]
           was == own[t]
           mine == Over(values, was)
<1>2. CASE At(t, "delete") /\ ~Blocked /\ ~ReferredTo /\ Step(t, "delete", deleted \cup referring, values)
  <2>1. /\ At(t, "delete") /\ Advance(t) /\ UNCHANGED <<db, copy, fresh, failed, shop, history>>
        /\ Free(t, deleted \cup referring) /\ own' = [own EXCEPT ![t] = mine] /\ ~ReferredTo
    BY <1>2 DEF Step, Write
  <2>2. todo[t] = ToDelete
    BY <2>1, Of, StageAt
  <2>3. Tail(todo[t]) = ToReverse /\ todo[t] \in RollingBack
    BY <2>2, StepsAre, StageSets
  <2>4. /\ RollingBackRows(was, ToDelete, db, touched) /\ Books(db, ~doubled, ledger, live)
        /\ \A u \in Txs \ {t} : DOMAIN was \cap DOMAIN own[u] = {}
    BY <2>2, <2>3, Of
  <2>5. /\ DOMAIN mine = deleted \cup DOMAIN was
        /\ \A i \in deleted : mine[i] = values[i]
        /\ \A i \in DOMAIN was : i \notin deleted => mine[i] = was[i]
    <3>1. DOMAIN values = deleted
      OBVIOUS
    <3> HIDE DEF values, deleted
    <3>2. QED
      BY <3>1 DEF Over
  <2>6. \A c \in Copies : There(c) <=> db[Order(c)].there
    BY DEF There
  <2>7. deleted = {Deducted} \cup {Stock(p) : p \in Created}
                     \cup UNION {OfCopy(c) : c \in {d \in Copies : db[Order(d)].there}}
    <3>1. there = {d \in Copies : db[Order(d)].there}
      BY <2>6
    <3> HIDE DEF there
    <3>2. ASSUME NEW i \in deleted
          PROVE  i = Deducted \/ (\E p \in Created : i = Stock(p)) \/ \E c \in there : i \in OfCopy(c)
      BY CopyIs
    <3>3. ASSUME NEW c \in there, NEW i \in OfCopy(c) PROVE i \in deleted
      BY DEF OfCopy
    <3>4. Deducted \in deleted /\ \A p \in Created : Stock(p) \in deleted
      OBVIOUS
    <3> HIDE DEF deleted
    <3>5. QED
      BY <3>1, <3>2, <3>3, <3>4
  <2>8. ASSUME NEW c \in Copies, There(c)
        PROVE  /\ mine[Order(c)] = NoOrder /\ mine[Received(c)] = NoMoves
               /\ \A s \in SaleIds : mine[Sale(c, s)] = NoSale
               /\ \A p \in Products : mine[Batch(p, c)] = Missing
    <3>1. /\ Order(c) \in deleted /\ Received(c) \in deleted
          /\ \A s \in SaleIds : Sale(c, s) \in deleted
          /\ \A p \in Products : Batch(p, c) \in deleted
      BY <2>8
    <3>2. /\ Order(c)[1] = "order" /\ Received(c)[1] = "received"
          /\ \A s \in SaleIds : Sale(c, s)[1] = "sale"
          /\ \A p \in Products : Batch(p, c)[1] = "batch"
          /\ Deducted[1] = "deducted"
      BY Tables
    <3>3. /\ values[Order(c)] = NoOrder /\ values[Received(c)] = NoMoves
          /\ \A s \in SaleIds : values[Sale(c, s)] = NoSale
          /\ \A p \in Products : values[Batch(p, c)] = Missing
      <4> HIDE DEF deleted
      <4>1. values[Order(c)] = NoOrder
        BY <3>1, <3>2
      <4>2. values[Received(c)] = NoMoves
        BY <3>1, <3>2
      <4>3. \A s \in SaleIds : values[Sale(c, s)] = NoSale
        BY <3>1, <3>2
      <4>4. \A p \in Products : values[Batch(p, c)] = Missing
        BY <3>1, <3>2
      <4>5. QED
        BY <4>1, <4>2, <4>3, <4>4
    <3> HIDE DEF values, deleted
    <3>4. QED
      BY <2>5, <3>1, <3>3
  <2>9. mine[Deducted] = NoMoves /\ \A p \in Created : mine[Stock(p)] = Missing
    <3>1. Deducted \in deleted /\ \A p \in Created : Stock(p) \in deleted
      OBVIOUS
    <3>2. Deducted[1] = "deducted" /\ \A p \in Created : Stock(p)[1] = "stock" /\ Stock(p) # Deducted
      BY Tables
    <3>3. values[Deducted] = NoMoves
      <4> HIDE DEF deleted
      <4>1. QED
        BY <3>1, <3>2
    <3>4. \A p \in Created : values[Stock(p)] = Missing
      <4> HIDE DEF deleted
      <4>1. QED
        BY <3>1, <3>2
    <3> HIDE DEF values, deleted
    <3>5. QED
      BY <2>5, <3>1, <3>3, <3>4
  <2>10. \A p \in Products : Batch(p, 0) \in DOMAIN was => mine[Batch(p, 0)] = was[Batch(p, 0)]
    <3>1. 0 \notin Copies
      BY ImportAssumption DEF Copies
    <3>2. \A p, c : c \in Copies => Batch(p, 0) \notin OfCopy(c)
      BY <3>1, CopyIs, Tables
    <3>3. \A p : Batch(p, 0) # Deducted /\ \A q : Batch(p, 0) # Stock(q)
      BY Tables
    <3> HIDE DEF deleted, values, mine
    <3>4. \A p : Batch(p, 0) \notin deleted
      BY <2>7, <3>2, <3>3
    <3>5. QED
      BY <2>5, <3>4
  <2> HIDE DEF mine, values, deleted, was
  <2>11. Deletes(was, mine, db)
    <3>1. DOMAIN mine = DOMAIN was \cup {Deducted} \cup {Stock(p) : p \in Created}
                          \cup UNION {OfCopy(c) : c \in {d \in Copies : db[Order(d)].there}}
      BY <2>5, <2>7
    <3>2. QED
      BY <2>6, <2>8, <2>9, <2>10, <3>1 DEF Deletes
  <2>12. RollingBackRows(mine, ToReverse, db, touched)
    <3>1. Created \cap touched = {}
      BY <2>1 DEF ReferredTo
    <3>2. BatchBook(db, ledger) /\ CopyBook(db)
      BY <2>4 DEF Books
    <3>3. QED
      BY <2>4, <2>11, <3>1, <3>2, DeleteRows
  <2>13. \A u \in Txs \ {t} : DOMAIN mine \cap DOMAIN own[u] = {}
    <3>1. TAKE u \in Txs \ {t}
    <3>2. \A i \in deleted \cup referring : i \notin DOMAIN own[u]
      BY <2>1, FreeIs
    <3>3. QED
      BY <2>4, <2>5, <3>2
  <2>14. ASSUME Created # {}, NEW u \in Txs \ {t} PROVE todo[u] \notin Loaded
    <3>1. SUFFICES ASSUME todo[u] \in Loaded PROVE FALSE
      OBVIOUS
    <3>2. copy[u] \in Copies /\ Order(copy[u]) \in DOMAIN own[u]
      BY <3>1, Of DEF LoadedRows
    <3>3. Order(copy[u]) \in deleted \cup referring
      BY <2>14, <3>2
    <3>4. QED
      BY <2>1, <3>2, <3>3, FreeIs
  <2>15. QED
    BY <2>1, <2>3, <2>12, <2>13, <2>14, StageSets, RollbackGoes
<1>3. QED
  BY <1>1, <1>2 DEF DeleteTagged

------------------------------------------------------------------------------
(* Commits, and the end of a session.                                      *)

LEMMA CommitStep ==
    ASSUME ImportInv, NEW t \in Txs, Stop(t), started' = started,
           Books(db', ~doubled', ledger', live'), MovesInt(live'), UnitsNat(ledger'),
           \A p \in Created : p \notin touched' => live'[p] = 0,
           \A c \in Copies : db'[Order(c)].there => There(c) \/ c = copy[t],
           \A u \in Txs \ {t} : \/ todo[u] \in Waiting \cup Starting
                                \/ todo[u] \in Loaded /\ LoadedRows(own[u], copy[u], db')
    PROVE  ImportInv'
<1>1. /\ DOMAIN own = Txs /\ DOMAIN todo = Txs /\ DOMAIN copy = Txs /\ DOMAIN failed = Txs /\ DOMAIN fresh = Txs
      /\ started \in Nat /\ \A c \in Copies : There(c) => c <= started
  BY DEF ImportInv, Shape
<1>2. /\ own' = [own EXCEPT ![t] = <<>>] /\ todo' = [todo EXCEPT ![t] = <<>>] /\ copy' = [copy EXCEPT ![t] = 0]
      /\ fresh' = [fresh EXCEPT ![t] = {}] /\ failed' = [failed EXCEPT ![t] = {}]
  BY DEF Stop, Release
<1>3. /\ DOMAIN own' = Txs /\ DOMAIN todo' = Txs /\ DOMAIN copy' = Txs /\ DOMAIN failed' = Txs /\ DOMAIN fresh' = Txs
      /\ own'[t] = <<>> /\ todo'[t] = <<>> /\ copy'[t] = 0 /\ fresh'[t] = {} /\ failed'[t] = {}
      /\ \A u \in Txs \ {t} : /\ own'[u] = own[u] /\ todo'[u] = todo[u] /\ copy'[u] = copy[u]
                              /\ fresh'[u] = fresh[u] /\ failed'[u] = failed[u]
  BY <1>1, <1>2
<1>4. \A c \in Copies : There(c)' => There(c) \/ c = copy[t]
  BY DEF There
<1>5. Shape'
  <2>1. \A c \in Copies : There(c)' => c <= started'
    <3>1. TAKE c \in Copies
    <3>2. c = copy[t] => c <= started
      <4>1. c # 0
        BY ImportAssumption DEF Copies
      <4>2. QED
        BY <4>1, Of
    <3>3. QED
      BY <1>1, <1>4, <3>2
  <2>2. QED
    BY <1>1, <1>3, <2>1 DEF Shape
<1>6. RowsApart'
  BY <1>3 DEF ImportInv, RowsApart
<1>7. <<>> # ToReverse /\ <<>> \notin Loaded /\ <<>> \notin Starting /\ <<>> \in Waiting
  BY StageSets, StagesApart
<1>8. NoneReferring'
  BY <1>3, <1>7 DEF ImportInv, NoneReferring
<1>9. ASSUME NEW u \in Txs PROVE Numbered(u)' /\ Session(u)'
  <2>1. CASE u = t
    <3>1. Numbered(u)'
      BY <1>3, <1>7, <2>1 DEF Numbered
    <3>2. \A c, skips, rows, once, led, liv, moved : SessionRows(<<>>, c, skips, <<>>, rows, once, led, liv, moved)
      BY <1>7, RowsAtStage
    <3>3. Session(u)'
      BY <1>3, <2>1, <3>2 DEF Session
    <3>4. QED
      BY <3>1, <3>3
  <2>2. CASE u # t
    <3>1. /\ own'[u] = own[u] /\ todo'[u] = todo[u] /\ copy'[u] = copy[u]
          /\ fresh'[u] = fresh[u] /\ failed'[u] = failed[u]
      BY <1>3, <2>2
    <3>2. Numbered(u)
      BY DEF ImportInv
    <3>3. Numbered(u)'
      <4>1. copy[u] # 0 => copy[u] # copy[t] /\ copy[u] \in Copies /\ ~There(copy[u])
        BY <2>2, <3>2 DEF Numbered
      <4>2. copy[u] # 0 => ~There(copy[u])'
        <5> DEFINE d == copy[u]
        <5>1. d # 0 => d # copy[t] /\ d \in Copies /\ ~db[Order(d)].there
          BY <4>1 DEF There
        <5>2. \A e \in Copies : db'[Order(e)].there => db[Order(e)].there \/ e = copy[t]
          BY DEF There
        <5> HIDE DEF d
        <5>3. d # 0 => ~db'[Order(d)].there
          BY <5>1, <5>2
        <5>4. QED
          BY <3>1, <5>3 DEF d, There
      <4>3. copy[u] # 0 => \A v \in Txs \ {u} : copy'[v] # copy[u]
        BY <1>3, <3>2 DEF Numbered
      <4>4. QED
        BY <3>1, <3>2, <4>2, <4>3 DEF Numbered
    <3>4. \/ todo[u] \in Waiting \cup Starting /\ DOMAIN own[u] = {}
          \/ todo[u] \in Loaded /\ LoadedRows(own[u], copy[u], db')
      BY <2>2, Of
    <3>5. SessionRows(own[u], copy[u], failed[u], todo[u], db', ~doubled' /\ Single(copy[u], db'), ledger', live', touched')
      BY <3>4, RowsAtStage
    <3>6. Session(u)'
      BY <3>1, <3>5 DEF Session
    <3>7. QED
      BY <3>3, <3>6
  <2>3. QED
    BY <2>1, <2>2
<1>10. QED
  BY <1>5, <1>6, <1>8, <1>9 DEF ImportInv

LEMMA DoneStep ==
    ASSUME ImportInv, NEW t \in Txs, Done(t)
    PROVE  ImportInv'
<1> DEFINE was == own[t]
           c == copy[t]
           seen == Laid(was, db)
<1>1. /\ At(t, "done") /\ Stop(t) /\ UNCHANGED <<shop, liveOps, started, crashed>>
      /\ doubled' = (doubled \/ \E d \in Copies \ {c} : c # 0 /\ There(d))
  BY DEF Done
<1>2. PICK row : db' = [Over(was, db) EXCEPT ![Job] = row]
  BY DEF Done
<1>3. todo[t] = ToDone
  BY <1>1, Of, StageAt
<1>4. todo[t] \in Recomputing
  BY <1>3, StageSets
<1>5. /\ RecomputingRows(was, c, failed[t], ToDone, db, ~doubled /\ Single(c, db), ledger, live)
      /\ c \in {0} \cup Copies /\ DOMAIN db = RowIds /\ MovesInt(live) /\ UnitsNat(ledger)
      /\ \A u \in Txs \ {t} : DOMAIN was \cap DOMAIN own[u] = {}
  BY <1>3, <1>4, Of
<1>6. /\ Job \in DOMAIN was /\ DOMAIN was \subseteq RowIds
      /\ \A d \in Copies : Order(d) \in DOMAIN was => d = c
      /\ \A p \in Products : Stock(p) \in DOMAIN was => was[Stock(p)] \in Nat
      /\ Books(seen, ~doubled /\ Single(c, db), ledger, live)
  BY <1>5 DEF RecomputingRows
<1>7. /\ DOMAIN db' = RowIds
      /\ \A i \in RowIds : i # Job => db'[i] = IF i \in DOMAIN was THEN was[i] ELSE db[i]
  <2>1. DOMAIN Over(was, db) = RowIds
        /\ \A i \in RowIds : Over(was, db)[i] = IF i \in DOMAIN was THEN was[i] ELSE db[i]
    BY <1>5, <1>6 DEF Over
  <2> DEFINE f == Over(was, db)
  <2> HIDE DEF f
  <2>2. db' = [f EXCEPT ![Job] = row] /\ DOMAIN f = RowIds
        /\ \A i \in RowIds : f[i] = IF i \in DOMAIN was THEN was[i] ELSE db[i]
    BY <1>2, <2>1 DEF f
  <2> HIDE DEF was
  <2>3. QED
    BY <2>2
<1> HIDE DEF was
<1>8. Books(db', ~doubled', ledger', live')
  <2>1. Published(was, db, db')
    BY <1>7, LaidIs DEF Published
  <2>2. Books(db', ~doubled /\ Single(c, db), ledger, live)
    BY <1>6, <2>1, PublishBooks
  <2>3. (~doubled /\ Single(c, db)) = ~doubled'
    BY <1>1 DEF Single, There
  <2>4. ledger' = ledger /\ live' = live
    BY <1>1 DEF shop
  <2>5. QED
    BY <2>2, <2>3, <2>4
<1>9. /\ MovesInt(live') /\ UnitsNat(ledger') /\ \A p \in Created : p \notin touched' => live'[p] = 0
  <2>1. ledger' = ledger /\ live' = live /\ touched' = touched
    BY <1>1 DEF shop
  <2>2. QED
    BY <1>5, <2>1 DEF ImportInv, Shape
<1>10. \A d \in Copies : db'[Order(d)].there => There(d) \/ d = c
  BY <1>6, <1>7, Ids, Tables DEF There
<1>11. ASSUME NEW u \in Txs \ {t}
       PROVE  \/ todo[u] \in Waiting \cup Starting
              \/ todo[u] \in Loaded /\ LoadedRows(own[u], copy[u], db')
  <2>1. todo[u] \in Waiting \cup Starting \cup Loaded
    BY <1>6, OtherStages DEF was
  <2>2. SUFFICES ASSUME todo[u] \in Loaded PROVE LoadedRows(own[u], copy[u], db')
    BY <2>1
  <2>3. LoadedRows(own[u], copy[u], db) /\ copy[u] \in Copies /\ copy[u] # 0
    BY <2>2, Of
  <2>4. \A p \in Products : IF Stock(p) \in DOMAIN own[u] THEN db'[Stock(p)] = db[Stock(p)]
                            ELSE db[Stock(p)] \in Nat => db'[Stock(p)] \in Nat
    BY <1>5, <1>6, <1>7, Ids, Tables
  <2>5. db'[Received(copy[u])] = db[Received(copy[u])]
    <3>1. DOMAIN was \cap OfCopy(copy[u]) = {}
      BY <2>3, CopyIsOwn DEF was
    <3>2. Received(copy[u]) \notin DOMAIN was
      BY <3>1, CopyIs
    <3>3. QED
      BY <1>7, <2>3, <3>2, Ids, Tables
  <2>6. QED
    BY <2>3, <2>4, <2>5, LoadedKept
<1>12. started' = started
  BY <1>1
<1>13. QED
  BY <1>1, <1>8, <1>9, <1>10, <1>11, <1>12, CommitStep

LEMMA ReverseStep ==
    ASSUME ImportInv, NEW t \in Txs, Reverse(t)
    PROVE  ImportInv'
<1> DEFINE moving == {p \in Deduped : Net(p) # 0}
           skipped == {p \in moving : See(t, Stock(p)) - Net(p) < 0}
           was == own[t]
           seen == Laid(was, db)
           back == [i \in {Stock(p) : p \in moving \ skipped} |-> See(t, i) - Net(i[2])]
           rest == [was EXCEPT ![Job].skipped = @ \/ skipped # {}]
<1>1. /\ At(t, "reverse") /\ Stop(t) /\ UNCHANGED <<touched, history>>
      /\ Free(t, {Stock(p) : p \in moving})
      /\ db' = Over(back, Over(rest, db))
      /\ ledger' = [p \in Products |-> [NoUnits EXCEPT ![0] = ledger[p][0]]]
      /\ live' = [p \in Products |-> IF p \in skipped THEN live[p] + Net(p) ELSE live[p]]
  BY DEF Reverse
<1>2. todo[t] = ToReverse
  BY <1>1, Of, StageAt
<1>3. todo[t] \in RollingBack
  BY <1>2, StageSets
<1>4. /\ Cleared(was, db, touched) /\ Job \in DOMAIN was /\ DOMAIN db = RowIds
      /\ Books(db, ~doubled, ledger, live) /\ MovesInt(live) /\ UnitsNat(ledger)
  BY <1>2, <1>3, Of DEF RollingBackRows
<1>5. DOMAIN was \subseteq RowIds
  <2>1. \A p \in Created : Stock(p) \in RowIds
    BY Ids DEF Products
  <2>2. \A p \in Deduped : Batch(p, 0) \in RowIds
    BY Ids DEF Products, Sources
  <2>3. \A c \in {d \in Copies : db[Order(d)].there} : OfCopy(c) \subseteq RowIds
    BY CopyIs
  <2>4. QED
    BY <1>4, <2>1, <2>2, <2>3, Ids DEF Cleared
<1>6. \A p \in Deduped : /\ p \in Products /\ p \notin Created /\ Stock(p) \in RowIds
                         /\ Stock(p) \notin DOMAIN was
  <2>1. TAKE p \in Deduped
  <2>2. p \in Products /\ p \notin Created
    BY ImportAssumption DEF Products
  <2>3. /\ Stock(p) # Job /\ Stock(p) # Deducted /\ (\A q \in Created : Stock(p) # Stock(q))
        /\ (\A q : Stock(p) # Batch(q, 0)) /\ \A c : Stock(p) \notin OfCopy(c)
    BY <2>2, CopyIs, Tables
  <2>4. Stock(p) \notin DOMAIN was
    BY <1>4, <2>3 DEF Cleared
  <2>5. QED
    BY <2>2, <2>4, Ids
<1>7. \A p \in Deduped : /\ See(t, Stock(p)) = db[Stock(p)] /\ db[Stock(p)] \in Nat
                         /\ Net(p) \in Int /\ Net(p) = Moved(db, p)
  <2>1. TAKE p \in Deduped
  <2>2. db[Stock(p)] \in Nat
    BY <1>4, <1>6 DEF Books, StockBook
  <2>3. Moved(db, p) \in Int
    BY <1>4, <1>6, MovedIs DEF Books, StockBook
  <2>4. See(t, Stock(p)) = db[Stock(p)]
    BY <1>6 DEF See
  <2>5. QED
    BY <2>2, <2>3, <2>4 DEF Net
<1>8. /\ DOMAIN back = {Stock(p) : p \in moving \ skipped}
      /\ \A p \in moving \ skipped : back[Stock(p)] = db[Stock(p)] - Moved(db, p)
  <2>1. \A p \in moving \ skipped : back[Stock(p)] = See(t, Stock(p)) - Net(p)
    BY Tables
  <2>2. QED
    BY <1>7, <2>1
<1>9. DOMAIN rest = DOMAIN was /\ \A i \in DOMAIN was : i # Job => rest[i] = was[i]
  <2> HIDE DEF was
  <2>1. QED
    OBVIOUS
<1>10. skipped \subseteq moving /\ moving \subseteq Deduped
  OBVIOUS
<1>a. /\ \A p \in skipped : db[Stock(p)] - Moved(db, p) < 0
      /\ \A p \in moving \ skipped : ~(db[Stock(p)] - Moved(db, p) < 0)
      /\ \A p \in Deduped \ moving : Moved(db, p) = 0
  BY <1>7
<1> HIDE DEF back, rest, moving, skipped
<1>11. /\ DOMAIN db' = RowIds
       /\ \A i \in RowIds : db'[i] = IF i \in DOMAIN back THEN back[i]
                                     ELSE IF i \in DOMAIN was THEN rest[i] ELSE db[i]
  <2>1. /\ DOMAIN Over(rest, db) = RowIds
        /\ \A i \in RowIds : Over(rest, db)[i] = IF i \in DOMAIN was THEN rest[i] ELSE db[i]
    BY <1>4, <1>5, <1>9 DEF Over
  <2> DEFINE f == Over(rest, db)
  <2>2. db' = Over(back, f) /\ DOMAIN f = RowIds
        /\ \A i \in RowIds : f[i] = IF i \in DOMAIN was THEN rest[i] ELSE db[i]
    BY <1>1, <2>1
  <2> HIDE DEF f
  <2>3. DOMAIN back \subseteq RowIds
    BY <1>6, <1>8, <1>10
  <2>4. DOMAIN db' = RowIds /\ \A i \in RowIds : db'[i] = IF i \in DOMAIN back THEN back[i] ELSE f[i]
    BY <2>2, <2>3 DEF Over
  <2>5. QED
    BY <2>2, <2>4
<1> HIDE DEF was
<1>12. \A p \in Deduped : /\ db'[Stock(p)] \in Nat
                          /\ db'[Stock(p)] = IF p \in skipped THEN db[Stock(p)]
                                             ELSE db[Stock(p)] - Moved(db, p)
                          /\ p \notin moving => db'[Stock(p)] = db[Stock(p)]
  <2>1. TAKE p \in Deduped
  <2>2. /\ Stock(p) \in RowIds /\ Stock(p) \notin DOMAIN was /\ db[Stock(p)] \in Nat /\ Moved(db, p) \in Int
    BY <1>6, <1>7
  <2>3. CASE p \in moving \ skipped
    <3>1. Stock(p) \in DOMAIN back
      BY <1>8, <2>3
    <3>2. db'[Stock(p)] = db[Stock(p)] - Moved(db, p)
      BY <1>8, <1>11, <2>2, <2>3, <3>1
    <3>3. QED
      BY <1>a, <2>2, <2>3, <3>2
  <2>4. CASE p \notin moving \ skipped
    <3>1. Stock(p) \notin DOMAIN back
      BY <1>8, <2>4, Tables
    <3>2. db'[Stock(p)] = db[Stock(p)]
      BY <1>11, <2>2, <3>1
    <3>3. QED
      BY <1>a, <1>10, <2>2, <2>4, <3>2
  <2>5. QED
    BY <2>3, <2>4
<1>13. Reversed(was, db, db', ledger, live, ledger', live', skipped)
  <2>1. \A i \in RowIds : i # Job /\ i \notin Stocks => db'[i] = seen[i]
    <3>1. \A i \in DOMAIN back : i \in Stocks
      BY <1>6, <1>8, <1>10 DEF Stocks
    <3>2. QED
      BY <1>9, <1>11, <3>1, LaidIs
  <2>2. \A p \in Created : db'[Stock(p)] = seen[Stock(p)]
    <3>1. TAKE p \in Created
    <3>2. Stock(p) \in RowIds /\ Stock(p) # Job
      BY Ids, Tables DEF Products
    <3>3. Stock(p) \notin DOMAIN back
      BY <1>6, <1>8, <1>10, Tables
    <3>4. QED
      BY <1>9, <1>11, <3>2, <3>3, LaidIs
  <2>3. \A p \in Products : /\ ledger'[p] = [NoUnits EXCEPT ![0] = ledger[p][0]]
                            /\ live'[p] = IF p \in skipped THEN live[p] + Moved(db, p) ELSE live[p]
    BY <1>1 DEF Net
  <2>4. skipped \subseteq Deduped
    BY <1>10
  <2>5. QED
    BY <1>11, <1>12, <2>1, <2>2, <2>3, <2>4 DEF Reversed, seen
<1>14. \A p \in Created : p \notin touched => live[p] = 0
  BY DEF ImportInv, Shape
<1>15. /\ Books(db', ~doubled, ledger', live')
       /\ \A c \in Copies : ~db'[Order(c)].there
       /\ \A p \in Created : live'[p] = live[p]
  BY <1>4, <1>13, <1>14, ReverseBooks
<1>16. doubled' = doubled /\ started' = started /\ touched' = touched
  BY <1>1 DEF history
<1>17. Books(db', ~doubled', ledger', live')
  BY <1>15, <1>16
<1>18. MovesInt(live') /\ UnitsNat(ledger')
  <2>1. \A p \in Products : live'[p] \in Int
    <3>1. TAKE p \in Products
    <3>2. live[p] \in Int /\ Moved(db, p) \in Int
      BY <1>4, MovedIs DEF MovesInt, Books, StockBook
    <3>3. QED
      BY <1>1, <3>2 DEF Net
  <2>2. \A p \in Products, c \in Sources : ledger'[p][c] \in Nat
    <3>1. TAKE p \in Products, c \in Sources
    <3>2. ledger'[p] = [NoUnits EXCEPT ![0] = ledger[p][0]] /\ ledger[p][0] \in Nat
      BY <1>1, <1>4 DEF UnitsNat, Sources
    <3>3. QED
      BY <3>2 DEF NoUnits
  <2>3. QED
    BY <1>1, <2>1, <2>2 DEF MovesInt, UnitsNat
<1>19. \A p \in Created : p \notin touched' => live'[p] = 0
  BY <1>14, <1>15, <1>16
<1>20. ASSUME NEW u \in Txs \ {t}
       PROVE  \/ todo[u] \in Waiting \cup Starting
              \/ todo[u] \in Loaded /\ LoadedRows(own[u], copy[u], db')
  <2>1. todo[u] \in Waiting \cup Starting \cup Loaded
    BY <1>4, OtherStages DEF was
  <2>2. SUFFICES ASSUME todo[u] \in Loaded PROVE LoadedRows(own[u], copy[u], db')
    BY <2>1
  <2>3. LoadedRows(own[u], copy[u], db) /\ copy[u] \in Copies /\ copy[u] # 0
    BY <2>2, Of
  <2>4. \A p \in Products : p \in Deduped
    BY <1>2, <2>2 DEF ImportInv, NoneReferring, Products
  <2>5. \A p \in Products : IF Stock(p) \in DOMAIN own[u] THEN db'[Stock(p)] = db[Stock(p)]
                            ELSE db[Stock(p)] \in Nat => db'[Stock(p)] \in Nat
    <3>1. TAKE p \in Products
    <3>2. Stock(p) \in DOMAIN own[u] => p \notin moving
      BY <1>1, FreeIs
    <3>3. QED
      BY <1>12, <2>4, <3>2
  <2>6. db'[Received(copy[u])] = db[Received(copy[u])]
    <3>1. DOMAIN was \cap OfCopy(copy[u]) = {}
      BY <2>3, CopyIsOwn DEF was
    <3>2. Received(copy[u]) \notin DOMAIN was /\ Received(copy[u]) \notin DOMAIN back
      BY <1>8, <3>1, CopyIs, Tables
    <3>3. QED
      BY <1>11, <2>3, <3>2, Ids
  <2>7. QED
    BY <2>3, <2>5, <2>6, LoadedKept
<1>21. QED
  BY <1>1, <1>15, <1>16, <1>17, <1>18, <1>19, <1>20, CommitStep

------------------------------------------------------------------------------
(* The shop trades on.                                                     *)

LEMMA LiveStep ==
    ASSUME ImportInv, UNCHANGED <<txVars, started, doubled>>,
           Books(db', ~doubled, ledger', live'), MovesInt(live'), UnitsNat(ledger'),
           \A p \in Created : p \notin touched' => live'[p] = 0,
           \A d \in Copies : db'[Order(d)].there <=> db[Order(d)].there,
           \A u \in Txs : Aside(own[u], db, db', touched, touched'),
           \A u \in Txs : \A once : Books(Laid(own[u], db), once, ledger, live)
                                   => Books(Laid(own[u], db'), once, ledger', live')
    PROVE  ImportInv'
<1>1. /\ own' = own /\ todo' = todo /\ copy' = copy /\ fresh' = fresh /\ failed' = failed
      /\ started' = started /\ doubled' = doubled
  BY DEF txVars
<1>2. \A d \in Copies : There(d)' <=> There(d)
  BY DEF There
<1>3. \A d : Single(d, db') <=> Single(d, db)
  BY DEF Single
<1>4. Shape'
  BY <1>1, <1>2 DEF ImportInv, Shape
<1>5. Books(db, ~doubled, ledger, live)'
  BY <1>1
<1>6. RowsApart' /\ NoneReferring'
  BY <1>1 DEF ImportInv, RowsApart, NoneReferring
<1>7. ASSUME NEW u \in Txs PROVE Numbered(u)' /\ Session(u)'
  <2>1. Numbered(u) /\ Session(u)
    BY DEF ImportInv
  <2>2. Numbered(u)'
    <3> DEFINE d == copy[u]
    <3>1. d # 0 => d \in Copies /\ ~db[Order(d)].there
      BY <2>1 DEF Numbered, There
    <3> HIDE DEF d
    <3>2. d # 0 => ~db'[Order(d)].there
      BY <3>1
    <3>3. copy[u] # 0 => ~There(copy[u])'
      BY <1>1, <3>2 DEF d, There
    <3>4. QED
      BY <1>1, <2>1, <3>3 DEF Numbered
  <2>3. copy[u] \in {0} \cup Copies
    BY <2>1 DEF Numbered
  <2>4. SessionRows(own[u], copy[u], failed[u], todo[u], db, ~doubled /\ Single(copy[u], db), ledger, live, touched)
    BY <2>1 DEF Session
  <2>5. Aside(own[u], db, db', touched, touched')
    OBVIOUS
  <2>6. Books(Laid(own[u], db), ~doubled /\ Single(copy[u], db), ledger, live)
          => Books(Laid(own[u], db'), ~doubled /\ Single(copy[u], db), ledger', live')
    OBVIOUS
  <2>7. SessionRows(own[u], copy[u], failed[u], todo[u], db', ~doubled /\ Single(copy[u], db), ledger', live', touched')
    BY <2>3, <2>4, <2>5, <2>6, SessionKept
  <2>8. (~doubled /\ Single(copy[u], db)) = (~doubled' /\ Single(copy'[u], db'))
    BY <1>1, <1>3
  <2>9. SessionRows(own'[u], copy'[u], failed'[u], todo'[u], db', ~doubled' /\ Single(copy'[u], db'), ledger', live', touched')
    BY <1>1, <2>7, <2>8
  <2>10. Session(u)'
    BY <2>9 DEF Session
  <2>11. QED
    BY <2>2, <2>10
<1>8. QED
  BY <1>4, <1>5, <1>6, <1>7 DEF ImportInv

\* A request of the shop waits for the locks of every session.
LEMMA FreeOfAll ==
    ASSUME NEW ids, Free(0, ids), NEW u \in Txs
    PROVE  \A i \in ids : i \notin DOMAIN own[u]
BY ImportAssumption, FreeIs

\* What a request does to the stock row and the movements of the shop.
LEMMA LiveIs ==
    ASSUME ImportInv, NEW p \in Products, NEW ids, Live(p, ids)
    PROVE  /\ db[Stock(p)] \in Nat /\ db[Stock(p)] # Missing
           /\ touched' = touched \cup {p} /\ UNCHANGED <<txVars, started, doubled>>
           /\ \A u \in Txs : \A i \in ids : i \notin DOMAIN own[u]
           /\ DOMAIN db = RowIds /\ Books(db, ~doubled, ledger, live)
           /\ MovesInt(live) /\ UnitsNat(ledger)
           /\ \A q \in Created : q \notin touched => live[q] = 0
<1>1. db[Stock(p)] # Missing /\ Free(0, ids)
  BY DEF Live
<1>2. Books(db, ~doubled, ledger, live) /\ Shape
  BY DEF ImportInv
<1>3. QED
  BY <1>1, <1>2, FreeOfAll DEF Live, Books, StockBook, Shape

\* A manual adjustment.
LEMMA RestockStep ==
    ASSUME ImportInv, NEW p \in Products, Restock(p)
    PROVE  ImportInv'
<1>1. /\ Live(p, {Stock(p)}) /\ db' = [db EXCEPT ![Stock(p)] = @ + 1]
      /\ live' = [live EXCEPT ![p] = @ + 1] /\ ledger' = ledger
  BY DEF Restock
<1>2. /\ db[Stock(p)] \in Nat /\ db[Stock(p)] # Missing
      /\ touched' = touched \cup {p} /\ UNCHANGED <<txVars, started, doubled>>
      /\ \A u \in Txs : Stock(p) \notin DOMAIN own[u]
      /\ DOMAIN db = RowIds /\ Books(db, ~doubled, ledger, live)
      /\ MovesInt(live) /\ UnitsNat(ledger)
      /\ \A q \in Created : q \notin touched => live[q] = 0
  BY <1>1, LiveIs
<1>3. /\ DOMAIN db' = RowIds /\ db'[Stock(p)] = db[Stock(p)] + 1 /\ db'[Stock(p)] \in Nat
      /\ \A i \in RowIds : i # Stock(p) => db'[i] = db[i]
      /\ DOMAIN live' = Products
      /\ \A q \in Products : live'[q] = IF q = p THEN live[q] + 1 ELSE live[q]
  BY <1>1, <1>2, Ids DEF MovesInt
<1>4. /\ \A d \in Copies : db'[Order(d)] = db[Order(d)] /\ db'[Received(d)] = db[Received(d)]
      /\ db'[Deducted] = db[Deducted]
      /\ \A q \in Products : db[Stock(q)] \in Nat => db'[Stock(q)] \in Nat
      /\ \A q \in Products, d \in Sources : db'[Batch(q, d)] = db[Batch(q, d)]
      /\ \A i \in Sales : db'[i] = db[i]
  BY <1>3, Ids, Tables, SaleIs
<1>5. Books(db', ~doubled, ledger', live')
  <2>1. Restocked(db, db', live, live', p, 1)
    BY <1>2, <1>3 DEF Restocked
  <2>2. QED
    BY <1>1, <1>2, <2>1, RestockBooks
<1>6. MovesInt(live') /\ UnitsNat(ledger')
  BY <1>1, <1>2, <1>3 DEF MovesInt
<1>7. \A q \in Created : q \notin touched' => live'[q] = 0
  BY <1>2, <1>3 DEF Products
<1>8. ASSUME NEW u \in Txs PROVE Aside(own[u], db, db', touched, touched')
  <2>1. Stock(p) \notin DOMAIN own[u]
    BY <1>2
  <2>2. \A q, d : Consumed(db', q, d) = Consumed(db, q, d)
    BY <1>4, ConsumedSame
  <2>3. \A q \in Products, d \in Sources : Credit(own[u], db, q, d) => Credit(own[u], db', q, d)
    BY <1>4, <2>2 DEF Credit
  <2>4. \A q \in Created : Stock(q) \in DOMAIN own[u] /\ q \in touched' => q \in touched
    BY <1>2, <2>1
  <2>5. QED
    BY <1>3, <1>4, <2>1, <2>3, <2>4 DEF Aside
<1>9. ASSUME NEW u \in Txs, NEW once, Books(Laid(own[u], db), once, ledger, live)
      PROVE  Books(Laid(own[u], db'), once, ledger', live')
  <2>1. Restocked(Laid(own[u], db), Laid(own[u], db'), live, live', p, 1)
    BY <1>2, <1>3, Ids, LaidIs DEF Restocked
  <2>2. QED
    BY <1>1, <1>2, <1>9, <2>1, RestockBooks
<1>10. QED
  BY <1>2, <1>4, <1>5, <1>6, <1>7, <1>8, <1>9, LiveStep

\* A payment against an imported order.
LEMMA PayStep ==
    ASSUME ImportInv, NEW c \in Copies, Pay(c)
    PROVE  ImportInv'
<1>1. /\ Free(0, {Order(c)}) /\ db' = [db EXCEPT ![Order(c)].paid = TRUE]
      /\ UNCHANGED <<txVars, shop, history>>
  BY DEF Pay
<1>2. /\ ledger' = ledger /\ live' = live /\ touched' = touched /\ started' = started /\ doubled' = doubled
      /\ txVars' = txVars
  BY <1>1 DEF shop, history
<1>3. /\ Books(db, ~doubled, ledger, live) /\ DOMAIN db = RowIds /\ MovesInt(live) /\ UnitsNat(ledger)
      /\ \A q \in Created : q \notin touched => live[q] = 0
      /\ \A d \in Copies : db[Order(d)] \in [there : BOOLEAN, paid : BOOLEAN]
  BY DEF ImportInv, Shape, Books, CopyBook
<1>4. \A u \in Txs : Order(c) \notin DOMAIN own[u]
  BY <1>1, FreeOfAll
<1>5. /\ DOMAIN db' = RowIds /\ \A i \in RowIds : i # Order(c) => db'[i] = db[i]
      /\ db'[Order(c)] \in [there : BOOLEAN, paid : BOOLEAN]
      /\ db'[Order(c)].there = db[Order(c)].there
  <2> DEFINE row == [db[Order(c)] EXCEPT !.paid = TRUE]
  <2>1. row \in [there : BOOLEAN, paid : BOOLEAN] /\ row.there = db[Order(c)].there
    BY <1>3
  <2>2. db' = [db EXCEPT ![Order(c)] = row]
    BY <1>1
  <2> HIDE DEF row
  <2>3. QED
    BY <1>3, <2>1, <2>2, Ids
<1>6. /\ \A d \in Copies : db'[Received(d)] = db[Received(d)]
      /\ \A d \in Copies : db'[Order(d)].there = db[Order(d)].there
      /\ db'[Deducted] = db[Deducted]
      /\ \A q \in Products : db[Stock(q)] = db'[Stock(q)]
      /\ \A q \in Products, d \in Sources : db'[Batch(q, d)] = db[Batch(q, d)]
      /\ \A i \in Sales : db'[i] = db[i]
  BY <1>5, Ids, Tables, SaleIs
<1>7. \A i \in RowIds : i[1] # "order" => db'[i] = db[i]
  BY <1>5, Tables
<1>8. \A d \in Copies : db'[Order(d)] \in [there : BOOLEAN, paid : BOOLEAN]
  BY <1>3, <1>5, Ids
<1>9. Books(db', ~doubled, ledger', live')
  BY <1>2, <1>3, <1>5, <1>6, <1>7, <1>8, BooksAlike
<1>10. ASSUME NEW u \in Txs PROVE Aside(own[u], db, db', touched, touched')
  <2>1. \A q, d : Consumed(db', q, d) = Consumed(db, q, d)
    BY <1>6, ConsumedSame
  <2>2. \A q \in Products, d \in Sources : Credit(own[u], db, q, d) => Credit(own[u], db', q, d)
    BY <1>6, <2>1 DEF Credit
  <2>3. QED
    BY <1>2, <1>4, <1>5, <1>6, <2>2 DEF Aside
<1>11. ASSUME NEW u \in Txs, NEW once, Books(Laid(own[u], db), once, ledger, live)
       PROVE  Books(Laid(own[u], db'), once, ledger', live')
  <2> DEFINE rows == Laid(own[u], db)
             next == Laid(own[u], db')
  <2>1. DOMAIN next = RowIds
    BY LaidIs
  <2>2. \A i \in RowIds : i # Job /\ i[1] # "order" => next[i] = rows[i]
    BY <1>7, LaidIs
  <2>3. \A d \in Copies : rows[Order(d)] \in [there : BOOLEAN, paid : BOOLEAN]
    BY <1>11 DEF Books, CopyBook
  <2>4. \A d \in Copies : \/ next[Order(d)] = rows[Order(d)]
                          \/ next[Order(d)] = db'[Order(d)] /\ rows[Order(d)] = db[Order(d)]
    BY Ids, LaidIs
  <2> HIDE DEF rows, next
  <2>5. \A d \in Copies : /\ next[Order(d)] \in [there : BOOLEAN, paid : BOOLEAN]
                          /\ next[Order(d)].there <=> rows[Order(d)].there
    BY <1>6, <1>8, <2>3, <2>4
  <2>6. Books(rows, once, ledger, live)
    BY <1>11 DEF rows
  <2>7. Books(next, once, ledger, live)
    BY <2>1, <2>2, <2>5, <2>6, BooksAlike
  <2>8. QED
    BY <1>2, <2>7 DEF next
<1>12. QED
  BY <1>2, <1>3, <1>6, <1>9, <1>10, <1>11, LiveStep

\* A sale in the rows a session sees: none of the units it takes are the
\* session's.
LEMMA SoldLaid ==
    ASSUME NEW mine, NEW rows, NEW next, NEW led, NEW liv, NEW led2, NEW liv2, NEW once,
           NEW p \in Products, NEW gone \in [Sources -> Nat],
           Sold(rows, next, led, liv, led2, liv2, p, gone),
           Books(Laid(mine, rows), once, led, liv),
           Stock(p) \notin DOMAIN mine,
           \A c \in Sources : gone[c] > 0 => Batch(p, c) \notin DOMAIN mine
    PROVE  Sold(Laid(mine, rows), Laid(mine, next), led, liv, led2, liv2, p, gone)
<1>1. Stock(p) \in RowIds /\ \A c \in Sources : Batch(p, c) \in RowIds
  BY Ids
<1>2. \A c \in Sources : Laid(mine, rows)[Batch(p, c)] \in Int
  BY DEF Books, BatchBook, Missing
<1>3. \A i \in RowIds : i # Stock(p) /\ (\A c \in Sources : i # Batch(p, c))
                           => Laid(mine, next)[i] = Laid(mine, rows)[i]
  BY LaidIs DEF Sold
<1>4. /\ Laid(mine, next)[Stock(p)] = next[Stock(p)] /\ Laid(mine, rows)[Stock(p)] = rows[Stock(p)]
  BY <1>1, LaidIs
<1>5. ASSUME NEW c \in Sources
      PROVE  /\ gone[c] > 0 => Laid(mine, rows)[Batch(p, c)] >= gone[c]
             /\ Laid(mine, next)[Batch(p, c)] = Laid(mine, rows)[Batch(p, c)] - gone[c]
  <2>1. CASE Batch(p, c) \notin DOMAIN mine
    BY <1>1, <2>1, LaidIs DEF Sold
  <2>2. CASE Batch(p, c) \in DOMAIN mine
    <3>1. gone[c] = 0
      BY <2>2
    <3>2. Laid(mine, next)[Batch(p, c)] = Laid(mine, rows)[Batch(p, c)]
      BY <1>1, <2>2, LaidIs
    <3>3. QED
      BY <1>2, <3>1, <3>2
  <2>3. QED
    BY <2>1, <2>2
<1>6. QED
  BY <1>3, <1>4, <1>5, LaidIs DEF Sold

\* A sale of the shop's own.
LEMMA SellStep ==
    ASSUME ImportInv, NEW p \in Products, SellLive(p)
    PROVE  ImportInv'
<1> DEFINE held == [c \in {d \in Sources : db[Batch(p, d)] > 0} |-> db[Batch(p, c)]]
           lots == {c \in Sources : db[Batch(p, c)] > 0}
<1>1. /\ Live(p, {Stock(p)} \cup {Batch(p, c) : c \in DOMAIN held})
      /\ db[Stock(p)] > 0 /\ live' = [live EXCEPT ![p] = @ - 1]
  BY DEF SellLive
<1>2. PICK take \in Allocations(held, Age, 1) :
        /\ db' = Over(Over(Only(Stock(p), db[Stock(p)] - 1),
                           [b \in {Batch(p, c) : c \in DOMAIN take} |-> db[b] - take[b[3]]]), db)
        /\ ledger' = [ledger EXCEPT ![p] = [c \in Sources |-> @[c] + Over(take, NoUnits)[c]]]
  BY DEF SellLive
<1> DEFINE gone == Over(take, NoUnits)
           less == [b \in {Batch(p, c) : c \in DOMAIN take} |-> db[b] - take[b[3]]]
           stock == Only(Stock(p), db[Stock(p)] - 1)
           values == Over(stock, less)
<1>3. DOMAIN held = lots
  OBVIOUS
<1>4. /\ db[Stock(p)] \in Nat /\ db[Stock(p)] # Missing
      /\ touched' = touched \cup {p} /\ UNCHANGED <<txVars, started, doubled>>
      /\ \A u \in Txs : \A i \in {Stock(p)} \cup {Batch(p, c) : c \in lots} : i \notin DOMAIN own[u]
      /\ DOMAIN db = RowIds /\ Books(db, ~doubled, ledger, live)
      /\ MovesInt(live) /\ UnitsNat(ledger)
      /\ \A q \in Created : q \notin touched => live[q] = 0
  BY <1>1, <1>3, LiveIs
<1>5. /\ DOMAIN take = lots
      /\ \A c \in lots : take[c] \in Nat /\ take[c] <= db[Batch(p, c)]
  <2>1. take \in [lots -> 0..1] /\ \A c \in lots : take[c] <= held[c]
    BY <1>3 DEF Allocations
  <2>2. QED
    BY <2>1
<1>6. /\ gone \in [Sources -> Nat] /\ \A c \in Sources : gone[c] = IF c \in lots THEN take[c] ELSE 0
  BY <1>5 DEF Over, NoUnits
<1>7. /\ DOMAIN values = {Stock(p)} \cup {Batch(p, c) : c \in lots}
      /\ values[Stock(p)] = db[Stock(p)] - 1
      /\ \A c \in lots : values[Batch(p, c)] = db[Batch(p, c)] - take[c]
  <2>1. DOMAIN stock = {Stock(p)} /\ stock[Stock(p)] = db[Stock(p)] - 1
    BY OneRow
  <2>2. DOMAIN less = {Batch(p, c) : c \in lots}
        /\ \A c \in lots : less[Batch(p, c)] = db[Batch(p, c)] - take[c]
    BY <1>5, Tables
  <2>3. \A c : Batch(p, c) # Stock(p)
    BY Tables
  <2> HIDE DEF stock, less, lots
  <2>4. QED
    BY <2>1, <2>2, <2>3 DEF Over
<1>8. db' = Over(values, db) /\ ledger' = [ledger EXCEPT ![p] = [c \in Sources |-> @[c] + gone[c]]]
  BY <1>2
<1> HIDE DEF gone, values, held
<1>9. \A c \in Sources : Batch(p, c) \in RowIds /\ db[Batch(p, c)] \in Nat \cup {Missing}
  BY <1>4, Ids DEF Books, BatchBook
<1>10. /\ DOMAIN db' = RowIds
       /\ \A i \in RowIds : db'[i] = IF i \in DOMAIN values THEN values[i] ELSE db[i]
  <2>1. DOMAIN values \subseteq RowIds
    BY <1>7, <1>9, Ids
  <2>2. QED
    BY <1>4, <1>8, <2>1 DEF Over
<1> HIDE DEF lots
<1>11. \A c \in Sources : /\ gone[c] > 0 => db[Batch(p, c)] >= gone[c] /\ c \in lots
                          /\ db'[Batch(p, c)] = db[Batch(p, c)] - gone[c]
                          /\ db'[Batch(p, c)] \in Nat \cup {Missing}
                          /\ db[Batch(p, c)] # Missing => db'[Batch(p, c)] # Missing
  <2>1. TAKE c \in Sources
  <2>2. CASE c \in lots
    <3>1. db'[Batch(p, c)] = db[Batch(p, c)] - take[c] /\ gone[c] = take[c]
      BY <1>6, <1>7, <1>9, <1>10, <2>2
    <3>2. QED
      BY <1>5, <1>9, <2>2, <3>1 DEF Missing
  <2>3. CASE c \notin lots
    <3>1. Batch(p, c) \notin DOMAIN values
      BY <1>7, <2>3, Tables
    <3>2. db'[Batch(p, c)] = db[Batch(p, c)] /\ gone[c] = 0
      BY <1>6, <1>9, <1>10, <2>3, <3>1
    <3>3. QED
      BY <1>9, <3>2 DEF Missing
  <2>4. QED
    BY <2>2, <2>3
<1>12. Stock(p) \in RowIds /\ db'[Stock(p)] = db[Stock(p)] - 1
  BY <1>7, <1>10, Ids
<1>13. \A i \in RowIds : i # Stock(p) /\ (\A c \in Sources : i # Batch(p, c)) => db'[i] = db[i]
  <2>1. lots \subseteq Sources
    BY DEF lots
  <2>2. QED
    BY <1>7, <1>10, <2>1
<1>14. /\ \A q \in Products : live'[q] = IF q = p THEN live[q] - 1 ELSE live[q]
       /\ \A q \in Products, c \in Sources : ledger'[q][c] = IF q = p THEN ledger[q][c] + gone[c] ELSE ledger[q][c]
       /\ MovesInt(live') /\ UnitsNat(ledger')
  <2>1. DOMAIN live' = Products /\ \A q \in Products : live'[q] = IF q = p THEN live[q] - 1 ELSE live[q]
    BY <1>1, <1>4 DEF MovesInt
  <2>2. /\ DOMAIN ledger' = Products
        /\ \A q \in Products, c \in Sources : ledger'[q][c] = IF q = p THEN ledger[q][c] + gone[c] ELSE ledger[q][c]
    BY <1>4, <1>8 DEF UnitsNat
  <2>3. \A c \in Sources : gone[c] \in Nat
    BY <1>6
  <2>4. QED
    BY <1>4, <2>1, <2>2, <2>3 DEF MovesInt, UnitsNat
<1>15. Sold(db, db', ledger, live, ledger', live', p, gone)
  BY <1>1, <1>4, <1>10, <1>11, <1>12, <1>13, <1>14 DEF Sold
<1>16. Books(db', ~doubled, ledger', live')
  BY <1>4, <1>6, <1>15, SellBooks
<1>17. /\ \A d \in Copies : db'[Order(d)] = db[Order(d)] /\ db'[Received(d)] = db[Received(d)]
       /\ db'[Deducted] = db[Deducted]
       /\ \A q \in Products \ {p} : db'[Stock(q)] = db[Stock(q)]
       /\ \A q \in Products \ {p}, d \in Sources : db'[Batch(q, d)] = db[Batch(q, d)]
       /\ \A i \in Sales : db'[i] = db[i]
  BY <1>13, Ids, Tables, SaleIs
<1>18. \A q \in Products : db[Stock(q)] \in Nat => db'[Stock(q)] \in Nat
  BY <1>1, <1>4, <1>12, <1>17
<1>19. \A q \in Created : q \notin touched' => live'[q] = 0
  BY <1>4, <1>14 DEF Products
<1>20. \A u \in Txs : /\ Stock(p) \notin DOMAIN own[u]
                      /\ \A c \in Sources : gone[c] > 0 => Batch(p, c) \notin DOMAIN own[u]
  BY <1>4, <1>11
<1>21. ASSUME NEW u \in Txs PROVE Aside(own[u], db, db', touched, touched')
  <2>1. \A q, d : Consumed(db', q, d) = Consumed(db, q, d)
    BY <1>17, ConsumedSame
  <2>2. \A i \in RowIds : i \in DOMAIN own[u] => db'[i] = db[i]
    <3>1. SUFFICES ASSUME NEW c \in Sources, Batch(p, c) \in DOMAIN own[u]
                   PROVE  db'[Batch(p, c)] = db[Batch(p, c)]
      BY <1>13, <1>20
    <3>2. gone[c] \in Nat /\ ~(gone[c] > 0)
      BY <1>6, <1>20, <3>1
    <3>3. QED
      BY <1>9, <1>11, <3>2 DEF Missing
  <2>3. \A q \in Products, d \in Sources :
          /\ Batch(q, d) \in DOMAIN own[u] => db'[Batch(q, d)] = db[Batch(q, d)]
    BY <2>2, Ids
  <2>4. \A q \in Products, d \in Sources : Credit(own[u], db, q, d) => Credit(own[u], db', q, d)
    BY <2>1, <2>3 DEF Credit
  <2>5. \A q \in Created : Stock(q) \in DOMAIN own[u] /\ q \in touched' => q \in touched
    BY <1>4, <1>20
  <2>6. QED
    BY <1>17, <1>18, <2>2, <2>4, <2>5 DEF Aside
<1>22. ASSUME NEW u \in Txs, NEW once, Books(Laid(own[u], db), once, ledger, live)
       PROVE  Books(Laid(own[u], db'), once, ledger', live')
  <2>1. Sold(Laid(own[u], db), Laid(own[u], db'), ledger, live, ledger', live', p, gone)
    BY <1>6, <1>15, <1>20, <1>22, SoldLaid
  <2>2. QED
    BY <1>4, <1>6, <1>22, <2>1, SellBooks
<1>23. QED
  BY <1>4, <1>14, <1>16, <1>17, <1>19, <1>21, <1>22, LiveStep

\* A void in the rows a session sees: none of the rows it changes are the
\* session's.
LEMMA VoidedLaid ==
    ASSUME NEW mine, NEW rows, NEW next, NEW led, NEW liv, NEW liv2, NEW once, NEW k \in Sales,
           Voided(rows, next, liv, liv2, k),
           SalesTyped(rows), Books(Laid(mine, rows), once, led, liv),
           k \notin DOMAIN mine, Stock(ProductOf(k)) \notin DOMAIN mine,
           \A c \in Sources : rows[k].fifo[c] > 0 => Batch(ProductOf(k), c) \notin DOMAIN mine
    PROVE  Voided(Laid(mine, rows), Laid(mine, next), liv, liv2, k)
<1> DEFINE p == ProductOf(k)
<1>1. p \in Products /\ k \in RowIds /\ Stock(p) \in RowIds /\ \A c \in Sources : Batch(p, c) \in RowIds
  BY Ids, SaleIs
<1>2. \A c \in Sources : Laid(mine, rows)[Batch(p, c)] \in Int
  BY <1>1 DEF Books, BatchBook, Missing
<1>3. /\ Laid(mine, next)[Stock(p)] = next[Stock(p)] /\ Laid(mine, rows)[Stock(p)] = rows[Stock(p)]
      /\ Laid(mine, next)[k] = next[k] /\ Laid(mine, rows)[k] = rows[k]
  BY <1>1, LaidIs
<1>4. \A i \in RowIds : /\ i # Stock(p) /\ i # k
                        /\ \A d \in Sources : i # Batch(p, d)
                        => Laid(mine, next)[i] = Laid(mine, rows)[i]
  BY LaidIs DEF Voided
<1>5. ASSUME NEW c \in Sources
      PROVE  Laid(mine, next)[Batch(p, c)] = Laid(mine, rows)[Batch(p, c)] + rows[k].fifo[c]
  <2>1. rows[k].fifo[c] \in Nat
    BY SaleColumns
  <2>2. CASE Batch(p, c) \notin DOMAIN mine
    BY <1>1, <2>2, LaidIs DEF Voided
  <2>3. CASE Batch(p, c) \in DOMAIN mine
    <3>1. rows[k].fifo[c] = 0
      BY <2>1, <2>3
    <3>2. Laid(mine, next)[Batch(p, c)] = Laid(mine, rows)[Batch(p, c)]
      BY <1>1, <2>3, LaidIs
    <3>3. QED
      BY <1>2, <3>1, <3>2
  <2>4. QED
    BY <2>2, <2>3
<1>6. QED
  BY <1>3, <1>4, <1>5, LaidIs DEF Voided

\* A void of an imported sale.
LEMMA VoidStep ==
    ASSUME ImportInv, NEW c \in Copies, NEW s \in SaleIds, VoidImported(c, s)
    PROVE  ImportInv'
<1> DEFINE k == Sale(c, s)
           p == ProductOf(k)
           n == QuantityOf(k)
           used == {d \in Sources : db[k].fifo[d] > 0}
           row == [db[k] EXCEPT !.state = "VOIDED", !.fifo = NoUnits]
           stock == Only(Stock(p), db[Stock(p)] + n)
           more == [b \in {Batch(p, d) : d \in used} |-> db[b] + db[k].fifo[b[3]]]
           values == Over(stock, Over(Only(k, row), more))
<1>1. /\ db[k].state = "COMPLETED"
      /\ Live(p, {k, Stock(p)} \cup {Batch(p, d) : d \in used})
      /\ db' = Over(values, db)
      /\ live' = [live EXCEPT ![p] = @ + n] /\ ledger' = ledger
  BY DEF VoidImported, Over
<1>2. k \in Sales /\ k \in RowIds /\ p \in Products /\ n \in Nat /\ k[1] = "sale"
  BY Ids, SaleIs
<1>3. /\ db[Stock(p)] \in Nat /\ db[Stock(p)] # Missing
      /\ touched' = touched \cup {p} /\ UNCHANGED <<txVars, started, doubled>>
      /\ \A u \in Txs : \A i \in {k, Stock(p)} \cup {Batch(p, d) : d \in used} : i \notin DOMAIN own[u]
      /\ DOMAIN db = RowIds /\ Books(db, ~doubled, ledger, live)
      /\ MovesInt(live) /\ UnitsNat(ledger)
      /\ \A q \in Created : q \notin touched => live[q] = 0
  BY <1>1, <1>2, LiveIs
<1>4. SalesTyped(db) /\ db[k].fifo \in [Sources -> Nat] /\ db[k] \in SaleRow
  BY <1>2, <1>3, SaleColumns DEF Books, BatchBook, SalesTyped
<1>5. /\ DOMAIN values = {k, Stock(p)} \cup {Batch(p, d) : d \in used}
      /\ values[k] = row /\ values[Stock(p)] = db[Stock(p)] + n
      /\ \A d \in used : values[Batch(p, d)] = db[Batch(p, d)] + db[k].fifo[d]
  <2>1. /\ DOMAIN stock = {Stock(p)} /\ stock[Stock(p)] = db[Stock(p)] + n
        /\ DOMAIN Only(k, row) = {k} /\ Only(k, row)[k] = row
    BY OneRow
  <2>2. DOMAIN more = {Batch(p, d) : d \in used}
        /\ \A d \in used : more[Batch(p, d)] = db[Batch(p, d)] + db[k].fifo[d]
    BY Tables
  <2>3. /\ \A d : Batch(p, d) # Stock(p) /\ Batch(p, d) # k
        /\ k # Stock(p)
    BY <1>2, Tables
  <2> HIDE DEF stock, more, used, row, k, p
  <2>4. QED
    BY <2>1, <2>2, <2>3 DEF Over
<1> HIDE DEF values, stock, more, row
<1>6. /\ DOMAIN db' = RowIds
      /\ \A i \in RowIds : db'[i] = IF i \in DOMAIN values THEN values[i] ELSE db[i]
  <2>1. DOMAIN values \subseteq RowIds
    BY <1>2, <1>5, Ids
  <2>2. QED
    BY <1>1, <1>3, <2>1 DEF Over
<1>7. \A d \in Sources : Batch(p, d) \in RowIds /\ db[Batch(p, d)] \in Nat \cup {Missing}
  BY <1>2, <1>3, Ids DEF Books, BatchBook
<1>8. /\ db'[k] = [db[k] EXCEPT !.state = "VOIDED", !.fifo = NoUnits]
      /\ Stock(p) \in RowIds /\ db'[Stock(p)] = db[Stock(p)] + n
  BY <1>2, <1>5, <1>6, Ids DEF row
<1>9. db'[k].fifo = NoUnits /\ db'[k].state = "VOIDED" /\ db'[k] \in SaleRow
  BY <1>4, <1>8, NoneIsRow DEF SaleRow
<1> HIDE DEF k, p, used
<1>10. ASSUME NEW d \in Sources
       PROVE  /\ db'[Batch(p, d)] = db[Batch(p, d)] + db[k].fifo[d]
              /\ d \notin used => db[k].fifo[d] = 0
  <2>1. db[k].fifo[d] \in Nat
    BY <1>4
  <2>2. CASE d \in used
    BY <1>5, <1>6, <1>7, <2>2
  <2>3. CASE d \notin used
    <3>1. Batch(p, d) \notin DOMAIN values
      BY <1>2, <1>5, <2>3, Tables
    <3>2. db'[Batch(p, d)] = db[Batch(p, d)] /\ db[k].fifo[d] = 0
      BY <1>6, <1>7, <2>1, <2>3, <3>1 DEF used
    <3>3. QED
      BY <1>7, <3>2 DEF Missing
  <2>4. QED
    BY <2>2, <2>3
<1>11. \A i \in RowIds : i # Stock(p) /\ i # k /\ (\A d \in Sources : i # Batch(p, d)) => db'[i] = db[i]
  <2>1. used \subseteq Sources
    BY DEF used
  <2>2. QED
    BY <1>5, <1>6, <2>1
<1>12. /\ \A q \in Products : live'[q] = IF q = p THEN live[q] + n ELSE live[q]
       /\ MovesInt(live') /\ UnitsNat(ledger')
  BY <1>1, <1>2, <1>3 DEF MovesInt
<1>13. Voided(db, db', live, live', k)
  BY <1>1, <1>3, <1>6, <1>8, <1>10, <1>11, <1>12 DEF Voided, p
<1>14. Books(db', ~doubled, ledger', live')
  BY <1>1, <1>3, <1>13, VoidBooks DEF k
<1>15. /\ \A d \in Copies : db'[Order(d)] = db[Order(d)] /\ db'[Received(d)] = db[Received(d)]
       /\ db'[Deducted] = db[Deducted]
       /\ \A q \in Products \ {p} : db'[Stock(q)] = db[Stock(q)]
       /\ \A i \in Sales \ {k} : db'[i] = db[i]
  BY <1>2, <1>11, Ids, Tables, SaleIs
<1>16. \A q \in Products : db[Stock(q)] \in Nat => db'[Stock(q)] \in Nat
  BY <1>2, <1>3, <1>8, <1>15
<1>17. \A q \in Created : q \notin touched' => live'[q] = 0
  BY <1>3, <1>12 DEF Products
<1>18. \A u \in Txs : /\ k \notin DOMAIN own[u] /\ Stock(p) \notin DOMAIN own[u]
                      /\ \A d \in Sources : db[k].fifo[d] > 0 => Batch(p, d) \notin DOMAIN own[u]
  BY <1>3 DEF used
<1>19. SalesTyped(db')
  BY <1>4, <1>9, <1>15 DEF SalesTyped
<1>20. ASSUME NEW u \in Txs PROVE Aside(own[u], db, db', touched, touched')
  <2>1. \A i \in RowIds : i \in DOMAIN own[u] => db'[i] = db[i]
    <3>1. SUFFICES ASSUME NEW d \in Sources, Batch(p, d) \in DOMAIN own[u]
                   PROVE  db'[Batch(p, d)] = db[Batch(p, d)]
      BY <1>11, <1>18
    <3>2. db[k].fifo[d] \in Nat /\ ~(db[k].fifo[d] > 0)
      BY <1>4, <1>18, <3>1
    <3>3. QED
      BY <1>7, <1>10, <3>2 DEF Missing
  <2>2. ASSUME NEW q \in Products, NEW d \in Sources, Credit(own[u], db, q, d)
        PROVE  Credit(own[u], db', q, d)
    <3>1. /\ Consumed(db', q, d) = IF p = q THEN Consumed(db, q, d) - db[k].fifo[d] + db'[k].fifo[d]
                                   ELSE Consumed(db, q, d)
      <4>1. \A i \in Sales \ {k} : db'[i].fifo = db[i].fifo
        BY <1>15
      <4>2. QED
        BY <1>2, <1>4, <1>19, <4>1, ConsumedChanged DEF p
    <3>2. /\ db'[k].fifo[d] = 0 /\ db[k].fifo[d] \in Nat
          /\ Consumed(db, q, d) \in Nat
          /\ p = q => db[k].fifo[d] <= Consumed(db, q, d)
      BY <1>2, <1>4, <1>9, ConsumedNat DEF NoUnits, p
    <3>3. CASE Batch(q, d) \in DOMAIN own[u]
      <4>1. db'[Batch(q, d)] = db[Batch(q, d)]
        BY <2>1, <3>3, Ids
      <4>2. p = q => db[k].fifo[d] = 0
        BY <1>18, <3>2, <3>3
      <4>3. Consumed(db', q, d) = Consumed(db, q, d)
        BY <3>1, <3>2, <4>2
      <4>4. QED
        BY <2>2, <3>3, <4>1, <4>3 DEF Credit
    <3>4. CASE Batch(q, d) \notin DOMAIN own[u]
      <4>1. Consumed(db, q, d) = 0
        BY <2>2, <3>4 DEF Credit
      <4>2. Consumed(db', q, d) = 0
        BY <3>1, <3>2, <4>1
      <4>3. QED
        BY <3>4, <4>2 DEF Credit
    <3>5. QED
      BY <3>3, <3>4
  <2>3. \A q \in Created : Stock(q) \in DOMAIN own[u] /\ q \in touched' => q \in touched
    BY <1>3, <1>18
  <2>4. \A i \in Sales : db'[i].state = "NONE" <=> db[i].state = "NONE"
    BY <1>1, <1>9, <1>15 DEF k
  <2>5. QED
    BY <1>15, <1>16, <2>1, <2>2, <2>3, <2>4 DEF Aside
<1>21. ASSUME NEW u \in Txs, NEW once, Books(Laid(own[u], db), once, ledger, live)
       PROVE  Books(Laid(own[u], db'), once, ledger', live')
  <2>1. /\ k \notin DOMAIN own[u] /\ Stock(ProductOf(k)) \notin DOMAIN own[u]
        /\ \A d \in Sources : db[k].fifo[d] > 0 => Batch(ProductOf(k), d) \notin DOMAIN own[u]
    BY <1>18 DEF p
  <2>2. Voided(Laid(own[u], db), Laid(own[u], db'), live, live', k)
    BY <1>2, <1>4, <1>13, <1>21, <2>1, VoidedLaid
  <2>3. QED
    BY <1>1, <1>3, <1>21, <2>2, VoidBooks DEF k
<1>22. QED
  BY <1>3, <1>12, <1>14, <1>15, <1>16, <1>17, <1>20, <1>21, LiveStep

------------------------------------------------------------------------------
(* The invariant holds from the start and every step keeps it.             *)

LEMMA ImportStarts == ImportInit => ImportInv
<1> SUFFICES ASSUME ImportInit PROVE ImportInv
  OBVIOUS
<1>1. /\ DOMAIN db = RowIds
      /\ \A p \in Products : db[Stock(p)] = IF p \in Deduped THEN Opening[p] ELSE Missing
      /\ \A p \in Products, c \in Sources :
            db[Batch(p, c)] = IF p \in Deduped /\ c = 0 THEN Opening[p] ELSE Missing
      /\ \A i \in Sales : db[i] = NoSale
      /\ \A c \in Copies : db[Order(c)] = NoOrder /\ db[Received(c)] = NoMoves
      /\ db[Deducted] = NoMoves
  <2> DEFINE start(i) == CASE i = Job        -> NewJob
                           [] i = Deducted \/ i[1] = "received" -> NoMoves
                           [] i[1] = "stock" -> IF i[2] \in Deduped THEN Opening[i[2]] ELSE Missing
                           [] i[1] = "batch" -> IF i[2] \in Deduped /\ i[3] = 0
                                                THEN Opening[i[2]] ELSE Missing
                           [] i[1] = "sale"  -> NoSale
                           [] i[1] = "order" -> NoOrder
  <2>1. db = [i \in RowIds |-> start(i)]
    BY DEF ImportInit
  <2>2. \A p : start(Stock(p)) = IF p \in Deduped THEN Opening[p] ELSE Missing
    BY Tables
  <2>3. \A p, c : start(Batch(p, c)) = IF p \in Deduped /\ c = 0 THEN Opening[p] ELSE Missing
    BY Tables
  <2>4. \A i \in Sales : start(i) = NoSale
    BY SaleIs, Tables
  <2>5. \A c : start(Order(c)) = NoOrder /\ start(Received(c)) = NoMoves
    BY Tables
  <2>6. start(Deducted) = NoMoves
    BY Tables
  <2> HIDE DEF start
  <2>7. QED
    BY <2>1, <2>2, <2>3, <2>4, <2>5, <2>6, Ids
<1>2. /\ ledger = [p \in Products |-> NoUnits] /\ live = NoMoves /\ touched = {}
      /\ started = 0 /\ doubled = FALSE
      /\ copy = [t \in Txs |-> 0] /\ fresh = [t \in Txs |-> {}] /\ failed = [t \in Txs |-> {}]
      /\ own = [t \in Txs |-> <<>>] /\ todo = [t \in Txs |-> <<>>]
  BY DEF ImportInit, InitSessions
<1>3. /\ \A p \in Products : live[p] = 0 /\ ledger[p] = NoUnits
      /\ \A p \in Products, c \in Sources : ledger[p][c] = 0
      /\ \A p \in Products : NoMoves[p] = 0
      /\ \A p \in Deduped : p \in Products /\ Opening[p] \in Nat
      /\ \A p \in Created : p \in Products /\ p \notin Deduped
      /\ Missing \notin Nat
  BY <1>2, ImportAssumption DEF NoMoves, NoUnits, Products, Missing
<1>4. StockBook(db, live)
  <2>1. MovesTyped(db)
    BY <1>1, NoneIsRow DEF MovesTyped
  <2>2. \A p \in Products : Moved(db, p) = 0
    BY <1>1, MovedNone
  <2>3. ASSUME NEW p \in Products
        PROVE  /\ db[Stock(p)] \in Nat \cup {Missing}
               /\ p \in Deduped => db[Stock(p)] # Missing
               /\ OnHand(db, p) = Opened(p) + live[p] + Moved(db, p)
    BY <1>1, <1>3, <2>2 DEF OnHand, Opened
  <2>4. QED
    BY <2>1, <2>3 DEF StockBook
<1>5. BatchBook(db, ledger)
  <2>1. SalesTyped(db)
    BY <1>1, NoneIsRow DEF SalesTyped
  <2>2. \A p \in Products, c \in Sources : Consumed(db, p, c) = 0
    <3>1. \A i \in Sales : db[i].fifo = NoUnits
      BY <1>1, NoneIsRow
    <3>2. QED
      BY <3>1, ConsumedNone
  <2>3. 0 \in Sources
    BY DEF Sources
  <2>4. \A p \in Products : db[Batch(p, 0)] # Missing <=> p \in Deduped
    BY <1>1, <1>3, <2>3
  <2>5. ASSUME NEW p \in Products, NEW c \in Sources
        PROVE  /\ db[Batch(p, c)] \in Nat \cup {Missing}
               /\ db[Batch(p, c)] = Missing => ledger[p][c] = 0 /\ Consumed(db, p, c) = 0
               /\ db[Batch(p, c)] # Missing =>
                     db[Batch(p, c)] + ledger[p][c] + Consumed(db, p, c) = Filled(p, c)
    BY <1>1, <1>3, <2>2 DEF Filled
  <2>6. QED
    BY <2>1, <2>4, <2>5 DEF BatchBook
<1>6. CopyBook(db)
  <2>1. \A c \in Copies, s \in SaleIds : db[Sale(c, s)] = NoSale
    BY <1>1, Ids
  <2>2. \A c \in Copies, p \in Products : db[Batch(p, c)] = Missing
    <3>1. \A c \in Copies : c \in Sources /\ c # 0
      BY ImportAssumption DEF Copies, Sources
    <3>2. QED
      BY <1>1, <3>1
  <2>3. NoOrder \in [there : BOOLEAN, paid : BOOLEAN]
    BY DEF NoOrder
  <2>4. \A p \in Created : db[Stock(p)] = Missing
    BY <1>1, <1>3
  <2>5. QED
    BY <1>1, <2>1, <2>2, <2>3, <2>4 DEF CopyBook
<1>7. SaleBook(db, ~doubled)
  <2>1. \A i \in Sales : ~db[i].costed /\ db[i].fifo = NoUnits
    BY <1>1, NoneIsRow
  <2>2. \A p \in Products : db[Deducted][p] = 0
    BY <1>1, <1>3
  <2>3. QED
    BY <2>1, <2>2 DEF SaleBook
<1>8. Shape
  <2>1. \A c \in Copies : ~There(c)
    BY <1>1 DEF There, NoOrder
  <2>2. MovesInt(live) /\ UnitsNat(ledger)
    BY <1>2, <1>3 DEF MovesInt, UnitsNat, NoMoves
  <2>3. QED
    BY <1>2, <1>3, <2>1, <2>2 DEF Shape
<1>9. RowsApart /\ NoneReferring
  BY <1>2, StagesApart DEF RowsApart, NoneReferring, RollingBack
<1>10. ASSUME NEW t \in Txs PROVE Numbered(t) /\ Session(t)
  <2>1. own[t] = <<>> /\ todo[t] = <<>> /\ copy[t] = 0 /\ fresh[t] = {}
    BY <1>2
  <2>2. \A c, skips, rows, once, led, liv, moved : SessionRows(<<>>, c, skips, <<>>, rows, once, led, liv, moved)
    BY RowsAtStage, StageSets
  <2>3. Session(t)
    BY <2>1, <2>2 DEF Session
  <2>4. Numbered(t)
    BY <2>1, StagesApart, StageSets DEF Numbered
  <2>5. QED
    BY <2>3, <2>4
<1>11. QED
  BY <1>1, <1>4, <1>5, <1>6, <1>7, <1>8, <1>9, <1>10 DEF ImportInv, Books

LEMMA SessionStepKeeps ==
    ASSUME ImportInv, NEW t \in Txs, SessionStep(t)
    PROVE  ImportInv'
<1>1. CASE Confirm(t) \/ Decline(t) \/ AfterFailure(t)
  BY <1>1, ConfirmStep, DeclineStep, AfterFailureStep
<1>2. CASE ImportStep(t)
  BY <1>2, TransformStep, LoadStep, LoadOrdersStep, LoadAdjustmentsStep, StartRecomputeStep DEF ImportStep
<1>3. CASE RecomputeStep(t)
  BY <1>3, DeductStep, CostSaleStep, CostingEndsStep, DoneStep DEF RecomputeStep
<1>4. CASE RollbackStep(t)
  BY <1>4, UnfifoStep, DeleteTaggedStep, ReverseStep DEF RollbackStep
<1>5. QED
  BY <1>1, <1>2, <1>3, <1>4 DEF SessionStep

LEMMA ImportKeeps == ImportInv /\ [ImportNext]_importVars => ImportInv'
<1> SUFFICES ASSUME ImportInv, [ImportNext]_importVars PROVE ImportInv'
  OBVIOUS
<1>1. CASE CreateJob
  <2>1. UNCHANGED <<txVars, shop, history>> /\ \E row : SetJob(row)
    BY <1>1 DEF CreateJob
  <2>2. QED
    BY <2>1, JobOnlyStep
<1>2. CASE Validate
  <2>1. UNCHANGED <<txVars, shop, history>> /\ \E row : SetJob(row)
    BY <1>2 DEF Validate
  <2>2. QED
    BY <2>1, JobOnlyStep
<1>3. CASE Crash
  BY <1>3, CrashStep
<1>4. ASSUME NEW t \in Txs, NEW approved \in BOOLEAN, Decide(t, approved) PROVE ImportInv'
  BY <1>4, DecideStep
<1>5. ASSUME NEW t \in Txs, Recompute(t) PROVE ImportInv'
  <2>1. Claim(t, "RECOMPUTING", ToDeduct)
    BY <1>5 DEF Recompute, ToDeduct
  <2>2. QED
    BY <2>1, ClaimStep
<1>6. ASSUME NEW t \in Txs, RollbackJob(t) PROVE ImportInv'
  <2>1. Claim(t, "ROLLED_BACK", ToUnfifo)
    BY <1>6 DEF RollbackJob, ToUnfifo
  <2>2. QED
    BY <2>1, ClaimStep
<1>7. ASSUME NEW t \in Txs, SessionStep(t) PROVE ImportInv'
  BY <1>7, SessionStepKeeps
<1>8. ASSUME NEW t \in Txs, Fail(t) PROVE ImportInv'
  <2>1. Raise(t, "FAILED")
    BY <1>8 DEF Fail
  <2>2. QED
    BY <2>1, RaiseStep
<1>9. ASSUME NEW p \in Products, SellLive(p) \/ Restock(p) PROVE ImportInv'
  BY <1>9, SellStep, RestockStep
<1>10. ASSUME NEW c \in Copies, Pay(c) PROVE ImportInv'
  BY <1>10, PayStep
<1>11. ASSUME NEW c \in Copies, NEW s \in SaleIds, VoidImported(c, s) PROVE ImportInv'
  BY <1>11, VoidStep
<1>12. CASE UNCHANGED importVars
  <2>1. UNCHANGED <<db, own, todo, copy, fresh, failed, ledger, live, touched, started, doubled>>
    BY <1>12 DEF importVars, txVars, shop, history
  <2>2. /\ Books(db, ~doubled, ledger, live) /\ MovesInt(live) /\ UnitsNat(ledger)
        /\ \A p \in Created : p \notin touched => live[p] = 0
    BY DEF ImportInv, Shape
  <2>3. \A u \in Txs : Aside(own[u], db, db, touched, touched)
    BY DEF Aside
  <2>4. UNCHANGED <<txVars, started, doubled>>
    BY <2>1 DEF txVars
  <2>5. /\ Books(db', ~doubled, ledger', live') /\ MovesInt(live') /\ UnitsNat(ledger')
        /\ \A p \in Created : p \notin touched' => live'[p] = 0
        /\ \A d \in Copies : db'[Order(d)].there <=> db[Order(d)].there
        /\ \A u \in Txs : Aside(own[u], db, db', touched, touched')
        /\ \A u \in Txs : \A once : Books(Laid(own[u], db), once, ledger, live)
                                    => Books(Laid(own[u], db'), once, ledger', live')
    BY <2>1, <2>2, <2>3
  <2>6. QED
    BY <2>4, <2>5, LiveStep
<1>13. QED
  BY <1>1, <1>2, <1>3, <1>4, <1>5, <1>6, <1>7, <1>8, <1>9, <1>10, <1>11, <1>12 DEF ImportNext

\* However imports, recomputes, rollbacks and the shop's own requests overlap,
\* fail or are cut short, the books balance in the committed rows and in what
\* every session that recomputes sees, and each session holds the rows its
\* statement left it with.
THEOREM ImportInvHolds == ImportSpec => []ImportInv
<1>1. ImportInv /\ [ImportNext]_importVars => ImportInv'
  BY ImportKeeps
<1>2. QED
  BY <1>1, ImportStarts, PTL DEF ImportSpec

\* _deduct_imported_sales_stock() and _compute_fifo_cogs_for_imported_sales():
\* no imported sale has a cost of goods while its product's units are still on
\* hand, as long as no two imports of the job were there at once.
THEOREM CostedMeansDeductedHolds == ImportSpec => []CostedMeansDeducted
<1>1. ImportInv => CostedMeansDeducted
  <2>1. SUFFICES ASSUME ImportInv, ~doubled, NEW i \in Sales, db[i].costed
                 PROVE  db[Deducted][ProductOf(i)] = Recorded(db, ProductOf(i))
    BY DEF CostedMeansDeducted
  <2>2. SaleBook(db, ~doubled)
    BY <2>1 DEF ImportInv, Books
  <2>3. db[Deducted][ProductOf(i)] > 0 /\ ProductOf(i) \in Products
    BY <2>1, <2>2, SaleIs DEF SaleBook
  <2>4. db[Deducted][ProductOf(i)] \in {0, Recorded(db, ProductOf(i))}
    BY <2>1, <2>2, <2>3 DEF SaleBook
  <2>5. QED
    BY <2>3, <2>4
<1>2. QED
  BY <1>1, ImportInvHolds, PTL

\* adjust_stock(), _deduct_imported_sales_stock() and rollback_job(): what is on
\* hand is what was there before, what the shop moved and what the import and
\* its recomputes moved, and never below zero.
THEOREM StockExplainedHolds == ImportSpec => []StockExplained
<1>1. ImportInv => StockExplained
  BY DEF ImportInv, Books, StockBook, StockExplained, Exists, Net, OnHand, Opened
<1>2. QED
  BY <1>1, ImportInvHolds, PTL

\* fifo_deduct() and reverse_fifo_consumption(): no import, recompute, void,
\* sale or rollback loses or invents a unit of a batch that is there.
THEOREM BatchesConservedHolds == ImportSpec => []BatchesConserved
<1>1. ImportInv => BatchesConserved
  BY DEF ImportInv, Books, BatchBook, BatchesConserved, Filled
<1>2. QED
  BY <1>1, ImportInvHolds, PTL

------------------------------------------------------------------------------
(* The accounts of a business.                                             *)


LEMMA Lifetimes ==
    /\ {Lock, Access, Refresh, Reset, Verify, Grace} \subseteq Nat
    /\ Grace > 0
BY AccountsAssumption

------------------------------------------------------------------------------
(* The types of rows, tokens and requests.                                 *)

UserRow == [there : BOOLEAN, role : Roles, active : BOOLEAN, verified : BOOLEAN,
            attempts : Nat, lockedUntil : Nat, password : Nat, erased : BOOLEAN]

RefreshToken == [user : Users, password : Nat, expires : Nat, raced : BOOLEAN]
AccessToken  == [user : Users, expires : Nat]
MailToken    == [kind : {"reset", "verify"}, user : Users, expires : Nat]

Rows ==
    /\ now \in Nat
    /\ business \in [scheduled : BOOLEAN, purgeAt : Nat, purged : BOOLEAN]
    /\ user \in [Users -> UserRow]
    /\ purging \in [open : BOOLEAN, users : SUBSET Users]
    /\ late \in BOOLEAN /\ disturbed \in BOOLEAN

\* Tokens and requests are those of users who are there.
Tokens ==
    /\ refresh \subseteq RefreshToken /\ \A k \in refresh : user[k.user].there
    /\ access \subseteq AccessToken /\ \A a \in access : user[a.user].there
    /\ mails \subseteq MailToken

Serves(t) ==
    /\ session[t].op \in {"login"} \cup OwnerOps \cup AdminOps
    /\ session[t].user \in Users /\ user[session[t].user].there
    /\ IF session[t].op = "login"
       THEN session[t].row \in UserRow /\ session[t].at \in Nat
       ELSE session[t].target \in Users

Requests == DOMAIN session = Sessions /\ \A t \in Sessions : Unassigned(t) \/ Serves(t)

\* What the purge job relies on between its two steps, and leaves behind.
Purges ==
    /\ ~disturbed /\ purging.open =>
          /\ business.scheduled /\ ~business.purged
          /\ business.purgeAt # 0 /\ business.purgeAt <= now
          /\ purging.users = {u \in Users : user[u].there}
    /\ ~disturbed /\ business.purged =>
          /\ business.scheduled /\ ~purging.open
          /\ \A u \in Users : user[u].there => user[u].erased /\ ~user[u].active
          /\ \A t \in Sessions : Unassigned(t)

AccountsInv ==
    /\ Rows /\ Tokens /\ Requests
    /\ RefreshTokensCurrent /\ SomeoneInCharge /\ Purges

------------------------------------------------------------------------------
(* Steps that change nobody's place in the team.                           *)

LEMMA SameTeam ==
    ASSUME AccountsInv, UNCHANGED <<business, purging, late, disturbed>>,
           now' \in Nat, now <= now',
           user' \in [Users -> UserRow],
           \A u \in Users : /\ user'[u].there = user[u].there
                            /\ user'[u].role = user[u].role
                            /\ user'[u].active = user[u].active
                            /\ user'[u].erased = user[u].erased,
           Tokens', RefreshTokensCurrent', Requests',
           \A t \in Sessions : Unassigned(t) => Unassigned(t)' \/ ~(business.purged /\ ~disturbed)
    PROVE  AccountsInv'
<1>1. Rows'
  BY DEF AccountsInv, Rows
<1>2. SomeoneInCharge'
  <2>1. ActiveUsers' = ActiveUsers
    BY DEF ActiveUsers
  <2>2. ActiveUsers \subseteq Users
    BY DEF ActiveUsers
  <2>3. QED
    BY <2>1, <2>2 DEF AccountsInv, SomeoneInCharge
<1>3. Purges'
  <2>1. {u \in Users : user'[u].there} = {u \in Users : user[u].there}
    OBVIOUS
  <2>2. now \in Nat /\ business.purgeAt \in Nat
    BY DEF AccountsInv, Rows
  <2>3. QED
    BY <2>1, <2>2 DEF AccountsInv, Purges
<1>4. QED
  BY <1>1, <1>2, <1>3 DEF AccountsInv

\* A request that ends, while nobody leaves.
LEMMA EndRequests ==
    ASSUME Requests, NEW t \in Sessions, End(t),
           \A u \in Users : user[u].there => user'[u].there
    PROVE  Requests' /\ Unassigned(t)' /\ \A u \in Sessions : Unassigned(u) => Unassigned(u)'
<1>1. session' = [session EXCEPT ![t] = NoRequest]
  BY DEF End
<1>2. DOMAIN session' = Sessions /\ Unassigned(t)'
      /\ \A u \in Sessions \ {t} : session'[u] = session[u]
  BY <1>1 DEF Requests, Unassigned
<1>3. ASSUME NEW u \in Sessions \ {t}, Serves(u)
      PROVE  Serves(u)'
  BY <1>2, <1>3 DEF Serves
<1>4. QED
  BY <1>2, <1>3 DEF Requests, Unassigned

\* A request that begins.
LEMMA BeginRequests ==
    ASSUME Requests, NEW t \in Sessions, NEW STATE new, session' = [session EXCEPT ![t] = new],
           UNCHANGED user,
           new.op \in {"login"} \cup OwnerOps \cup AdminOps,
           new.user \in Users, user[new.user].there,
           IF new.op = "login" THEN new.row \in UserRow /\ new.at \in Nat
           ELSE new.target \in Users
    PROVE  Requests'
<1>1. /\ DOMAIN session' = Sessions /\ session'[t] = new
      /\ \A u \in Sessions \ {t} : session'[u] = session[u]
  BY DEF Requests
<1>2. Serves(t)'
  BY <1>1 DEF Serves
<1>3. ASSUME NEW u \in Sessions \ {t}
      PROVE  Unassigned(u)' \/ Serves(u)'
  BY <1>1 DEF Requests, Unassigned, Serves
<1>4. QED
  BY <1>1, <1>2, <1>3 DEF Requests

\* A login, or a request of the team, begins: not once all are erased.
LEMMA LoginReadInv ==
    ASSUME AccountsInv, NEW t \in Sessions, NEW u \in Users, NEW right \in BOOLEAN,
           LoginRead(t, u, right)
    PROVE  AccountsInv'
<1> DEFINE new == [op |-> "login", user |-> u, right |-> right, at |-> now,
                   row |-> user[u], scheduled |-> business.scheduled]
<1>1. /\ session' = [session EXCEPT ![t] = new] /\ user[u].there /\ ~user[u].erased
      /\ UNCHANGED <<now, business, user, refresh, access, mails, purging, late, disturbed>>
  BY DEF LoginRead
<1>2. /\ new.op = "login" /\ new.user = u /\ new.at = now /\ new.row = user[u]
      /\ user[u] \in UserRow /\ now \in Nat
  BY DEF AccountsInv, Rows
<1> HIDE DEF new
<1>3. Requests'
  BY <1>1, <1>2, BeginRequests DEF AccountsInv
<1>4. ~(business.purged /\ ~disturbed)
  BY <1>1 DEF AccountsInv, Purges
<1>5. Tokens' /\ RefreshTokensCurrent'
  BY <1>1 DEF AccountsInv, Tokens, RefreshTokensCurrent
<1>6. user' \in [Users -> UserRow] /\ now' \in Nat /\ now <= now'
  BY <1>1 DEF AccountsInv, Rows
<1>7. QED
  BY <1>1, <1>3, <1>4, <1>5, <1>6, SameTeam

LEMMA SendInv ==
    ASSUME AccountsInv, NEW t \in Sessions, NEW u \in Users, NEW v \in Users,
           NEW op \in OwnerOps \cup AdminOps, Send(t, u, op, v)
    PROVE  AccountsInv'
<1> DEFINE new == [op |-> op, user |-> u, target |-> v, business |-> business]
<1>1. /\ session' = [session EXCEPT ![t] = new] /\ HasAccess(u) /\ user[u].active
      /\ UNCHANGED <<now, business, user, refresh, access, mails, purging, late, disturbed>>
  BY DEF Send, May, Entitled
<1>2. user[u].there
  BY <1>1 DEF HasAccess, AccountsInv, Tokens
<1>3. new.op = op /\ new.user = u /\ new.target = v /\ op # "login"
  BY DEF OwnerOps, AdminOps
<1> HIDE DEF new
<1>4. Requests'
  BY <1>1, <1>2, <1>3, BeginRequests DEF AccountsInv
<1>5. ~(business.purged /\ ~disturbed)
  BY <1>1, <1>2 DEF AccountsInv, Purges
<1>6. Tokens' /\ RefreshTokensCurrent'
  BY <1>1 DEF AccountsInv, Tokens, RefreshTokensCurrent
<1>7. user' \in [Users -> UserRow] /\ now' \in Nat /\ now <= now'
  BY <1>1 DEF AccountsInv, Rows
<1>8. QED
  BY <1>1, <1>4, <1>5, <1>6, <1>7, SameTeam

\* The second half of a login.
LEMMA LoginStepInv ==
    ASSUME AccountsInv, NEW t \in Sessions, LoginStep(t)
    PROVE  AccountsInv'
<1> DEFINE u == session[t].user
<1>1. /\ session[t].op = "login" /\ u \in Users /\ user[u].there
      /\ session[t].row \in UserRow /\ session[t].at \in Nat
  BY DEF LoginStep, LoginFails, LoginRefused, LoginSucceeds, AccountsInv, Requests,
         Unassigned, NoRequest, Serves, OwnerOps, AdminOps
<1>2. End(t) /\ UNCHANGED <<now, business, mails, purging, late, disturbed>>
  BY DEF LoginStep, LoginFails, LoginRefused, LoginSucceeds
<1>3. /\ user' \in [Users -> UserRow]
      /\ \A v \in Users : /\ user'[v].there = user[v].there
                          /\ user'[v].role = user[v].role
                          /\ user'[v].active = user[v].active
                          /\ user'[v].erased = user[v].erased
                          /\ user'[v].password = user[v].password
  <2>1. CASE LoginFails(t)
    <3> DEFINE attempts == session[t].row.attempts + 1
               locked   == IF session[t].row.attempts + 1 >= Threshold
                           THEN session[t].at + Lock ELSE session[t].row.lockedUntil
    <3>1. attempts \in Nat /\ locked \in Nat
      BY <1>1, Lifetimes DEF UserRow
    <3>2. user' = [user EXCEPT ![u].attempts = attempts, ![u].lockedUntil = locked]
      BY <2>1 DEF LoginFails
    <3> HIDE DEF attempts, locked
    <3>3. QED
      BY <1>1, <3>1, <3>2 DEF AccountsInv, Rows, UserRow
  <2>2. CASE LoginRefused(t)
    BY <2>2 DEF LoginRefused, AccountsInv, Rows
  <2>3. CASE LoginSucceeds(t)
    <3>1. PICK attempts \in Nat, locked \in Nat :
             user' = [user EXCEPT ![u].attempts = attempts, ![u].lockedUntil = locked]
      <4> DEFINE attempts == IF session[t].row.attempts = 0 THEN user[u].attempts ELSE 0
                 locked   == IF session[t].row.lockedUntil = 0
                             THEN user[u].lockedUntil ELSE 0
      <4>1. attempts \in Nat /\ locked \in Nat
        BY <1>1 DEF AccountsInv, Rows, UserRow
      <4>2. user' = [user EXCEPT ![u].attempts = attempts, ![u].lockedUntil = locked]
        BY <2>3 DEF LoginSucceeds
      <4> HIDE DEF attempts, locked
      <4>3. QED
        BY <4>1, <4>2
    <3>2. QED
      BY <1>1, <3>1 DEF AccountsInv, Rows, UserRow
  <2>4. QED
    BY <2>1, <2>2, <2>3 DEF LoginStep
<1>4. Requests' /\ \A v \in Sessions : Unassigned(v) => Unassigned(v)'
  BY <1>2, <1>3, EndRequests DEF AccountsInv
<1>5. Tokens' /\ RefreshTokensCurrent'
  <2>1. CASE ~LoginSucceeds(t)
    <3>1. UNCHANGED <<refresh, access>>
      BY <2>1 DEF LoginStep, LoginFails, LoginRefused
    <3>2. QED
      BY <1>2, <1>3, <3>1
         DEF AccountsInv, Tokens, RefreshToken, AccessToken, RefreshTokensCurrent
  <2>2. CASE LoginSucceeds(t)
    <3> DEFINE new == NewRefresh(u, session[t].row.password,
                                 session[t].row.password # user[u].password
                                   \/ business.scheduled)
    <3>1. refresh' = refresh \cup {new} /\ access' = access \cup {NewAccess(u)}
      BY <2>2 DEF LoginSucceeds
    <3>2. NewAccess(u) \in AccessToken /\ NewAccess(u).user = u
      BY <1>1, Lifetimes DEF NewAccess, AccessToken, AccountsInv, Rows
    <3>3. /\ new \in RefreshToken /\ new.user = u
          /\ ~new.raced => new.password = user[u].password /\ ~business.scheduled
      <4>1. session[t].row.password \in Nat /\ now + Refresh \in Nat
        BY <1>1, Lifetimes DEF AccountsInv, Rows, UserRow
      <4>2. QED
        BY <1>1, <4>1 DEF NewRefresh, RefreshToken
    <3> HIDE DEF new
    <3>4. Tokens'
      BY <1>1, <1>2, <1>3, <3>1, <3>2, <3>3
         DEF AccountsInv, Tokens, RefreshToken, AccessToken
    <3>5. RefreshTokensCurrent'
      BY <1>1, <1>2, <1>3, <3>1, <3>3
         DEF AccountsInv, Tokens, RefreshToken, RefreshTokensCurrent
    <3>6. QED
      BY <3>4, <3>5
  <2>3. QED
    BY <2>1, <2>2
<1>6. now' \in Nat /\ now <= now'
  BY <1>2 DEF AccountsInv, Rows
<1>7. QED
  BY <1>2, <1>3, <1>4, <1>5, <1>6, SameTeam

\* Tokens are issued, used and forgotten.
LEMMA TokenInv ==
    ASSUME AccountsInv,
           \/ RefreshAccess \/ Logout \/ VerifyEmail \/ Tick
           \/ \E u \in Users : AskForMail(u)
    PROVE  AccountsInv'
<1>1. UNCHANGED <<business, purging, late, disturbed, session>>
  BY DEF RefreshAccess, Logout, VerifyEmail, Tick, AskForMail, Mail
<1>2. now' \in Nat /\ now <= now'
  <2>1. now' = now \/ now' = now + 1
    BY DEF RefreshAccess, Logout, VerifyEmail, Tick, AskForMail, Mail
  <2>2. QED
    BY <2>1 DEF AccountsInv, Rows
<1>3. refresh' \subseteq refresh
  BY DEF RefreshAccess, Logout, VerifyEmail, Tick, AskForMail, Mail
<1>4. access' \subseteq AccessToken /\ \A a \in access' : user[a.user].there
  <2>1. CASE RefreshAccess
    <3>1. PICK k \in refresh : access' = access \cup {NewAccess(k.user)}
      BY <2>1 DEF RefreshAccess
    <3>2. k.user \in Users /\ user[k.user].there
      BY DEF AccountsInv, Tokens, RefreshToken
    <3>3. NewAccess(k.user) \in AccessToken /\ NewAccess(k.user).user = k.user
      BY <3>2, Lifetimes DEF NewAccess, AccessToken, AccountsInv, Rows
    <3>4. QED
      BY <3>1, <3>2, <3>3 DEF AccountsInv, Tokens
  <2>2. CASE ~RefreshAccess
    <3>1. access' \subseteq access
      BY <2>2 DEF Logout, VerifyEmail, Tick, AskForMail, Mail
    <3>2. QED
      BY <3>1 DEF AccountsInv, Tokens
  <2>3. QED
    BY <2>1, <2>2
<1>5. mails' \subseteq MailToken
  <2>1. CASE \E u \in Users : AskForMail(u)
    <3>1. PICK u \in Users : AskForMail(u)
      BY <2>1
    <3>2. PICK kind \in {"reset", "verify"}, life \in {Reset, Verify} :
             mails' = mails \cup {[kind |-> kind, user |-> u, expires |-> now + life]}
      BY <3>1 DEF AskForMail, Mail
    <3>3. [kind |-> kind, user |-> u, expires |-> now + life] \in MailToken
      BY Lifetimes DEF MailToken, AccountsInv, Rows
    <3>4. QED
      BY <3>2, <3>3 DEF AccountsInv, Tokens
  <2>2. CASE ~\E u \in Users : AskForMail(u)
    <3>1. mails' \subseteq mails
      BY <2>2 DEF RefreshAccess, Logout, VerifyEmail, Tick
    <3>2. QED
      BY <3>1 DEF AccountsInv, Tokens
  <2>3. QED
    BY <2>1, <2>2
<1>6. /\ user' \in [Users -> UserRow]
      /\ \A u \in Users : /\ user'[u].there = user[u].there
                          /\ user'[u].role = user[u].role
                          /\ user'[u].active = user[u].active
                          /\ user'[u].erased = user[u].erased
                          /\ user'[u].password = user[u].password
  <2>1. CASE VerifyEmail
    <3>1. PICK m \in mails : user' = [user EXCEPT ![m.user].verified = TRUE]
      BY <2>1 DEF VerifyEmail
    <3>2. m.user \in Users
      BY DEF AccountsInv, Tokens, MailToken
    <3>3. user \in [Users -> UserRow]
      BY DEF AccountsInv, Rows
    <3>4. [user[m.user] EXCEPT !.verified = TRUE] \in UserRow
      BY <3>2, <3>3 DEF UserRow
    <3>5. user' = [user EXCEPT ![m.user] = [user[m.user] EXCEPT !.verified = TRUE]]
      BY <3>1
    <3>6. QED
      BY <3>2, <3>3, <3>4, <3>5 DEF UserRow
  <2>2. CASE ~VerifyEmail
    BY <2>2 DEF RefreshAccess, Logout, Tick, AskForMail, Mail, AccountsInv, Rows
  <2>3. QED
    BY <2>1, <2>2
<1>7. Tokens' /\ RefreshTokensCurrent'
  BY <1>1, <1>3, <1>4, <1>5, <1>6
     DEF AccountsInv, Tokens, RefreshToken, AccessToken, RefreshTokensCurrent
<1>8. Requests' /\ \A t \in Sessions : Unassigned(t) => Unassigned(t)'
  BY <1>1, <1>6 DEF AccountsInv, Requests, Serves, Unassigned
<1>9. QED
  BY <1>1, <1>2, <1>6, <1>7, <1>8, SameTeam

LEMMA ResetPasswordInv ==
    ASSUME AccountsInv, ResetPassword
    PROVE  AccountsInv'
<1>1. PICK m \in mails :
         /\ user' = [user EXCEPT ![m.user].password = @ + 1]
         /\ refresh' = refresh \ TokensOf(m.user)
         /\ mails' = mails \ {m}
         /\ UNCHANGED <<now, business, access, session, purging, late, disturbed>>
  BY DEF ResetPassword
<1>2. m.user \in Users
  BY DEF AccountsInv, Tokens, MailToken
<1>3. /\ user' \in [Users -> UserRow]
      /\ \A u \in Users : /\ user'[u].there = user[u].there
                          /\ user'[u].role = user[u].role
                          /\ user'[u].active = user[u].active
                          /\ user'[u].erased = user[u].erased
      /\ \A u \in Users \ {m.user} : user'[u] = user[u]
  BY <1>1, <1>2 DEF AccountsInv, Rows, UserRow
<1>4. refresh' \subseteq refresh /\ \A k \in refresh' : k.user # m.user
  BY <1>1 DEF TokensOf
<1>5. Tokens'
  BY <1>1, <1>3, <1>4 DEF AccountsInv, Tokens, RefreshToken, AccessToken
<1>6. RefreshTokensCurrent'
  BY <1>1, <1>3, <1>4 DEF AccountsInv, Tokens, RefreshToken, RefreshTokensCurrent
<1>7. Requests' /\ \A t \in Sessions : Unassigned(t) => Unassigned(t)'
  BY <1>1, <1>3 DEF AccountsInv, Requests, Serves, Unassigned
<1>8. now' \in Nat /\ now <= now'
  BY <1>1 DEF AccountsInv, Rows
<1>9. QED
  BY <1>1, <1>3, <1>5, <1>6, <1>7, <1>8, SameTeam

------------------------------------------------------------------------------
(* Requests of the team take effect.                                       *)

\* Who sent the request, and what it means that it is not too late.
LEMMA ActsFor ==
    ASSUME AccountsInv, NEW t \in Sessions, NEW op \in OwnerOps \cup AdminOps, Act(t, op)
    PROVE  /\ session[t].op = op /\ End(t) /\ UNCHANGED <<now, access, purging>>
           /\ session[t].user \in Users /\ user[session[t].user].there
           /\ session[t].target \in Users
           /\ late' \in BOOLEAN /\ disturbed' \in BOOLEAN
           /\ ~disturbed' => ~disturbed /\ ~purging.open /\ ~business.purged
           /\ ~late' => ~late /\ May(session[t].user, op)
<1>1. session[t].op = op /\ op # "login" /\ op # "none"
  BY DEF Act, OwnerOps, AdminOps
<1>2. ~Unassigned(t) /\ Serves(t)
  BY <1>1 DEF Unassigned, NoRequest, AccountsInv, Requests
<1>3. /\ late' = (late \/ ~May(session[t].user, op))
      /\ disturbed' = (disturbed \/ purging.open)
      /\ End(t) /\ UNCHANGED <<now, access, purging>>
  BY DEF Act
<1>4. May(session[t].user, op) \in BOOLEAN
  BY DEF May, Entitled
<1>5. late' \in BOOLEAN /\ (~late' => ~late /\ May(session[t].user, op))
  BY <1>3, <1>4
<1>6. disturbed' \in BOOLEAN /\ (~disturbed' => ~disturbed /\ ~purging.open)
  BY <1>3 DEF AccountsInv, Rows
<1>7. ~disturbed => ~business.purged
  BY <1>2 DEF AccountsInv, Purges
<1>8. QED
  BY <1>1, <1>2, <1>3, <1>5, <1>6, <1>7 DEF Serves

\* A request that has no purge beside it, and leaves somebody in charge.
LEMMA ActInv ==
    ASSUME AccountsInv, NEW t \in Sessions, NEW op \in OwnerOps \cup AdminOps, Act(t, op),
           user' \in [Users -> UserRow],
           \A u \in Users : user[u].there => user'[u].there,
           \A u \in Users : user'[u].password = user[u].password,
           business' \in [scheduled : BOOLEAN, purgeAt : Nat, purged : BOOLEAN],
           business'.purged = business.purged,
           refresh' \subseteq refresh, mails' \subseteq MailToken,
           business'.scheduled => business.scheduled \/ refresh' = {},
           SomeoneInCharge'
    PROVE  AccountsInv'
<1>1. /\ End(t) /\ UNCHANGED <<now, access, purging>>
      /\ late' \in BOOLEAN /\ disturbed' \in BOOLEAN
      /\ ~disturbed' => ~disturbed /\ ~purging.open /\ ~business.purged
  BY ActsFor
<1>2. Rows'
  BY <1>1 DEF AccountsInv, Rows
<1>3. Tokens'
  BY <1>1 DEF AccountsInv, Tokens, RefreshToken, AccessToken
<1>4. RefreshTokensCurrent'
  BY <1>1 DEF AccountsInv, Tokens, RefreshToken, RefreshTokensCurrent
<1>5. Requests'
  BY <1>1, EndRequests DEF AccountsInv
<1>6. Purges'
  BY <1>1 DEF Purges
<1>7. QED
  BY <1>2, <1>3, <1>4, <1>5, <1>6 DEF AccountsInv

\* Whoever could send a request keeps his place.
LEMMA SenderStays ==
    ASSUME AccountsInv, NEW t \in Sessions, NEW op \in AdminOps, Act(t, op),
           OthersRow(t), UNCHANGED business,
           \A u \in Users \ {session[t].target} : user'[u] = user[u]
    PROVE  SomeoneInCharge'
<1> DEFINE u == session[t].user
<1>1. u \in Users /\ user[u].there /\ u # session[t].target
      /\ (~late' => May(u, op))
  BY ActsFor DEF OthersRow
<1>2. user'[u] = user[u]
  BY <1>1
<1>3. SUFFICES ASSUME ~late'
               PROVE  /\ \E v \in ActiveUsers' : user'[v].role \in {"OWNER", "ADMIN"}
                      /\ business'.scheduled => \E v \in ActiveUsers' : user'[v].role = "OWNER"
  BY DEF SomeoneInCharge
<1>4. user[u].active /\ user[u].role \in {"OWNER", "ADMIN"}
      /\ (business.scheduled => user[u].role = "OWNER")
  BY <1>1, <1>3 DEF May, Entitled
<1>5. u \in ActiveUsers'
  BY <1>1, <1>2, <1>4 DEF ActiveUsers
<1>6. QED
  BY <1>2, <1>4, <1>5

\* Nobody loses his place.
LEMMA EverybodyStays ==
    ASSUME AccountsInv, NEW t \in Sessions, NEW op \in OwnerOps \cup AdminOps, Act(t, op),
           business'.purged = business.purged,
           business'.scheduled => business.scheduled,
           \A u \in Users : user[u].there /\ user[u].active =>
              user'[u].there /\ user'[u].active /\ user'[u].role = user[u].role
    PROVE  SomeoneInCharge'
<1>1. ~late' => ~late
  BY ActsFor
<1>2. \A u \in ActiveUsers : u \in ActiveUsers' /\ user'[u].role = user[u].role
  BY DEF ActiveUsers
<1>3. QED
  BY <1>1, <1>2 DEF AccountsInv, SomeoneInCharge

LEMMA RequestInv ==
    ASSUME AccountsInv, NEW t \in Sessions, RequestStep(t), ~Refuse(t)
    PROVE  AccountsInv'
<1> DEFINE u == session[t].target
<1>1. /\ user \in [Users -> UserRow] /\ mails \subseteq MailToken
      /\ business \in [scheduled : BOOLEAN, purgeAt : Nat, purged : BOOLEAN]
  BY DEF AccountsInv, Rows, Tokens
<1>2. ASSUME NEW op \in OwnerOps \cup AdminOps, Act(t, op)
      PROVE  u \in Users
  BY <1>2, ActsFor
<1>3. CASE DeactivateUser(t)
  <2>1. /\ Act(t, "deactivate") /\ OthersRow(t) /\ u \in Users
        /\ user' = [user EXCEPT ![u].active = FALSE]
        /\ refresh' \subseteq refresh /\ UNCHANGED <<business, mails>>
    BY <1>2, <1>3 DEF DeactivateUser, TokensOf, AdminOps
  <2>2. user' \in [Users -> UserRow] /\ \A v \in Users :
           user'[v].there = user[v].there /\ user'[v].password = user[v].password
    BY <1>1, <2>1 DEF UserRow
  <2>3. \A v \in Users \ {u} : user'[v] = user[v]
    BY <1>1, <2>1
  <2>4. SomeoneInCharge'
    BY <2>1, <2>3, SenderStays DEF AdminOps
  <2>5. QED
    BY <1>1, <2>1, <2>2, <2>4, ActInv DEF AdminOps
<1>4. ASSUME NEW op \in {"promote", "demote"}, NEW role \in Roles, ChangeRole(t, op, role)
      PROVE  AccountsInv'
  <2>1. /\ Act(t, op) /\ OthersRow(t) /\ u \in Users
        /\ user' = [user EXCEPT ![u].role = role]
        /\ UNCHANGED <<business, mails, refresh>>
    BY <1>2, <1>4 DEF ChangeRole, AdminOps
  <2>2. user' \in [Users -> UserRow] /\ \A v \in Users :
           user'[v].there = user[v].there /\ user'[v].password = user[v].password
    BY <1>1, <2>1 DEF UserRow
  <2>3. \A v \in Users \ {u} : user'[v] = user[v]
    BY <1>1, <2>1
  <2>4. SomeoneInCharge'
    BY <2>1, <2>3, SenderStays DEF AdminOps
  <2>5. QED
    BY <1>1, <2>1, <2>2, <2>4, ActInv DEF AdminOps
<1>5. CASE Activate(t)
  <2>1. /\ Act(t, "activate") /\ u \in Users /\ user' = [user EXCEPT ![u].active = TRUE]
        /\ UNCHANGED <<business, mails, refresh>>
    BY <1>2, <1>5 DEF Activate, AdminOps
  <2>2. user' \in [Users -> UserRow] /\ \A v \in Users :
           /\ user'[v].there = user[v].there /\ user'[v].password = user[v].password
           /\ user'[v].role = user[v].role /\ (user[v].active => user'[v].active)
    BY <1>1, <2>1 DEF UserRow
  <2>3. SomeoneInCharge'
    BY <2>1, <2>2, EverybodyStays DEF AdminOps
  <2>4. QED
    BY <1>1, <2>1, <2>2, <2>3, ActInv DEF AdminOps
<1>6. CASE Unlock(t)
  <2>1. /\ Act(t, "unlock") /\ u \in Users
        /\ user' = [user EXCEPT ![u].attempts = 0, ![u].lockedUntil = 0]
        /\ UNCHANGED <<business, mails, refresh>>
    BY <1>2, <1>6 DEF Unlock, AdminOps
  <2>2. user' \in [Users -> UserRow] /\ \A v \in Users :
           /\ user'[v].there = user[v].there /\ user'[v].password = user[v].password
           /\ user'[v].role = user[v].role /\ user'[v].active = user[v].active
    BY <1>1, <2>1 DEF UserRow
  <2>3. SomeoneInCharge'
    BY <2>1, <2>2, EverybodyStays DEF AdminOps
  <2>4. QED
    BY <1>1, <2>1, <2>2, <2>3, ActInv DEF AdminOps
<1>7. CASE AdminMail(t)
  <2> DEFINE mail == [kind |-> "reset", user |-> u, expires |-> now + Reset]
  <2>1. /\ Act(t, "mail") /\ u \in Users /\ mails' = mails \cup {mail}
        /\ UNCHANGED <<business, user, refresh>>
    BY <1>2, <1>7 DEF AdminMail, AdminOps
  <2>2. mail \in MailToken
    BY <2>1, Lifetimes DEF MailToken, AccountsInv, Rows
  <2>3. SomeoneInCharge'
    BY <2>1, EverybodyStays DEF AdminOps
  <2>4. QED
    BY <1>1, <2>1, <2>2, <2>3, ActInv DEF AdminOps
<1>8. CASE Invite(t)
  <2>1. /\ Act(t, "invite") /\ u \in Users /\ user' = [user EXCEPT ![u].there = TRUE]
        /\ UNCHANGED <<business, mails, refresh>>
    BY <1>2, <1>8 DEF Invite, AdminOps
  <2>2. user' \in [Users -> UserRow] /\ \A v \in Users :
           /\ user[v].there => user'[v].there
           /\ user'[v].password = user[v].password
           /\ user'[v].role = user[v].role /\ user'[v].active = user[v].active
    BY <1>1, <2>1 DEF UserRow
  <2>3. SomeoneInCharge'
    BY <2>1, <2>2, EverybodyStays DEF AdminOps
  <2>4. QED
    BY <1>1, <2>1, <2>2, <2>3, ActInv DEF AdminOps
<1>9. CASE Close(t)
  <2>1. /\ Act(t, "close") /\ UNCHANGED <<user, mails>>
        /\ business' = [business EXCEPT !.scheduled = TRUE, !.purgeAt = now + Grace]
        /\ refresh' = refresh \ UNION {TokensOf(v) : v \in Users}
    BY <1>9 DEF Close
  <2>2. refresh' = {}
    BY <2>1 DEF TokensOf, AccountsInv, Tokens, RefreshToken
  <2>3. business' \in [scheduled : BOOLEAN, purgeAt : Nat, purged : BOOLEAN]
        /\ business'.purged = business.purged
    <3>1. now + Grace \in Nat /\ business \in [scheduled : BOOLEAN, purgeAt : Nat, purged : BOOLEAN]
      BY <1>1, Lifetimes DEF AccountsInv, Rows
    <3>2. QED
      BY <2>1, <3>1
  <2>4. SomeoneInCharge'
    <3> DEFINE w == session[t].user
    <3>1. w \in Users /\ user[w].there /\ (~late' => May(w, "close"))
      BY <2>1, ActsFor DEF OwnerOps
    <3>2. May(w, "close") => user[w].active /\ user[w].role = "OWNER"
      BY DEF May, Entitled, AdminOps
    <3>3. ~late' => w \in ActiveUsers' /\ user'[w].role = "OWNER"
      BY <2>1, <3>1, <3>2 DEF ActiveUsers
    <3>4. QED
      BY <3>3 DEF SomeoneInCharge
  <2>5. QED
    BY <1>1, <2>1, <2>2, <2>3, <2>4, ActInv DEF OwnerOps
<1>10. CASE CancelDeletion(t)
  <2>1. /\ Act(t, "cancel") /\ UNCHANGED <<user, mails, refresh>>
        /\ business' = [business EXCEPT !.scheduled = FALSE, !.purgeAt = 0]
    BY <1>10 DEF CancelDeletion
  <2>2. /\ business' \in [scheduled : BOOLEAN, purgeAt : Nat, purged : BOOLEAN]
        /\ business'.purged = business.purged /\ ~business'.scheduled
    BY <1>1, <2>1
  <2>3. SomeoneInCharge'
    BY <2>1, <2>2, EverybodyStays DEF OwnerOps
  <2>4. QED
    BY <1>1, <2>1, <2>2, <2>3, ActInv DEF OwnerOps
<1>11. "ADMIN" \in Roles /\ "SALES_MANAGER" \in Roles
  BY DEF Roles
<1>12. QED
  BY <1>3, <1>4, <1>5, <1>6, <1>7, <1>8, <1>9, <1>10, <1>11 DEF RequestStep

\* A request that is refused when it is about to take effect.
LEMMA RefuseInv ==
    ASSUME AccountsInv, NEW t \in Sessions, Refuse(t)
    PROVE  AccountsInv'
<1>1. End(t) /\ UNCHANGED <<now, business, user, refresh, access, mails, purging, late, disturbed>>
  BY DEF Refuse
<1>2. Requests' /\ \A v \in Sessions : Unassigned(v) => Unassigned(v)'
  BY <1>1, EndRequests DEF AccountsInv
<1>3. Tokens' /\ RefreshTokensCurrent'
  BY <1>1 DEF AccountsInv, Tokens, RefreshTokensCurrent
<1>4. user' \in [Users -> UserRow] /\ now' \in Nat /\ now <= now'
  BY <1>1 DEF AccountsInv, Rows
<1>5. QED
  BY <1>1, <1>2, <1>3, <1>4, SameTeam

------------------------------------------------------------------------------
(* The purge.                                                              *)

LEMMA SelectDueInv ==
    ASSUME AccountsInv, SelectDue
    PROVE  AccountsInv'
<1>1. /\ Due /\ purging' = [open |-> TRUE, users |-> {u \in Users : user[u].there}]
      /\ disturbed' = (disturbed \/ InFlight)
      /\ UNCHANGED <<now, business, user, refresh, access, mails, session, late>>
  BY DEF SelectDue
<1>2. InFlight \in BOOLEAN
  BY DEF InFlight
<1>3. Rows'
  BY <1>1, <1>2 DEF AccountsInv, Rows
<1>4. Tokens' /\ Requests'
  BY <1>1 DEF AccountsInv, Tokens, Requests, Serves, Unassigned
<1>5. RefreshTokensCurrent'
  BY <1>1, <1>2 DEF AccountsInv, Rows, RefreshTokensCurrent
<1>6. SomeoneInCharge'
  BY <1>1 DEF AccountsInv, SomeoneInCharge, ActiveUsers
<1>7. Purges'
  BY <1>1 DEF Purges, Due
<1>8. QED
  BY <1>3, <1>4, <1>5, <1>6, <1>7 DEF AccountsInv

LEMMA PurgeInv ==
    ASSUME AccountsInv, Purge
    PROVE  AccountsInv'
<1>1. /\ purging.open /\ business' = [business EXCEPT !.purged = TRUE]
      /\ user' = [u \in Users |-> IF u \in purging.users THEN PurgedRow(user[u]) ELSE user[u]]
      /\ purging' = NoPurge /\ disturbed' = (disturbed \/ InFlight)
      /\ UNCHANGED <<now, refresh, access, mails, session, late>>
  BY DEF Purge
<1>2. InFlight \in BOOLEAN
  BY DEF InFlight
<1>3. /\ \A u \in Users : PurgedRow(user[u]) \in UserRow
      /\ \A u \in Users : /\ PurgedRow(user[u]).there = user[u].there
                          /\ PurgedRow(user[u]).erased /\ ~PurgedRow(user[u]).active
  BY DEF AccountsInv, Rows, PurgedRow, UserRow
<1>4. user' \in [Users -> UserRow] /\ \A u \in Users : user'[u].there = user[u].there
  BY <1>1, <1>3 DEF AccountsInv, Rows
<1>5. /\ business' \in [scheduled : BOOLEAN, purgeAt : Nat, purged : BOOLEAN]
      /\ business'.purged /\ business'.scheduled = business.scheduled
  BY <1>1 DEF AccountsInv, Rows
<1>6. Rows'
  BY <1>1, <1>2, <1>4, <1>5 DEF AccountsInv, Rows, NoPurge
<1>7. Tokens' /\ Requests'
  BY <1>1, <1>4
     DEF AccountsInv, Tokens, RefreshToken, AccessToken, Requests, Serves, Unassigned
<1>8. ~disturbed' => ~disturbed /\ business.scheduled /\ \A t \in Sessions : Unassigned(t)
  BY <1>1 DEF AccountsInv, Purges, InFlight
<1>9. RefreshTokensCurrent'
  BY <1>1, <1>5, <1>8 DEF AccountsInv, RefreshTokensCurrent
<1>10. SomeoneInCharge'
  BY <1>5 DEF SomeoneInCharge
<1>11. Purges'
  <2>1. ~purging'.open
    BY <1>1 DEF NoPurge
  <2>2. ~disturbed' => \A u \in Users : user'[u].there => user'[u].erased /\ ~user'[u].active
    BY <1>1, <1>3, <1>4, <1>8 DEF AccountsInv, Purges
  <2>3. ~disturbed' => \A t \in Sessions : Unassigned(t)'
    BY <1>1, <1>8 DEF Unassigned
  <2>4. QED
    BY <1>5, <1>8, <2>1, <2>2, <2>3 DEF Purges
<1>12. QED
  BY <1>6, <1>7, <1>9, <1>10, <1>11 DEF AccountsInv

------------------------------------------------------------------------------
LEMMA InitInv == Init => AccountsInv
<1> SUFFICES ASSUME Init PROVE AccountsInv
  OBVIOUS
<1>1. PICK verified \in BOOLEAN, team \in SUBSET Others,
           role \in [Others -> Roles \ {"OWNER"}] :
         /\ user = [u \in Users |->
                      IF u = Owner THEN Row("OWNER", verified)
                      ELSE [Row(role[u], TRUE) EXCEPT !.there = u \in team]]
         /\ mails = IF verified THEN {}
                    ELSE {[kind |-> "verify", user |-> Owner, expires |-> now + Verify]}
         /\ refresh = {NewRefresh(u, 1, FALSE) : u \in {v \in Users : verified /\ user[v].there}}
         /\ access = {NewAccess(k.user) : k \in refresh}
  BY DEF Init
<1>2. /\ now = 1 /\ business = [scheduled |-> FALSE, purgeAt |-> 0, purged |-> FALSE]
      /\ session = [t \in Sessions |-> NoRequest]
      /\ purging = NoPurge /\ late = FALSE /\ disturbed = FALSE
  BY DEF Init
<1>3. \A u \in Users : user[u] \in UserRow /\ user[u].password = 1
  <2>1. ASSUME NEW u \in Users
        PROVE  user[u] \in UserRow /\ user[u].password = 1
    <3>1. CASE u = Owner
      BY <1>1, <3>1 DEF Row, UserRow, Roles
    <3>2. CASE u # Owner
      <4>1. u \in Others /\ role[u] \in Roles
        BY <3>2 DEF Users
      <4>2. user[u] = [Row(role[u], TRUE) EXCEPT !.there = u \in team]
        BY <1>1, <3>2
      <4>3. Row(role[u], TRUE) \in UserRow /\ Row(role[u], TRUE).password = 1
        BY <4>1 DEF Row, UserRow
      <4>4. (u \in team) \in BOOLEAN
        OBVIOUS
      <4>5. QED
        BY <4>2, <4>3, <4>4 DEF UserRow
    <3>3. QED
      BY <3>1, <3>2
  <2>2. QED
    BY <2>1
<1>4. Rows
  BY <1>1, <1>2, <1>3 DEF Rows, NoPurge
<1>5. /\ refresh \subseteq RefreshToken
      /\ \A k \in refresh : /\ k.user \in Users /\ user[k.user].there
                            /\ k.password = 1
  <2>1. ASSUME NEW k \in refresh
        PROVE  /\ k \in RefreshToken /\ k.user \in Users /\ user[k.user].there
               /\ k.password = 1
    <3>1. PICK u \in Users : user[u].there /\ k = NewRefresh(u, 1, FALSE)
      BY <1>1, <2>1
    <3>2. now + Refresh \in Nat
      BY <1>2, Lifetimes
    <3>3. QED
      BY <3>1, <3>2 DEF NewRefresh, RefreshToken
  <2>2. QED
    BY <2>1
<1>6. access \subseteq AccessToken /\ \A a \in access : user[a.user].there
  <2>1. ASSUME NEW a \in access
        PROVE  a \in AccessToken /\ user[a.user].there
    <3>1. PICK k \in refresh : a = NewAccess(k.user)
      BY <1>1, <2>1
    <3>2. now + Access \in Nat
      BY <1>2, Lifetimes
    <3>3. QED
      BY <1>5, <3>1, <3>2 DEF NewAccess, AccessToken
  <2>2. QED
    BY <2>1
<1>7. mails \subseteq MailToken
  BY <1>1, <1>2, Lifetimes DEF MailToken, Users
<1>8. Tokens
  BY <1>5, <1>6, <1>7 DEF Tokens
<1>9. Requests
  BY <1>2 DEF Requests, Unassigned
<1>10. RefreshTokensCurrent
  BY <1>2, <1>3, <1>5 DEF RefreshTokensCurrent
<1>11. SomeoneInCharge
  <2>1. Owner \in ActiveUsers /\ user[Owner].role = "OWNER"
    BY <1>1 DEF ActiveUsers, Users, Row
  <2>2. QED
    BY <2>1 DEF SomeoneInCharge
<1>12. Purges
  BY <1>2 DEF Purges, NoPurge
<1>13. QED
  BY <1>4, <1>8, <1>9, <1>10, <1>11, <1>12 DEF AccountsInv

LEMMA StepInv ==
    ASSUME AccountsInv, [Next]_vars
    PROVE  AccountsInv'
<1>1. CASE UNCHANGED vars
  <2>1. Tokens' /\ RefreshTokensCurrent' /\ Requests' /\ \A t \in Sessions : Unassigned(t) => Unassigned(t)'
    BY <1>1 DEF vars, AccountsInv, Tokens, RefreshTokensCurrent, Requests, Serves, Unassigned
  <2>2. user' \in [Users -> UserRow] /\ now' \in Nat /\ now <= now'
    BY <1>1 DEF vars, AccountsInv, Rows
  <2>3. QED
    BY <1>1, <2>1, <2>2, SameTeam DEF vars
<1>2. ASSUME NEW t \in Sessions, RequestStep(t)
      PROVE  AccountsInv'
  BY <1>2, RequestInv, RefuseInv
<1>3. QED
  BY <1>1, <1>2, LoginReadInv, SendInv, LoginStepInv, TokenInv, ResetPasswordInv,
     SelectDueInv, PurgeInv DEF Next

THEOREM AccountsInvHolds == Spec => []AccountsInv
  BY InitInv, StepInv, PTL DEF Spec

\* For any team, lifetimes and number of overlapping requests: a refresh token
\* stands for the current password of a business that is not closing.
THEOREM RefreshTokensCurrentHolds == Spec => []RefreshTokensCurrent
<1>1. AccountsInv => RefreshTokensCurrent
  BY DEF AccountsInv
<1>2. QED
  BY <1>1, AccountsInvHolds, PTL

\* Demotions, deactivations and a deletion leave somebody who can manage the
\* business, or restore it.
THEOREM SomeoneInChargeHolds == Spec => []SomeoneInCharge
<1>1. AccountsInv => SomeoneInCharge
  BY DEF AccountsInv
<1>2. QED
  BY <1>1, AccountsInvHolds, PTL

\* What purge_deleted_businesses() erased stays erased.
THEOREM PurgeFinalHolds == Spec => []PurgeFinal
<1>1. AccountsInv => PurgeFinal
  BY DEF AccountsInv, Purges, PurgeFinal, ActiveUsers
<1>2. QED
  BY <1>1, AccountsInvHolds, PTL

\* It erases a business only when its grace period is over and nobody cancelled.
THEOREM PurgeOnlyWhenDueHolds == Spec => PurgeOnlyWhenDue
<1>1. ASSUME AccountsInv, [Next]_vars
      PROVE  [business'.purged /\ ~business.purged /\ ~disturbed' =>
                 business.scheduled /\ business.purgeAt <= now]_vars
  <2>1. CASE Purge
    BY <1>1, <2>1 DEF Purge, AccountsInv, Rows, Purges
  <2>2. CASE ~Purge
    <3>1. business'.purged = business.purged
      <4>1. \/ UNCHANGED business
            \/ business' = [business EXCEPT !.scheduled = FALSE, !.purgeAt = 0]
            \/ business' = [business EXCEPT !.scheduled = TRUE, !.purgeAt = now + Grace]
        BY <1>1, <2>2 DEF Next, vars, LoginRead, Send, LoginStep, LoginFails, LoginRefused,
           LoginSucceeds, RequestStep, DeactivateUser, Activate, Unlock, AdminMail, Invite,
           ChangeRole, Close, CancelDeletion, Refuse, AskForMail, Mail, RefreshAccess,
           Logout, ResetPassword, VerifyEmail, SelectDue, Tick
      <4>2. QED
        BY <1>1, <4>1 DEF AccountsInv, Rows
    <3>2. QED
      BY <3>1
  <2>3. QED
    BY <2>1, <2>2
<1>2. QED
  BY <1>1, AccountsInvHolds, PTL DEF Spec, PurgeOnlyWhenDue

=============================================================================
