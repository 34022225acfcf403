---------------------------- MODULE SaleTx_proofs ----------------------------
(***************************************************************************)
(* However many sales, edits and voids overlap, what they do to the stock  *)
(* rows implements the account: no movement is lost, no row goes negative  *)
(* (AccountInv, StepBooks).  And the batches and the sales' ledgers stay   *)
(* in balance: no unit is costed twice, none is lost, and no sale records  *)
(* more than its quantity (LedgersInv).                                    *)
(***************************************************************************)
EXTENDS SaleTx, SumTheorems, TLAPS

LEMMA SingleRow ==
    ASSUME NEW STATE i, NEW STATE v
    PROVE  DOMAIN Only(i, v) = {i} /\ Only(i, v)[i] = v
BY DEF Only

\* A stock row is no other row, nor the stock row of another variant.
LEMMA RowsDiffer ==
    ASSUME NEW r
    PROVE  /\ \A q : StockRow(q) = StockRow(r) => q = r
           /\ \A s : SaleRow(s) # StockRow(r)
           /\ \A k : Batch(k) # StockRow(r) /\ Lot(k) # StockRow(r)
BY DEF StockRow, SaleRow, Batch, Lot

------------------------------------------------------------------------------
(* The statements a request has left: it books once, and commits last.     *)

Planned(steps) ==
    /\ \A i, j \in 1..Len(steps) : steps[i] = "stock" /\ steps[j] = "stock" => i = j
    /\ steps # <<>> => steps[Len(steps)] = "commit"
Ahead(steps) == \E i \in 1..Len(steps) : steps[i] = "stock"

Names == {"sale", "stock", "unfifo", "fifo", "unlots", "lots", "write", "commit"}

LEMMA AllPlanned ==
    ASSUME NEW kind \in {"create", "update", "void"}
    PROVE  Steps[kind] \in Seq(Names) /\ Steps[kind] # <<>> /\ Planned(Steps[kind])
<1>1. CASE kind = "create"
  <2> DEFINE s == <<"stock", "fifo", "lots", "write", "commit">>
  <2>1. Steps[kind] = s
    BY <1>1 DEF Steps
  <2>2. s \in Seq(Names) /\ Len(s) = 5 /\ s # <<>>
    BY DEF Names
  <2>3. /\ s[1] = "stock"
        /\ s[2] = "fifo"
        /\ s[3] = "lots"
        /\ s[4] = "write"
        /\ s[5] = "commit"
    OBVIOUS
  <2> HIDE DEF s
  <2>4. \A i \in 1..5 : s[i] = "stock" => i = 1
    <3>1. \A i \in 1..5 : i = 1 \/ i = 2 \/ i = 3 \/ i = 4 \/ i = 5
      OBVIOUS
    <3>2. QED
      BY <2>3, <3>1
  <2>5. QED
    BY <2>1, <2>2, <2>3, <2>4 DEF Planned
<1>2. CASE kind = "update"
  <2> DEFINE s == <<"sale", "stock", "unfifo", "fifo", "unlots", "lots", "write", "commit">>
  <2>1. Steps[kind] = s
    BY <1>2 DEF Steps
  <2>2. s \in Seq(Names) /\ Len(s) = 8 /\ s # <<>>
    BY DEF Names
  <2>3. /\ s[1] = "sale"
        /\ s[2] = "stock"
        /\ s[3] = "unfifo"
        /\ s[4] = "fifo"
        /\ s[5] = "unlots"
        /\ s[6] = "lots"
        /\ s[7] = "write"
        /\ s[8] = "commit"
    OBVIOUS
  <2> HIDE DEF s
  <2>4. \A i \in 1..8 : s[i] = "stock" => i = 2
    <3>1. \A i \in 1..8 : i = 1 \/ i = 2 \/ i = 3 \/ i = 4 \/ i = 5 \/ i = 6 \/ i = 7 \/ i = 8
      OBVIOUS
    <3>2. QED
      BY <2>3, <3>1
  <2>5. QED
    BY <2>1, <2>2, <2>3, <2>4 DEF Planned
<1>3. CASE kind = "void"
  <2> DEFINE s == <<"sale", "stock", "unfifo", "unlots", "commit">>
  <2>1. Steps[kind] = s
    BY <1>3 DEF Steps
  <2>2. s \in Seq(Names) /\ Len(s) = 5 /\ s # <<>>
    BY DEF Names
  <2>3. /\ s[1] = "sale"
        /\ s[2] = "stock"
        /\ s[3] = "unfifo"
        /\ s[4] = "unlots"
        /\ s[5] = "commit"
    OBVIOUS
  <2> HIDE DEF s
  <2>4. \A i \in 1..5 : s[i] = "stock" => i = 2
    <3>1. \A i \in 1..5 : i = 1 \/ i = 2 \/ i = 3 \/ i = 4 \/ i = 5
      OBVIOUS
    <3>2. QED
      BY <2>3, <3>1
  <2>5. QED
    BY <2>1, <2>2, <2>3, <2>4 DEF Planned
<1>4. QED
  BY <1>1, <1>2, <1>3

LEMMA NextPlanned ==
    ASSUME NEW steps \in Seq(Names), steps # <<>>, Planned(steps)
    PROVE  /\ Tail(steps) \in Seq(Names) /\ Planned(Tail(steps))
           /\ Ahead(Tail(steps)) => Ahead(steps) /\ Head(steps) # "stock"
           /\ Head(steps) # "commit" => Tail(steps) # <<>>
<1>1. /\ Len(steps) \in Nat \ {0} /\ Len(Tail(steps)) = Len(steps) - 1
      /\ \A i \in 1..Len(Tail(steps)) : Tail(steps)[i] = steps[i + 1]
      /\ Head(steps) = steps[1] /\ Tail(steps) \in Seq(Names)
  OBVIOUS
<1>2. \A i, j \in 1..Len(Tail(steps)) :
          Tail(steps)[i] = "stock" /\ Tail(steps)[j] = "stock" => i = j
  <2>1. ASSUME NEW i \in 1..Len(Tail(steps)), NEW j \in 1..Len(Tail(steps)),
               Tail(steps)[i] = "stock", Tail(steps)[j] = "stock"
        PROVE  i = j
    <3>1. i + 1 \in 1..Len(steps) /\ j + 1 \in 1..Len(steps)
      BY <1>1
    <3>2. i + 1 = j + 1
      BY <1>1, <2>1, <3>1 DEF Planned
    <3>3. QED
      BY <3>2
  <2>2. QED
    BY <2>1
<1>3. ASSUME Ahead(Tail(steps))
      PROVE  Ahead(steps) /\ Head(steps) # "stock"
  <2>1. PICK i \in 1..Len(Tail(steps)) : Tail(steps)[i] = "stock"
    BY <1>3 DEF Ahead
  <2>2. i + 1 \in 1..Len(steps) /\ 1 \in 1..Len(steps) /\ i + 1 # 1
    BY <1>1
  <2>3. steps[i + 1] = "stock"
    BY <1>1, <2>1
  <2>4. QED
    BY <1>1, <2>2, <2>3 DEF Planned, Ahead
<1>4. ASSUME Tail(steps) # <<>>
      PROVE  Tail(steps)[Len(Tail(steps))] = "commit"
  <2>1. Len(Tail(steps)) \in 1..Len(Tail(steps)) /\ Len(Tail(steps)) + 1 = Len(steps)
    BY <1>1, <1>4
  <2>2. Tail(steps)[Len(Tail(steps))] = steps[Len(steps)]
    BY <1>1, <2>1
  <2>3. QED
    BY <2>2 DEF Planned
<1>5. ASSUME Head(steps) # "commit"
      PROVE  Tail(steps) # <<>>
  <2>1. steps[Len(steps)] = "commit"
    BY DEF Planned
  <2>2. Len(steps) # 1
    BY <1>1, <1>5, <2>1
  <2>3. Len(Tail(steps)) # 0
    BY <1>1, <2>2
  <2>4. Len(<<>>) = 0
    OBVIOUS
  <2>5. QED
    BY <2>3, <2>4
<1>6. QED
  BY <1>1, <1>2, <1>3, <1>4, <1>5 DEF Planned

LEMMA EmptyPlanned == <<>> \in Seq(Names) /\ Planned(<<>>)
<1>1. <<>> \in Seq(Names) /\ Len(<<>>) = 0
  OBVIOUS
<1>2. QED
  BY <1>1 DEF Planned

------------------------------------------------------------------------------
(* The inductive invariant.                                                *)

\* The column of a sale that says what it moves.
SaleLike(x) == "quantity" \in DOMAIN x /\ x.quantity \in Nat

Holds(t, r) == StockRow(r) \in Locked(t)

Tables ==
    /\ DOMAIN own = Txs /\ DOMAIN todo = Txs /\ DOMAIN request = Txs
    /\ DOMAIN was = Txs /\ DOMAIN change = Txs
    /\ RowIds \subseteq DOMAIN db
    /\ moved \in [Rows -> Nat]

\* A request is about one sale and one stock row.
Asked(t) ==
    /\ was[t] \in Nat
    /\ ~Idle(t) => /\ request[t].kind \in {"create", "update", "void"}
                   /\ request[t].sale \in Sales /\ request[t].row \in Rows
                   /\ request[t].quantity \in Nat

\* While it runs it locks no stock row but that one, once it has booked, and
\* keeps there what is committed and its own movement.
Booking(t) ==
    /\ todo[t] \in Seq(Names) /\ Planned(todo[t])
    /\ change[t] \in Int
    /\ change[t] # 0 => ~Idle(t) /\ Holds(t, request[t].row)
    /\ \A r \in Rows : Holds(t, r) =>
          /\ ~Idle(t) /\ r = request[t].row /\ ~Ahead(todo[t])
          /\ own[t][StockRow(r)] = db[StockRow(r)] + change[t]
          /\ own[t][StockRow(r)] \in Nat

SaleRows ==
    \A s \in Sales :
        /\ SaleLike(db[SaleRow(s)])
        /\ \A t \in Txs : SaleRow(s) \in Locked(t) => SaleLike(own[t][SaleRow(s)])

\* Nobody books a stock row another request has booked and not ended.
Exclusive ==
    \A t, u \in Txs : t # u => \A r \in Rows : ~(Holds(t, r) /\ Holds(u, r))

Explained == \A r \in Rows : db[StockRow(r)] \in Nat /\ moved[r] = db[StockRow(r)]

AccountInv ==
    /\ Tables /\ SaleRows /\ Exclusive /\ Explained
    /\ \A t \in Txs : Asked(t) /\ Booking(t)

------------------------------------------------------------------------------
(* Lemmas about rows.                                                      *)

LEMMA SaleFields ==
    ASSUME NEW STATE x, NEW STATE v, SaleLike(x)
    PROVE  /\ SaleLike([x EXCEPT !.fifo = v]) /\ SaleLike([x EXCEPT !.lots = v])
           /\ SaleLike([x EXCEPT !.state = v])
           /\ v \in Nat => SaleLike([x EXCEPT !.quantity = v])
BY DEF SaleLike

\* A write of a sale, and of batches or lots, touches no stock row.
OffStock(values) ==
    /\ \A r \in Rows : StockRow(r) \notin DOMAIN values
    /\ \A s \in Sales : SaleRow(s) \in DOMAIN values => SaleLike(values[SaleRow(s)])

LEMMA SaleAndLots ==
    ASSUME NEW s \in Sales, NEW STATE v, SaleLike(v), NEW STATE others,
           \A i \in DOMAIN others : \E k \in Slots : i = Batch(k) \/ i = Lot(k)
    PROVE  OffStock(Over(Only(SaleRow(s), v), others))
<1> DEFINE one == Only(SaleRow(s), v)
<1>1. DOMAIN one = {SaleRow(s)} /\ one[SaleRow(s)] = v
  BY SingleRow
<1> HIDE DEF one
<1>2. /\ DOMAIN Over(one, others) = {SaleRow(s)} \cup DOMAIN others
      /\ Over(one, others)[SaleRow(s)] = v
  BY <1>1 DEF Over
<1>3. \A q : SaleRow(q) \notin DOMAIN others /\ StockRow(q) \notin DOMAIN others
  BY DEF SaleRow, StockRow, Batch, Lot
<1>4. \A r : StockRow(r) # SaleRow(s)
  BY DEF SaleRow, StockRow
<1>5. \A q \in Sales : SaleRow(q) \in DOMAIN Over(one, others) \cup DOMAIN one =>
          SaleRow(q) = SaleRow(s)
  BY <1>1, <1>2, <1>3
<1>6. QED
  BY <1>1, <1>2, <1>3, <1>4, <1>5 DEF OffStock, one

LEMMA SaleAlone ==
    ASSUME NEW s \in Sales, NEW STATE v, SaleLike(v)
    PROVE  OffStock(Only(SaleRow(s), v))
<1>1. DOMAIN Only(SaleRow(s), v) = {SaleRow(s)} /\ Only(SaleRow(s), v)[SaleRow(s)] = v
  BY SingleRow
<1>2. \A r : StockRow(r) # SaleRow(s)
  BY DEF SaleRow, StockRow
<1>3. QED
  BY <1>1, <1>2 DEF OffStock

\* What a statement that writes such rows leaves.
Untouched(t) ==
    /\ DOMAIN own' = Txs
    /\ \A u \in Txs : u # t => own'[u] = own[u]
    /\ \A r \in Rows : /\ Holds(t, r)' <=> Holds(t, r)
                       /\ Holds(t, r) => own'[t][StockRow(r)] = own[t][StockRow(r)]
    /\ \A s \in Sales : SaleRow(s) \in Locked(t)' => SaleLike(own'[t][SaleRow(s)])

LEMMA WriteOffStock ==
    ASSUME AccountInv, NEW t \in Txs, NEW STATE values, Write(t, values), OffStock(values)
    PROVE  Untouched(t)
<1>1. /\ DOMAIN own' = Txs /\ own'[t] = Over(values, own[t])
      /\ \A u \in Txs : u # t => own'[u] = own[u]
  BY DEF Write, AccountInv, Tables
<1>2. DOMAIN own'[t] = DOMAIN values \cup DOMAIN own[t]
  BY <1>1 DEF Over
<1>3. \A r \in Rows : /\ Holds(t, r)' <=> Holds(t, r)
                      /\ Holds(t, r) => own'[t][StockRow(r)] = own[t][StockRow(r)]
  BY <1>1, <1>2 DEF Over, Holds, Locked, OffStock
<1>4. ASSUME NEW s \in Sales, SaleRow(s) \in Locked(t)'
      PROVE  SaleLike(own'[t][SaleRow(s)])
  <2>1. CASE SaleRow(s) \in DOMAIN values
    BY <1>1, <2>1 DEF Over, OffStock
  <2>2. CASE SaleRow(s) \notin DOMAIN values
    <3>1. SaleRow(s) \in DOMAIN own[t] /\ own'[t][SaleRow(s)] = own[t][SaleRow(s)]
      BY <1>1, <1>2, <1>4, <2>2 DEF Over, Locked
    <3>2. QED
      BY <3>1 DEF AccountInv, SaleRows, Locked
  <2>3. QED
    BY <2>1, <2>2
<1>5. QED
  BY <1>1, <1>3, <1>4 DEF Untouched

\* The sale a request sees.
LEMMA SeenSale ==
    ASSUME AccountInv, NEW t \in Txs, ~Idle(t)
    PROVE  request[t].sale \in Sales /\ SaleLike(SaleOf(t))
<1>1. request[t].sale \in Sales
  BY DEF AccountInv, Asked
<1>2. QED
  BY <1>1 DEF AccountInv, SaleRows, SaleOf, See, Locked

------------------------------------------------------------------------------
(* The steps.                                                              *)

\* What another request's step leaves of a request.
LEMMA OthersStay ==
    ASSUME AccountInv, NEW u \in Txs,
           own'[u] = own[u] /\ todo'[u] = todo[u] /\ request'[u] = request[u]
              /\ was'[u] = was[u] /\ change'[u] = change[u],
           \A r \in Rows : Holds(u, r) => db'[StockRow(r)] = db[StockRow(r)]
    PROVE  Asked(u)' /\ Booking(u)'
<1>1. /\ Idle(u)' <=> Idle(u)
      /\ \A r \in Rows : Holds(u, r)' <=> Holds(u, r)
      /\ Holds(u, request[u].row)' <=> Holds(u, request[u].row)
  BY DEF Idle, Holds, Locked
<1>2. Asked(u)'
  BY <1>1 DEF AccountInv, Asked
<1>3. Booking(u)'
  BY <1>1 DEF AccountInv, Booking, Holds, Locked
<1>4. QED
  BY <1>2, <1>3

LEMMA SaleRowsStay ==
    ASSUME AccountInv, NEW t \in Txs, Untouched(t), UNCHANGED db
    PROVE  SaleRows'
<1>1. ASSUME NEW s \in Sales, NEW u \in Txs, SaleRow(s) \in Locked(u)'
      PROVE  SaleLike(own'[u][SaleRow(s)])
  <2>1. CASE u = t
    BY <1>1, <2>1 DEF Untouched
  <2>2. CASE u # t
    <3>1. own'[u] = own[u]
      BY <2>2 DEF Untouched
    <3>2. QED
      BY <1>1, <3>1 DEF AccountInv, SaleRows, Locked
  <2>3. QED
    BY <2>1, <2>2
<1>2. \A s \in Sales : SaleLike(db'[SaleRow(s)])
  BY DEF AccountInv, SaleRows
<1>3. QED
  BY <1>1, <1>2 DEF SaleRows, SaleLike

\* A statement that moves no stock.
Quiet(t) ==
    /\ ~Idle(t) /\ Head(todo[t]) \notin {"stock", "commit"} /\ Advance(t)
    /\ UNCHANGED <<db, moved, request, was, change>>
    /\ Untouched(t)

LEMMA QuietInv ==
    ASSUME AccountInv, NEW t \in Txs, Quiet(t)
    PROVE  AccountInv'
<1>1. /\ DOMAIN todo' = Txs /\ todo'[t] = Tail(todo[t])
      /\ \A u \in Txs : u # t => todo'[u] = todo[u]
  BY DEF Quiet, Advance, AccountInv, Tables
<1>2. UNCHANGED <<db, moved, request, was, change>> /\ Untouched(t)
  BY DEF Quiet
<1>3. Tables'
  BY <1>1, <1>2 DEF AccountInv, Tables, Untouched
<1>4. SaleRows'
  BY <1>2, SaleRowsStay
<1>5. \A u \in Txs, r \in Rows : Holds(u, r)' <=> Holds(u, r)
  <2>1. ASSUME NEW u \in Txs, NEW r \in Rows, u # t
        PROVE  Holds(u, r)' <=> Holds(u, r)
    <3>1. own'[u] = own[u]
      BY <1>2, <2>1 DEF Untouched
    <3>2. QED
      BY <3>1 DEF Holds, Locked
  <2>2. QED
    BY <1>2, <2>1 DEF Untouched
<1>6. Exclusive'
  BY <1>5 DEF AccountInv, Exclusive
<1>7. Explained'
  BY <1>2 DEF AccountInv, Explained
<1>8. Asked(t)' /\ Booking(t)'
  <2>1. /\ todo[t] \in Seq(Names) /\ todo[t] # <<>> /\ Planned(todo[t])
        /\ Head(todo[t]) # "commit"
    BY DEF AccountInv, Booking, Quiet, Idle
  <2>2. /\ todo'[t] \in Seq(Names) /\ Planned(todo'[t])
        /\ Ahead(todo'[t]) => Ahead(todo[t])
        /\ todo'[t] # <<>>
    BY <1>1, <2>1, NextPlanned
  <2>3. Asked(t)'
    BY <1>2 DEF AccountInv, Asked, Quiet
  <2>4. \A r \in Rows : Holds(t, r) =>
            /\ own'[t][StockRow(r)] = own[t][StockRow(r)] /\ r = request'[t].row
            /\ ~Ahead(todo'[t])
            /\ own[t][StockRow(r)] = db'[StockRow(r)] + change'[t]
            /\ own[t][StockRow(r)] \in Nat
    BY <1>2, <2>2 DEF AccountInv, Booking, Untouched
  <2>5. Booking(t)'
    <3>1. \A r \in Rows : Holds(t, r)' <=> Holds(t, r)
      BY <1>5
    <3>2. change'[t] # 0 => Holds(t, request[t].row)
      BY <1>2 DEF AccountInv, Booking
    <3>3. request[t].row \in Rows
      BY DEF AccountInv, Asked, Quiet
    <3>4. change'[t] \in Int
      BY <1>2 DEF AccountInv, Booking
    <3>5. QED
      BY <1>2, <2>2, <2>4, <3>1, <3>2, <3>3, <3>4 DEF Booking, Idle
  <2>6. QED
    BY <2>3, <2>5
<1>9. ASSUME NEW u \in Txs, u # t
      PROVE  Asked(u)' /\ Booking(u)'
  BY <1>1, <1>2, <1>9, OthersStay DEF Untouched
<1>10. QED
  BY <1>3, <1>4, <1>6, <1>7, <1>8, <1>9 DEF AccountInv

\* The rows each statement locks.
LEMMA WantedAt ==
    ASSUME NEW t \in Txs, ~Idle(t)
    PROVE  /\ Head(todo[t]) = "sale" => Wanted(t) = {SaleRow(request[t].sale)}
           /\ Head(todo[t]) = "stock" => Wanted(t) = {StockRow(request[t].row)}
           /\ Head(todo[t]) = "unfifo" =>
                 Wanted(t) = {Batch(k) : k \in {l \in Slots : SaleOf(t).fifo[l] > 0}}
           /\ Head(todo[t]) = "fifo" => Wanted(t) = {Batch(k) : k \in Eligible(t)}
           /\ Head(todo[t]) = "unlots" =>
                 Wanted(t) = {Lot(k) : k \in {l \in Slots : SaleOf(t).lots[l] > 0}}
           /\ Head(todo[t]) = "write" =>
                 Wanted(t) = {Lot(k) : k \in {l \in Slots : seen[t].take[l] > 0}}
           /\ Head(todo[t]) \in {"lots", "commit"} => Wanted(t) = {}
BY DEF Wanted, At, Drawn

\* Statements on the sale, batches and lots.
LEMMA QuietStatements ==
    ASSUME AccountInv, NEW t \in Txs,
           \/ WriteSale(t) \/ CreditBatches(t) \/ FifoDeduct(t) \/ CreditLots(t)
           \/ ReadLots(t) \/ WriteLots(t)
    PROVE  Quiet(t)
<1> DEFINE sale == request[t].sale
<1>1. ~Idle(t) /\ Head(todo[t]) \notin {"stock", "commit"} /\ Advance(t)
      /\ UNCHANGED <<db, moved, request, was, change>>
  BY DEF WriteSale, CreditBatches, FifoDeduct, CreditLots, ReadLots, WriteLots, Credit, At
<1>2. sale \in Sales /\ SaleLike(SaleOf(t))
  BY <1>1, SeenSale
<1>3. CASE WriteSale(t)
  <2> DEFINE v == IF request[t].kind = "void" THEN [db[SaleRow(sale)] EXCEPT !.state = "VOIDED"]
                  ELSE [db[SaleRow(sale)] EXCEPT !.quantity = request[t].quantity]
  <2>1. Write(t, Only(SaleRow(sale), v))
    BY <1>3 DEF WriteSale
  <2>2. SaleLike(v)
    <3>1. SaleLike(db[SaleRow(sale)]) /\ request[t].quantity \in Nat
      BY <1>1, <1>2 DEF AccountInv, SaleRows, Asked
    <3>2. QED
      BY <3>1, SaleFields
  <2> HIDE DEF v
  <2>3. OffStock(Only(SaleRow(sale), v))
    BY <1>2, <2>2, SaleAlone
  <2>4. QED
    BY <1>1, <2>1, <2>3, WriteOffStock DEF Quiet
<1>4. CASE CreditBatches(t)
  <2> DEFINE v == [SaleOf(t) EXCEPT !.fifo = Nothing]
             others == [i \in Wanted(t) |-> See(t, i) + SaleOf(t).fifo[i[2]]]
  <2>1. Write(t, Over(Only(SaleRow(sale), v), others))
    BY <1>4 DEF CreditBatches, Credit
  <2>2. SaleLike(v)
    BY <1>2, SaleFields
  <2>3. \A i \in DOMAIN others : \E k \in Slots : i = Batch(k) \/ i = Lot(k)
    BY <1>1, <1>4, WantedAt DEF CreditBatches, Credit, At
  <2> HIDE DEF v, others
  <2>4. OffStock(Over(Only(SaleRow(sale), v), others))
    BY <1>2, <2>2, <2>3, SaleAndLots
  <2>5. QED
    BY <1>1, <2>1, <2>4, WriteOffStock DEF Quiet
<1>5. CASE CreditLots(t)
  <2> DEFINE v == [SaleOf(t) EXCEPT !.lots = Nothing]
             others == [i \in Wanted(t) |-> See(t, i) + SaleOf(t).lots[i[2]]]
  <2>1. Write(t, Over(Only(SaleRow(sale), v), others))
    BY <1>5 DEF CreditLots, Credit
  <2>2. SaleLike(v)
    BY <1>2, SaleFields
  <2>3. \A i \in DOMAIN others : \E k \in Slots : i = Batch(k) \/ i = Lot(k)
    BY <1>1, <1>5, WantedAt DEF CreditLots, Credit, At
  <2> HIDE DEF v, others
  <2>4. OffStock(Over(Only(SaleRow(sale), v), others))
    BY <1>2, <2>2, <2>3, SaleAndLots
  <2>5. QED
    BY <1>1, <2>1, <2>4, WriteOffStock DEF Quiet
<1>6. CASE FifoDeduct(t)
  <2> DEFINE held == [k \in Slots |-> See(t, Batch(k))]
  <2>1. PICK take : Write(t, Over(Only(SaleRow(sale),
                                       [SaleOf(t) EXCEPT !.fifo = Plus(@, take)]),
                                  [i \in Wanted(t) |-> held[i[2]] - take[i[2]]]))
    BY <1>6 DEF FifoDeduct
  <2> DEFINE v == [SaleOf(t) EXCEPT !.fifo = Plus(@, take)]
             others == [i \in Wanted(t) |-> held[i[2]] - take[i[2]]]
  <2>2. SaleLike(v)
    BY <1>2, SaleFields
  <2>3. \A i \in DOMAIN others : \E k \in Slots : i = Batch(k) \/ i = Lot(k)
    BY <1>1, <1>6, WantedAt DEF FifoDeduct, At, Eligible, VariantOrUntagged
  <2>4. Write(t, Over(Only(SaleRow(sale), v), others))
    BY <2>1
  <2> HIDE DEF v, others
  <2>5. OffStock(Over(Only(SaleRow(sale), v), others))
    BY <1>2, <2>2, <2>3, SaleAndLots
  <2>6. QED
    BY <1>1, <2>4, <2>5, WriteOffStock DEF Quiet
<1>7. CASE WriteLots(t)
  <2> DEFINE take == seen[t].take
             v == [SaleOf(t) EXCEPT !.lots = Plus(@, take)]
             others == [i \in Wanted(t) |-> seen[t].held[i[2]] - take[i[2]]]
  <2>1. Write(t, Over(Only(SaleRow(sale), v), others))
    BY <1>7 DEF WriteLots
  <2>2. SaleLike(v)
    BY <1>2, SaleFields
  <2>3. \A i \in DOMAIN others : \E k \in Slots : i = Batch(k) \/ i = Lot(k)
    BY <1>1, <1>7, WantedAt DEF WriteLots, At
  <2> HIDE DEF v, others
  <2>4. OffStock(Over(Only(SaleRow(sale), v), others))
    BY <1>2, <2>2, <2>3, SaleAndLots
  <2>5. QED
    BY <1>1, <2>1, <2>4, WriteOffStock DEF Quiet
<1>8. CASE ReadLots(t)
  <2>1. UNCHANGED own
    BY <1>8 DEF ReadLots
  <2>2. Untouched(t)
    BY <2>1 DEF Untouched, Holds, Locked, AccountInv, Tables, SaleRows
  <2>3. QED
    BY <1>1, <2>2 DEF Quiet
<1>9. QED
  BY <1>3, <1>4, <1>5, <1>6, <1>7, <1>8

\* A request begins: it may write its sale, and books nothing yet.
LEMMA BeginInv ==
    ASSUME AccountInv, NEW t \in Txs, NEW s \in Sales, NEW r \in Rows, NEW q \in Quantities,
           NEW kind \in {"create", "update", "void"}, Begin(t, kind, s, r, q)
    PROVE  AccountInv'
<1> DEFINE asked == [kind |-> kind, sale |-> s, row |-> r, quantity |-> q]
<1>1. /\ Idle(t)
      /\ todo' = [todo EXCEPT ![t] = Steps[kind]]
      /\ request' = [request EXCEPT ![t] = asked]
      /\ was' = [was EXCEPT ![t] = db[SaleRow(s)].quantity]
      /\ UNCHANGED <<db, moved, change>>
  BY DEF Begin
<1>2. Untouched(t)
  <2>1. CASE UNCHANGED own
    BY <2>1 DEF Untouched, Holds, Locked, AccountInv, Tables, SaleRows
  <2>2. CASE ~UNCHANGED own
    <3> DEFINE v == [NoSale EXCEPT !.state = "COMPLETED", !.row = r, !.quantity = q]
    <3>1. Write(t, Only(SaleRow(s), v))
      BY <2>2 DEF Begin
    <3>2. SaleLike(v)
      <4>1. "quantity" \in DOMAIN v /\ v.quantity = q
        BY DEF NoSale
      <4>2. q \in Nat
        BY QuantitiesAssumption
      <4>3. QED
        BY <4>1, <4>2 DEF SaleLike
    <3> HIDE DEF v
    <3>3. OffStock(Only(SaleRow(s), v))
      BY <3>2, SaleAlone
    <3>4. QED
      BY <3>1, <3>3, WriteOffStock
  <2>3. QED
    BY <2>1, <2>2
<1>3. \A u \in Txs, p \in Rows : Holds(u, p)' <=> Holds(u, p)
  <2>1. ASSUME NEW u \in Txs, NEW p \in Rows, u # t
        PROVE  Holds(u, p)' <=> Holds(u, p)
    <3>1. own'[u] = own[u]
      BY <1>2, <2>1 DEF Untouched
    <3>2. QED
      BY <3>1 DEF Holds, Locked
  <2>2. QED
    BY <1>2, <2>1 DEF Untouched
<1>4. Tables'
  BY <1>1, <1>2 DEF AccountInv, Tables, Untouched
<1>5. SaleRows'
  BY <1>1, <1>2, SaleRowsStay DEF AccountInv, SaleRows
<1>6. Exclusive'
  BY <1>3 DEF AccountInv, Exclusive
<1>7. Explained'
  BY <1>1 DEF AccountInv, Explained
<1>8. todo'[t] = Steps[kind] /\ request'[t] = asked /\ was'[t] = db[SaleRow(s)].quantity
      /\ change'[t] = change[t]
  BY <1>1 DEF AccountInv, Tables
<1>9. Asked(t)'
  <2>1. was'[t] \in Nat
    BY <1>8 DEF AccountInv, SaleRows, SaleLike
  <2>2. q \in Nat
    BY QuantitiesAssumption
  <2>3. QED
    BY <1>8, <2>1, <2>2 DEF Asked
<1>10. Booking(t)'
  <2>1. todo'[t] \in Seq(Names) /\ Planned(todo'[t])
    BY <1>8, AllPlanned
  <2>2. change'[t] = 0
    BY <1>1, <1>8 DEF AccountInv, Booking
  <2>3. \A p \in Rows : ~Holds(t, p)'
    BY <1>1, <1>3 DEF AccountInv, Booking
  <2>4. QED
    BY <2>1, <2>2, <2>3 DEF Booking
<1>11. ASSUME NEW u \in Txs, u # t
       PROVE  Asked(u)' /\ Booking(u)'
  <2>1. /\ own'[u] = own[u] /\ todo'[u] = todo[u] /\ request'[u] = request[u]
        /\ was'[u] = was[u] /\ change'[u] = change[u]
    BY <1>1, <1>2, <1>11 DEF Untouched, AccountInv, Tables
  <2>2. QED
    BY <1>1, <2>1, OthersStay
<1>12. QED
  BY <1>4, <1>5, <1>6, <1>7, <1>9, <1>10, <1>11 DEF AccountInv

\* A request ends, rolled back or after its commit.
Ended(t) ==
    /\ DOMAIN own' = Txs /\ DOMAIN todo' = Txs /\ DOMAIN request' = Txs
    /\ DOMAIN was' = Txs /\ DOMAIN change' = Txs
    /\ own'[t] = <<>> /\ todo'[t] = <<>> /\ was'[t] = 0 /\ change'[t] = 0
    /\ \A u \in Txs : u # t =>
          /\ own'[u] = own[u] /\ todo'[u] = todo[u] /\ request'[u] = request[u]
          /\ was'[u] = was[u] /\ change'[u] = change[u]

LEMMA ResetEnds ==
    ASSUME AccountInv, NEW t \in Txs, Reset(t)
    PROVE  Ended(t)
BY DEF Reset, Release, Ended, AccountInv, Tables

LEMMA EndedInv ==
    ASSUME AccountInv, NEW t \in Txs, Ended(t),
           RowIds \subseteq DOMAIN db', moved' \in [Rows -> Nat], Explained',
           \A s \in Sales : SaleLike(db'[SaleRow(s)]),
           \A u \in Txs, r \in Rows : u # t /\ Holds(u, r) =>
               db'[StockRow(r)] = db[StockRow(r)]
    PROVE  AccountInv'
<1>1. Locked(t)' = {} /\ \A u \in Txs : u # t => Locked(u)' = Locked(u)
  BY DEF Ended, Locked
<1>2. Tables'
  BY DEF Ended, Tables
<1>3. SaleRows'
  <2>1. ASSUME NEW s \in Sales, NEW u \in Txs, SaleRow(s) \in Locked(u)'
        PROVE  SaleLike(own'[u][SaleRow(s)])
    <3>1. u # t /\ own'[u] = own[u] /\ SaleRow(s) \in Locked(u)
      BY <1>1, <2>1 DEF Ended
    <3>2. QED
      BY <3>1 DEF AccountInv, SaleRows
  <2>2. QED
    BY <2>1 DEF SaleRows, SaleLike
<1>4. Exclusive'
  BY <1>1 DEF AccountInv, Exclusive, Holds
<1>5. Asked(t)' /\ Booking(t)'
  BY <1>1, EmptyPlanned DEF Ended, Asked, Booking, Idle, Holds
<1>6. ASSUME NEW u \in Txs, u # t
      PROVE  Asked(u)' /\ Booking(u)'
  BY <1>6, OthersStay DEF Ended
<1>7. QED
  BY <1>2, <1>3, <1>4, <1>5, <1>6 DEF AccountInv

LEMMA RollbackInv ==
    ASSUME AccountInv, NEW t \in Txs, Rollback(t)
    PROVE  AccountInv'
<1>1. Ended(t) /\ UNCHANGED <<db, moved>>
  BY ResetEnds DEF Rollback
<1>2. Explained'
  BY <1>1 DEF AccountInv, Explained
<1>3. /\ RowIds \subseteq DOMAIN db' /\ moved' \in [Rows -> Nat]
      /\ \A s \in Sales : SaleLike(db'[SaleRow(s)])
      /\ \A u \in Txs, r \in Rows : u # t /\ Holds(u, r) => db'[StockRow(r)] = db[StockRow(r)]
  BY <1>1 DEF AccountInv, Tables, SaleRows
<1>4. QED
  BY <1>1, <1>2, <1>3, EndedInv

\* A commit publishes the movement it booked, and only that.
LEMMA CommitBooks ==
    ASSUME AccountInv, NEW t \in Txs, Commit(t)
    PROVE  /\ moved' = [moved EXCEPT ![request[t].row] = @ + change[t]]
           /\ request[t].row \in Rows
           /\ \A r \in Rows :
                 /\ db'[StockRow(r)] = db[StockRow(r)]
                                         + IF r = request[t].row THEN change[t] ELSE 0
                 /\ db'[StockRow(r)] \in Nat
<1>1. /\ db' = Over(own[t], db) /\ ~Idle(t)
      /\ moved' = [moved EXCEPT ![request[t].row] = @ + change[t]]
  BY DEF Commit, Publish, At
<1>2. request[t].row \in Rows
  BY <1>1 DEF AccountInv, Asked
<1>3. ASSUME NEW r \in Rows
      PROVE  /\ db'[StockRow(r)] = db[StockRow(r)]
                                     + IF r = request[t].row THEN change[t] ELSE 0
             /\ db'[StockRow(r)] \in Nat
  <2>1. StockRow(r) \in DOMAIN db /\ db[StockRow(r)] \in Nat
    BY DEF RowIds, AccountInv, Tables, Explained
  <2>2. CASE Holds(t, r)
    <3>1. db'[StockRow(r)] = own[t][StockRow(r)]
      BY <1>1, <2>1, <2>2 DEF Over, Holds, Locked
    <3>2. QED
      BY <2>2, <3>1 DEF AccountInv, Booking
  <2>3. CASE ~Holds(t, r)
    <3>1. db'[StockRow(r)] = db[StockRow(r)]
      BY <1>1, <2>1, <2>3 DEF Over, Holds, Locked
    <3>2. r = request[t].row => change[t] = 0
      BY <2>3 DEF AccountInv, Booking
    <3>3. QED
      BY <2>1, <3>1, <3>2
  <2>4. QED
    BY <2>2, <2>3
<1>4. QED
  BY <1>1, <1>2, <1>3

LEMMA CommitInv ==
    ASSUME AccountInv, NEW t \in Txs, Commit(t)
    PROVE  AccountInv'
<1>1. Ended(t) /\ db' = Over(own[t], db)
  BY ResetEnds DEF Commit, Publish
<1>2. RowIds \subseteq DOMAIN db'
  BY <1>1 DEF AccountInv, Tables, Over
<1>3. moved' \in [Rows -> Nat] /\ Explained'
  <2>1. \A r \in Rows : moved[r] = db[StockRow(r)] /\ moved[r] \in Nat
    BY DEF AccountInv, Explained
  <2>2. DOMAIN moved' = Rows
        /\ \A r \in Rows : moved'[r] = moved[r] + IF r = request[t].row THEN change[t] ELSE 0
    <3>1. moved \in [Rows -> Nat] /\ change[t] \in Int
      BY DEF AccountInv, Tables, Booking
    <3>2. QED
      BY <3>1, CommitBooks
  <2>3. \A r \in Rows : moved'[r] = db'[StockRow(r)] /\ moved'[r] \in Nat
    BY <2>1, <2>2, CommitBooks
  <2>4. moved' = [moved EXCEPT ![request[t].row] = @ + change[t]]
    BY CommitBooks
  <2>5. moved' = [r \in Rows |-> moved'[r]]
    BY <2>2, <2>4 DEF AccountInv, Tables
  <2>6. QED
    BY <2>3, <2>5 DEF Explained
<1>4. ASSUME NEW s \in Sales
      PROVE  SaleLike(db'[SaleRow(s)])
  <2>1. SaleRow(s) \in DOMAIN db
    BY DEF AccountInv, Tables, RowIds
  <2>2. db'[SaleRow(s)] = IF SaleRow(s) \in Locked(t) THEN own[t][SaleRow(s)]
                                                     ELSE db[SaleRow(s)]
    BY <1>1, <2>1 DEF Over, Locked
  <2>3. QED
    BY <2>2 DEF AccountInv, SaleRows
<1>5. ASSUME NEW u \in Txs, NEW r \in Rows, u # t, Holds(u, r)
      PROVE  db'[StockRow(r)] = db[StockRow(r)]
  <2>1. ~Holds(t, r)
    BY <1>5 DEF AccountInv, Exclusive
  <2>2. StockRow(r) \in DOMAIN db
    BY DEF AccountInv, Tables, RowIds
  <2>3. QED
    BY <1>1, <2>1, <2>2 DEF Over, Holds, Locked
<1>6. QED
  BY <1>1, <1>2, <1>3, <1>4, <1>5, EndedInv

\* adjust_stock() books on what is committed: nobody else holds the row.
LEMMA AdjustInv ==
    ASSUME AccountInv, NEW t \in Txs, AdjustStock(t)
    PROVE  AccountInv'
<1> DEFINE r == request[t].row
           level == See(t, StockRow(r)) + StockChange(t)
<1>1. ~Idle(t) /\ Head(todo[t]) = "stock" /\ Free(t, {StockRow(r)})
  BY WantedAt DEF AdjustStock, At
<1>2. CASE Rollback(t)
  BY <1>2, RollbackInv
<1>3. CASE ~Rollback(t)
  <2>1. /\ level >= 0 /\ Write(t, Only(StockRow(r), level))
        /\ change' = [change EXCEPT ![t] = StockChange(t)]
        /\ Advance(t)
        /\ UNCHANGED <<db, moved, request, was>>
    BY <1>3 DEF AdjustStock, Sufficient
  <2>2. r \in Rows /\ request[t].quantity \in Nat /\ was[t] \in Nat
        /\ request[t].kind \in {"create", "update", "void"}
    BY <1>1 DEF AccountInv, Asked
  <2>3. StockChange(t) \in Int
    BY <2>2 DEF StockChange
  <2>4. todo[t] \in Seq(Names) /\ todo[t] # <<>> /\ Planned(todo[t])
    BY <1>1 DEF AccountInv, Booking, Idle
  <2>5. Ahead(todo[t])
    <3>1. Len(todo[t]) \in Nat \ {0} /\ todo[t][1] = "stock"
      BY <1>1, <2>4
    <3>2. 1 \in 1..Len(todo[t])
      BY <3>1
    <3>3. QED
      BY <3>1, <3>2 DEF Ahead
  <2>6. \A p \in Rows : ~Holds(t, p)
    BY <2>5 DEF AccountInv, Booking
  <2>7. level = db[StockRow(r)] + StockChange(t) /\ level \in Nat
    <3>1. See(t, StockRow(r)) = db[StockRow(r)] /\ db[StockRow(r)] \in Nat
      BY <2>2, <2>6 DEF See, Holds, Locked, AccountInv, Explained
    <3>2. QED
      BY <2>1, <2>3, <3>1
  <2> HIDE DEF level
  <2>8. /\ DOMAIN own' = Txs /\ own'[t] = Over(Only(StockRow(r), level), own[t])
        /\ \A u \in Txs : u # t => own'[u] = own[u]
    BY <2>1 DEF Write, AccountInv, Tables
  <2>9. /\ Locked(t)' = {StockRow(r)} \cup Locked(t) /\ own'[t][StockRow(r)] = level
        /\ \A i \in Locked(t) : i # StockRow(r) => own'[t][i] = own[t][i]
    BY <2>8 DEF Over, Only, Locked
  <2>10. \A u \in Txs : u # t => Locked(u)' = Locked(u)
    BY <2>8 DEF Locked
  <2>11. \A p \in Rows : Holds(t, p)' <=> p = r
    <3>1. \A p : StockRow(p) = StockRow(r) => p = r
      BY DEF StockRow
    <3>2. QED
      BY <2>2, <2>6, <2>9, <3>1 DEF Holds
  <2>12. /\ DOMAIN todo' = Txs /\ todo'[t] = Tail(todo[t])
         /\ DOMAIN change' = Txs /\ change'[t] = StockChange(t)
         /\ \A u \in Txs : u # t => todo'[u] = todo[u] /\ change'[u] = change[u]
    BY <2>1 DEF Advance, AccountInv, Tables
  <2>13. /\ todo'[t] \in Seq(Names) /\ Planned(todo'[t]) /\ todo'[t] # <<>>
         /\ ~Ahead(todo'[t])
    BY <1>1, <2>4, <2>12, NextPlanned
  <2>14. Tables'
    BY <2>1, <2>8, <2>12 DEF AccountInv, Tables
  <2>15. SaleRows'
    <3>1. ASSUME NEW s \in Sales, NEW u \in Txs, SaleRow(s) \in Locked(u)'
          PROVE  SaleLike(own'[u][SaleRow(s)])
      <4>1. SaleRow(s) # StockRow(r)
        BY DEF SaleRow, StockRow
      <4>2. SaleRow(s) \in Locked(u) /\ own'[u][SaleRow(s)] = own[u][SaleRow(s)]
        BY <2>8, <2>9, <2>10, <3>1, <4>1
      <4>3. QED
        BY <4>2 DEF AccountInv, SaleRows
    <3>2. \A s \in Sales : SaleLike(db'[SaleRow(s)])
      BY <2>1 DEF AccountInv, SaleRows
    <3>3. QED
      BY <3>1, <3>2 DEF SaleRows, SaleLike
  <2>16. Exclusive'
    <3>1. \A u \in Txs : u # t => ~Holds(u, r)
      BY <1>1, <2>2 DEF Free, HeldByOthers, Holds, Locked
    <3>2. \A u \in Txs : u # t => \A p \in Rows : Holds(u, p)' <=> Holds(u, p)
      BY <2>10 DEF Holds
    <3>3. QED
      BY <2>11, <3>1, <3>2 DEF AccountInv, Exclusive
  <2>17. Explained'
    BY <2>1 DEF AccountInv, Explained
  <2>18. Asked(t)' /\ Booking(t)'
    <3>1. request'[t] = request[t] /\ was'[t] = was[t] /\ db' = db
      BY <2>1
    <3>2. Asked(t)'
      BY <2>2, <3>1, <1>1 DEF AccountInv, Asked
    <3>3. StockRow(request[t].row) \in Locked(t)'
      BY <2>9
    <3>4. \A p \in Rows : Holds(t, p)' =>
              /\ p = request'[t].row
              /\ own'[t][StockRow(p)] = db'[StockRow(p)] + change'[t]
              /\ own'[t][StockRow(p)] \in Nat
      BY <2>7, <2>9, <2>11, <2>12, <3>1
    <3>5. Booking(t)'
      BY <2>3, <2>12, <2>13, <3>1, <3>3, <3>4 DEF Booking, Idle, Holds
    <3>6. QED
      BY <3>2, <3>5
  <2>19. ASSUME NEW u \in Txs, u # t
         PROVE  Asked(u)' /\ Booking(u)'
    BY <2>1, <2>8, <2>12, <2>19, OthersStay
  <2>20. QED
    BY <2>14, <2>15, <2>16, <2>17, <2>18, <2>19 DEF AccountInv
<1>4. QED
  BY <1>2, <1>3

LEMMA InitInv == Init => AccountInv
<1> SUFFICES ASSUME Init PROVE AccountInv
  OBVIOUS
<1>1. DOMAIN db = RowIds
  BY DEF Init
<1>2. ASSUME NEW r \in Rows
      PROVE  db[StockRow(r)] = OnHand[r] /\ OnHand[r] \in Nat
  <2>1. StockRow(r) \in RowIds /\ StockRow(r)[1] = "stock" /\ StockRow(r)[2] = r
    BY DEF StockRow, RowIds
  <2>2. db[StockRow(r)] = OnHand[r]
    BY <2>1 DEF Init
  <2>3. QED
    BY <2>2, SlotsAssumption
<1>3. ASSUME NEW s \in Sales
      PROVE  SaleLike(db[SaleRow(s)])
  <2>1. SaleRow(s) \in RowIds /\ SaleRow(s)[1] = "sale"
    BY DEF SaleRow, RowIds
  <2>2. db[SaleRow(s)] = NoSale
    BY <2>1 DEF Init
  <2>3. QED
    BY <2>2 DEF NoSale, SaleLike
<1>4. moved = [r \in Rows |-> db[StockRow(r)]]
  BY DEF Init
<1>5. /\ own = [t \in Txs |-> <<>>] /\ todo = [t \in Txs |-> <<>>]
      /\ request = [t \in Txs |-> NoRequest] /\ was = [t \in Txs |-> 0]
      /\ change = [t \in Txs |-> 0]
  BY DEF Init, InitSessions
<1>6. Tables
  BY <1>1, <1>2, <1>4, <1>5 DEF Tables
<1>7. SaleRows
  BY <1>3, <1>5 DEF SaleRows, Locked
<1>8. Exclusive
  BY <1>5 DEF Exclusive, Holds, Locked
<1>9. Explained
  BY <1>2, <1>4 DEF Explained
<1>10. \A t \in Txs : Asked(t) /\ Booking(t)
  BY <1>5, EmptyPlanned DEF Asked, Booking, Idle, Holds, Locked
<1>11. QED
  BY <1>6, <1>7, <1>8, <1>9, <1>10 DEF AccountInv

LEMMA StepInv ==
    ASSUME AccountInv, [Next]_vars
    PROVE  AccountInv'
<1>1. CASE UNCHANGED vars
  BY <1>1 DEF vars, txVars, AccountInv, Tables, SaleRows, SaleLike, Exclusive, Explained,
              Asked, Booking, Holds, Locked, Idle
<1>2. ASSUME NEW t \in Txs, NEW s \in Sales, NEW r \in Rows, NEW q \in Quantities,
             NEW kind \in {"create", "update", "void"}, Begin(t, kind, s, r, q)
      PROVE  AccountInv'
  BY <1>2, BeginInv
<1>3. ASSUME NEW t \in Txs, Statement(t)
      PROVE  AccountInv'
  <2>1. CASE AdjustStock(t)
    BY <2>1, AdjustInv
  <2>2. CASE Commit(t)
    BY <2>2, CommitInv
  <2>3. CASE ~AdjustStock(t) /\ ~Commit(t)
    <3>1. Quiet(t)
      BY <1>3, <2>3, QuietStatements DEF Statement
    <3>2. QED
      BY <3>1, QuietInv
  <2>4. QED
    BY <2>1, <2>2, <2>3
<1>4. ASSUME NEW t \in Txs, Fail(t)
      PROVE  AccountInv'
  BY <1>4, RollbackInv DEF Fail
<1>5. QED
  BY <1>1, <1>2, <1>3, <1>4 DEF Next

------------------------------------------------------------------------------
(* The refinement.                                                         *)

\* A step of a request books on the account, or leaves it.
LEMMA StepBooks ==
    ASSUME AccountInv, [Next]_vars
    PROVE  [Account!Book]_(Account!vars)
<1> DEFINE level == [r \in Rows |-> db[StockRow(r)]]
<1>1. CASE UNCHANGED <<db, moved>>
  BY <1>1 DEF Account!vars
<1>2. CASE ~UNCHANGED <<db, moved>>
  <2>1. PICK t \in Txs : Commit(t)
    <3>1. Next
      BY <1>2 DEF vars
    <3>2. PICK t \in Txs :
             \/ \E s \in Sales, r \in Rows, q \in Quantities,
                   kind \in {"create", "update", "void"} : Begin(t, kind, s, r, q)
             \/ Statement(t) \/ Fail(t)
      BY <3>1 DEF Next
    <3>3. ~Fail(t)
      BY <1>2 DEF Fail, Rollback
    <3>4. ~\E s \in Sales, r \in Rows, q \in Quantities,
               kind \in {"create", "update", "void"} : Begin(t, kind, s, r, q)
      BY <1>2 DEF Begin
    <3>5. ~AdjustStock(t)
      BY <1>2 DEF AdjustStock, Rollback
    <3>6. Commit(t) \/ Quiet(t)
      BY <3>2, <3>3, <3>4, <3>5, QuietStatements DEF Statement
    <3>7. ~Quiet(t)
      BY <1>2 DEF Quiet
    <3>8. QED
      BY <3>6, <3>7
  <2>2. ASSUME NEW r \in Rows
        PROVE  /\ level'[r] - level[r] = moved'[r] - moved[r]
               /\ level'[r] \in Nat
    <3>1. /\ level[r] = db[StockRow(r)] /\ level'[r] = db'[StockRow(r)]
          /\ db[StockRow(r)] \in Nat /\ moved[r] = db[StockRow(r)]
      BY DEF AccountInv, Explained
    <3>2. db'[StockRow(r)] \in Nat /\ moved'[r] = db'[StockRow(r)]
      BY <2>1, CommitInv DEF AccountInv, Explained
    <3>3. QED
      BY <3>1, <3>2
  <2>3. moved' = [r \in Rows |-> moved'[r]]
    BY <2>1, CommitInv DEF AccountInv, Tables
  <2>4. level' = [r \in Rows |-> level'[r]]
    OBVIOUS
  <2>5. QED
    BY <2>2, <2>3, <2>4 DEF Account!Book
<1>3. QED
  BY <1>1, <1>2

\* The inductive invariant holds in every reachable state.
THEOREM AccountInvHolds == Spec => []AccountInv
  BY InitInv, StepInv, PTL DEF Spec

\* However requests on sales overlap, their movements of stock are those of
\* one booking at a time: adjust_stock() loses no movement and takes no row
\* below zero.
THEOREM AccountImplemented == Spec => ImplementsAccount
<1>1. Init => Account!Init
  <2> SUFFICES ASSUME Init PROVE Account!Init
    OBVIOUS
  <2>1. AccountInv /\ moved = [r \in Rows |-> db[StockRow(r)]]
    BY InitInv DEF Init
  <2>2. QED
    BY <2>1 DEF AccountInv, Explained, Account!Init
<1>2. AccountInv /\ [Next]_vars => [Account!Book]_(Account!vars)
  BY StepBooks
<1>3. QED
  BY <1>1, <1>2, AccountInvHolds, PTL DEF Spec, ImplementsAccount, Account!Spec

\* The on-hand figure of a row is the sum of its committed movements.
THEOREM MovementsExplainStockHolds == Spec => []MovementsExplainStock
<1>1. AccountInv => MovementsExplainStock
  BY DEF AccountInv, Explained, MovementsExplainStock
<1>2. QED
  BY <1>1, AccountInvHolds, PTL

------------------------------------------------------------------------------
(* The ledgers: what a request does to its sale and to the batches.        *)

\* The order the statements of a request come in.
Rank(step) ==
    CASE step = "sale"   -> 1
      [] step = "stock"  -> 2
      [] step = "unfifo" -> 3
      [] step = "fifo"   -> 4
      [] step = "unlots" -> 5
      [] step = "lots"   -> 6
      [] step = "write"  -> 7
      [] step = "commit" -> 8
Left(step, steps) == \E i \in 1..Len(steps) : steps[i] = step
InOrder(steps) ==
    \A i, j \in 1..Len(steps) : i < j => Rank(steps[i]) < Rank(steps[j])

Taken == [Slots -> Nat]
SaleRecord == [state : {"NEW", "COMPLETED", "VOIDED"}, row : Rows, quantity : Nat,
               fifo : Taken, lots : Taken]

HoldsSale(t) == SaleRow(request[t].sale) \in Locked(t)
Mine(t) == own[t][SaleRow(request[t].sale)]
Kept(t) == db[SaleRow(request[t].sale)]

\* No row is locked by two requests.
Locks == \A t, u \in Txs : t # u => \A i : ~(i \in Locked(t) /\ i \in Locked(u))

Sound ==
    /\ \A s \in Sales : db[SaleRow(s)] \in SaleRecord
    /\ \A k \in Slots : db[Batch(k)] \in Nat /\ db[Lot(k)] \in Nat
    /\ DOMAIN seen = Txs

\* A request under way: a void takes nothing from batches or lots, and what
\* writes the sale first reverses its ledgers afterwards.
Plan(t) ==
    /\ InOrder(todo[t])
    /\ request[t].kind = "void" => ~Left("fifo", todo[t]) /\ ~Left("write", todo[t])
    /\ Left("sale", todo[t]) => Left("unfifo", todo[t]) /\ Left("unlots", todo[t])

\* It locks its own sale and no other, from the statement that writes it on,
\* and batches only with the sale; lots it reads without a lock.
Reach(t) ==
    /\ \A s \in Sales : SaleRow(s) \in Locked(t) => s = request[t].sale /\ ~Idle(t)
    /\ ~Idle(t) => (Left("sale", todo[t]) <=> ~HoldsSale(t))
    /\ \A k \in Slots : /\ Batch(k) \in Locked(t) =>
                              ~Idle(t) /\ HoldsSale(t) /\ own[t][Batch(k)] \in Nat
                        /\ Lot(k) \in Locked(t) => own[t][Lot(k)] \in Nat

\* What it read of the lots and has not written yet.
Reading(t) ==
    /\ seen[t].take \in Taken
    /\ SumFunction(seen[t].take) <= request[t].quantity
    /\ \A k \in Slots : seen[t].held[k] - seen[t].take[k] \in Nat

\* In what it sees, the units its ledger rows name and the units left in the
\* batches add up to what is committed; and its ledgers, once rewritten, stay
\* within the sale.
Balanced(t) ==
    /\ Mine(t) \in SaleRecord
    /\ request[t].kind # "void" => Mine(t).quantity = request[t].quantity
    /\ \A k \in Slots : Mine(t).fifo[k] + See(t, Batch(k)) = Kept(t).fifo[k] + db[Batch(k)]
    /\ ~Left("unfifo", todo[t]) =>
          IF Left("fifo", todo[t]) THEN Mine(t).fifo = Nothing
          ELSE SumFunction(Mine(t).fifo) <= Mine(t).quantity
    /\ ~Left("unlots", todo[t]) =>
          IF Left("write", todo[t]) THEN Mine(t).lots = Nothing
          ELSE SumFunction(Mine(t).lots) <= Mine(t).quantity

Working(t) ==
    /\ Reach(t)
    /\ ~Idle(t) => Plan(t)
    /\ ~Idle(t) /\ Left("write", todo[t]) /\ ~Left("lots", todo[t]) => Reading(t)
    /\ ~Idle(t) /\ HoldsSale(t) => Balanced(t)

LedgersInv ==
    /\ Locks /\ Sound /\ BatchConserved /\ LedgersWithinSale
    /\ \A t \in Txs : Working(t)

------------------------------------------------------------------------------
(* The plan of a request.                                                  *)

LEMMA RankOf ==
    /\ Rank("sale") = 1 /\ Rank("stock") = 2 /\ Rank("unfifo") = 3 /\ Rank("fifo") = 4
    /\ Rank("unlots") = 5 /\ Rank("lots") = 6 /\ Rank("write") = 7 /\ Rank("commit") = 8
BY DEF Rank

LEMMA RankNat == \A step \in Names : Rank(step) \in 1..8
BY RankOf DEF Names

\* What is left after a statement.
LEMMA TailLeft ==
    ASSUME NEW steps \in Seq(Names), steps # <<>>, InOrder(steps)
    PROVE  /\ InOrder(Tail(steps))
           /\ \A x : Left(x, Tail(steps)) <=> Left(x, steps) /\ x # Head(steps)
           /\ \A x : Left(x, steps) => Rank(Head(steps)) <= Rank(x)
           /\ Left(Head(steps), steps) /\ Head(steps) \in Names
<1>1. /\ Len(steps) \in Nat \ {0} /\ Len(Tail(steps)) = Len(steps) - 1
      /\ \A i \in 1..Len(Tail(steps)) : Tail(steps)[i] = steps[i + 1]
      /\ Head(steps) = steps[1] /\ Head(steps) \in Names
  OBVIOUS
<1>2. ASSUME NEW i \in 1..Len(steps)
      PROVE  Rank(steps[i]) \in Nat
  <2>1. steps[i] \in Names
    OBVIOUS
  <2>2. QED
    BY <2>1, RankNat
<1>3. InOrder(Tail(steps))
  <2>1. ASSUME NEW i \in 1..Len(Tail(steps)), NEW j \in 1..Len(Tail(steps)), i < j
        PROVE  Rank(Tail(steps)[i]) < Rank(Tail(steps)[j])
    <3>1. i + 1 \in 1..Len(steps) /\ j + 1 \in 1..Len(steps) /\ i + 1 < j + 1
      BY <1>1, <2>1
    <3>2. QED
      BY <1>1, <3>1 DEF InOrder
  <2>2. QED
    BY <2>1 DEF InOrder
<1>4. ASSUME NEW i \in 1..Len(steps), i # 1
      PROVE  Rank(steps[1]) < Rank(steps[i])
  <2>1. 1 \in 1..Len(steps) /\ 1 < i
    BY <1>1, <1>4
  <2>2. QED
    BY <2>1 DEF InOrder
<1>5. ASSUME NEW x, Left(x, Tail(steps))
      PROVE  Left(x, steps) /\ x # Head(steps)
  <2>1. PICK i \in 1..Len(Tail(steps)) : Tail(steps)[i] = x
    BY <1>5 DEF Left
  <2>2. i + 1 \in 1..Len(steps) /\ i + 1 # 1 /\ steps[i + 1] = x
    BY <1>1, <2>1
  <2>3. 1 \in 1..Len(steps) /\ Rank(steps[1]) < Rank(x) /\ Rank(x) \in Nat
    BY <1>1, <1>2, <1>4, <2>2
  <2>4. x # Head(steps)
    BY <1>1, <2>3
  <2>5. QED
    BY <2>2, <2>4 DEF Left
<1>6. ASSUME NEW x, Left(x, steps), x # Head(steps)
      PROVE  Left(x, Tail(steps))
  <2>1. PICK i \in 1..Len(steps) : steps[i] = x
    BY <1>6 DEF Left
  <2>2. i # 1
    BY <1>1, <1>6, <2>1
  <2>3. i - 1 \in 1..Len(Tail(steps)) /\ (i - 1) + 1 = i
    BY <1>1, <2>1, <2>2
  <2>4. Tail(steps)[i - 1] = x
    BY <1>1, <2>1, <2>3
  <2>5. QED
    BY <2>3, <2>4 DEF Left
<1>7. ASSUME NEW x, Left(x, steps)
      PROVE  Rank(Head(steps)) <= Rank(x)
  <2>1. PICK i \in 1..Len(steps) : steps[i] = x
    BY <1>7 DEF Left
  <2>2. 1 \in 1..Len(steps)
    BY <1>1
  <2>3. Rank(steps[1]) \in Nat /\ Rank(steps[i]) \in Nat
    BY <1>2, <2>2
  <2>4. QED
    BY <1>1, <1>4, <2>1, <2>3
<1>8. Left(Head(steps), steps)
  BY <1>1 DEF Left
<1>9. QED
  BY <1>1, <1>3, <1>5, <1>6, <1>7, <1>8

LEMMA AllInOrder ==
    ASSUME NEW kind \in {"create", "update", "void"}
    PROVE  /\ InOrder(Steps[kind])
           /\ kind = "void" => ~Left("fifo", Steps[kind]) /\ ~Left("write", Steps[kind])
           /\ kind = "create" => ~Left("sale", Steps[kind])
           /\ kind # "create" => Left("sale", Steps[kind]) /\ Left("unfifo", Steps[kind])
                                    /\ Left("unlots", Steps[kind])
           /\ Left("lots", Steps[kind]) \/ ~Left("write", Steps[kind])
           /\ kind = "create" => /\ ~Left("unfifo", Steps[kind]) /\ Left("fifo", Steps[kind])
                                 /\ ~Left("unlots", Steps[kind]) /\ Left("write", Steps[kind])
<1>1. CASE kind = "create"
  <2> DEFINE s == <<"stock", "fifo", "lots", "write", "commit">>
  <2>1. Steps[kind] = s /\ Len(s) = 5
    BY <1>1 DEF Steps
  <2>2. /\ s[1] = "stock" /\ s[2] = "fifo" /\ s[3] = "lots" /\ s[4] = "write"
        /\ s[5] = "commit"
    OBVIOUS
  <2> HIDE DEF s
  <2>3. \A i \in 1..5 : i = 1 \/ i = 2 \/ i = 3 \/ i = 4 \/ i = 5
    OBVIOUS
  <2>4. /\ Rank(s[1]) = 2 /\ Rank(s[2]) = 4 /\ Rank(s[3]) = 6 /\ Rank(s[4]) = 7
        /\ Rank(s[5]) = 8
    BY <2>2, RankOf
  <2>5. InOrder(s)
    BY <2>1, <2>3, <2>4 DEF InOrder
  <2>6. /\ \A x : Left(x, s) => x \in {"stock", "fifo", "lots", "write", "commit"}
        /\ Left("fifo", s) /\ Left("lots", s) /\ Left("write", s)
    BY <2>1, <2>2, <2>3 DEF Left
  <2>7. ~Left("sale", s) /\ ~Left("unfifo", s) /\ ~Left("unlots", s)
    BY <2>6
  <2>8. QED
    BY <1>1, <2>1, <2>5, <2>6, <2>7
<1>2. CASE kind = "update"
  <2> DEFINE s == <<"sale", "stock", "unfifo", "fifo", "unlots", "lots", "write", "commit">>
  <2>1. Steps[kind] = s /\ Len(s) = 8
    BY <1>2 DEF Steps
  <2>2. /\ s[1] = "sale" /\ s[2] = "stock" /\ s[3] = "unfifo" /\ s[4] = "fifo"
        /\ s[5] = "unlots" /\ s[6] = "lots" /\ s[7] = "write" /\ s[8] = "commit"
    OBVIOUS
  <2> HIDE DEF s
  <2>3. \A i \in 1..8 : i = 1 \/ i = 2 \/ i = 3 \/ i = 4 \/ i = 5 \/ i = 6 \/ i = 7 \/ i = 8
    OBVIOUS
  <2>4. \A i \in 1..8 : Rank(s[i]) = i
    BY <2>2, <2>3, RankOf
  <2>5. InOrder(s)
    BY <2>1, <2>4 DEF InOrder
  <2>6. Left("sale", s) /\ Left("unfifo", s) /\ Left("unlots", s) /\ Left("lots", s)
    BY <2>1, <2>2 DEF Left
  <2>7. QED
    BY <1>2, <2>1, <2>5, <2>6
<1>3. CASE kind = "void"
  <2> DEFINE s == <<"sale", "stock", "unfifo", "unlots", "commit">>
  <2>1. Steps[kind] = s /\ Len(s) = 5
    BY <1>3 DEF Steps
  <2>2. /\ s[1] = "sale" /\ s[2] = "stock" /\ s[3] = "unfifo" /\ s[4] = "unlots"
        /\ s[5] = "commit"
    OBVIOUS
  <2> HIDE DEF s
  <2>3. \A i \in 1..5 : i = 1 \/ i = 2 \/ i = 3 \/ i = 4 \/ i = 5
    OBVIOUS
  <2>4. /\ Rank(s[1]) = 1 /\ Rank(s[2]) = 2 /\ Rank(s[3]) = 3 /\ Rank(s[4]) = 5
        /\ Rank(s[5]) = 8
    BY <2>2, RankOf
  <2>5. InOrder(s)
    BY <2>1, <2>3, <2>4 DEF InOrder
  <2>6. /\ \A x : Left(x, s) => x \in {"sale", "stock", "unfifo", "unlots", "commit"}
        /\ Left("sale", s) /\ Left("unfifo", s) /\ Left("unlots", s)
    BY <2>1, <2>2, <2>3 DEF Left
  <2>7. ~Left("fifo", s) /\ ~Left("write", s)
    BY <2>6
  <2>8. QED
    BY <1>3, <2>1, <2>5, <2>6, <2>7
<1>4. QED
  BY <1>1, <1>2, <1>3

\* What a statement that is not the commit leaves of the plan.
LEMMA Advanced ==
    ASSUME AccountInv, LedgersInv, NEW t \in Txs, ~Idle(t), Head(todo[t]) # "commit",
           Advance(t), request' = request
    PROVE  /\ ~Idle(t)' /\ Plan(t)'
           /\ \A u \in Txs : u # t => todo'[u] = todo[u]
           /\ \A x : Left(x, todo'[t]) <=> Left(x, todo[t]) /\ x # Head(todo[t])
           /\ \A x : Left(x, todo[t]) => Rank(Head(todo[t])) <= Rank(x)
           /\ Left(Head(todo[t]), todo[t])
           /\ ~Left("sale", todo'[t])
<1>1. /\ DOMAIN todo' = Txs /\ todo'[t] = Tail(todo[t])
      /\ \A u \in Txs : u # t => todo'[u] = todo[u]
  BY DEF Advance, AccountInv, Tables
<1>2. todo[t] \in Seq(Names) /\ todo[t] # <<>> /\ Planned(todo[t])
  BY DEF AccountInv, Booking, Idle
<1>3. Plan(t)
  BY DEF LedgersInv, Working
<1>4. /\ InOrder(todo'[t])
      /\ \A x : Left(x, todo'[t]) <=> Left(x, todo[t]) /\ x # Head(todo[t])
      /\ \A x : Left(x, todo[t]) => Rank(Head(todo[t])) <= Rank(x)
      /\ Left(Head(todo[t]), todo[t]) /\ Head(todo[t]) \in Names
  BY <1>1, <1>2, <1>3, TailLeft DEF Plan
<1>5. ~Idle(t)'
  BY <1>1, <1>2, NextPlanned DEF Idle
<1>6. ~Left("sale", todo'[t])
  <2>1. SUFFICES ASSUME Left("sale", todo[t]) PROVE Head(todo[t]) = "sale"
    BY <1>4
  <2>2. Rank(Head(todo[t])) <= 1
    BY <1>4, <2>1, RankOf
  <2>3. QED
    BY <1>4, <2>2, RankOf DEF Names
<1>7. Plan(t)'
  BY <1>3, <1>4, <1>6 DEF Plan
<1>8. QED
  BY <1>1, <1>4, <1>5, <1>6, <1>7

------------------------------------------------------------------------------
(* Rows and draws.                                                         *)

\* Rows of different tables differ, and so do rows of one table.
LEMMA RowsApart ==
    /\ \A s, k : SaleRow(s) # Batch(k) /\ SaleRow(s) # Lot(k)
    /\ \A k, l : Batch(k) # Lot(l)
    /\ \A k, l : Batch(k) = Batch(l) => k = l
    /\ \A k, l : Lot(k) = Lot(l) => k = l
    /\ \A s, u : SaleRow(s) = SaleRow(u) => s = u
    /\ \A r, s : StockRow(r) # SaleRow(s)
    /\ \A r, k : StockRow(r) # Batch(k) /\ StockRow(r) # Lot(k)
BY DEF SaleRow, StockRow, Batch, Lot

\* A draw takes whole units, no more than the slots hold or than asked for.
LEMMA DrawsBounded ==
    ASSUME NEW STATE held, held \in Taken, NEW STATE age,
           NEW STATE r, NEW STATE quantity, quantity \in Nat,
           NEW take \in Draws(held, age, r, quantity)
    PROVE  /\ take \in Taken
           /\ \A k \in Slots : take[k] <= held[k]
           /\ \A k \in Slots : take[k] # 0 => k \in VariantOrUntagged(r) /\ held[k] > 0
           /\ SumFunction(take) <= quantity
<1> DEFINE eligible == {k \in VariantOrUntagged(r) : held[k] > 0}
           avail    == Restrict(held, eligible)
<1>1. PICK give \in Allocations(avail, age, quantity) : take = Over(give, Nothing)
  BY DEF Draws
<1>2. eligible \in SUBSET Slots
  BY DEF VariantOrUntagged
<1>3. DOMAIN avail = eligible /\ avail \in [eligible -> Nat]
      /\ \A k \in eligible : avail[k] = held[k]
  BY <1>2 DEF Restrict, Taken
<1>4. /\ give \in [eligible -> 0..quantity]
      /\ \A k \in eligible : give[k] <= held[k]
      /\ SumFunction(give) = LesserOf(quantity, SumFunction(avail))
  BY <1>1, <1>3 DEF Allocations
<1>5. take = [k \in Slots |-> IF k \in eligible THEN give[k] ELSE 0]
  <2>1. DOMAIN give = eligible /\ eligible \cup Slots = Slots /\ DOMAIN Nothing = Slots
    BY <1>2, <1>4 DEF Nothing
  <2>2. \A k \in Slots : Nothing[k] = 0
    BY DEF Nothing
  <2> HIDE DEF eligible
  <2>3. QED
    BY <1>1, <2>1, <2>2 DEF Over
<1>6. IsFiniteSet(Slots) /\ IsFiniteSet(eligible)
  BY <1>2, FiniteAssumption, FS_Subset
<1>7. \A k \in Slots : held[k] \in Nat
  BY DEF Taken
<1>8. \A k \in eligible : k \in VariantOrUntagged(r) /\ held[k] > 0
  OBVIOUS
<1> HIDE DEF avail, eligible
<1>9. \A k \in eligible : give[k] \in Nat
  BY <1>4
<1>10. take \in Taken
  BY <1>5, <1>9 DEF Taken
<1>11. \A k \in Slots : take[k] <= held[k] /\ (take[k] # 0 => k \in eligible)
  BY <1>4, <1>5, <1>7
<1>12. SumFunction(avail) \in Nat
  BY <1>3, <1>6, FunctionNat
<1>13. SumFunction(give) <= quantity
  BY <1>4, <1>12 DEF LesserOf
<1>14. SumFunctionOnSet(take, Slots) = SumFunctionOnSet(take, eligible)
  <2>1. \A k \in Slots : take[k] \in Int
    BY <1>10 DEF Taken
  <2>2. \A k \in Slots \ eligible : take[k] = 0
    BY <1>5
  <2>3. QED
    BY <1>2, <1>6, <2>1, <2>2, SumWithin
<1>15. SumFunctionOnSet(take, eligible) = SumFunctionOnSet(give, eligible)
  <2>1. \A k \in eligible : take[k] = give[k]
    BY <1>2, <1>5
  <2>2. QED
    BY <1>6, <2>1, SumSame
<1>16. give \in [eligible -> Int] /\ take \in [Slots -> Int]
  BY <1>4, <1>10 DEF Taken
<1>17. /\ SumFunction(give) = SumFunctionOnSet(give, eligible)
       /\ SumFunction(take) = SumFunctionOnSet(take, Slots)
  BY <1>16, FunctionSum
<1>18. SumFunction(take) <= quantity
  BY <1>13, <1>14, <1>15, <1>17
<1>19. QED
  BY <1>8, <1>10, <1>11, <1>18

LEMMA NothingTaken == Nothing \in Taken /\ SumFunction(Nothing) = 0
<1>1. Nothing \in Taken /\ Nothing \in [Slots -> Int] /\ \A k \in Slots : Nothing[k] = 0
  BY DEF Nothing, Taken
<1>2. QED
  BY <1>1, FiniteAssumption, FunctionZero

LEMMA PlusNothing == ASSUME NEW take \in Taken PROVE Plus(Nothing, take) = take
<1>1. \A k \in Slots : Nothing[k] + take[k] = take[k]
  BY DEF Nothing, Taken
<1>2. take = [k \in Slots |-> take[k]]
  BY DEF Taken
<1>3. QED
  BY <1>1, <1>2 DEF Plus

------------------------------------------------------------------------------
(* The steps.                                                              *)

\* What another request's step leaves of a request, when the rows it has
\* locked stay as they are.
LEMMA OthersWork ==
    ASSUME AccountInv, LedgersInv, Sound', NEW u \in Txs,
           own'[u] = own[u] /\ todo'[u] = todo[u] /\ request'[u] = request[u]
              /\ seen'[u] = seen[u],
           \A i \in Locked(u) \cap RowIds : db'[i] = db[i]
    PROVE  Working(u)'
<1>1. /\ Idle(u)' <=> Idle(u)
      /\ Locked(u)' = Locked(u)
      /\ HoldsSale(u)' <=> HoldsSale(u)
  BY DEF Idle, Locked, HoldsSale
<1>2. Reach(u) /\ (~Idle(u) => Plan(u))
      /\ (~Idle(u) /\ Left("write", todo[u]) /\ ~Left("lots", todo[u]) => Reading(u))
      /\ (~Idle(u) /\ HoldsSale(u) => Balanced(u))
  BY DEF LedgersInv, Working
<1>3. Reach(u)'
  BY <1>1, <1>2 DEF Reach
<1>4. ~Idle(u)' => Plan(u)'
  BY <1>1, <1>2 DEF Plan
<1>5. ~Idle(u)' /\ Left("write", todo'[u]) /\ ~Left("lots", todo'[u]) => Reading(u)'
  BY <1>1, <1>2 DEF Reading
<1>6. ASSUME ~Idle(u), HoldsSale(u) PROVE Balanced(u)'
  <2>1. Mine(u)' = Mine(u) /\ Kept(u)' = Kept(u)
    <3>1. SaleRow(request[u].sale) \in Locked(u) \cap RowIds
      BY <1>6 DEF HoldsSale, RowIds, AccountInv, Asked
    <3>2. QED
      BY <3>1 DEF Mine, Kept
  <2>2. ASSUME NEW k \in Slots
        PROVE  Mine(u)'.fifo[k] + See(u, Batch(k))' = Kept(u)'.fifo[k] + db'[Batch(k)]
    <3>1. Mine(u).fifo[k] + See(u, Batch(k)) = Kept(u).fifo[k] + db[Batch(k)]
      BY <1>2, <1>6 DEF Balanced
    <3>2. CASE Batch(k) \in Locked(u)
      <4>1. See(u, Batch(k))' = See(u, Batch(k)) /\ db'[Batch(k)] = db[Batch(k)]
        BY <1>1, <3>2 DEF See, Locked, RowIds
      <4>2. QED
        BY <2>1, <3>1, <4>1
    <3>3. CASE Batch(k) \notin Locked(u)
      <4>1. See(u, Batch(k))' = db'[Batch(k)] /\ See(u, Batch(k)) = db[Batch(k)]
        BY <1>1, <3>3 DEF See, Locked
      <4>2. /\ db[Batch(k)] \in Nat /\ db'[Batch(k)] \in Nat
            /\ Mine(u).fifo[k] \in Nat /\ Kept(u).fifo[k] \in Nat
        <5>1. Mine(u) \in SaleRecord
          BY <1>2, <1>6 DEF Balanced
        <5>2. Kept(u) \in SaleRecord
          <6>1. PICK s \in Sales : s = request[u].sale
            BY <1>6 DEF AccountInv, Asked
          <6>2. QED
            BY <6>1 DEF Kept, LedgersInv, Sound
        <5>3. QED
          BY <5>1, <5>2 DEF LedgersInv, Sound, SaleRecord, Taken
      <4>3. Mine(u).fifo[k] = Kept(u).fifo[k]
        BY <3>1, <4>1, <4>2
      <4>4. QED
        BY <2>1, <4>1, <4>2, <4>3
    <3>4. QED
      BY <3>2, <3>3
  <2>3. QED
    BY <1>2, <1>6, <2>1, <2>2 DEF Balanced
<1>7. QED
  BY <1>1, <1>3, <1>4, <1>5, <1>6 DEF Working

\* A statement of one request keeps the invariant when it keeps that request's.
LEMMA StatementInv ==
    ASSUME AccountInv, LedgersInv, NEW t \in Txs, UNCHANGED <<db, request>>,
           DOMAIN seen' = Txs,
           \A u \in Txs : u # t => own'[u] = own[u] /\ todo'[u] = todo[u] /\ seen'[u] = seen[u],
           \A u \in Txs : u # t => \A i \in Locked(t)' : i \in Locked(t) \/ i \notin Locked(u),
           Working(t)'
    PROVE  LedgersInv'
<1>1. \A u \in Txs : u # t => Locked(u)' = Locked(u)
  BY DEF Locked
<1>2. Locks'
  <2>1. \A u \in Txs : u # t => \A i : ~(i \in Locked(t)' /\ i \in Locked(u)')
    BY <1>1 DEF LedgersInv, Locks
  <2>2. QED
    BY <1>1, <2>1 DEF LedgersInv, Locks
<1>3. Sound'
  BY DEF LedgersInv, Sound
<1>4. BatchConserved' /\ LedgersWithinSale'
  BY DEF LedgersInv, BatchConserved, LedgersWithinSale
<1>5. ASSUME NEW u \in Txs PROVE Working(u)'
  <2>1. CASE u = t
    BY <2>1
  <2>2. CASE u # t
    <3>1. own'[u] = own[u] /\ todo'[u] = todo[u] /\ request'[u] = request[u]
             /\ seen'[u] = seen[u]
      BY <2>2
    <3>2. \A i \in Locked(u) \cap RowIds : db'[i] = db[i]
      OBVIOUS
    <3>3. QED
      BY <1>3, <3>1, <3>2, OthersWork
  <2>3. QED
    BY <2>1, <2>2
<1>6. QED
  BY <1>2, <1>3, <1>4, <1>5 DEF LedgersInv

LEMMA FreeMeans ==
    ASSUME NEW t \in Txs, NEW STATE ids, Free(t, ids)
    PROVE  \A u \in Txs : u # t => \A i \in ids : i \notin Locked(u)
BY DEF Free, HeldByOthers

\* What a request under way knows of its sale.
LEMMA OwnSale ==
    ASSUME AccountInv, LedgersInv, NEW t \in Txs, ~Idle(t)
    PROVE  /\ request[t].sale \in Sales /\ request[t].row \in Rows
           /\ request[t].quantity \in Nat
           /\ Kept(t) \in SaleRecord
           /\ Left("sale", todo[t]) <=> ~HoldsSale(t)
           /\ HoldsSale(t) => Balanced(t) /\ Mine(t) \in SaleRecord /\ SaleOf(t) = Mine(t)
           /\ \A k \in Slots : /\ db[Batch(k)] \in Nat /\ db[Lot(k)] \in Nat
                               /\ See(t, Batch(k)) \in Nat /\ See(t, Lot(k)) \in Nat
<1>1. request[t].sale \in Sales /\ request[t].row \in Rows /\ request[t].quantity \in Nat
  BY DEF AccountInv, Asked
<1>2. Sound /\ Reach(t) /\ (HoldsSale(t) => Balanced(t))
  BY DEF LedgersInv, Working
<1>3. Kept(t) \in SaleRecord
  BY <1>1, <1>2 DEF Sound, Kept
<1>4. HoldsSale(t) => Mine(t) \in SaleRecord /\ SaleOf(t) = Mine(t)
  BY <1>2 DEF Balanced, SaleOf, See, Mine, HoldsSale, Locked
<1>5. \A k \in Slots : /\ db[Batch(k)] \in Nat /\ db[Lot(k)] \in Nat
                       /\ See(t, Batch(k)) \in Nat /\ See(t, Lot(k)) \in Nat
  BY <1>2 DEF Sound, Reach, See, Locked
<1>6. QED
  BY <1>1, <1>2, <1>3, <1>4, <1>5 DEF Reach

\* The request of a statement works on when its rows do.
LEMMA Works ==
    ASSUME AccountInv, LedgersInv, NEW t \in Txs, ~Idle(t), Head(todo[t]) # "commit",
           Advance(t), UNCHANGED <<db, request>>,
           \A s \in Sales : SaleRow(s) \in Locked(t)' => s = request[t].sale,
           SaleRow(request[t].sale) \in Locked(t)',
           \A k \in Slots : /\ Batch(k) \in Locked(t)' => own'[t][Batch(k)] \in Nat
                            /\ Lot(k) \in Locked(t)' => own'[t][Lot(k)] \in Nat,
           IF Head(todo[t]) = "lots" THEN Reading(t)' ELSE seen'[t] = seen[t],
           Balanced(t)'
    PROVE  Working(t)'
<1>1. /\ ~Idle(t)' /\ Plan(t)'
      /\ \A x : Left(x, todo'[t]) <=> Left(x, todo[t]) /\ x # Head(todo[t])
      /\ ~Left("sale", todo'[t])
  BY Advanced
<1>2. request' = request /\ HoldsSale(t)'
  BY DEF HoldsSale
<1>3. Reach(t)'
  BY <1>1, <1>2 DEF Reach
<1>4. ASSUME Left("write", todo'[t]), ~Left("lots", todo'[t])
      PROVE  Reading(t)'
  <2>1. CASE Head(todo[t]) = "lots"
    BY <2>1
  <2>2. CASE Head(todo[t]) # "lots"
    <3>1. Left("write", todo[t]) /\ ~Left("lots", todo[t])
      BY <1>1, <1>4, <2>2
    <3>2. Reading(t)
      BY <3>1 DEF LedgersInv, Working
    <3>3. QED
      BY <1>2, <2>2, <3>2 DEF Reading
  <2>3. QED
    BY <2>1, <2>2
<1>5. QED
  BY <1>1, <1>3, <1>4 DEF Working

\* What a write leaves in the request's own rows.
LEMMA Written ==
    ASSUME AccountInv, NEW t \in Txs, NEW STATE values, Write(t, values)
    PROVE  /\ \A u \in Txs : u # t => own'[u] = own[u]
           /\ Locked(t)' = Locked(t) \cup DOMAIN values
           /\ \A i \in DOMAIN values : own'[t][i] = values[i]
           /\ \A i \in Locked(t) : i \notin DOMAIN values => own'[t][i] = own[t][i]
<1>1. /\ own'[t] = Over(values, own[t])
      /\ \A u \in Txs : u # t => own'[u] = own[u]
  BY DEF Write, AccountInv, Tables
<1>2. QED
  BY <1>1 DEF Over, Locked

LEMMA SaleWritten ==
    ASSUME AccountInv, LedgersInv, NEW t \in Txs, ~Idle(t), request' = request,
           NEW STATE v, NEW STATE others,
           \A i \in DOMAIN others : \E k \in Slots : i = Batch(k) \/ i = Lot(k),
           Write(t, Over(Only(SaleRow(request[t].sale), v), others))
    PROVE  /\ \A u \in Txs : u # t => own'[u] = own[u]
           /\ Locked(t)' = Locked(t) \cup DOMAIN others \cup {SaleRow(request[t].sale)}
           /\ Mine(t)' = v /\ Kept(t)' = db'[SaleRow(request[t].sale)]
           /\ \A i \in DOMAIN others : own'[t][i] = others[i]
           /\ \A i \in Locked(t) : i # SaleRow(request[t].sale) /\ i \notin DOMAIN others
                 => own'[t][i] = own[t][i]
           /\ \A s \in Sales : SaleRow(s) \in Locked(t)' => s = request[t].sale
<1> DEFINE i == SaleRow(request[t].sale)
           one == Only(i, v)
<1>1. DOMAIN one = {i} /\ one[i] = v
  BY SingleRow
<1> HIDE DEF one
<1>2. /\ DOMAIN Over(one, others) = {i} \cup DOMAIN others
      /\ Over(one, others)[i] = v
      /\ \A j \in DOMAIN others : j # i => Over(one, others)[j] = others[j]
  BY <1>1 DEF Over
<1>3. i \notin DOMAIN others /\ \A s : SaleRow(s) \notin DOMAIN others
  BY RowsApart
<1>4. Write(t, Over(one, others))
  BY DEF one
<1>5. /\ \A u \in Txs : u # t => own'[u] = own[u]
      /\ Locked(t)' = Locked(t) \cup DOMAIN Over(one, others)
      /\ \A j \in DOMAIN Over(one, others) : own'[t][j] = Over(one, others)[j]
      /\ \A j \in Locked(t) : j \notin DOMAIN Over(one, others) => own'[t][j] = own[t][j]
  BY <1>4, Written
<1>6. Mine(t)' = v /\ Kept(t)' = db'[i]
  BY <1>2, <1>5 DEF Mine, Kept
<1>7. \A s \in Sales : SaleRow(s) \in Locked(t)' => s = request[t].sale
  BY <1>2, <1>3, <1>5, RowsApart DEF LedgersInv, Working, Reach
<1>8. QED
  BY <1>2, <1>3, <1>5, <1>6, <1>7

LEMMA WriteSaleInv ==
    ASSUME AccountInv, LedgersInv, NEW t \in Txs, WriteSale(t)
    PROVE  LedgersInv'
<1> DEFINE i == SaleRow(request[t].sale)
           v == IF request[t].kind = "void" THEN [db[i] EXCEPT !.state = "VOIDED"]
                ELSE [db[i] EXCEPT !.quantity = request[t].quantity]
<1>1. /\ ~Idle(t) /\ Head(todo[t]) = "sale" /\ Advance(t) /\ Free(t, {i})
      /\ Write(t, Only(i, v))
      /\ UNCHANGED <<db, request, seen>>
  BY WantedAt DEF WriteSale, At
<1>2. /\ Plan(t)' /\ Left("sale", todo[t])
      /\ \A u \in Txs : u # t => todo'[u] = todo[u]
      /\ \A x : Left(x, todo'[t]) <=> Left(x, todo[t]) /\ x # "sale"
  BY <1>1, Advanced
<1>3. Left("unfifo", todo'[t]) /\ Left("unlots", todo'[t])
  BY <1>1, <1>2 DEF LedgersInv, Working, Plan
<1>4. ~HoldsSale(t) /\ Kept(t) \in SaleRecord /\ request[t].quantity \in Nat
      /\ request[t].sale \in Sales
  BY <1>1, <1>2, OwnSale
<1>5. /\ v \in SaleRecord /\ v.fifo = Kept(t).fifo
      /\ request[t].kind # "void" => v.quantity = request[t].quantity
  BY <1>4 DEF Kept, SaleRecord
<1> HIDE DEF v
<1>6. DOMAIN Only(i, v) = {i} /\ Only(i, v)[i] = v
  BY SingleRow
<1>7. /\ \A u \in Txs : u # t => own'[u] = own[u]
      /\ Locked(t)' = Locked(t) \cup {i}
      /\ own'[t][i] = v
      /\ \A j \in Locked(t) : j # i => own'[t][j] = own[t][j]
  BY <1>1, <1>6, Written
<1>8. Reach(t)
  BY DEF LedgersInv, Working
<1>9. \A k \in Slots : /\ Batch(k) \notin Locked(t) /\ Batch(k) \notin Locked(t)'
                       /\ Lot(k) \in Locked(t)' => own'[t][Lot(k)] \in Nat
  BY <1>4, <1>7, <1>8, RowsApart DEF Reach
<1>10. Balanced(t)'
  <2>1. Mine(t)' = v /\ Kept(t)' = Kept(t) /\ request' = request
    BY <1>1, <1>7 DEF Mine, Kept
  <2>2. \A k \in Slots : See(t, Batch(k))' = db[Batch(k)] /\ db'[Batch(k)] = db[Batch(k)]
    BY <1>1, <1>9 DEF See, Locked
  <2>3. QED
    BY <1>3, <1>5, <2>1, <2>2 DEF Balanced
<1>11. \A s \in Sales : SaleRow(s) \in Locked(t)' => s = request[t].sale
  BY <1>7, <1>8, RowsApart DEF Reach
<1>12. Working(t)'
  BY <1>1, <1>7, <1>9, <1>10, <1>11, Works
<1>13. \A u \in Txs : u # t => i \notin Locked(u)
  BY <1>1, FreeMeans
<1>14. DOMAIN seen' = Txs
  BY <1>1 DEF LedgersInv, Sound
<1>15. QED
  BY <1>1, <1>2, <1>7, <1>12, <1>13, <1>14, StatementInv

\* The ledgers of the sale stay when a statement writes neither it nor a batch.
LEMMA BalanceStays ==
    ASSUME AccountInv, LedgersInv, NEW t \in Txs, ~Idle(t), HoldsSale(t),
           UNCHANGED <<db, request>>, HoldsSale(t)', Mine(t)' = Mine(t),
           \A k \in Slots : See(t, Batch(k))' = See(t, Batch(k)),
           \A x \in {"unfifo", "fifo", "unlots", "write"} :
              Left(x, todo'[t]) <=> Left(x, todo[t])
    PROVE  Balanced(t)'
<1>1. Balanced(t)
  BY OwnSale
<1>2. Kept(t)' = Kept(t)
  BY DEF Kept
<1>3. QED
  BY <1>1, <1>2 DEF Balanced

LEMMA AdjustStockInv ==
    ASSUME AccountInv, LedgersInv, NEW t \in Txs, AdjustStock(t), ~Rollback(t)
    PROVE  LedgersInv'
<1> DEFINE i == StockRow(request[t].row)
           level == See(t, i) + StockChange(t)
<1>1. /\ ~Idle(t) /\ Head(todo[t]) = "stock" /\ Advance(t) /\ Free(t, {i})
      /\ Write(t, Only(i, level))
      /\ UNCHANGED <<db, request, seen>>
  BY WantedAt DEF AdjustStock, At
<1>2. /\ \A u \in Txs : u # t => todo'[u] = todo[u]
      /\ \A x : Left(x, todo'[t]) <=> Left(x, todo[t]) /\ x # "stock"
      /\ ~Left("sale", todo'[t])
  BY <1>1, Advanced
<1>3. ~Left("sale", todo[t])
  BY <1>2
<1>4. HoldsSale(t) /\ request[t].sale \in Sales
  BY <1>1, <1>3, OwnSale
<1> HIDE DEF level
<1>5. DOMAIN Only(i, level) = {i}
  BY SingleRow
<1>6. /\ \A u \in Txs : u # t => own'[u] = own[u]
      /\ Locked(t)' = Locked(t) \cup {i}
      /\ \A j \in Locked(t) : j # i => own'[t][j] = own[t][j]
  BY <1>1, <1>5, Written
<1>7. /\ \A s : i # SaleRow(s)
      /\ \A k : i # Batch(k) /\ i # Lot(k)
  BY RowsApart
<1>8. Reach(t)
  BY DEF LedgersInv, Working
<1>9. \A k \in Slots : /\ Batch(k) \in Locked(t)' => own'[t][Batch(k)] \in Nat
                       /\ Lot(k) \in Locked(t)' => own'[t][Lot(k)] \in Nat
                       /\ See(t, Batch(k))' = See(t, Batch(k))
  BY <1>1, <1>6, <1>7, <1>8 DEF Reach, See, Locked
<1>10. /\ \A s \in Sales : SaleRow(s) \in Locked(t)' => s = request[t].sale
       /\ SaleRow(request[t].sale) \in Locked(t)'
  BY <1>4, <1>6, <1>7, <1>8 DEF Reach, HoldsSale
<1>11. HoldsSale(t)' /\ Mine(t)' = Mine(t)
  BY <1>1, <1>4, <1>6, <1>7, <1>10 DEF HoldsSale, Mine
<1>12. Balanced(t)'
  BY <1>1, <1>2, <1>4, <1>9, <1>11, BalanceStays
<1>13. Working(t)'
  BY <1>1, <1>9, <1>10, <1>12, Works
<1>14. \A u \in Txs : u # t => i \notin Locked(u)
  BY <1>1, FreeMeans
<1>15. DOMAIN seen' = Txs
  BY <1>1 DEF LedgersInv, Sound
<1>16. QED
  BY <1>1, <1>2, <1>6, <1>13, <1>14, <1>15, StatementInv

LEMMA CreditBatchesInv ==
    ASSUME AccountInv, LedgersInv, NEW t \in Txs, CreditBatches(t)
    PROVE  LedgersInv'
<1> DEFINE used == SaleOf(t).fifo
           ids == {Batch(k) : k \in {l \in Slots : used[l] > 0}}
           v == [SaleOf(t) EXCEPT !.fifo = Nothing]
           others == [i \in ids |-> See(t, i) + used[i[2]]]
<1>0. Wanted(t) = ids
  BY WantedAt DEF CreditBatches, Credit, At
<1>1. /\ ~Idle(t) /\ Head(todo[t]) = "unfifo" /\ Advance(t) /\ Free(t, ids)
      /\ Write(t, Over(Only(SaleRow(request[t].sale), v), others))
      /\ UNCHANGED <<db, request, seen>>
  BY <1>0 DEF CreditBatches, Credit, At
<1>2. /\ \A u \in Txs : u # t => todo'[u] = todo[u]
      /\ \A x : Left(x, todo'[t]) <=> Left(x, todo[t]) /\ x # "unfifo"
      /\ ~Left("sale", todo'[t]) /\ ~Left("sale", todo[t])
  BY <1>1, Advanced
<1>3. /\ HoldsSale(t) /\ Balanced(t) /\ Mine(t) \in SaleRecord /\ SaleOf(t) = Mine(t)
      /\ \A k \in Slots : See(t, Batch(k)) \in Nat
  BY <1>1, <1>2, OwnSale
<1>4. /\ v \in SaleRecord /\ v.fifo = Nothing /\ v.lots = Mine(t).lots
      /\ v.quantity = Mine(t).quantity
  BY <1>3, NothingTaken DEF SaleRecord
<1>5. used \in Taken /\ \A k \in Slots : used[k] \in Nat
  BY <1>3 DEF SaleRecord, Taken
<1>6. /\ DOMAIN others = ids
      /\ \A k \in Slots : /\ Batch(k) \in ids <=> used[k] > 0
                          /\ Lot(k) \notin ids
      /\ \A k \in Slots : used[k] > 0 => others[Batch(k)] = See(t, Batch(k)) + used[k]
      /\ \A i \in ids : \E k \in Slots : i = Batch(k) \/ i = Lot(k)
  <2>1. \A k : Batch(k)[2] = k
    BY DEF Batch
  <2>2. QED
    BY <2>1, RowsApart
<1> HIDE DEF v, others, ids, used
<1>7. /\ \A u \in Txs : u # t => own'[u] = own[u]
      /\ Locked(t)' = Locked(t) \cup ids \cup {SaleRow(request[t].sale)}
      /\ Mine(t)' = v /\ Kept(t)' = db'[SaleRow(request[t].sale)]
      /\ \A i \in ids : own'[t][i] = others[i]
      /\ \A i \in Locked(t) : i # SaleRow(request[t].sale) /\ i \notin ids
            => own'[t][i] = own[t][i]
      /\ \A s \in Sales : SaleRow(s) \in Locked(t)' => s = request[t].sale
  <2>1. \A i \in DOMAIN others : \E k \in Slots : i = Batch(k) \/ i = Lot(k)
    BY <1>6
  <2>2. /\ ~Idle(t) /\ request' = request /\ DOMAIN others = ids
        /\ Write(t, Over(Only(SaleRow(request[t].sale), v), others))
    BY <1>1, <1>6
  <2>3. /\ \A u \in Txs : u # t => own'[u] = own[u]
        /\ Locked(t)' = Locked(t) \cup DOMAIN others \cup {SaleRow(request[t].sale)}
        /\ Mine(t)' = v /\ Kept(t)' = db'[SaleRow(request[t].sale)]
        /\ \A i \in DOMAIN others : own'[t][i] = others[i]
        /\ \A i \in Locked(t) : i # SaleRow(request[t].sale) /\ i \notin DOMAIN others
              => own'[t][i] = own[t][i]
        /\ \A s \in Sales : SaleRow(s) \in Locked(t)' => s = request[t].sale
    BY <2>1, <2>2, SaleWritten
  <2>4. QED
    BY <2>2, <2>3
<1>8. ASSUME NEW k \in Slots PROVE See(t, Batch(k))' = See(t, Batch(k)) + used[k]
  <2>1. CASE used[k] > 0
    BY <1>6, <1>7, <2>1 DEF See, Locked
  <2>2. CASE used[k] = 0
    <3>1. See(t, Batch(k))' = See(t, Batch(k))
      BY <1>1, <1>6, <1>7, <2>2, RowsApart DEF See, Locked
    <3>2. QED
      BY <1>3, <2>2, <3>1
  <2>3. QED
    BY <1>5, <2>1, <2>2
<1>9. ASSUME NEW k \in Slots
      PROVE  /\ Batch(k) \in Locked(t)' => own'[t][Batch(k)] \in Nat
             /\ Lot(k) \in Locked(t)' => own'[t][Lot(k)] \in Nat
  <2>1. Batch(k) \in Locked(t)' => own'[t][Batch(k)] \in Nat
    <3>1. See(t, Batch(k)) + used[k] \in Nat
      BY <1>3, <1>5
    <3>2. QED
      BY <1>8, <3>1 DEF See, Locked
  <2>2. Lot(k) \in Locked(t)' => own'[t][Lot(k)] \in Nat
    <3>1. Lot(k) \in Locked(t) => own[t][Lot(k)] \in Nat
      BY DEF LedgersInv, Working, Reach
    <3>2. Lot(k) # SaleRow(request[t].sale) /\ Lot(k) \notin ids
      BY <1>6, RowsApart
    <3>3. QED
      BY <1>7, <3>1, <3>2
  <2>3. QED
    BY <2>1, <2>2
<1>10. Balanced(t)'
  <2>1. request' = request /\ Kept(t)' = Kept(t)
    BY <1>1, <1>7 DEF Kept
  <2>2. ASSUME NEW k \in Slots
        PROVE  v.fifo[k] + See(t, Batch(k))' = Kept(t).fifo[k] + db'[Batch(k)]
    <3>1. used[k] + See(t, Batch(k)) = Kept(t).fifo[k] + db[Batch(k)]
      BY <1>3 DEF Balanced, used
    <3>2. v.fifo[k] = 0 /\ db'[Batch(k)] = db[Batch(k)]
      BY <1>1, <1>4 DEF Nothing
    <3>3. used[k] \in Nat /\ See(t, Batch(k)) \in Nat
      BY <1>3, <1>5
    <3>4. v.fifo[k] + See(t, Batch(k))' = used[k] + See(t, Batch(k))
      BY <1>8, <3>2, <3>3
    <3>5. QED
      BY <3>1, <3>2, <3>4
  <2>3. SumFunction(v.fifo) <= v.quantity
    BY <1>4, NothingTaken DEF SaleRecord
  <2>4. QED
    BY <1>2, <1>3, <1>4, <1>7, <2>1, <2>2, <2>3 DEF Balanced
<1>11. Working(t)'
  <2>1. SaleRow(request[t].sale) \in Locked(t)'
    BY <1>7
  <2>2. QED
    BY <1>1, <1>7, <1>9, <1>10, <2>1, Works
<1>12. \A u \in Txs : u # t => \A i \in ids : i \notin Locked(u)
  BY <1>1, FreeMeans
<1>13. DOMAIN seen' = Txs
  BY <1>1 DEF LedgersInv, Sound
<1>14. QED
  BY <1>1, <1>2, <1>3, <1>7, <1>11, <1>12, <1>13, StatementInv DEF HoldsSale

LEMMA CreditLotsInv ==
    ASSUME AccountInv, LedgersInv, NEW t \in Txs, CreditLots(t)
    PROVE  LedgersInv'
<1> DEFINE used == SaleOf(t).lots
           ids == {Lot(k) : k \in {l \in Slots : used[l] > 0}}
           v == [SaleOf(t) EXCEPT !.lots = Nothing]
           others == [i \in ids |-> See(t, i) + used[i[2]]]
<1>0. Wanted(t) = ids
  BY WantedAt DEF CreditLots, Credit, At
<1>1. /\ ~Idle(t) /\ Head(todo[t]) = "unlots" /\ Advance(t) /\ Free(t, ids)
      /\ Write(t, Over(Only(SaleRow(request[t].sale), v), others))
      /\ UNCHANGED <<db, request, seen>>
  BY <1>0 DEF CreditLots, Credit, At
<1>2. /\ \A u \in Txs : u # t => todo'[u] = todo[u]
      /\ \A x : Left(x, todo'[t]) <=> Left(x, todo[t]) /\ x # "unlots"
      /\ ~Left("sale", todo'[t]) /\ ~Left("sale", todo[t])
  BY <1>1, Advanced
<1>3. /\ HoldsSale(t) /\ Balanced(t) /\ Mine(t) \in SaleRecord /\ SaleOf(t) = Mine(t)
      /\ \A k \in Slots : See(t, Lot(k)) \in Nat
  BY <1>1, <1>2, OwnSale
<1>4. /\ v \in SaleRecord /\ v.lots = Nothing /\ v.fifo = Mine(t).fifo
      /\ v.quantity = Mine(t).quantity
  BY <1>3, NothingTaken DEF SaleRecord
<1>5. used \in Taken /\ \A k \in Slots : used[k] \in Nat
  BY <1>3 DEF SaleRecord, Taken
<1>6. /\ DOMAIN others = ids
      /\ \A k \in Slots : /\ Lot(k) \in ids <=> used[k] > 0
                          /\ Batch(k) \notin ids
      /\ \A k \in Slots : used[k] > 0 => others[Lot(k)] = See(t, Lot(k)) + used[k]
      /\ \A i \in ids : \E k \in Slots : i = Batch(k) \/ i = Lot(k)
  <2>1. \A k : Lot(k)[2] = k
    BY DEF Lot
  <2>2. QED
    BY <2>1, RowsApart
<1> HIDE DEF v, others, ids, used
<1>7. /\ \A u \in Txs : u # t => own'[u] = own[u]
      /\ Locked(t)' = Locked(t) \cup ids \cup {SaleRow(request[t].sale)}
      /\ Mine(t)' = v /\ Kept(t)' = db'[SaleRow(request[t].sale)]
      /\ \A i \in ids : own'[t][i] = others[i]
      /\ \A i \in Locked(t) : i # SaleRow(request[t].sale) /\ i \notin ids
            => own'[t][i] = own[t][i]
      /\ \A s \in Sales : SaleRow(s) \in Locked(t)' => s = request[t].sale
  <2>1. \A i \in DOMAIN others : \E k \in Slots : i = Batch(k) \/ i = Lot(k)
    BY <1>6
  <2>2. /\ ~Idle(t) /\ request' = request /\ DOMAIN others = ids
        /\ Write(t, Over(Only(SaleRow(request[t].sale), v), others))
    BY <1>1, <1>6
  <2>3. /\ \A u \in Txs : u # t => own'[u] = own[u]
        /\ Locked(t)' = Locked(t) \cup DOMAIN others \cup {SaleRow(request[t].sale)}
        /\ Mine(t)' = v /\ Kept(t)' = db'[SaleRow(request[t].sale)]
        /\ \A i \in DOMAIN others : own'[t][i] = others[i]
        /\ \A i \in Locked(t) : i # SaleRow(request[t].sale) /\ i \notin DOMAIN others
              => own'[t][i] = own[t][i]
        /\ \A s \in Sales : SaleRow(s) \in Locked(t)' => s = request[t].sale
    BY <2>1, <2>2, SaleWritten
  <2>4. QED
    BY <2>2, <2>3
<1>8. ASSUME NEW k \in Slots
      PROVE  /\ See(t, Batch(k))' = See(t, Batch(k))
             /\ Batch(k) \in Locked(t)' => own'[t][Batch(k)] \in Nat
  <2>1. Batch(k) # SaleRow(request[t].sale) /\ Batch(k) \notin ids
    BY <1>6, RowsApart
  <2>2. Batch(k) \in Locked(t)' <=> Batch(k) \in Locked(t)
    BY <1>7, <2>1
  <2>3. Batch(k) \in Locked(t) => own'[t][Batch(k)] = own[t][Batch(k)]
                                  /\ own[t][Batch(k)] \in Nat
    BY <1>7, <2>1 DEF LedgersInv, Working, Reach
  <2>4. QED
    BY <1>1, <2>2, <2>3 DEF See, Locked
<1>9. ASSUME NEW k \in Slots, Lot(k) \in Locked(t)' PROVE own'[t][Lot(k)] \in Nat
  <2>1. CASE Lot(k) \in ids
    <3>1. own'[t][Lot(k)] = See(t, Lot(k)) + used[k]
      BY <1>6, <1>7, <2>1
    <3>2. See(t, Lot(k)) \in Nat /\ used[k] \in Nat
      BY <1>3, <1>5
    <3>3. QED
      BY <3>1, <3>2
  <2>2. CASE Lot(k) \notin ids
    <3>1. Lot(k) \in Locked(t) => own[t][Lot(k)] \in Nat
      BY DEF LedgersInv, Working, Reach
    <3>2. Lot(k) # SaleRow(request[t].sale)
      BY RowsApart
    <3>3. QED
      BY <1>7, <1>9, <2>2, <3>1, <3>2
  <2>3. QED
    BY <2>1, <2>2
<1>10. Balanced(t)'
  <2>1. request' = request /\ Kept(t)' = Kept(t)
    BY <1>1, <1>7 DEF Kept
  <2>2. ASSUME NEW k \in Slots
        PROVE  v.fifo[k] + See(t, Batch(k))' = Kept(t).fifo[k] + db'[Batch(k)]
    BY <1>1, <1>3, <1>4, <1>8 DEF Balanced
  <2>3. SumFunction(v.lots) <= v.quantity
    BY <1>4, NothingTaken DEF SaleRecord
  <2>4. QED
    BY <1>2, <1>3, <1>4, <1>7, <2>1, <2>2, <2>3 DEF Balanced
<1>11. Working(t)'
  <2>1. SaleRow(request[t].sale) \in Locked(t)'
    BY <1>7
  <2>2. QED
    BY <1>1, <1>7, <1>8, <1>9, <1>10, <2>1, Works
<1>12. \A u \in Txs : u # t => \A i \in ids : i \notin Locked(u)
  BY <1>1, FreeMeans
<1>13. DOMAIN seen' = Txs
  BY <1>1 DEF LedgersInv, Sound
<1>14. QED
  BY <1>1, <1>2, <1>3, <1>7, <1>11, <1>12, <1>13, StatementInv DEF HoldsSale

LEMMA FifoDeductInv ==
    ASSUME AccountInv, LedgersInv, NEW t \in Txs, FifoDeduct(t)
    PROVE  LedgersInv'
<1> DEFINE r == request[t].row
           held == [k \in Slots |-> See(t, Batch(k))]
           eligible == {k \in VariantOrUntagged(r) : held[k] > 0}
           ids == {Batch(k) : k \in eligible}
<1>0. Wanted(t) = ids
  <2>1. Eligible(t) = eligible
    BY DEF Eligible, VariantOrUntagged
  <2>2. QED
    BY <2>1, WantedAt DEF FifoDeduct, At
<1>1. /\ ~Idle(t) /\ Head(todo[t]) = "fifo" /\ Advance(t) /\ Free(t, ids)
      /\ UNCHANGED <<db, request, seen>>
  BY <1>0 DEF FifoDeduct, At
<1>2. PICK take \in Draws(held, ReceivedAt, r, request[t].quantity) :
          Write(t, Over(Only(SaleRow(request[t].sale),
                             [SaleOf(t) EXCEPT !.fifo = Plus(@, take)]),
                        [i \in ids |-> held[i[2]] - take[i[2]]]))
  BY <1>0 DEF FifoDeduct
<1>3. /\ \A u \in Txs : u # t => todo'[u] = todo[u]
      /\ \A x : Left(x, todo'[t]) <=> Left(x, todo[t]) /\ x # "fifo"
      /\ \A x : Left(x, todo[t]) => Rank("fifo") <= Rank(x)
      /\ Left("fifo", todo[t])
  BY <1>1, Advanced
<1>4. ~Left("sale", todo[t]) /\ ~Left("unfifo", todo[t])
  BY <1>3, RankOf
<1>5. /\ HoldsSale(t) /\ Balanced(t) /\ Mine(t) \in SaleRecord /\ SaleOf(t) = Mine(t)
      /\ request[t].quantity \in Nat
      /\ \A k \in Slots : See(t, Batch(k)) \in Nat
  BY <1>1, <1>4, OwnSale
<1>6. held \in Taken /\ \A k \in Slots : held[k] = See(t, Batch(k))
  BY <1>5 DEF Taken
<1>7. /\ take \in Taken
      /\ \A k \in Slots : take[k] <= held[k]
      /\ \A k \in Slots : take[k] # 0 => k \in VariantOrUntagged(r) /\ held[k] > 0
      /\ SumFunction(take) <= request[t].quantity
  <2> HIDE DEF held, r
  <2>1. QED
    BY <1>5, <1>6, DrawsBounded
<1>8. Mine(t).fifo = Nothing /\ Mine(t).quantity = request[t].quantity
  <2>1. Plan(t)
    BY <1>1 DEF LedgersInv, Working
  <2>2. QED
    BY <1>3, <1>4, <1>5, <2>1 DEF Balanced, Plan
<1> DEFINE v == [SaleOf(t) EXCEPT !.fifo = Plus(@, take)]
           others == [i \in ids |-> held[i[2]] - take[i[2]]]
<1>9. /\ v \in SaleRecord /\ v.fifo = take /\ v.lots = Mine(t).lots
      /\ v.quantity = Mine(t).quantity
  <2>1. Plus(Mine(t).fifo, take) = take
    BY <1>7, <1>8, PlusNothing
  <2>2. v = [Mine(t) EXCEPT !.fifo = take]
    BY <1>5, <2>1
  <2>3. QED
    BY <1>5, <1>7, <2>2 DEF SaleRecord
<1>10. /\ DOMAIN others = ids
       /\ \A k \in Slots : /\ Batch(k) \in ids <=> k \in eligible
                           /\ Lot(k) \notin ids
       /\ \A k \in Slots : k \in eligible => others[Batch(k)] = held[k] - take[k]
       /\ \A i \in ids : \E k \in Slots : i = Batch(k) \/ i = Lot(k)
  <2>1. \A k : Batch(k)[2] = k
    BY DEF Batch
  <2>2. \A k \in eligible : k \in Slots
    BY DEF VariantOrUntagged
  <2> HIDE DEF eligible, held
  <2>3. QED
    BY <2>1, <2>2, RowsApart
<1>11. Write(t, Over(Only(SaleRow(request[t].sale), v), others))
  BY <1>2
<1>12. ASSUME NEW k \in Slots, k \notin eligible PROVE take[k] = 0
  BY <1>7, <1>12
<1> HIDE DEF v, others, ids, eligible, held
<1>13. /\ \A u \in Txs : u # t => own'[u] = own[u]
       /\ Locked(t)' = Locked(t) \cup ids \cup {SaleRow(request[t].sale)}
       /\ Mine(t)' = v /\ Kept(t)' = db'[SaleRow(request[t].sale)]
       /\ \A i \in ids : own'[t][i] = others[i]
       /\ \A i \in Locked(t) : i # SaleRow(request[t].sale) /\ i \notin ids
             => own'[t][i] = own[t][i]
       /\ \A s \in Sales : SaleRow(s) \in Locked(t)' => s = request[t].sale
  <2>1. \A i \in DOMAIN others : \E k \in Slots : i = Batch(k) \/ i = Lot(k)
    BY <1>10
  <2>2. ~Idle(t) /\ request' = request /\ DOMAIN others = ids
    BY <1>1, <1>10
  <2>3. /\ \A u \in Txs : u # t => own'[u] = own[u]
        /\ Locked(t)' = Locked(t) \cup DOMAIN others \cup {SaleRow(request[t].sale)}
        /\ Mine(t)' = v /\ Kept(t)' = db'[SaleRow(request[t].sale)]
        /\ \A i \in DOMAIN others : own'[t][i] = others[i]
        /\ \A i \in Locked(t) : i # SaleRow(request[t].sale) /\ i \notin DOMAIN others
              => own'[t][i] = own[t][i]
        /\ \A s \in Sales : SaleRow(s) \in Locked(t)' => s = request[t].sale
    BY <1>11, <2>1, <2>2, SaleWritten
  <2>4. QED
    BY <2>2, <2>3
<1>14. ASSUME NEW k \in Slots
       PROVE  /\ See(t, Batch(k))' = held[k] - take[k]
              /\ held[k] \in Nat /\ take[k] \in Nat /\ held[k] - take[k] \in Nat
  <2>1. held[k] \in Nat /\ take[k] \in Nat /\ take[k] <= held[k]
    BY <1>6, <1>7 DEF Taken
  <2>2. CASE k \in eligible
    BY <1>10, <1>13, <2>1, <2>2 DEF See, Locked
  <2>3. CASE k \notin eligible
    <3>1. Batch(k) \notin ids /\ Batch(k) # SaleRow(request[t].sale)
      BY <1>10, <2>3, RowsApart
    <3>2. See(t, Batch(k))' = See(t, Batch(k))
      BY <1>1, <1>13, <3>1 DEF See, Locked
    <3>3. take[k] = 0
      BY <1>12, <2>3
    <3>4. QED
      BY <1>6, <2>1, <3>2, <3>3
  <2>4. QED
    BY <2>2, <2>3
<1>15. ASSUME NEW k \in Slots
       PROVE  /\ Batch(k) \in Locked(t)' => own'[t][Batch(k)] \in Nat
              /\ Lot(k) \in Locked(t)' => own'[t][Lot(k)] \in Nat
  <2>1. Batch(k) \in Locked(t)' => own'[t][Batch(k)] \in Nat
    BY <1>14 DEF See, Locked
  <2>2. Lot(k) \in Locked(t)' => own'[t][Lot(k)] \in Nat
    <3>1. Lot(k) \in Locked(t) => own[t][Lot(k)] \in Nat
      BY DEF LedgersInv, Working, Reach
    <3>2. Lot(k) # SaleRow(request[t].sale) /\ Lot(k) \notin ids
      BY <1>10, RowsApart
    <3>3. QED
      BY <1>13, <3>1, <3>2
  <2>3. QED
    BY <2>1, <2>2
<1>16. Balanced(t)'
  <2>1. request' = request /\ Kept(t)' = Kept(t)
    BY <1>1, <1>13 DEF Kept
  <2>2. ASSUME NEW k \in Slots
        PROVE  v.fifo[k] + See(t, Batch(k))' = Kept(t).fifo[k] + db'[Batch(k)]
    <3>1. 0 + held[k] = Kept(t).fifo[k] + db[Batch(k)]
      BY <1>5, <1>6, <1>8 DEF Balanced, Nothing
    <3>2. v.fifo[k] = take[k] /\ db' = db
      BY <1>1, <1>9
    <3>3. take[k] + See(t, Batch(k))' = 0 + held[k]
      BY <1>14
    <3>4. QED
      BY <3>1, <3>2, <3>3
  <2>3. SumFunction(v.fifo) <= v.quantity
    BY <1>7, <1>8, <1>9
  <2>4. QED
    BY <1>3, <1>5, <1>8, <1>9, <1>13, <2>1, <2>2, <2>3 DEF Balanced
<1>17. Working(t)'
  <2>1. SaleRow(request[t].sale) \in Locked(t)'
    BY <1>13
  <2>2. QED
    BY <1>1, <1>13, <1>15, <1>16, <2>1, Works
<1>18. \A u \in Txs : u # t => \A i \in ids : i \notin Locked(u)
  BY <1>1, FreeMeans
<1>19. DOMAIN seen' = Txs
  BY <1>1 DEF LedgersInv, Sound
<1>20. QED
  BY <1>1, <1>3, <1>5, <1>13, <1>17, <1>18, <1>19, StatementInv DEF HoldsSale

LEMMA ReadLotsInv ==
    ASSUME AccountInv, LedgersInv, NEW t \in Txs, ReadLots(t)
    PROVE  LedgersInv'
<1> DEFINE held == [k \in Slots |-> See(t, Lot(k))]
<1>1. /\ ~Idle(t) /\ Head(todo[t]) = "lots" /\ Advance(t)
      /\ UNCHANGED <<db, own, request>>
  BY DEF ReadLots, At
<1>2. PICK take \in Draws(held, OrderDate, request[t].row, request[t].quantity) :
          seen' = [seen EXCEPT ![t] = [held |-> held, take |-> take]]
  BY DEF ReadLots
<1>3. /\ \A u \in Txs : u # t => todo'[u] = todo[u]
      /\ \A x : Left(x, todo'[t]) <=> Left(x, todo[t]) /\ x # "lots"
      /\ ~Left("sale", todo'[t]) /\ ~Left("sale", todo[t])
  BY <1>1, Advanced
<1>4. /\ HoldsSale(t) /\ request[t].quantity \in Nat
      /\ \A k \in Slots : See(t, Lot(k)) \in Nat
  BY <1>1, <1>3, OwnSale
<1>5. held \in Taken
  BY <1>4 DEF Taken
<1> HIDE DEF held
<1>6. take \in Taken /\ SumFunction(take) <= request[t].quantity
      /\ \A k \in Slots : take[k] <= held[k]
  BY <1>4, <1>5, DrawsBounded
<1>7. /\ seen'[t] = [held |-> held, take |-> take] /\ DOMAIN seen' = Txs
      /\ \A u \in Txs : u # t => seen'[u] = seen[u]
  BY <1>2 DEF LedgersInv, Sound
<1>8. \A k \in Slots : held[k] - take[k] \in Nat
  BY <1>5, <1>6 DEF Taken
<1>9. Reading(t)'
  BY <1>1, <1>6, <1>7, <1>8 DEF Reading
<1>10. Locked(t)' = Locked(t)
  BY <1>1 DEF Locked
<1>11. Balanced(t)'
  <2>1. HoldsSale(t)' /\ Mine(t)' = Mine(t)
    BY <1>1, <1>4 DEF HoldsSale, Mine, Locked
  <2>2. \A k \in Slots : See(t, Batch(k))' = See(t, Batch(k))
    BY <1>1 DEF See
  <2>3. QED
    BY <1>1, <1>3, <1>4, <2>1, <2>2, BalanceStays
<1>12. \A k \in Slots : /\ Batch(k) \in Locked(t)' => own'[t][Batch(k)] \in Nat
                        /\ Lot(k) \in Locked(t)' => own'[t][Lot(k)] \in Nat
  BY <1>1, <1>10 DEF LedgersInv, Working, Reach
<1>13. /\ \A s \in Sales : SaleRow(s) \in Locked(t)' => s = request[t].sale
       /\ SaleRow(request[t].sale) \in Locked(t)'
  BY <1>4, <1>10 DEF LedgersInv, Working, Reach, HoldsSale
<1>14. Working(t)'
  BY <1>1, <1>9, <1>11, <1>12, <1>13, Works
<1>15. QED
  BY <1>1, <1>3, <1>7, <1>10, <1>14, StatementInv

LEMMA WriteLotsInv ==
    ASSUME AccountInv, LedgersInv, NEW t \in Txs, WriteLots(t)
    PROVE  LedgersInv'
<1> DEFINE take == seen[t].take
           ids == {Lot(k) : k \in {l \in Slots : take[l] > 0}}
           v == [SaleOf(t) EXCEPT !.lots = Plus(@, take)]
           others == [i \in ids |-> seen[t].held[i[2]] - take[i[2]]]
<1>0. Wanted(t) = ids
  BY WantedAt DEF WriteLots, At
<1>1. /\ ~Idle(t) /\ Head(todo[t]) = "write" /\ Advance(t) /\ Free(t, ids)
      /\ Write(t, Over(Only(SaleRow(request[t].sale), v), others))
      /\ UNCHANGED <<db, request, seen>>
  BY <1>0 DEF WriteLots, At
<1>2. /\ \A u \in Txs : u # t => todo'[u] = todo[u]
      /\ \A x : Left(x, todo'[t]) <=> Left(x, todo[t]) /\ x # "write"
      /\ \A x : Left(x, todo[t]) => Rank("write") <= Rank(x)
      /\ Left("write", todo[t])
  BY <1>1, Advanced
<1>3. ~Left("sale", todo[t]) /\ ~Left("unlots", todo[t]) /\ ~Left("lots", todo[t])
  BY <1>2, RankOf
<1>4. /\ HoldsSale(t) /\ Balanced(t) /\ Mine(t) \in SaleRecord /\ SaleOf(t) = Mine(t)
  BY <1>1, <1>3, OwnSale
<1>5. /\ take \in Taken /\ SumFunction(take) <= request[t].quantity
      /\ \A k \in Slots : seen[t].held[k] - take[k] \in Nat
  BY <1>1, <1>2, <1>3 DEF LedgersInv, Working, Reading
<1>6. Mine(t).lots = Nothing /\ Mine(t).quantity = request[t].quantity
  <2>1. Plan(t)
    BY <1>1 DEF LedgersInv, Working
  <2>2. QED
    BY <1>2, <1>3, <1>4, <2>1 DEF Balanced, Plan
<1> HIDE DEF take
<1>7. /\ v \in SaleRecord /\ v.lots = take /\ v.fifo = Mine(t).fifo
      /\ v.quantity = Mine(t).quantity
  <2>1. Plus(Mine(t).lots, take) = take
    BY <1>5, <1>6, PlusNothing
  <2>2. v = [Mine(t) EXCEPT !.lots = take]
    BY <1>4, <2>1
  <2>3. QED
    BY <1>4, <1>5, <2>2 DEF SaleRecord
<1>8. /\ DOMAIN others = ids
      /\ \A k \in Slots : Batch(k) \notin ids
      /\ \A k \in Slots : Lot(k) \in ids => others[Lot(k)] = seen[t].held[k] - take[k]
      /\ \A i \in ids : \E k \in Slots : i = Batch(k) \/ i = Lot(k)
  <2>1. \A k : Lot(k)[2] = k
    BY DEF Lot
  <2>2. QED
    BY <2>1, RowsApart
<1> HIDE DEF v, others, ids
<1>9. /\ \A u \in Txs : u # t => own'[u] = own[u]
      /\ Locked(t)' = Locked(t) \cup ids \cup {SaleRow(request[t].sale)}
      /\ Mine(t)' = v /\ Kept(t)' = db'[SaleRow(request[t].sale)]
      /\ \A i \in ids : own'[t][i] = others[i]
      /\ \A i \in Locked(t) : i # SaleRow(request[t].sale) /\ i \notin ids
            => own'[t][i] = own[t][i]
      /\ \A s \in Sales : SaleRow(s) \in Locked(t)' => s = request[t].sale
  <2>1. \A i \in DOMAIN others : \E k \in Slots : i = Batch(k) \/ i = Lot(k)
    BY <1>8
  <2>2. /\ ~Idle(t) /\ request' = request /\ DOMAIN others = ids
        /\ Write(t, Over(Only(SaleRow(request[t].sale), v), others))
    BY <1>1, <1>8
  <2>3. /\ \A u \in Txs : u # t => own'[u] = own[u]
        /\ Locked(t)' = Locked(t) \cup DOMAIN others \cup {SaleRow(request[t].sale)}
        /\ Mine(t)' = v /\ Kept(t)' = db'[SaleRow(request[t].sale)]
        /\ \A i \in DOMAIN others : own'[t][i] = others[i]
        /\ \A i \in Locked(t) : i # SaleRow(request[t].sale) /\ i \notin DOMAIN others
              => own'[t][i] = own[t][i]
        /\ \A s \in Sales : SaleRow(s) \in Locked(t)' => s = request[t].sale
    BY <2>1, <2>2, SaleWritten
  <2>4. QED
    BY <2>2, <2>3
<1>10. ASSUME NEW k \in Slots
       PROVE  /\ See(t, Batch(k))' = See(t, Batch(k))
              /\ Batch(k) \in Locked(t)' => own'[t][Batch(k)] \in Nat
  <2>1. Batch(k) # SaleRow(request[t].sale) /\ Batch(k) \notin ids
    BY <1>8, RowsApart
  <2>2. Batch(k) \in Locked(t)' <=> Batch(k) \in Locked(t)
    BY <1>9, <2>1
  <2>3. Batch(k) \in Locked(t) => own'[t][Batch(k)] = own[t][Batch(k)]
                                  /\ own[t][Batch(k)] \in Nat
    BY <1>9, <2>1 DEF LedgersInv, Working, Reach
  <2>4. QED
    BY <1>1, <2>2, <2>3 DEF See, Locked
<1>11. ASSUME NEW k \in Slots, Lot(k) \in Locked(t)' PROVE own'[t][Lot(k)] \in Nat
  <2>1. CASE Lot(k) \in ids
    BY <1>5, <1>8, <1>9, <2>1
  <2>2. CASE Lot(k) \notin ids
    <3>1. Lot(k) \in Locked(t) => own[t][Lot(k)] \in Nat
      BY DEF LedgersInv, Working, Reach
    <3>2. Lot(k) # SaleRow(request[t].sale)
      BY RowsApart
    <3>3. QED
      BY <1>9, <1>11, <2>2, <3>1, <3>2
  <2>3. QED
    BY <2>1, <2>2
<1>12. Balanced(t)'
  <2>1. request' = request /\ Kept(t)' = Kept(t)
    BY <1>1, <1>9 DEF Kept
  <2>2. ASSUME NEW k \in Slots
        PROVE  v.fifo[k] + See(t, Batch(k))' = Kept(t).fifo[k] + db'[Batch(k)]
    BY <1>1, <1>4, <1>7, <1>10 DEF Balanced
  <2>3. SumFunction(v.lots) <= v.quantity
    BY <1>5, <1>6, <1>7
  <2>4. QED
    BY <1>2, <1>4, <1>6, <1>7, <1>9, <2>1, <2>2, <2>3 DEF Balanced
<1>13. Working(t)'
  <2>1. SaleRow(request[t].sale) \in Locked(t)'
    BY <1>9
  <2>2. QED
    BY <1>1, <1>9, <1>10, <1>11, <1>12, <2>1, Works
<1>14. \A u \in Txs : u # t => \A i \in ids : i \notin Locked(u)
  BY <1>1, FreeMeans
<1>15. DOMAIN seen' = Txs
  BY <1>1 DEF LedgersInv, Sound
<1>16. QED
  BY <1>1, <1>2, <1>4, <1>9, <1>13, <1>14, <1>15, StatementInv DEF HoldsSale

\* A request begins.
LEMMA BeginLedgers ==
    ASSUME AccountInv, LedgersInv, NEW t \in Txs, NEW s \in Sales, NEW r \in Rows,
           NEW q \in Quantities, NEW kind \in {"create", "update", "void"},
           Begin(t, kind, s, r, q)
    PROVE  LedgersInv'
<1> DEFINE asked == [kind |-> kind, sale |-> s, row |-> r, quantity |-> q]
           i == SaleRow(s)
           v == [NoSale EXCEPT !.state = "COMPLETED", !.row = r, !.quantity = q]
<1>1. /\ Idle(t) /\ UNCHANGED <<db, seen>>
      /\ todo' = [todo EXCEPT ![t] = Steps[kind]]
      /\ request' = [request EXCEPT ![t] = asked]
  BY DEF Begin
<1>2. /\ todo'[t] = Steps[kind] /\ request'[t] = asked
      /\ \A u \in Txs : u # t => todo'[u] = todo[u] /\ request'[u] = request[u]
  BY <1>1 DEF AccountInv, Tables
<1>3. /\ \A x \in Sales : SaleRow(x) \notin Locked(t)
      /\ \A k \in Slots : /\ Batch(k) \notin Locked(t)
                          /\ Lot(k) \in Locked(t) => own[t][Lot(k)] \in Nat
  BY <1>1 DEF LedgersInv, Working, Reach
<1>4. todo'[t] # <<>>
  BY <1>2, AllPlanned
<1>5. /\ Plan(t)'
      /\ Left("lots", todo'[t]) \/ ~Left("write", todo'[t])
      /\ kind = "create" <=> ~Left("sale", todo'[t])
  BY <1>2, AllInOrder DEF Plan
<1>6. q \in Nat /\ Taken # {} /\ Nothing \in Taken
  BY QuantitiesAssumption, NothingTaken
<1>7. CASE kind = "create"
  <2>1. /\ db[i] = NoSale /\ Write(t, Only(i, v))
        /\ \A u \in Txs : i \notin Locked(u)
    BY <1>7 DEF Begin
  <2>2. v \in SaleRecord /\ v.fifo = Nothing /\ v.lots = Nothing /\ v.quantity = q
    BY <1>6 DEF NoSale, SaleRecord
  <2> HIDE DEF v
  <2>3. DOMAIN Only(i, v) = {i} /\ Only(i, v)[i] = v
    BY SingleRow
  <2>4. /\ \A u \in Txs : u # t => own'[u] = own[u]
        /\ Locked(t)' = Locked(t) \cup {i}
        /\ own'[t][i] = v
        /\ \A j \in Locked(t) : j # i => own'[t][j] = own[t][j]
    BY <2>1, <2>3, Written
  <2>5. HoldsSale(t)' /\ Mine(t)' = v /\ Kept(t)' = NoSale
    BY <1>1, <1>2, <2>1, <2>4 DEF HoldsSale, Mine, Kept
  <2>6. \A k \in Slots : /\ Batch(k) \notin Locked(t)'
                         /\ Lot(k) \in Locked(t)' => own'[t][Lot(k)] \in Nat
    BY <1>3, <2>4, RowsApart
  <2>7. Reach(t)'
    <3>1. \A x \in Sales : SaleRow(x) \in Locked(t)' => x = s
      BY <1>3, <2>4, RowsApart
    <3>2. request'[t].sale = s
      BY <1>2
    <3>3. ~Idle(t)'
      BY <1>4 DEF Idle
    <3>4. QED
      BY <1>5, <1>7, <2>5, <2>6, <3>1, <3>2, <3>3 DEF Reach
  <2>8. Balanced(t)'
    <3>1. \A k \in Slots : See(t, Batch(k))' = db'[Batch(k)]
      BY <2>6 DEF See, Locked
    <3>2. NoSale.fifo = Nothing
      BY DEF NoSale
    <3>3. /\ ~Left("unfifo", todo'[t]) /\ Left("fifo", todo'[t])
          /\ ~Left("unlots", todo'[t]) /\ Left("write", todo'[t])
      BY <1>2, <1>7, AllInOrder
    <3>4. request'[t].quantity = q
      BY <1>2
    <3>5. QED
      BY <2>2, <2>5, <3>1, <3>2, <3>3, <3>4 DEF Balanced
  <2>9. Working(t)'
    BY <1>5, <2>7, <2>8 DEF Working
  <2>10. Sound' /\ BatchConserved' /\ LedgersWithinSale'
    BY <1>1 DEF LedgersInv, Sound, BatchConserved, LedgersWithinSale
  <2>11. \A u \in Txs : u # t => Working(u)'
    <3>1. ASSUME NEW u \in Txs, u # t
          PROVE  own'[u] = own[u] /\ todo'[u] = todo[u] /\ request'[u] = request[u]
                    /\ seen'[u] = seen[u] /\ \A j \in Locked(u) \cap RowIds : db'[j] = db[j]
      BY <1>1, <1>2, <2>4, <3>1
    <3>2. QED
      BY <2>10, <3>1, OthersWork
  <2>12. Locks'
    <3>1. \A u \in Txs : u # t => Locked(u)' = Locked(u)
      BY <2>4 DEF Locked
    <3>2. QED
      BY <2>1, <2>4, <3>1 DEF LedgersInv, Locks
  <2>13. QED
    BY <2>9, <2>10, <2>11, <2>12 DEF LedgersInv
<1>8. CASE kind # "create"
  <2>1. own' = own
    BY <1>8 DEF Begin
  <2>2. Reach(t)' /\ ~HoldsSale(t)'
    <3>1. request'[t].sale = s
      BY <1>2
    <3>2. Locked(t)' = Locked(t)
      BY <2>1 DEF Locked
    <3>3. ~HoldsSale(t)'
      BY <1>3, <3>1, <3>2 DEF HoldsSale
    <3>4. ~Idle(t)'
      BY <1>4 DEF Idle
    <3>5. QED
      BY <1>3, <1>5, <1>8, <2>1, <3>1, <3>2, <3>3, <3>4 DEF Reach
  <2>3. Working(t)'
    BY <1>5, <2>2 DEF Working
  <2>4. Sound' /\ BatchConserved' /\ LedgersWithinSale'
    BY <1>1 DEF LedgersInv, Sound, BatchConserved, LedgersWithinSale
  <2>5. \A u \in Txs : u # t => Working(u)'
    <3>1. ASSUME NEW u \in Txs, u # t
          PROVE  own'[u] = own[u] /\ todo'[u] = todo[u] /\ request'[u] = request[u]
                    /\ seen'[u] = seen[u] /\ \A j \in Locked(u) \cap RowIds : db'[j] = db[j]
      BY <1>1, <1>2, <2>1, <3>1
    <3>2. QED
      BY <2>4, <3>1, OthersWork
  <2>6. Locks'
    BY <2>1 DEF LedgersInv, Locks, Locked
  <2>7. QED
    BY <2>3, <2>4, <2>5, <2>6 DEF LedgersInv
<1>9. QED
  BY <1>7, <1>8

\* The end of a request: it holds nothing, and the others keep working.
LEMMA EndedLedgers ==
    ASSUME AccountInv, LedgersInv, NEW t \in Txs, Reset(t), Sound',
           BatchConserved', LedgersWithinSale',
           \A u \in Txs : u # t => \A i \in Locked(u) \cap RowIds : db'[i] = db[i]
    PROVE  LedgersInv'
<1>1. /\ own'[t] = <<>> /\ todo'[t] = <<>>
      /\ \A u \in Txs : u # t =>
            own'[u] = own[u] /\ todo'[u] = todo[u] /\ request'[u] = request[u]
  BY ResetEnds DEF Ended
<1>2. \A u \in Txs : u # t => seen'[u] = seen[u]
  BY DEF Reset, LedgersInv, Sound
<1>3. Locked(t)' = {} /\ \A u \in Txs : u # t => Locked(u)' = Locked(u)
  BY <1>1 DEF Locked
<1>4. Working(t)'
  BY <1>1, <1>3 DEF Working, Reach, Idle
<1>5. ASSUME NEW u \in Txs, u # t PROVE Working(u)'
  <2>1. /\ own'[u] = own[u] /\ todo'[u] = todo[u] /\ request'[u] = request[u]
           /\ seen'[u] = seen[u]
        /\ \A i \in Locked(u) \cap RowIds : db'[i] = db[i]
    BY <1>1, <1>2, <1>5
  <2>2. QED
    BY <2>1, OthersWork
<1>6. Locks'
  BY <1>3 DEF LedgersInv, Locks
<1>7. QED
  BY <1>4, <1>5, <1>6 DEF LedgersInv

LEMMA ResetSeen ==
    ASSUME LedgersInv, NEW t \in Txs, Reset(t)
    PROVE  DOMAIN seen' = Txs
BY DEF Reset, LedgersInv, Sound

LEMMA RollbackLedgers ==
    ASSUME AccountInv, LedgersInv, NEW t \in Txs, Rollback(t)
    PROVE  LedgersInv'
<1>1. Reset(t) /\ db' = db
  BY DEF Rollback
<1>2. Sound' /\ BatchConserved' /\ LedgersWithinSale'
  BY <1>1, ResetSeen DEF LedgersInv, Sound, BatchConserved, LedgersWithinSale
<1>3. QED
  BY <1>1, <1>2, EndedLedgers

\* What a commit leaves in the committed rows.
LEMMA Committed ==
    ASSUME AccountInv, LedgersInv, NEW t \in Txs, Commit(t)
    PROVE  /\ Reset(t) /\ request[t].sale \in Sales /\ Balanced(t) /\ Mine(t) \in SaleRecord
           /\ SumFunction(Mine(t).fifo) <= Mine(t).quantity
           /\ SumFunction(Mine(t).lots) <= Mine(t).quantity
           /\ db'[SaleRow(request[t].sale)] = Mine(t)
           /\ \A s \in Sales : s # request[t].sale => db'[SaleRow(s)] = db[SaleRow(s)]
           /\ \A k \in Slots : /\ db'[Batch(k)] = See(t, Batch(k)) /\ db'[Batch(k)] \in Nat
                               /\ db'[Lot(k)] \in Nat
           /\ \A u \in Txs : u # t => \A i \in Locked(u) \cap RowIds : db'[i] = db[i]
<1>1. /\ ~Idle(t) /\ Head(todo[t]) = "commit" /\ Reset(t) /\ db' = Over(own[t], db)
  BY DEF Commit, At, Publish
<1>2. \A x : Left(x, todo[t]) => 8 <= Rank(x)
  <2>1. todo[t] \in Seq(Names) /\ todo[t] # <<>> /\ InOrder(todo[t])
    BY <1>1 DEF AccountInv, Booking, Idle, LedgersInv, Working, Plan
  <2>2. \A x : Left(x, todo[t]) => Rank(Head(todo[t])) <= Rank(x)
    BY <2>1, TailLeft
  <2>3. QED
    BY <1>1, <2>2, RankOf
<1>3. \A x \in {"sale", "unfifo", "fifo", "unlots", "write"} : ~Left(x, todo[t])
  BY <1>2, RankOf
<1>4. /\ HoldsSale(t) /\ Balanced(t) /\ Mine(t) \in SaleRecord /\ request[t].sale \in Sales
      /\ \A k \in Slots : See(t, Batch(k)) \in Nat /\ See(t, Lot(k)) \in Nat
  BY <1>1, <1>3, OwnSale
<1>5. /\ SumFunction(Mine(t).fifo) <= Mine(t).quantity
      /\ SumFunction(Mine(t).lots) <= Mine(t).quantity
  BY <1>3, <1>4 DEF Balanced
<1>6. ASSUME NEW i, i \in DOMAIN db
      PROVE  db'[i] = See(t, i)
  BY <1>1, <1>6 DEF Over, See
<1>7. RowIds \subseteq DOMAIN db
  BY DEF AccountInv, Tables
<1>8. ASSUME NEW s \in Sales
      PROVE  db'[SaleRow(s)] = IF s = request[t].sale THEN Mine(t) ELSE db[SaleRow(s)]
  <2>1. SaleRow(s) \in DOMAIN db
    BY <1>7 DEF RowIds
  <2>2. db'[SaleRow(s)] = See(t, SaleRow(s))
    BY <1>6, <2>1
  <2>3. CASE s = request[t].sale
    BY <1>4, <2>2, <2>3 DEF See, Mine, HoldsSale, Locked
  <2>4. CASE s # request[t].sale
    <3>1. SaleRow(s) \notin Locked(t)
      BY <2>4 DEF LedgersInv, Working, Reach
    <3>2. QED
      BY <2>2, <2>4, <3>1 DEF See, Locked
  <2>5. QED
    BY <2>3, <2>4
<1>9. ASSUME NEW k \in Slots
      PROVE  db'[Batch(k)] = See(t, Batch(k)) /\ db'[Lot(k)] = See(t, Lot(k))
  <2>1. Batch(k) \in DOMAIN db /\ Lot(k) \in DOMAIN db
    BY <1>7 DEF RowIds
  <2>2. QED
    BY <1>6, <2>1
<1>10. ASSUME NEW u \in Txs, u # t, NEW i \in Locked(u) \cap RowIds
       PROVE  db'[i] = db[i]
  <2>1. i \notin Locked(t) /\ i \in DOMAIN db
    BY <1>7, <1>10 DEF LedgersInv, Locks
  <2>2. QED
    BY <1>6, <2>1 DEF See, Locked
<1>11. QED
  BY <1>1, <1>4, <1>5, <1>8, <1>9, <1>10

LEMMA CommitLedgers ==
    ASSUME AccountInv, LedgersInv, NEW t \in Txs, Commit(t)
    PROVE  LedgersInv'
<1> DEFINE s == request[t].sale
<1>1. /\ Reset(t) /\ s \in Sales /\ Balanced(t) /\ Mine(t) \in SaleRecord
      /\ db'[SaleRow(s)] = Mine(t)
      /\ \A x \in Sales : x # s => db'[SaleRow(x)] = db[SaleRow(x)]
      /\ \A k \in Slots : /\ db'[Batch(k)] = See(t, Batch(k)) /\ db'[Batch(k)] \in Nat
                          /\ db'[Lot(k)] \in Nat
  BY Committed
<1>2. Sound'
  BY <1>1, ResetSeen DEF LedgersInv, Sound
<1>3. LedgersWithinSale'
  BY <1>1, Committed DEF LedgersInv, LedgersWithinSale
<1>4. \A x \in Sales : db[SaleRow(x)] \in SaleRecord /\ db'[SaleRow(x)] \in SaleRecord
  BY <1>2 DEF LedgersInv, Sound
<1>5. ASSUME NEW k \in Slots
      PROVE  db'[Batch(k)] + SumFunction([x \in Sales |-> db'[SaleRow(x)].fifo[k]])
               = Received[k]
  <2> DEFINE f == [x \in Sales |-> db[SaleRow(x)].fifo[k]]
             g == [x \in Sales |-> db'[SaleRow(x)].fifo[k]]
  <2>1. f \in [Sales -> Int] /\ g \in [Sales -> Int]
    BY <1>4 DEF SaleRecord, Taken
  <2>2. g[s] = Mine(t).fifo[k] /\ f[s] = Kept(t).fifo[k]
        /\ \A x \in Sales : x # s => g[x] = f[x]
    BY <1>1 DEF Kept
  <2>3. db[Batch(k)] + SumFunction(f) = Received[k]
    BY DEF LedgersInv, BatchConserved
  <2>4. Mine(t).fifo[k] + db'[Batch(k)] = Kept(t).fifo[k] + db[Batch(k)]
    BY <1>1 DEF Balanced
  <2>5. db[Batch(k)] \in Int /\ db'[Batch(k)] \in Int /\ f[s] \in Int /\ g[s] \in Int
    BY <1>1, <2>1 DEF LedgersInv, Sound
  <2> HIDE DEF f, g
  <2>6. IsFiniteSet(Sales)
    BY FiniteAssumption
  <2>7. SumFunction(g) = SumFunction(f) - f[s] + g[s] /\ SumFunction(f) \in Int
    BY <1>1, <2>1, <2>2, <2>6, FunctionChanged
  <2>8. db'[Batch(k)] + SumFunction(g) = Received[k]
    BY <2>2, <2>3, <2>4, <2>5, <2>7
  <2>9. QED
    BY <2>8 DEF g
<1>6. BatchConserved'
  BY <1>5 DEF BatchConserved
<1>7. QED
  BY <1>1, <1>2, <1>3, <1>6, Committed, EndedLedgers

LEMMA InitLedgers == Init => LedgersInv
<1> SUFFICES ASSUME Init PROVE LedgersInv
  OBVIOUS
<1>1. ASSUME NEW s \in Sales PROVE db[SaleRow(s)] = NoSale
  <2>1. SaleRow(s) \in RowIds /\ SaleRow(s)[1] = "sale"
    BY DEF SaleRow, RowIds
  <2>2. QED
    BY <2>1 DEF Init
<1>2. ASSUME NEW k \in Slots
      PROVE  db[Batch(k)] = Received[k] /\ db[Lot(k)] = Received[k] /\ Received[k] \in Nat
  <2>1. /\ Batch(k) \in RowIds /\ Batch(k)[1] = "batch" /\ Batch(k)[2] = k
        /\ Lot(k) \in RowIds /\ Lot(k)[1] = "lot" /\ Lot(k)[2] = k
    BY DEF Batch, Lot, RowIds
  <2>2. db[Batch(k)] = Received[k] /\ db[Lot(k)] = Received[k]
    BY <2>1 DEF Init
  <2>3. QED
    BY <2>2, SlotsAssumption
<1>3. /\ NoSale \in SaleRecord /\ NoSale.fifo = Nothing /\ NoSale.lots = Nothing
      /\ NoSale.quantity = 0
  BY NothingTaken DEF NoSale, SaleRecord, Rows
<1>4. /\ \A t \in Txs : own[t] = <<>> /\ todo[t] = <<>>
      /\ DOMAIN seen = Txs
  BY DEF Init, InitSessions
<1>5. \A t \in Txs : Locked(t) = {} /\ Idle(t)
  BY <1>4 DEF Locked, Idle
<1>6. Locks /\ Sound
  BY <1>1, <1>2, <1>3, <1>4, <1>5 DEF Locks, Sound
<1>7. ASSUME NEW k \in Slots
      PROVE  db[Batch(k)] + SumFunction([s \in Sales |-> db[SaleRow(s)].fifo[k]]) = Received[k]
  <2> DEFINE f == [s \in Sales |-> db[SaleRow(s)].fifo[k]]
  <2>1. \A s \in Sales : f[s] = 0
    BY <1>1, <1>3 DEF Nothing
  <2>2. f \in [Sales -> Int]
    <3>1. f = [s \in Sales |-> f[s]]
      OBVIOUS
    <3>2. QED
      BY <2>1, <3>1
  <2> HIDE DEF f
  <2>3. SumFunction(f) = 0
    BY <2>1, <2>2, FiniteAssumption, FunctionZero
  <2>4. db[Batch(k)] + SumFunction(f) = Received[k]
    BY <1>2, <2>3
  <2>5. QED
    BY <2>4 DEF f
<1>8. BatchConserved
  BY <1>7 DEF BatchConserved
<1>9. LedgersWithinSale
  BY <1>1, <1>3, NothingTaken DEF LedgersWithinSale
<1>10. \A t \in Txs : Working(t)
  BY <1>5 DEF Working, Reach
<1>11. QED
  BY <1>6, <1>8, <1>9, <1>10 DEF LedgersInv

LEMMA StepLedgers ==
    ASSUME AccountInv, LedgersInv, [Next]_vars
    PROVE  LedgersInv'
<1>1. CASE UNCHANGED vars
  BY <1>1 DEF vars, txVars, LedgersInv, Locks, Sound, BatchConserved, LedgersWithinSale,
              Working, Reach, Plan, Reading, Balanced, HoldsSale, Mine, Kept, See, Locked, Idle
<1>2. ASSUME NEW t \in Txs, NEW s \in Sales, NEW r \in Rows, NEW q \in Quantities,
             NEW kind \in {"create", "update", "void"}, Begin(t, kind, s, r, q)
      PROVE  LedgersInv'
  BY <1>2, BeginLedgers
<1>3. ASSUME NEW t \in Txs, Statement(t)
      PROVE  LedgersInv'
  <2>1. CASE WriteSale(t)
    BY <2>1, WriteSaleInv
  <2>2. CASE AdjustStock(t)
    BY <2>2, AdjustStockInv, RollbackLedgers
  <2>3. CASE CreditBatches(t)
    BY <2>3, CreditBatchesInv
  <2>4. CASE FifoDeduct(t)
    BY <2>4, FifoDeductInv
  <2>5. CASE CreditLots(t)
    BY <2>5, CreditLotsInv
  <2>6. CASE ReadLots(t)
    BY <2>6, ReadLotsInv
  <2>7. CASE WriteLots(t)
    BY <2>7, WriteLotsInv
  <2>8. CASE Commit(t)
    BY <2>8, CommitLedgers
  <2>9. QED
    BY <1>3, <2>1, <2>2, <2>3, <2>4, <2>5, <2>6, <2>7, <2>8 DEF Statement
<1>4. ASSUME NEW t \in Txs, Fail(t)
      PROVE  LedgersInv'
  BY <1>4, RollbackLedgers DEF Fail
<1>5. QED
  BY <1>1, <1>2, <1>3, <1>4 DEF Next

\* The invariant of the ledgers holds in every reachable state: every request
\* under way reverses before it draws, and draws from what is left.
THEOREM LedgersInvHolds == Spec => []LedgersInv
<1>1. Init => AccountInv /\ LedgersInv
  BY InitInv, InitLedgers
<1>2. AccountInv /\ LedgersInv /\ [Next]_vars => (AccountInv /\ LedgersInv)'
  BY StepInv, StepLedgers
<1>3. QED
  BY <1>1, <1>2, PTL DEF Spec

\* However requests on sales overlap, a batch holds what it received less what
\* the FifoConsumption rows name: fifo_deduct() costs no unit twice and
\* reverse_ledger_consumption() loses no credit.
THEOREM BatchConservedHolds == Spec => []BatchConserved
<1>1. LedgersInv => BatchConserved
  BY DEF LedgersInv
<1>2. QED
  BY <1>1, LedgersInvHolds, PTL

\* However edits and voids of one sale overlap, its ledgers never record more
\* units than the quantity the sale ends up with.
THEOREM LedgersWithinSaleHolds == Spec => []LedgersWithinSale
<1>1. LedgersInv => LedgersWithinSale
  BY DEF LedgersInv
<1>2. QED
  BY <1>1, LedgersInvHolds, PTL

\* No stock row, batch or lot is ever negative, however requests overlap.
THEOREM TypeCorrect == Spec => []TypeOK
<1>1. AccountInv /\ LedgersInv => TypeOK
  BY DEF AccountInv, Explained, LedgersInv, Sound, SaleRecord, Taken, TypeOK
<1>2. QED
  BY <1>1, AccountInvHolds, LedgersInvHolds, PTL

------------------------------------------------------------------------------
(* Waiting for row locks.                                                  *)

\* The statements up to rank n are done.
Past(t, n) == \A x \in Names : Left(x, todo[t]) => Rank(x) > n

\* A request locks stock, batches and lots in this order; only an edit locks
\* batches, and lots, in two statements.
Orderly(t) ==
    /\ ~Idle(t) /\ request[t].kind = "create" =>
          ~Left("unfifo", todo[t]) /\ ~Left("unlots", todo[t])
    /\ ~Idle(t) /\ ~Left("stock", todo[t]) => Holds(t, request[t].row)
    /\ \A r \in Rows : Holds(t, r) => ~Idle(t) /\ Past(t, 2)
    /\ \A k \in Slots : Batch(k) \in Locked(t) =>
          /\ ~Idle(t) /\ Past(t, 3)
          /\ request[t].kind # "update" => ~Left("fifo", todo[t])
    /\ \A k \in Slots : Lot(k) \in Locked(t) =>
          /\ ~Idle(t) /\ Past(t, 5)
          /\ request[t].kind # "update" => ~Left("write", todo[t])

WaitInv == \A t \in Txs : Orderly(t)

LEMMA OrderlyStays ==
    ASSUME NEW u, Orderly(u),
           own'[u] = own[u] /\ todo'[u] = todo[u] /\ request'[u] = request[u]
    PROVE  Orderly(u)'
<1>1. Locked(u)' = Locked(u) /\ (Idle(u)' <=> Idle(u))
  BY DEF Locked, Idle
<1>2. \A r : Holds(u, r)' <=> Holds(u, r)
  BY <1>1 DEF Holds
<1>3. Holds(u, request[u].row)' <=> Holds(u, request[u].row)
  BY <1>1 DEF Holds
<1>4. \A n : Past(u, n)' <=> Past(u, n)
  BY DEF Past
<1>5. QED
  BY <1>1, <1>2, <1>3, <1>4 DEF Orderly

\* The statement a request is at.
LEMMA HeadLeft ==
    ASSUME AccountInv, LedgersInv, NEW t \in Txs, ~Idle(t)
    PROVE  /\ Head(todo[t]) \in Names /\ Left(Head(todo[t]), todo[t])
           /\ \A x : Left(x, todo[t]) => Rank(Head(todo[t])) <= Rank(x)
<1>1. todo[t] \in Seq(Names) /\ todo[t] # <<>>
  BY DEF AccountInv, Booking, Idle
<1>2. InOrder(todo[t])
  BY DEF LedgersInv, Working, Plan
<1>3. QED
  BY <1>1, <1>2, TailLeft

\* Which statements lock batches, lots and stock.
LEMMA WantedKinds ==
    ASSUME AccountInv, LedgersInv, NEW t \in Txs, ~Idle(t)
    PROVE  /\ \A k \in Slots : Batch(k) \in Wanted(t) => Head(todo[t]) \in {"unfifo", "fifo"}
           /\ \A k \in Slots : Lot(k) \in Wanted(t) => Head(todo[t]) \in {"unlots", "write"}
           /\ \A r \in Rows : StockRow(r) \in Wanted(t) => Head(todo[t]) = "stock"
<1>1. Head(todo[t]) \in Names
  BY HeadLeft
<1>2. CASE Head(todo[t]) \in {"sale", "stock", "lots", "commit"}
  BY <1>2, WantedAt, RowsApart
<1>3. CASE Head(todo[t]) \in {"unfifo", "fifo"}
  BY <1>3, WantedAt, RowsApart
<1>4. CASE Head(todo[t]) \in {"unlots", "write"}
  BY <1>4, WantedAt, RowsApart
<1>5. QED
  BY <1>1, <1>2, <1>3, <1>4 DEF Names

LEMMA StatementOrderly ==
    ASSUME AccountInv, LedgersInv, WaitInv, NEW t \in Txs, ~Idle(t), Head(todo[t]) # "commit",
           Advance(t), request' = request,
           \A u \in Txs : u # t => own'[u] = own[u],
           Locked(t) \cup Wanted(t) \subseteq Locked(t)',
           Locked(t)' \subseteq Locked(t) \cup Wanted(t) \cup {SaleRow(request[t].sale)}
    PROVE  WaitInv'
<1> DEFINE head == Head(todo[t])
<1>1. /\ ~Idle(t)'
      /\ \A u \in Txs : u # t => todo'[u] = todo[u]
      /\ \A x : Left(x, todo'[t]) <=> Left(x, todo[t]) /\ x # head
      /\ \A x : Left(x, todo[t]) => Rank(head) <= Rank(x)
      /\ Left(head, todo[t])
  BY Advanced
<1>2. head \in Names /\ Orderly(t) /\ Plan(t)
  BY HeadLeft DEF WaitInv, LedgersInv, Working
<1>3. request[t].kind \in {"create", "update", "void"}
  BY DEF AccountInv, Asked
<1> HIDE DEF head
<1>4. ASSUME NEW n \in {2, 3, 5}, Past(t, n) \/ n <= Rank(head)
      PROVE  Past(t, n)'
  <2>1. ASSUME NEW x \in Names, Left(x, todo'[t])
        PROVE  Rank(x) > n
    <3>1. Left(x, todo[t]) /\ x # head /\ Rank(head) <= Rank(x)
      BY <1>1, <2>1
    <3>2. Rank(head) # Rank(x)
      BY <1>2, <3>1, RankOf DEF Names
    <3>3. Rank(x) \in Nat /\ Rank(head) \in Nat
      BY <1>2, RankNat
    <3>4. QED
      BY <1>4, <3>1, <3>2, <3>3 DEF Past
  <2>2. QED
    BY <2>1 DEF Past
<1>5. \A r \in Rows : Holds(t, r)' <=> Holds(t, r) \/ StockRow(r) \in Wanted(t)
  BY RowsApart DEF Holds
<1>6. \A r \in Rows : Holds(t, r)' => Past(t, 2)'
  <2>1. ASSUME NEW r \in Rows, StockRow(r) \in Wanted(t)
        PROVE  2 <= Rank(head)
    BY <2>1, WantedKinds, RankOf DEF head
  <2>2. QED
    BY <1>2, <1>4, <1>5, <2>1 DEF Orderly
<1>7. ~Left("stock", todo'[t]) => Holds(t, request[t].row)'
  <2>1. request[t].row \in Rows
    BY DEF AccountInv, Asked
  <2>2. CASE ~Left("stock", todo[t])
    BY <1>2, <1>5, <2>1, <2>2 DEF Orderly, Holds
  <2>3. CASE head = "stock"
    BY <2>1, <2>3, WantedAt DEF head, Holds
  <2>4. QED
    BY <1>1, <2>2, <2>3
<1>8. ASSUME NEW k \in Slots, Batch(k) \in Locked(t)'
      PROVE  Past(t, 3)' /\ (request[t].kind # "update" => ~Left("fifo", todo'[t]))
  <2>1. CASE Batch(k) \in Locked(t)
    BY <1>1, <1>2, <1>4, <2>1 DEF Orderly
  <2>2. CASE Batch(k) \in Wanted(t)
    <3>1. head \in {"unfifo", "fifo"}
      BY <2>2, WantedKinds DEF head
    <3>2. Past(t, 3)'
      BY <1>4, <3>1, RankOf
    <3>3. QED
      BY <1>1, <1>2, <1>3, <3>1, <3>2 DEF Orderly, Plan
  <2>3. QED
    BY <1>8, <2>1, <2>2, RowsApart
<1>9. ASSUME NEW k \in Slots, Lot(k) \in Locked(t)'
      PROVE  Past(t, 5)' /\ (request[t].kind # "update" => ~Left("write", todo'[t]))
  <2>1. CASE Lot(k) \in Locked(t)
    BY <1>1, <1>2, <1>4, <2>1 DEF Orderly
  <2>2. CASE Lot(k) \in Wanted(t)
    <3>1. head \in {"unlots", "write"}
      BY <2>2, WantedKinds DEF head
    <3>2. Past(t, 5)'
      BY <1>4, <3>1, RankOf
    <3>3. QED
      BY <1>1, <1>2, <1>3, <3>1, <3>2 DEF Orderly, Plan
  <2>3. QED
    BY <1>9, <2>1, <2>2, RowsApart
<1>10. Orderly(t)'
  BY <1>1, <1>2, <1>6, <1>7, <1>8, <1>9 DEF Orderly
<1>11. \A u \in Txs : u # t => Orderly(u)'
  BY <1>1, OrderlyStays DEF WaitInv
<1>12. QED
  BY <1>10, <1>11 DEF WaitInv

\* What each statement locks is what it wanted, and its own sale.
LEMMA StatementsOrderly ==
    ASSUME AccountInv, LedgersInv, WaitInv, NEW t \in Txs, ~Rollback(t),
           \/ WriteSale(t) \/ AdjustStock(t) \/ CreditBatches(t) \/ FifoDeduct(t)
           \/ CreditLots(t) \/ ReadLots(t) \/ WriteLots(t)
    PROVE  WaitInv'
<1> DEFINE row == SaleRow(request[t].sale)
<1>1. ~Idle(t) /\ Head(todo[t]) # "commit" /\ Advance(t) /\ request' = request
  BY DEF WriteSale, AdjustStock, CreditBatches, FifoDeduct, CreditLots, ReadLots, WriteLots,
         Credit, At
<1>2. CASE ReadLots(t)
  <2>1. own' = own /\ Head(todo[t]) = "lots"
    BY <1>2 DEF ReadLots, At
  <2>2. Wanted(t) = {} /\ Locked(t)' = Locked(t)
    BY <1>1, <2>1, WantedAt DEF Locked
  <2>3. QED
    BY <1>1, <2>1, <2>2, StatementOrderly
<1>3. ASSUME NEW STATE values, Write(t, values), Wanted(t) \subseteq DOMAIN values,
             DOMAIN values \subseteq Wanted(t) \cup {row}
      PROVE  WaitInv'
  <2>1. /\ \A u \in Txs : u # t => own'[u] = own[u]
        /\ Locked(t)' = Locked(t) \cup DOMAIN values
    BY <1>3, Written
  <2>2. QED
    BY <1>1, <1>3, <2>1, StatementOrderly
<1>4. \A i, v : DOMAIN Only(i, v) = {i}
  BY DEF Only
<1>5. \A i, v, rows : DOMAIN Over(Only(i, v), rows) = {i} \cup DOMAIN rows
  BY DEF Only, Over
<1>6. CASE WriteSale(t)
  <2>1. PICK v : Write(t, Only(row, v))
    BY <1>6 DEF WriteSale
  <2>2. Wanted(t) = {row}
    BY <1>1, <1>6, WantedAt DEF WriteSale, At
  <2>3. QED
    BY <1>3, <1>4, <2>1, <2>2
<1>7. CASE AdjustStock(t)
  <2>1. PICK v : Write(t, Only(StockRow(request[t].row), v))
    BY <1>7 DEF AdjustStock
  <2>2. Wanted(t) = {StockRow(request[t].row)}
    BY <1>1, <1>7, WantedAt DEF AdjustStock, At
  <2>3. QED
    BY <1>3, <1>4, <2>1, <2>2
<1>8. CASE CreditBatches(t) \/ CreditLots(t) \/ FifoDeduct(t) \/ WriteLots(t)
  <2>1. PICK v, rows : Write(t, Over(Only(row, v), rows)) /\ DOMAIN rows = Wanted(t)
    <3>1. CASE CreditBatches(t)
      <4> DEFINE rows == [i \in Wanted(t) |-> See(t, i) + SaleOf(t)["fifo"][i[2]]]
      <4>1. Write(t, Over(Only(row, [SaleOf(t) EXCEPT !["fifo"] = Nothing]), rows))
        BY <3>1 DEF CreditBatches, Credit
      <4>2. DOMAIN rows = Wanted(t)
        OBVIOUS
      <4> HIDE DEF rows
      <4>3. QED
        BY <4>1, <4>2
    <3>2. CASE CreditLots(t)
      <4> DEFINE rows == [i \in Wanted(t) |-> See(t, i) + SaleOf(t)["lots"][i[2]]]
      <4>1. Write(t, Over(Only(row, [SaleOf(t) EXCEPT !["lots"] = Nothing]), rows))
        BY <3>2 DEF CreditLots, Credit
      <4>2. DOMAIN rows = Wanted(t)
        OBVIOUS
      <4> HIDE DEF rows
      <4>3. QED
        BY <4>1, <4>2
    <3>3. CASE FifoDeduct(t)
      <4> DEFINE held == [k \in Slots |-> See(t, Batch(k))]
                 Rows1(take) == [i \in Wanted(t) |-> held[i[2]] - take[i[2]]]
      <4>1. PICK take : Write(t, Over(Only(row, [SaleOf(t) EXCEPT !.fifo = Plus(@, take)]),
                                      Rows1(take)))
        BY <3>3 DEF FifoDeduct
      <4>2. DOMAIN Rows1(take) = Wanted(t)
        OBVIOUS
      <4> HIDE DEF Rows1
      <4>3. QED
        BY <4>1, <4>2
    <3>4. CASE WriteLots(t)
      <4> DEFINE rows == [i \in Wanted(t) |-> seen[t].held[i[2]] - seen[t].take[i[2]]]
      <4>1. Write(t, Over(Only(row, [SaleOf(t) EXCEPT !.lots = Plus(@, seen[t].take)]), rows))
        BY <3>4 DEF WriteLots
      <4>2. DOMAIN rows = Wanted(t)
        OBVIOUS
      <4> HIDE DEF rows
      <4>3. QED
        BY <4>1, <4>2
    <3>5. QED
      BY <1>8, <3>1, <3>2, <3>3, <3>4
  <2> DEFINE values == Over(Only(row, v), rows)
  <2>2. Write(t, values) /\ DOMAIN values = {row} \cup Wanted(t)
    BY <1>5, <2>1
  <2> HIDE DEF values
  <2>3. QED
    BY <1>3, <2>2
<1>9. QED
  BY <1>2, <1>6, <1>7, <1>8

LEMMA BeginOrderly ==
    ASSUME AccountInv, LedgersInv, WaitInv, NEW t \in Txs, NEW s \in Sales, NEW r \in Rows,
           NEW q \in Quantities, NEW kind \in {"create", "update", "void"}, Begin(t, kind, s, r, q)
    PROVE  WaitInv'
<1> DEFINE asked == [kind |-> kind, sale |-> s, row |-> r, quantity |-> q]
<1>1. /\ Idle(t) /\ todo' = [todo EXCEPT ![t] = Steps[kind]]
      /\ request' = [request EXCEPT ![t] = asked]
  BY DEF Begin
<1>2. /\ todo'[t] = Steps[kind] /\ request'[t].kind = kind
      /\ \A u \in Txs : u # t => todo'[u] = todo[u] /\ request'[u] = request[u]
  BY <1>1 DEF AccountInv, Tables
<1>3. /\ \A u \in Txs : u # t => own'[u] = own[u]
      /\ Locked(t)' \subseteq Locked(t) \cup {SaleRow(s)}
  <2>1. CASE own' = own
    BY <2>1 DEF Locked
  <2>2. CASE own' # own
    <3>1. PICK v : Write(t, Only(SaleRow(s), v))
      BY <2>2 DEF Begin
    <3>2. DOMAIN Only(SaleRow(s), v) = {SaleRow(s)}
      BY DEF Only
    <3>3. QED
      BY <3>1, <3>2, Written
  <2>3. QED
    BY <2>1, <2>2
<1>4. /\ \A x \in Rows : ~Holds(t, x)'
      /\ \A k \in Slots : Batch(k) \notin Locked(t)' /\ Lot(k) \notin Locked(t)'
  BY <1>1, <1>3, RowsApart DEF WaitInv, Orderly, Holds
<1>5. /\ kind = "create" => ~Left("unfifo", Steps[kind]) /\ ~Left("unlots", Steps[kind])
      /\ Left("stock", Steps[kind])
  <2>1. CASE kind = "create"
    <3>1. Steps[kind][1] = "stock" /\ 1 \in 1..Len(Steps[kind])
      BY <2>1 DEF Steps
    <3>2. QED
      BY <3>1, AllInOrder DEF Left
  <2>2. CASE kind # "create"
    <3>1. Steps[kind][2] = "stock" /\ 2 \in 1..Len(Steps[kind])
      <4>1. CASE kind = "update"
        BY <4>1 DEF Steps
      <4>2. CASE kind = "void"
        BY <4>2 DEF Steps
      <4>3. QED
        BY <2>2, <4>1, <4>2
    <3>2. QED
      BY <2>2, <3>1 DEF Left
  <2>3. QED
    BY <2>1, <2>2
<1>6. Orderly(t)'
  BY <1>2, <1>4, <1>5 DEF Orderly
<1>7. \A u \in Txs : u # t => Orderly(u)'
  BY <1>2, <1>3, OrderlyStays DEF WaitInv
<1>8. QED
  BY <1>6, <1>7 DEF WaitInv

LEMMA ResetOrderly ==
    ASSUME AccountInv, WaitInv, NEW t \in Txs, Reset(t)
    PROVE  WaitInv'
<1>1. /\ own'[t] = <<>> /\ todo'[t] = <<>>
      /\ \A u \in Txs : u # t =>
            own'[u] = own[u] /\ todo'[u] = todo[u] /\ request'[u] = request[u]
  BY ResetEnds DEF Ended
<1>2. Locked(t)' = {} /\ Idle(t)'
  BY <1>1 DEF Locked, Idle
<1>3. Orderly(t)'
  BY <1>2 DEF Orderly, Holds
<1>4. QED
  BY <1>1, <1>3, OrderlyStays DEF WaitInv

LEMMA StepOrderly ==
    ASSUME AccountInv, LedgersInv, WaitInv, [Next]_vars
    PROVE  WaitInv'
<1>1. CASE UNCHANGED vars
  BY <1>1, OrderlyStays DEF vars, txVars, WaitInv
<1>2. ASSUME NEW t \in Txs, NEW s \in Sales, NEW r \in Rows, NEW q \in Quantities,
             NEW kind \in {"create", "update", "void"}, Begin(t, kind, s, r, q)
      PROVE  WaitInv'
  BY <1>2, BeginOrderly
<1>3. ASSUME NEW t \in Txs, Statement(t)
      PROVE  WaitInv'
  <2>1. CASE Rollback(t) \/ Commit(t)
    BY <2>1, ResetOrderly DEF Rollback, Commit
  <2>2. CASE ~Rollback(t) /\ ~Commit(t)
    BY <1>3, <2>2, StatementsOrderly DEF Statement
  <2>3. QED
    BY <2>1, <2>2
<1>4. ASSUME NEW t \in Txs, Fail(t)
      PROVE  WaitInv'
  BY <1>4, ResetOrderly DEF Fail, Rollback
<1>5. QED
  BY <1>1, <1>2, <1>3, <1>4 DEF Next

LEMMA InitOrderly == Init => WaitInv
<1> SUFFICES ASSUME Init, NEW t \in Txs PROVE Orderly(t)
  BY DEF WaitInv
<1>1. Locked(t) = {} /\ Idle(t)
  BY DEF Init, InitSessions, Locked, Idle
<1>2. QED
  BY <1>1 DEF Orderly, Holds

\* Whoever holds what a request waits for is further on, or is an edit at the
\* same statement.
LEMMA HolderAhead ==
    ASSUME AccountInv, LedgersInv, WaitInv, NEW t \in Txs, ~Idle(t), NEW u \in Txs, u # t,
           NEW i \in Wanted(t), i \in Locked(u),
           ~Idle(u) => Wanted(u) # {}
    PROVE  /\ ~Idle(u)
           /\ \/ Rank(Head(todo[t])) < Rank(Head(todo[u]))
              \/ /\ Rank(Head(todo[t])) = Rank(Head(todo[u]))
                 /\ request[u].kind = "update" /\ Holds(u, request[u].row)
<1>1. Head(todo[t]) \in Names
  BY HeadLeft
<1>2. Orderly(u)
  BY DEF WaitInv
<1>3. ~Idle(u) => /\ Head(todo[u]) \in Names /\ Left(Head(todo[u]), todo[u])
                  /\ Head(todo[u]) \notin {"lots", "commit"}
  BY HeadLeft, WantedAt
<1>4. CASE Head(todo[t]) = "sale"
  <2>1. i = SaleRow(request[t].sale) /\ request[t].sale \in Sales
    BY <1>4, WantedAt DEF AccountInv, Asked
  <2>2. ~Idle(u) /\ HoldsSale(u) /\ ~Left("sale", todo[u])
    BY <2>1 DEF LedgersInv, Working, Reach, HoldsSale
  <2>3. QED
    BY <1>3, <1>4, <2>2, RankOf DEF Names
<1>5. CASE Head(todo[t]) = "stock"
  <2>1. i = StockRow(request[t].row) /\ request[t].row \in Rows
    BY <1>5, WantedAt DEF AccountInv, Asked
  <2>2. ~Idle(u) /\ Past(u, 2)
    BY <1>2, <2>1 DEF Orderly, Holds
  <2>3. QED
    BY <1>3, <1>5, <2>2, RankOf DEF Past
<1>6. CASE Head(todo[t]) \in {"unfifo", "fifo"}
  <2>1. PICK k \in Slots : i = Batch(k)
    BY <1>6, WantedAt DEF Eligible, VariantOrUntagged
  <2>2. /\ ~Idle(u) /\ Past(u, 3)
        /\ request[u].kind # "update" => ~Left("fifo", todo[u])
    BY <1>2, <2>1 DEF Orderly
  <2>3. Rank(Head(todo[u])) > 3
    BY <1>3, <2>2 DEF Past
  <2>4. ~Left("stock", todo[u])
    BY <2>2, RankOf DEF Past, Names
  <2>5. Holds(u, request[u].row)
    BY <1>2, <2>2, <2>4 DEF Orderly
  <2>6. QED
    BY <1>3, <1>6, <2>2, <2>3, <2>5, RankOf DEF Names
<1>7. CASE Head(todo[t]) \in {"unlots", "write"}
  <2>1. PICK k \in Slots : i = Lot(k)
    BY <1>7, WantedAt
  <2>2. /\ ~Idle(u) /\ Past(u, 5)
        /\ request[u].kind # "update" => ~Left("write", todo[u])
    BY <1>2, <2>1 DEF Orderly
  <2>3. Rank(Head(todo[u])) > 5
    BY <1>3, <2>2 DEF Past
  <2>4. ~Left("stock", todo[u])
    BY <2>2, RankOf DEF Past, Names
  <2>5. Holds(u, request[u].row)
    BY <1>2, <2>2, <2>4 DEF Orderly
  <2>6. QED
    BY <1>3, <1>7, <2>2, <2>3, <2>5, RankOf DEF Names
<1>8. CASE Head(todo[t]) \in {"lots", "commit"}
  BY <1>8, WantedAt
<1>9. QED
  BY <1>1, <1>4, <1>5, <1>6, <1>7, <1>8 DEF Names

\* Ranks have a largest.
LEMMA LargestRank ==
    ASSUME NEW S \in SUBSET (1..8), S # {}
    PROVE  \E m \in S : \A n \in S : n <= m
<1>1. \A n \in S : n \in {1, 2, 3, 4, 5, 6, 7, 8}
  OBVIOUS
<1>2. \/ 8 \in S \/ 7 \in S \/ 6 \in S \/ 5 \in S \/ 4 \in S \/ 3 \in S \/ 2 \in S \/ 1 \in S
  BY <1>1
<1>3. QED
  BY <1>1, <1>2

LEMMA NoCircle ==
    ASSUME AccountInv, LedgersInv, WaitInv
    PROVE  NoDeadlock
<1> SUFFICES ASSUME NEW any \in Txs, ~Idle(any), ~EditsCross,
                    \A t \in Txs : ~Idle(t) => ~Free(t, Wanted(t))
             PROVE  FALSE
  BY DEF NoDeadlock
<1>1. ASSUME NEW t \in Txs, ~Idle(t)
      PROVE  \E u \in Txs : u # t /\ \E i \in Wanted(t) : i \in Locked(u)
  BY <1>1 DEF Free, HeldByOthers
<1> DEFINE Place(t) == Rank(Head(todo[t]))
           Running == {t \in Txs : ~Idle(t)}
           Places == {Place(t) : t \in Running}
<1>2. \A t \in Running : Place(t) \in 1..8
  BY HeadLeft, RankNat
<1>3. PICK last \in Running : \A u \in Running : Place(u) <= Place(last)
  <2>1. Places \in SUBSET (1..8) /\ Places # {}
    BY <1>2
  <2>2. \E m \in Places : \A n \in Places : n <= m
    <3> HIDE DEF Places
    <3>1. QED
      BY <2>1, LargestRank
  <2>3. QED
    BY <2>2
\* Whoever holds what one of the furthest waits for is an edit as far on.
<1>4. ASSUME NEW t \in Running, Place(t) = Place(last)
      PROVE  \E u \in Running : /\ u # t /\ Place(u) = Place(last)
                                /\ request[u].kind = "update" /\ Holds(u, request[u].row)
  <2>1. PICK u \in Txs : u # t /\ \E i \in Wanted(t) : i \in Locked(u)
    BY <1>1
  <2>2. ~Idle(u) => Wanted(u) # {}
    BY <1>1
  <2>3. /\ u \in Running
        /\ \/ Place(t) < Place(u)
           \/ /\ Place(t) = Place(u)
              /\ request[u].kind = "update" /\ Holds(u, request[u].row)
    BY <2>1, <2>2, HolderAhead
  <2>4. Place(t) \in Int /\ Place(u) \in Int /\ Place(u) <= Place(t)
    BY <1>2, <1>3, <1>4, <2>3
  <2> HIDE DEF Place, Running
  <2>5. QED
    BY <1>4, <2>1, <2>3, <2>4
<1>5. PICK u \in Running : /\ Place(u) = Place(last)
                           /\ request[u].kind = "update" /\ Holds(u, request[u].row)
  BY <1>4
<1>6. PICK v \in Running : v # u /\ request[v].kind = "update" /\ Holds(v, request[v].row)
  BY <1>4, <1>5
<1>7. request[u].row = request[v].row
  BY <1>5, <1>6 DEF EditsCross
<1>8. QED
  BY <1>5, <1>6, <1>7 DEF Holds, LedgersInv, Locks

\* Requests lock rows in the order of their statements.
THEOREM WaitInvHolds == Spec => []WaitInv
<1>1. Init => AccountInv /\ LedgersInv /\ WaitInv
  BY InitInv, InitLedgers, InitOrderly
<1>2. AccountInv /\ LedgersInv /\ WaitInv /\ [Next]_vars => (AccountInv /\ LedgersInv /\ WaitInv)'
  BY StepInv, StepLedgers, StepOrderly
<1>3. QED
  BY <1>1, <1>2, PTL DEF Spec

\* However many requests on sales overlap, row locks never stop them all, unless
\* two of them edit sales of different variants.
THEOREM NoDeadlockHolds == Spec => []NoDeadlock
<1>1. AccountInv /\ LedgersInv /\ WaitInv => NoDeadlock
  BY NoCircle
<1>2. QED
  BY <1>1, AccountInvHolds, LedgersInvHolds, WaitInvHolds, PTL

=============================================================================
