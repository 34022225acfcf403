--------------------------- MODULE OrderTx_proofs ---------------------------
(***************************************************************************)
(* However deliveries, reverts, edits and sales overlap, the stock row is  *)
(* what the batches and the sales explain, and no batch a sale was costed  *)
(* from is deleted (OrderInv).                                             *)
(***************************************************************************)
EXTENDS OrderTx, SumTheorems, TLAPS

\* The statements a request may have left.
Fresh ==
    { <<>>, <<"order", "restock", "batches", "commit">>,
      <<"check", "unstock", "order", "commit">>, <<"lines", "commit">>,
      <<"sell", "fifo", "commit">> }
Plans == Fresh \cup
    { <<"restock", "batches", "commit">>, <<"batches", "commit">>,
      <<"unstock", "order", "commit">>, <<"order", "commit">>,
      <<"fifo", "commit">>, <<"commit">> }

Statuses == DOMAIN Transitions
LineRow  == [life : {"new", "live", "gone"}, units : {-1, Quantity}]
BatchRow == [received : {0, Quantity}, remaining : 0..Quantity]
RowIds   == {Order, Level} \cup LineIds \cup BatchIds

RowTyped(i, v) ==
    /\ i = Order => v \in Statuses
    /\ i = Level => v \in Nat
    /\ i \in LineIds => v \in LineRow
    /\ i \in BatchIds => v \in BatchRow
RowsTyped(rows) == DOMAIN rows \subseteq RowIds /\ \A i \in DOMAIN rows : RowTyped(i, rows[i])

Typed ==
    /\ DOMAIN own = Txs /\ DOMAIN todo = Txs /\ DOMAIN loaded = Txs /\ DOMAIN goal = Txs
    /\ DOMAIN db = RowIds /\ RowsTyped(db)
    /\ sold \in Nat
    /\ \A t \in Txs :
          /\ RowsTyped(own[t])
          /\ loaded[t].lines \subseteq LineIds /\ loaded[t].tracked \subseteq LineIds

Exclusive == \A t, u \in Txs : t # u => Locked(t) \cap Locked(u) = {}

\* What a request has changed of the stock row and of what the batches received.
Moved(t) == IF Level \in Locked(t) THEN own[t][Level] - db[Level] ELSE 0
Gained(t) ==
    [i \in BatchIds |->
       IF i \in Locked(t) THEN own[t][i].received - db[i].received ELSE 0]

\* A request that has done what it came for has moved the stock row by what its
\* batches received, less the unit it sold, and deletes untouched batches only.
Settled(t) ==
    /\ Moved(t) + (IF Selling(t) THEN 1 ELSE 0) = SumFunctionOnSet(Gained(t), BatchIds)
    /\ \A i \in BatchIds \cap Locked(t) :
          own[t][i].received # db[i].received => db[i].remaining = db[i].received

\* What the statements a request has left say of the rows it holds.
Doing(t) ==
    /\ todo[t] \in Plans
    /\ todo[t] \in Fresh => Locked(t) = {}
    /\ At(t, "order") => goal[t] \in Statuses
    /\ todo[t] = <<"order", "restock", "batches", "commit">> => goal[t] = "DELIVERED"
    /\ At(t, "restock") =>
          goal[t] = "DELIVERED" /\ Locked(t) \subseteq {Order} \cup LineIds
    /\ At(t, "batches") =>
          /\ goal[t] = "DELIVERED"
          /\ Level \in Locked(t) /\ Locked(t) \cap BatchIds = {}
          /\ own[t][Level] = db[Level] + Quantity * Cardinality(loaded[t].lines)
    /\ At(t, "check") \/ At(t, "unstock") => goal[t] = "CLEARED"
    /\ At(t, "unstock") =>
          /\ Locked(t) \subseteq BatchIds
          /\ \A i \in Locked(t) : own[t][i] = db[i] /\ db[i].remaining = db[i].received
    /\ At(t, "lines") \/ At(t, "sell") \/ At(t, "fifo") => goal[t] = "none"
    /\ At(t, "fifo") => Locked(t) = {Level} /\ own[t][Level] = db[Level] - 1
    /\ todo[t] \in {<<"order", "commit">>, <<"commit">>} => Settled(t)

OrderInv ==
    /\ Typed
    /\ Exclusive
    /\ \A t \in Txs : Doing(t)
    /\ LevelMatchesBatches

------------------------------------------------------------------------------
(* Rows and plans.                                                         *)

LEMMA RowsDiffer ==
    /\ Order # Level
    /\ Order \notin LineIds /\ Order \notin BatchIds
    /\ Level \notin LineIds /\ Level \notin BatchIds
    /\ LineIds \cap BatchIds = {}
BY DEF Order, Level, LineIds, BatchIds, Line, Batch

LEMMA FewRows == IsFiniteSet(LineIds) /\ IsFiniteSet(BatchIds)
<1>1. IsFiniteSet(1..MaxLines) /\ IsFiniteSet(1..MaxBatches)
  BY OrderAssumption, FS_Interval
<1> DEFINE line == [n \in 1..MaxLines |-> Line(n)]
           batch == [n \in 1..MaxBatches |-> Batch(n)]
<1>2. line \in Surjection(1..MaxLines, LineIds)
  BY DEF LineIds, Surjection
<1>3. batch \in Surjection(1..MaxBatches, BatchIds)
  BY DEF BatchIds, Surjection
<1> HIDE DEF line, batch
<1>4. QED
  BY <1>1, <1>2, <1>3, FS_Surjection

LEMMA EmptyRows == DOMAIN <<>> = {} /\ RowsTyped(<<>>)
<1>1. DOMAIN <<>> = {}
  OBVIOUS
<1>2. QED
  BY <1>1 DEF RowsTyped

\* Which statements may be under way, and what is left after each.
LEMMA PlanOf ==
    ASSUME NEW t \in Txs, Doing(t), DOMAIN todo = Txs
    PROVE  /\ At(t, "order") =>
                \/ todo[t] = <<"order", "restock", "batches", "commit">>
                   /\ Tail(todo[t]) = <<"restock", "batches", "commit">>
                \/ todo[t] = <<"order", "commit">> /\ Tail(todo[t]) = <<"commit">>
           /\ At(t, "restock") => Tail(todo[t]) = <<"batches", "commit">>
           /\ At(t, "batches") => Tail(todo[t]) = <<"commit">>
           /\ At(t, "check") => todo[t] \in Fresh /\ Tail(todo[t]) = <<"unstock", "order", "commit">>
           /\ At(t, "unstock") => Tail(todo[t]) = <<"order", "commit">>
           /\ At(t, "lines") => todo[t] \in Fresh /\ Tail(todo[t]) = <<"commit">>
           /\ At(t, "sell") => todo[t] \in Fresh /\ Tail(todo[t]) = <<"fifo", "commit">>
           /\ At(t, "fifo") => Tail(todo[t]) = <<"commit">>
           /\ At(t, "commit") => todo[t] = <<"commit">>
           /\ Idle(t) => todo[t] \in Fresh
<1>1. todo[t] \in Plans
  BY DEF Doing
<1>2. CASE todo[t] = <<>>
  BY <1>2 DEF At, Idle, Fresh
<1>3. CASE todo[t] = <<"order", "restock", "batches", "commit">>
  BY <1>3 DEF Fresh, At, Idle
<1>4. CASE todo[t] = <<"check", "unstock", "order", "commit">>
  BY <1>4 DEF Fresh, At, Idle
<1>5. CASE todo[t] = <<"lines", "commit">>
  BY <1>5 DEF Fresh, At, Idle
<1>6. CASE todo[t] = <<"sell", "fifo", "commit">>
  BY <1>6 DEF Fresh, At, Idle
<1>7. CASE todo[t] = <<"restock", "batches", "commit">>
  BY <1>7 DEF At, Idle
<1>8. CASE todo[t] = <<"batches", "commit">>
  BY <1>8 DEF At, Idle
<1>9. CASE todo[t] = <<"unstock", "order", "commit">>
  BY <1>9 DEF At, Idle
<1>10. CASE todo[t] = <<"order", "commit">>
  BY <1>10 DEF At, Idle
<1>11. CASE todo[t] = <<"fifo", "commit">>
  BY <1>11 DEF At, Idle
<1>12. CASE todo[t] = <<"commit">>
  BY <1>12 DEF At, Idle
<1>13. QED
  BY <1>1, <1>2, <1>3, <1>4, <1>5, <1>6, <1>7, <1>8, <1>9, <1>10, <1>11, <1>12 DEF Plans, Fresh

\* The plans a step leaves.
LEMMA PlanNames ==
    ASSUME NEW s \in Plans
    PROVE  /\ s # <<>> => Head(s) \in {"order", "restock", "batches", "check", "unstock", "lines",
                                       "sell", "fifo", "commit"}
           /\ <<"restock", "batches", "commit">> \in Plans
           /\ <<"batches", "commit">> \in Plans /\ <<"unstock", "order", "commit">> \in Plans
           /\ <<"order", "commit">> \in Plans /\ <<"fifo", "commit">> \in Plans
           /\ <<"commit">> \in Plans /\ <<>> \in Plans
BY DEF Plans, Fresh

------------------------------------------------------------------------------
(* What one request's step leaves of the others and of the rows.           *)

\* A request whose rows nobody writes goes on as before.
LEMMA OthersStay ==
    ASSUME OrderInv, NEW u \in Txs,
           own'[u] = own[u], todo'[u] = todo[u], loaded'[u] = loaded[u], goal'[u] = goal[u],
           \A i \in Locked(u) : db'[i] = db[i]
    PROVE  Doing(u)'
<1>1. Doing(u)
  BY DEF OrderInv
<1>2. /\ Locked(u)' = Locked(u)
      /\ \A step : At(u, step)' <=> At(u, step)
  BY DEF Locked, At, Idle
<1>3. Selling(u)' <=> Selling(u)
  BY <1>2 DEF Selling
<1>4. Moved(u)' = Moved(u)
  BY <1>2 DEF Moved
<1>5. Gained(u)' = Gained(u)
  BY <1>2 DEF Gained
<1>6. Settled(u) => Settled(u)'
  BY <1>2, <1>3, <1>4, <1>5 DEF Settled
<1>7. /\ At(u, "batches") => own'[u][Level] = db'[Level] + Quantity * Cardinality(loaded'[u].lines)
      /\ At(u, "fifo") => own'[u][Level] = db'[Level] - 1
      /\ At(u, "unstock") =>
            \A i \in Locked(u) : own'[u][i] = db'[i] /\ db'[i].remaining = db'[i].received
  BY <1>1 DEF Doing
<1>8. QED
  BY <1>1, <1>2, <1>6, <1>7 DEF Doing

\* A statement that locks rows nobody else has, and writes them.
LEMMA WriteStays ==
    ASSUME OrderInv, NEW t \in Txs, NEW STATE values, Write(t, values), Proceed(t),
           RowsTyped(values),
           \A u \in Txs \ {t} : DOMAIN values \cap Locked(u) = {}
    PROVE  /\ Typed' /\ Exclusive' /\ LevelMatchesBatches'
           /\ \A u \in Txs : u # t => Doing(u)'
           /\ own'[t] = Over(values, own[t]) /\ todo'[t] = Tail(todo[t])
           /\ Locked(t)' = DOMAIN values \cup Locked(t)
<1>1. /\ DOMAIN own' = Txs /\ own'[t] = Over(values, own[t])
      /\ \A u \in Txs : u # t => own'[u] = own[u]
  BY DEF Write, OrderInv, Typed
<1>2. /\ DOMAIN todo' = Txs /\ todo'[t] = Tail(todo[t])
      /\ \A u \in Txs : u # t => todo'[u] = todo[u]
      /\ UNCHANGED <<db, loaded, goal, sold>>
  BY DEF Proceed, Advance, OrderInv, Typed
<1>3. Locked(t)' = DOMAIN values \cup Locked(t)
  BY <1>1 DEF Over, Locked
<1>4. \A u \in Txs : u # t => Locked(u)' = Locked(u)
  BY <1>1 DEF Locked
<1>5. Exclusive'
  <2>1. ASSUME NEW u \in Txs, NEW v \in Txs, u # v PROVE Locked(u)' \cap Locked(v)' = {}
    <3>1. Locked(u) \cap Locked(v) = {}
      BY <2>1 DEF OrderInv, Exclusive
    <3>2. CASE u = t
      <4>1. DOMAIN values \cap Locked(v) = {}
        BY <2>1, <3>2
      <4>2. QED
        BY <2>1, <3>1, <3>2, <4>1, <1>3, <1>4
    <3>3. CASE v = t
      <4>1. DOMAIN values \cap Locked(u) = {}
        BY <2>1, <3>3
      <4>2. QED
        BY <2>1, <3>1, <3>3, <4>1, <1>3, <1>4
    <3>4. CASE u # t /\ v # t
      BY <3>1, <3>4, <1>4
    <3>5. QED
      BY <3>2, <3>3, <3>4
  <2>2. QED
    BY <2>1 DEF Exclusive
<1>6. RowsTyped(own'[t])
  <2>1. RowsTyped(own[t])
    BY DEF OrderInv, Typed
  <2>2. QED
    BY <1>1, <2>1 DEF RowsTyped, Over
<1>7. Typed'
  BY <1>1, <1>2, <1>6 DEF OrderInv, Typed, RowsTyped, RowTyped
<1>8. LevelMatchesBatches'
  BY <1>2 DEF OrderInv, LevelMatchesBatches, Received
<1>9. ASSUME NEW u \in Txs, u # t PROVE Doing(u)'
  BY <1>1, <1>2, <1>9, OthersStay
<1>10. QED
  BY <1>1, <1>2, <1>3, <1>5, <1>7, <1>8, <1>9

\* The end of a request without a commit.
LEMMA RollbackStays ==
    ASSUME OrderInv, NEW t \in Txs, Rollback(t)
    PROVE  OrderInv'
<1>1. /\ DOMAIN own' = Txs /\ DOMAIN todo' = Txs /\ DOMAIN loaded' = Txs /\ DOMAIN goal' = Txs
      /\ own'[t] = <<>> /\ todo'[t] = <<>> /\ loaded'[t] = NotLoaded /\ goal'[t] = "none"
      /\ \A u \in Txs : u # t => /\ own'[u] = own[u] /\ todo'[u] = todo[u]
                                 /\ loaded'[u] = loaded[u] /\ goal'[u] = goal[u]
      /\ UNCHANGED <<db, sold>>
  BY DEF Rollback, Finish, Release, OrderInv, Typed
<1>2. Locked(t)' = {} /\ \A u \in Txs : u # t => Locked(u)' = Locked(u)
  BY <1>1, EmptyRows DEF Locked
<1>3. Typed'
  <2>1. RowsTyped(own'[t])
    BY <1>1, EmptyRows
  <2>2. QED
    BY <1>1, <2>1 DEF OrderInv, Typed, NotLoaded, RowsTyped, RowTyped
<1>4. Exclusive'
  BY <1>2 DEF OrderInv, Exclusive
<1>5. Doing(t)'
  <2>1. \A step : ~At(t, step)'
    BY <1>1 DEF At, Idle
  <2>2. todo'[t] \in Fresh /\ todo'[t] \in Plans
    BY <1>1 DEF Fresh, Plans
  <2>3. todo'[t] # <<"order", "restock", "batches", "commit">>
        /\ todo'[t] \notin {<<"order", "commit">>, <<"commit">>}
    BY <1>1
  <2>4. QED
    BY <1>2, <2>1, <2>2, <2>3 DEF Doing
<1>6. \A u \in Txs : u # t => Doing(u)'
  BY <1>1, OthersStay
<1>7. LevelMatchesBatches'
  BY <1>1 DEF OrderInv, LevelMatchesBatches, Received
<1>8. QED
  BY <1>3, <1>4, <1>5, <1>6, <1>7 DEF OrderInv

------------------------------------------------------------------------------
(* The requests begin.                                                     *)

\* What is left of a request after a step says what it is at.
LEMMA StepAt ==
    ASSUME NEW t \in Txs, NEW s \in Plans, s # <<>>, todo'[t] = s
    PROVE  \A step : At(t, step)' <=> step = Head(s)
BY DEF At, Idle

LEMMA BeginKeeps ==
    ASSUME OrderInv, NEW t \in Txs, NEW steps \in Fresh, NEW target, Begin(t, steps, target),
           steps # <<>>,
           Head(steps) = "order" => target = "DELIVERED",
           Head(steps) = "check" => target = "CLEARED",
           Head(steps) \in {"lines", "sell"} => target = "none"
    PROVE  OrderInv'
<1>1. /\ DOMAIN todo' = Txs /\ DOMAIN loaded' = Txs /\ DOMAIN goal' = Txs
      /\ todo'[t] = steps /\ goal'[t] = target
      /\ loaded'[t].lines = Live(db) /\ loaded'[t].tracked = Tracked(db)
      /\ \A u \in Txs : u # t => todo'[u] = todo[u] /\ loaded'[u] = loaded[u] /\ goal'[u] = goal[u]
      /\ UNCHANGED <<db, own, sold>>
  BY DEF Begin, OrderInv, Typed
<1>2. Locked(t) = {}
  BY PlanOf DEF Begin, Doing, OrderInv, Typed
<1>3. \A u \in Txs : Locked(u)' = Locked(u)
  BY <1>1 DEF Locked
<1>4. Typed'
  BY <1>1 DEF OrderInv, Typed, Live, Tracked, RowsTyped, RowTyped
<1>5. Exclusive'
  BY <1>3 DEF OrderInv, Exclusive
<1>6. Doing(t)'
  <2>1. steps \in Plans
    BY DEF Plans
  <2>2. \A step : At(t, step)' <=> step = Head(steps)
    BY <1>1, <2>1, StepAt
  <2>3. /\ Head(steps) \in {"order", "check", "lines", "sell"}
        /\ steps \notin {<<"order", "commit">>, <<"commit">>}
    BY DEF Fresh
  <2>4. "DELIVERED" \in Statuses
    BY DEF Statuses, Transitions
  <2>5. steps = <<"order", "restock", "batches", "commit">> => Head(steps) = "order"
    OBVIOUS
  <2>6. QED
    BY <1>1, <1>2, <1>3, <2>1, <2>2, <2>3, <2>4, <2>5 DEF Doing
<1>7. \A u \in Txs : u # t => Doing(u)'
  BY <1>1, OthersStay
<1>8. LevelMatchesBatches'
  BY <1>1 DEF OrderInv, LevelMatchesBatches, Received
<1>9. QED
  BY <1>4, <1>5, <1>6, <1>7, <1>8 DEF OrderInv

\* A transition to another status begins with nothing locked, and is settled.
LEMMA NothingSettled ==
    ASSUME NEW t \in Txs, Locked(t) = {}
    PROVE  Settled(t)
<1>1. Moved(t) = 0 /\ ~Selling(t)
  BY DEF Moved, Selling
<1>2. \A i \in BatchIds : Gained(t)[i] = 0
  BY DEF Gained
<1>3. SumFunctionOnSet(Gained(t), BatchIds) = 0
  BY <1>2, FewRows, SumZero
<1>4. QED
  BY <1>1, <1>3 DEF Settled

LEMMA BeginTransitionKeeps ==
    ASSUME OrderInv, NEW t \in Txs, NEW target \in DOMAIN Transitions, BeginTransition(t, target)
    PROVE  OrderInv'
<1>1. CASE target = "DELIVERED"
  <2> DEFINE steps == <<"order", "restock", "batches", "commit">>
  <2>1. steps \in Fresh /\ steps # <<>> /\ Head(steps) = "order"
    BY DEF Fresh
  <2>2. Begin(t, steps, target)
    BY <1>1 DEF BeginTransition
  <2> HIDE DEF steps
  <2>3. QED
    BY <1>1, <2>1, <2>2, BeginKeeps
<1>2. CASE target # "DELIVERED"
  <2> DEFINE steps == <<"order", "commit">>
  <2>1. Begin(t, steps, target)
    BY <1>2 DEF BeginTransition
  <2>2. /\ DOMAIN todo' = Txs /\ DOMAIN loaded' = Txs /\ DOMAIN goal' = Txs
        /\ todo'[t] = steps /\ goal'[t] = target
        /\ loaded'[t].lines = Live(db) /\ loaded'[t].tracked = Tracked(db)
        /\ \A u \in Txs : u # t => todo'[u] = todo[u] /\ loaded'[u] = loaded[u] /\ goal'[u] = goal[u]
        /\ UNCHANGED <<db, own, sold>>
    BY <2>1 DEF Begin, OrderInv, Typed
  <2>3. Locked(t) = {}
    BY PlanOf DEF BeginTransition, Begin, Doing, OrderInv, Typed
  <2>4. \A u \in Txs : Locked(u)' = Locked(u)
    BY <2>2 DEF Locked
  <2>5. Typed'
    BY <2>2 DEF OrderInv, Typed, Live, Tracked, RowsTyped, RowTyped
  <2>6. Exclusive'
    BY <2>4 DEF OrderInv, Exclusive
  <2>7. Doing(t)'
    <3>1. steps \in Plans /\ steps # <<>> /\ Head(steps) = "order"
      BY DEF Plans
    <3>2. \A step : At(t, step)' <=> step = "order"
      BY <2>2, <3>1, StepAt
    <3>3. Settled(t)'
      <4>1. Locked(t)' = {}
        BY <2>3, <2>4
      <4>2. Moved(t)' = 0 /\ ~Selling(t)'
        BY <4>1 DEF Moved, Selling
      <4>3. \A i \in BatchIds : Gained(t)'[i] = 0
        BY <4>1 DEF Gained
      <4>4. SumFunctionOnSet(Gained(t)', BatchIds) = 0
        BY <4>3, FewRows, SumZero
      <4>5. QED
        BY <4>1, <4>2, <4>4 DEF Settled
    <3>4. goal'[t] \in Statuses /\ steps \notin Fresh
      BY <2>2 DEF Statuses, Fresh
    <3>5. steps # <<"order", "restock", "batches", "commit">>
      OBVIOUS
    <3>6. QED
      BY <2>2, <3>1, <3>2, <3>3, <3>4, <3>5 DEF Doing
  <2>8. \A u \in Txs : u # t => Doing(u)'
    BY <2>2, OthersStay
  <2>9. LevelMatchesBatches'
    BY <2>2 DEF OrderInv, LevelMatchesBatches, Received
  <2>10. QED
    BY <2>5, <2>6, <2>7, <2>8, <2>9 DEF OrderInv
<1>3. QED
  BY <1>1, <1>2

LEMMA BeginOthersKeep ==
    ASSUME OrderInv, NEW t \in Txs, BeginRevert(t) \/ BeginEdit(t) \/ BeginSale(t)
    PROVE  OrderInv'
<1>1. CASE BeginRevert(t)
  <2> DEFINE steps == <<"check", "unstock", "order", "commit">>
  <2>1. steps \in Fresh /\ steps # <<>> /\ Head(steps) = "check"
    BY DEF Fresh
  <2>2. Begin(t, steps, "CLEARED")
    BY <1>1 DEF BeginRevert
  <2> HIDE DEF steps
  <2>3. QED
    BY <2>1, <2>2, BeginKeeps
<1>2. CASE BeginEdit(t)
  <2> DEFINE steps == <<"lines", "commit">>
  <2>1. steps \in Fresh /\ steps # <<>> /\ Head(steps) = "lines"
    BY DEF Fresh
  <2>2. Begin(t, steps, "none")
    BY <1>2 DEF BeginEdit
  <2> HIDE DEF steps
  <2>3. QED
    BY <2>1, <2>2, BeginKeeps
<1>3. CASE BeginSale(t)
  <2> DEFINE steps == <<"sell", "fifo", "commit">>
  <2>1. steps \in Fresh /\ steps # <<>> /\ Head(steps) = "sell"
    BY DEF Fresh
  <2>2. Begin(t, steps, "none")
    BY <1>3 DEF BeginSale
  <2> HIDE DEF steps
  <2>3. QED
    BY <2>1, <2>2, BeginKeeps
<1>4. QED
  BY <1>1, <1>2, <1>3

\* A settled request may commit, or still write the order.
LEMMA SettledCommits ==
    ASSUME NEW t \in Txs, todo'[t] = <<"commit">>, Settled(t)'
    PROVE  Doing(t)'
<1> DEFINE s == <<"commit">>
<1>1. /\ s \in Plans /\ s \notin Fresh /\ s # <<>> /\ Head(s) = "commit"
      /\ s # <<"order", "restock", "batches", "commit">>
  BY DEF Plans, Fresh
<1>2. todo'[t] = s
  OBVIOUS
<1> HIDE DEF s
<1>3. \A step : At(t, step)' <=> step = "commit"
  BY <1>1, <1>2, StepAt
<1>4. QED
  BY <1>1, <1>2, <1>3 DEF Doing

LEMMA SettledGoesOn ==
    ASSUME NEW t \in Txs, todo'[t] = <<"order", "commit">>, goal'[t] \in Statuses, Settled(t)'
    PROVE  Doing(t)'
<1> DEFINE s == <<"order", "commit">>
<1>1. /\ s \in Plans /\ s \notin Fresh /\ s # <<>> /\ Head(s) = "order"
      /\ s # <<"order", "restock", "batches", "commit">>
  BY DEF Plans, Fresh
<1>2. todo'[t] = s
  OBVIOUS
<1> HIDE DEF s
<1>3. \A step : At(t, step)' <=> step = "order"
  BY <1>1, <1>2, StepAt
<1>4. QED
  BY <1>1, <1>2, <1>3 DEF Doing

------------------------------------------------------------------------------
(* The statements of a status change, an edit and a sale.                  *)

\* Writing the order and its lines changes nothing that is counted.
LEMMA OffStock ==
    ASSUME OrderInv, NEW t \in Txs, NEW STATE values, Write(t, values), Proceed(t),
           DOMAIN values \subseteq {Order} \cup LineIds
    PROVE  /\ Settled(t) => Settled(t)'
           /\ Selling(t)' <=> Selling(t)
<1>1. own'[t] = Over(values, own[t]) /\ UNCHANGED <<db, goal>>
  BY DEF Write, Proceed, OrderInv, Typed
<1>2. Locked(t)' = DOMAIN values \cup Locked(t)
  BY <1>1 DEF Over, Locked
<1>3. \A i \in {Level} \cup BatchIds :
          /\ i \in Locked(t)' <=> i \in Locked(t)
          /\ i \in Locked(t) => own'[t][i] = own[t][i]
  BY <1>1, <1>2, RowsDiffer DEF Over, Locked
<1>4. Selling(t)' <=> Selling(t)
  BY <1>1, <1>3 DEF Selling
<1>5. Moved(t)' = Moved(t)
  BY <1>1, <1>3 DEF Moved
<1>6. Gained(t)' = Gained(t)
  BY <1>1, <1>3 DEF Gained
<1>7. QED
  BY <1>1, <1>3, <1>4, <1>5, <1>6 DEF Settled

LEMMA FlushedAreLines ==
    ASSUME OrderInv, NEW t \in Txs
    PROVE  FlushedLines(t) \subseteq LineIds
BY DEF OrderInv, Typed, FlushedLines

LEMMA UpdateOrderKeeps ==
    ASSUME OrderInv, NEW t \in Txs, UpdateOrder(t)
    PROVE  OrderInv'
<1>0. CASE Rollback(t)
  BY <1>0, RollbackStays
<1> DEFINE values == [i \in {Order} \cup FlushedLines(t) |->
                        IF i = Order THEN goal[t] ELSE NewLine(FlushedUnits(t))]
<1>1. SUFFICES ASSUME Write(t, values), Proceed(t) PROVE OrderInv'
  BY <1>0 DEF UpdateOrder
<1>2. At(t, "order") /\ Doing(t) /\ Free(t, {Order} \cup FlushedLines(t))
  BY DEF UpdateOrder, Run, Wanted, OrderInv
<1>3. DOMAIN values = {Order} \cup FlushedLines(t)
  OBVIOUS
<1>4. RowsTyped(values)
  <2>1. FlushedUnits(t) \in {-1, Quantity} /\ goal[t] \in Statuses
    BY <1>2 DEF FlushedUnits, Doing
  <2>2. NewLine(FlushedUnits(t)) \in LineRow
    BY <2>1 DEF NewLine, LineRow
  <2>3. QED
    BY <2>1, <2>2, RowsDiffer, FlushedAreLines DEF RowsTyped, RowTyped, RowIds
<1> HIDE DEF values
<1>5. \A u \in Txs \ {t} : DOMAIN values \cap Locked(u) = {}
  BY <1>2, <1>3 DEF Free, HeldByOthers
<1>6. /\ Typed' /\ Exclusive' /\ LevelMatchesBatches'
      /\ \A u \in Txs : u # t => Doing(u)'
      /\ todo'[t] = Tail(todo[t]) /\ Locked(t)' = DOMAIN values \cup Locked(t)
  BY <1>1, <1>4, <1>5, WriteStays
<1>7. Settled(t) => Settled(t)'
  BY <1>1, <1>3, FlushedAreLines, OffStock
<1>8. goal'[t] = goal[t]
  BY <1>1 DEF Proceed
<1>9. Doing(t)'
  <2>1. CASE todo[t] = <<"order", "commit">>
    <3>1. todo'[t] = <<"commit">>
      BY <2>1, <1>6
    <3>2. <<"commit">> \in Plans /\ <<"commit">> \notin Fresh /\ <<"commit">> # <<>>
      BY DEF Plans, Fresh
    <3>3. \A step : At(t, step)' <=> step = "commit"
      BY <3>1, <3>2, StepAt
    <3>4. Settled(t)'
      BY <1>2, <1>7, <2>1 DEF Doing
    <3>5. <<"commit">> # <<"order", "restock", "batches", "commit">>
      OBVIOUS
    <3>6. QED
      BY <3>1, <3>2, <3>3, <3>4, <3>5 DEF Doing
  <2>2. CASE todo[t] = <<"order", "restock", "batches", "commit">>
    <3> DEFINE s == <<"restock", "batches", "commit">>
    <3>1. todo'[t] = s
      BY <2>2, <1>6
    <3>2. s \in Plans /\ s \notin Fresh /\ s # <<>> /\ Head(s) = "restock"
      BY DEF Plans, Fresh
    <3>3. s # <<"order", "restock", "batches", "commit">> /\ s \notin {<<"order", "commit">>, <<"commit">>}
      OBVIOUS
    <3> HIDE DEF s
    <3>4. \A step : At(t, step)' <=> step = "restock"
      BY <3>1, <3>2, StepAt
    <3>5. todo[t] \in Fresh
      BY <2>2 DEF Fresh
    <3>6. goal'[t] = "DELIVERED" /\ Locked(t) = {}
      BY <1>2, <1>8, <2>2, <3>5 DEF Doing
    <3>7. Locked(t)' \subseteq {Order} \cup LineIds
      BY <1>3, <1>6, <3>6, FlushedAreLines
    <3>8. QED
      BY <3>1, <3>2, <3>3, <3>4, <3>6, <3>7 DEF Doing
  <2>3. QED
    BY <1>2, <2>1, <2>2, PlanOf DEF OrderInv, Typed
<1>10. QED
  BY <1>6, <1>9 DEF OrderInv

LEMMA RestockKeeps ==
    ASSUME OrderInv, NEW t \in Txs, Restock(t)
    PROVE  OrderInv'
<1> DEFINE level == db[Level] + Quantity * Cardinality(loaded[t].lines)
           values == Only(Level, level)
<1>1. Write(t, values) /\ Proceed(t)
  BY DEF Restock
<1>2. At(t, "restock") /\ Doing(t) /\ Free(t, {Level})
  BY DEF Restock, Run, Wanted, OrderInv
<1>3. DOMAIN values = {Level} /\ values[Level] = level
  BY DEF Only
<1>4. RowsTyped(values)
  <2>1. db[Level] \in Nat
    BY DEF OrderInv, Typed, RowsTyped, RowTyped, RowIds
  <2>2. Cardinality(loaded[t].lines) \in Nat
    BY FewRows, FS_Subset, FS_CardinalityType DEF OrderInv, Typed
  <2>3. level \in Nat
    BY <2>1, <2>2, OrderAssumption
  <2> HIDE DEF level
  <2>4. QED
    BY <1>3, <2>3, RowsDiffer DEF RowsTyped, RowTyped, RowIds
<1> HIDE DEF values
<1>5. \A u \in Txs \ {t} : DOMAIN values \cap Locked(u) = {}
  BY <1>2, <1>3 DEF Free, HeldByOthers
<1>6. /\ Typed' /\ Exclusive' /\ LevelMatchesBatches'
      /\ \A u \in Txs : u # t => Doing(u)'
      /\ own'[t] = Over(values, own[t])
      /\ todo'[t] = Tail(todo[t]) /\ Locked(t)' = DOMAIN values \cup Locked(t)
  BY <1>1, <1>4, <1>5, WriteStays
<1>7. goal'[t] = goal[t] /\ db' = db /\ loaded' = loaded
  BY <1>1 DEF Proceed
<1>8. own'[t][Level] = level
  BY <1>3, <1>6 DEF Over
<1>9. Doing(t)'
  <2> DEFINE s == <<"batches", "commit">>
  <2>1. todo'[t] = s
    BY <1>2, <1>6, PlanOf DEF OrderInv, Typed
  <2>2. s \in Plans /\ s \notin Fresh /\ s # <<>> /\ Head(s) = "batches"
    BY DEF Plans, Fresh
  <2>3. s # <<"order", "restock", "batches", "commit">> /\ s \notin {<<"order", "commit">>, <<"commit">>}
    OBVIOUS
  <2> HIDE DEF s
  <2>4. \A step : At(t, step)' <=> step = "batches"
    BY <2>1, <2>2, StepAt
  <2>5. goal'[t] = "DELIVERED" /\ Locked(t) \subseteq {Order} \cup LineIds
    BY <1>2, <1>7 DEF Doing
  <2>6. Level \in Locked(t)' /\ Locked(t)' \cap BatchIds = {}
    BY <1>3, <1>6, <2>5, RowsDiffer
  <2>7. own'[t][Level] = db'[Level] + Quantity * Cardinality(loaded'[t].lines)
    BY <1>7, <1>8
  <2>8. QED
    BY <2>1, <2>2, <2>3, <2>4, <2>5, <2>6, <2>7 DEF Doing
<1>10. QED
  BY <1>6, <1>9 DEF OrderInv

LEMMA OpenBatchesKeeps ==
    ASSUME OrderInv, NEW t \in Txs, OpenBatches(t)
    PROVE  OrderInv'
<1> DEFINE count == Cardinality(loaded[t].lines)
           unused == {i \in BatchIds : db[i] = NoBatch /\ \A u \in Txs : i \notin Locked(u)}
<1>1. PICK ids \in kSubset(count, unused) :
         Write(t, [i \in ids |-> [received |-> Quantity, remaining |-> Quantity]])
  BY DEF OpenBatches
<1>2. At(t, "batches") /\ Doing(t) /\ Proceed(t)
  BY DEF OpenBatches, Run, OrderInv
<1>3. ids \subseteq unused /\ Cardinality(ids) = count
  BY DEF kSubset
<1>4. ids \subseteq BatchIds /\ \A i \in ids : db[i] = NoBatch /\ \A u \in Txs : i \notin Locked(u)
  BY <1>3
<1> DEFINE values == [i \in ids |-> [received |-> Quantity, remaining |-> Quantity]]
<1>5. DOMAIN values = ids /\ \A i \in ids : values[i] = [received |-> Quantity, remaining |-> Quantity]
  OBVIOUS
<1>6. RowsTyped(values)
  <2>1. [received |-> Quantity, remaining |-> Quantity] \in BatchRow
    BY OrderAssumption DEF BatchRow
  <2>2. QED
    BY <1>4, <1>5, <2>1, RowsDiffer DEF RowsTyped, RowTyped, RowIds
<1> HIDE DEF values, unused
<1>7. /\ Typed' /\ Exclusive' /\ LevelMatchesBatches'
      /\ \A u \in Txs : u # t => Doing(u)'
      /\ own'[t] = Over(values, own[t])
      /\ todo'[t] = Tail(todo[t]) /\ Locked(t)' = DOMAIN values \cup Locked(t)
  <2>1. \A u \in Txs \ {t} : DOMAIN values \cap Locked(u) = {}
    BY <1>4, <1>5
  <2>2. Write(t, values)
    BY <1>1 DEF values
  <2>3. QED
    BY <1>2, <1>6, <2>1, <2>2, WriteStays
<1>8. goal'[t] = goal[t] /\ db' = db /\ loaded' = loaded
  BY <1>2 DEF Proceed
<1>9. Settled(t)'
  <2>1. /\ goal[t] = "DELIVERED" /\ Level \in Locked(t) /\ Locked(t) \cap BatchIds = {}
        /\ own[t][Level] = db[Level] + Quantity * count
    BY <1>2 DEF Doing
  <2>2. Level \in Locked(t)' /\ own'[t][Level] = own[t][Level]
    BY <1>4, <1>5, <1>7, <2>1, RowsDiffer DEF Over, Locked
  <2>3. count \in Nat /\ db[Level] \in Nat /\ Quantity \in Nat
    BY FewRows, FS_Subset, FS_CardinalityType, OrderAssumption
       DEF OrderInv, Typed, RowsTyped, RowTyped, RowIds
  <2> DEFINE gain == Quantity * count
  <2>4. gain \in Nat
    BY <2>3
  <2>5. Moved(t)' = gain
    <3>1. own'[t][Level] = db[Level] + gain
      BY <2>1, <2>2
    <3>2. own'[t][Level] - db'[Level] = gain
      BY <3>1, <2>3, <2>4, <1>8
    <3> HIDE DEF gain
    <3>3. QED
      BY <2>2, <3>2 DEF Moved
  <2>6. ~Selling(t)'
    BY <1>8, <2>1 DEF Selling
  <2>7. \A i \in BatchIds : /\ i \in Locked(t)' <=> i \in ids
                            /\ i \in ids => own'[t][i] = [received |-> Quantity, remaining |-> Quantity]
    BY <1>5, <1>7, <2>1 DEF Over, Locked
  <2>8. \A i \in BatchIds : Gained(t)'[i] = IF i \in ids THEN Quantity ELSE 0
    BY <1>4, <1>8, <2>3, <2>7 DEF Gained, NoBatch
  <2>9. SumFunctionOnSet(Gained(t)', BatchIds) = Quantity * Cardinality(ids)
    <3>1. Quantity \in Int /\ IsFiniteSet(BatchIds) /\ ids \in SUBSET BatchIds
      BY <1>4, <2>3, FewRows
    <3>2. QED
      BY <2>8, <3>1, SumConstant
  <2>10. SumFunctionOnSet(Gained(t)', BatchIds) = gain
    BY <1>3, <2>9
  <2> HIDE DEF gain
  <2>11. Moved(t)' + 0 = SumFunctionOnSet(Gained(t)', BatchIds)
    BY <2>4, <2>5, <2>10
  <2>12. \A i \in BatchIds \cap Locked(t)' : db'[i].remaining = db'[i].received
    BY <1>4, <1>8, <2>7 DEF NoBatch
  <2>13. QED
    BY <2>6, <2>11, <2>12 DEF Settled
<1>10. Doing(t)'
  <2>1. todo'[t] = <<"commit">>
    BY <1>2, <1>7, PlanOf DEF OrderInv, Typed
  <2>2. QED
    BY <1>9, <2>1, SettledCommits
<1>11. QED
  BY <1>7, <1>10 DEF OrderInv

LEMMA CheckBatchesKeeps ==
    ASSUME OrderInv, NEW t \in Txs, CheckBatches(t)
    PROVE  OrderInv'
<1>0. CASE Rollback(t)
  BY <1>0, RollbackStays
<1> DEFINE batches == {i \in BatchIds : db[i].received > 0}
           values == [i \in batches |-> db[i]]
<1>1. SUFFICES ASSUME Write(t, values), Proceed(t),
                      \A i \in batches : db[i].remaining = db[i].received
               PROVE  OrderInv'
  BY <1>0 DEF CheckBatches, Wanted
<1>2. At(t, "check") /\ Doing(t) /\ Free(t, batches)
  BY DEF CheckBatches, Run, Wanted, OrderInv
<1>3. DOMAIN values = batches /\ batches \subseteq BatchIds /\ \A i \in batches : values[i] = db[i]
  OBVIOUS
<1>4. RowsTyped(values)
  BY <1>3, RowsDiffer DEF RowsTyped, RowTyped, RowIds, OrderInv, Typed
<1> HIDE DEF values
<1>5. \A u \in Txs \ {t} : DOMAIN values \cap Locked(u) = {}
  BY <1>2, <1>3 DEF Free, HeldByOthers
<1>6. /\ Typed' /\ Exclusive' /\ LevelMatchesBatches'
      /\ \A u \in Txs : u # t => Doing(u)'
      /\ own'[t] = Over(values, own[t])
      /\ todo'[t] = Tail(todo[t]) /\ Locked(t)' = DOMAIN values \cup Locked(t)
  BY <1>1, <1>4, <1>5, WriteStays
<1>7. goal'[t] = goal[t] /\ db' = db
  BY <1>1 DEF Proceed
<1>8. Doing(t)'
  <2> DEFINE s == <<"unstock", "order", "commit">>
  <2>1. todo'[t] = s /\ Locked(t) = {}
    BY <1>2, <1>6, PlanOf DEF OrderInv, Typed, Doing
  <2>2. s \in Plans /\ s \notin Fresh /\ s # <<>> /\ Head(s) = "unstock"
    BY DEF Plans, Fresh
  <2>3. s # <<"order", "restock", "batches", "commit">> /\ s \notin {<<"order", "commit">>, <<"commit">>}
    OBVIOUS
  <2> HIDE DEF s
  <2>4. \A step : At(t, step)' <=> step = "unstock"
    BY <2>1, <2>2, StepAt
  <2>5. goal'[t] = "CLEARED"
    BY <1>2, <1>7 DEF Doing
  <2>6. Locked(t)' = batches
    BY <1>3, <1>6, <2>1
  <2>7. \A i \in batches : own'[t][i] = db'[i] /\ db'[i].remaining = db'[i].received
    BY <1>1, <1>3, <1>6, <1>7 DEF Over
  <2>8. QED
    BY <1>3, <2>1, <2>2, <2>3, <2>4, <2>5, <2>6, <2>7 DEF Doing
<1>9. QED
  BY <1>6, <1>8 DEF OrderInv

LEMMA UnstockKeeps ==
    ASSUME OrderInv, NEW t \in Txs, Unstock(t)
    PROVE  OrderInv'
<1>0. CASE Rollback(t)
  BY <1>0, RollbackStays
<1> DEFINE batches == Locked(t)
           taken == SumFunctionOnSet(Received(db), batches)
           level == db[Level] - taken
<1>1. /\ At(t, "unstock") /\ Doing(t)
      /\ Free(t, IF batches = {} THEN {} ELSE {Level})
  BY DEF Unstock, Run, Wanted, OrderInv
<1>2. /\ batches \subseteq BatchIds /\ goal[t] = "CLEARED"
      /\ \A i \in batches : own[t][i] = db[i] /\ db[i].remaining = db[i].received
  BY <1>1 DEF Doing
<1>3. todo[t] # <<>> /\ Tail(todo[t]) = <<"order", "commit">>
  BY <1>1, PlanOf DEF OrderInv, Typed, At, Idle
<1>4. CASE batches = {} /\ UNCHANGED own /\ Proceed(t)
  <2>1. /\ todo'[t] = <<"order", "commit">> /\ DOMAIN todo' = Txs
        /\ \A u \in Txs : u # t => todo'[u] = todo[u]
        /\ UNCHANGED <<db, own, loaded, goal, sold>>
    BY <1>3, <1>4 DEF Proceed, Advance, OrderInv, Typed
  <2>2. \A u \in Txs : Locked(u)' = Locked(u)
    BY <2>1 DEF Locked
  <2>3. Typed'
    BY <2>1 DEF OrderInv, Typed, RowsTyped, RowTyped
  <2>4. Exclusive'
    BY <2>2 DEF OrderInv, Exclusive
  <2>5. LevelMatchesBatches'
    BY <2>1 DEF OrderInv, LevelMatchesBatches, Received
  <2>6. \A u \in Txs : u # t => Doing(u)'
    BY <2>1, OthersStay
  <2>7. Settled(t)'
    <3>1. Settled(t)
      BY <1>4, NothingSettled
    <3>2. Selling(t)' <=> Selling(t)
      BY <2>1, <2>2 DEF Selling
    <3>3. Moved(t)' = Moved(t) /\ Gained(t)' = Gained(t)
      BY <2>1, <2>2 DEF Moved, Gained
    <3>4. QED
      BY <2>1, <2>2, <3>1, <3>2, <3>3 DEF Settled
  <2>8. Doing(t)'
    <3>1. goal'[t] \in Statuses
      BY <1>2, <2>1 DEF Statuses, Transitions
    <3>2. QED
      BY <2>1, <2>7, <3>1, SettledGoesOn
  <2>9. QED
    BY <2>3, <2>4, <2>5, <2>6, <2>8 DEF OrderInv
<1> DEFINE values == [i \in {Level} \cup batches |-> IF i = Level THEN level ELSE NoBatch]
<1>5. CASE batches # {} /\ level >= 0 /\ Write(t, values) /\ Proceed(t)
  <2>1. \A i \in BatchIds : db[i] \in BatchRow /\ Received(db)[i] = db[i].received
    BY DEF OrderInv, Typed, RowsTyped, RowTyped, RowIds, Received
  <2>2. \A i \in BatchIds : Received(db)[i] \in Int
    BY <2>1, OrderAssumption DEF BatchRow
  <2>3. IsFiniteSet(BatchIds) /\ IsFiniteSet(batches)
    BY <1>2, FewRows, FS_Subset
  <2>4. taken \in Int
    BY <1>2, <2>2, <2>3, SumInt
  <2>5. db[Level] \in Nat
    BY DEF OrderInv, Typed, RowsTyped, RowTyped, RowIds
  <2> HIDE DEF taken
  <2>6. level \in Nat
    BY <1>5, <2>4, <2>5
  <2>7. /\ DOMAIN values = {Level} \cup batches /\ values[Level] = level
        /\ \A i \in batches : values[i] = NoBatch
    BY <1>2, RowsDiffer
  <2> HIDE DEF level, values
  <2>8. RowsTyped(values)
    <3>1. NoBatch \in BatchRow
      BY OrderAssumption DEF NoBatch, BatchRow
    <3>2. QED
      BY <1>2, <2>6, <2>7, <3>1, RowsDiffer DEF RowsTyped, RowTyped, RowIds
  <2>9. \A u \in Txs \ {t} : DOMAIN values \cap Locked(u) = {}
    <3>1. \A u \in Txs \ {t} : batches \cap Locked(u) = {}
      BY DEF OrderInv, Exclusive
    <3>2. \A u \in Txs \ {t} : Level \notin Locked(u)
      BY <1>1, <1>5 DEF Free, HeldByOthers
    <3>3. QED
      BY <2>7, <3>1, <3>2
  <2>10. /\ Typed' /\ Exclusive' /\ LevelMatchesBatches'
         /\ \A u \in Txs : u # t => Doing(u)'
         /\ own'[t] = Over(values, own[t])
         /\ todo'[t] = Tail(todo[t]) /\ Locked(t)' = DOMAIN values \cup Locked(t)
    BY <1>5, <2>8, <2>9, WriteStays
  <2>11. goal'[t] = goal[t] /\ db' = db
    BY <1>5 DEF Proceed
  <2>12. /\ Locked(t)' = {Level} \cup batches /\ own'[t][Level] = level
         /\ \A i \in batches : own'[t][i] = NoBatch
    BY <2>7, <2>10 DEF Over
  <2>13. Moved(t)' = 0 - taken
    <3>1. level - db[Level] = 0 - taken
      BY <2>4, <2>5 DEF level
    <3>2. QED
      BY <2>11, <2>12, <3>1 DEF Moved
  <2>14. ~Selling(t)'
    BY <1>2, <2>11 DEF Selling
  <2>15. \A i \in BatchIds : Gained(t)'[i] = IF i \in batches THEN 0 - db[i].received ELSE 0
    BY <2>11, <2>12, RowsDiffer DEF Gained, NoBatch
  <2>16. SumFunctionOnSet(Gained(t)', BatchIds) = 0 - taken
    <3> DEFINE held == [i \in BatchIds |-> IF i \in batches THEN db[i].received ELSE 0]
               none == [i \in BatchIds |-> 0]
    <3>1. \A i \in BatchIds : db[i].received \in Int
      BY <2>1, <2>2
    <3>2. \A i \in BatchIds : /\ held[i] \in Int /\ Gained(t)'[i] \in Int
                              /\ none[i] = held[i] + Gained(t)'[i] /\ none[i] = 0
      BY <2>15, <3>1
    <3>3. /\ \A i \in BatchIds \ batches : held[i] = 0
          /\ \A i \in batches : held[i] = Received(db)[i]
      BY <1>2, <2>1
    <3> HIDE DEF held, none
    <3> DEFINE g == Gained(t)'
    <3>4. SumFunctionOnSet(none, BatchIds)
            = SumFunctionOnSet(held, BatchIds) + SumFunctionOnSet(g, BatchIds)
      BY <2>3, <3>2, SumPlus
    <3>5. SumFunctionOnSet(none, BatchIds) = 0
      BY <2>3, <3>2, SumZero
    <3>6. SumFunctionOnSet(held, BatchIds) = SumFunctionOnSet(held, batches)
      BY <1>2, <2>3, <3>2, <3>3, SumWithin
    <3>7. SumFunctionOnSet(held, batches) = taken
      BY <2>3, <3>3, SumSame DEF taken
    <3>8. SumFunctionOnSet(g, BatchIds) \in Int
      BY <2>3, <3>2, SumInt
    <3> HIDE DEF g
    <3>9. SumFunctionOnSet(g, BatchIds) = 0 - taken
      BY <2>4, <3>4, <3>5, <3>6, <3>7, <3>8
    <3>10. QED
      BY <3>9 DEF g
  <2>17. \A i \in BatchIds \cap Locked(t)' : db'[i].remaining = db'[i].received
    BY <1>2, <2>11, <2>12, RowsDiffer
  <2>18. Settled(t)'
    <3>1. Moved(t)' + 0 = SumFunctionOnSet(Gained(t)', BatchIds)
      BY <2>4, <2>13, <2>16
    <3>2. QED
      BY <2>14, <2>17, <3>1 DEF Settled
  <2>19. Doing(t)'
    <3>1. todo'[t] = <<"order", "commit">>
      BY <1>3, <2>10
    <3>2. goal'[t] \in Statuses
      BY <1>2, <2>11 DEF Statuses, Transitions
    <3>3. QED
      BY <2>18, <3>1, <3>2, SettledGoesOn
  <2>20. QED
    BY <2>10, <2>19 DEF OrderInv
<1>6. QED
  BY <1>0, <1>4, <1>5 DEF Unstock


\* A set of numbers has a smallest one.
LEMMA SmallestLine ==
    ASSUME NEW S \in SUBSET (1..MaxLines), S # {}
    PROVE  Min(S) \in S
<1> DEFINE Upto(n) == 1..n
           Bad == {Upto(n) : n \in S}
           all == 1..MaxLines
<1>1. IsFiniteSet(all) /\ MaxLines \in Nat
  BY OrderAssumption, FS_Interval
<1>2. Bad \in SUBSET (SUBSET all) /\ Bad # {}
  <2>1. \A n \in S : Upto(n) \subseteq all
    BY <1>1
  <2> HIDE DEF Upto, all
  <2>2. QED
    BY <2>1
<1>3. PICK T \in Bad : \A U \in Bad : U \subseteq T => U = T
  <2> HIDE DEF Bad, all
  <2>1. QED
    BY <1>1, <1>2, SmallestSubset
<1>4. PICK m \in S : T = Upto(m)
  BY <1>3
<1>5. \A n \in S : m <= n
  <2>1. SUFFICES ASSUME NEW n \in S, ~(m <= n) PROVE FALSE
    OBVIOUS
  <2>2. Upto(n) \subseteq Upto(m) /\ m \in Upto(m) /\ m \notin Upto(n)
    BY <1>1, <2>1
  <2>3. Upto(n) = Upto(m)
    BY <1>3, <1>4, <2>2
  <2>4. QED
    BY <2>2, <2>3
<1>6. \E m1 \in S : \A n \in S : m1 <= n
  BY <1>5
<1>7. QED
  BY <1>6 DEF Min

LEMMA ReplaceLinesKeeps ==
    ASSUME OrderInv, NEW t \in Txs, ReplaceLines(t)
    PROVE  OrderInv'
<1> DEFINE fresh == {n \in 1..MaxLines : db[Line(n)].life = "new" /\ \A u \in Txs : Line(n) \notin Locked(u)}
           kept == IF loaded[t].tracked = {} THEN -1 ELSE Quantity
           added == Line(Min(fresh))
           values == [i \in {added} \cup loaded[t].lines |->
                        IF i = added THEN NewLine(kept) ELSE NoLine("gone")]
<1>1. Write(t, values) /\ Proceed(t) /\ fresh # {}
  BY DEF ReplaceLines
<1>2. At(t, "lines") /\ Doing(t) /\ Free(t, loaded[t].lines)
  BY DEF ReplaceLines, Run, Wanted, OrderInv
<1>3. added \in LineIds /\ \A u \in Txs : added \notin Locked(u)
  <2>1. Min(fresh) \in fresh
    <3>1. fresh \in SUBSET (1..MaxLines)
      OBVIOUS
    <3> HIDE DEF fresh
    <3>2. QED
      BY <1>1, <3>1, SmallestLine
  <2>2. QED
    BY <2>1 DEF LineIds
<1>4. loaded[t].lines \subseteq LineIds
  BY DEF OrderInv, Typed
<1>5. NewLine(kept) \in LineRow /\ NoLine("gone") \in LineRow
  BY DEF NewLine, NoLine, LineRow
<1> HIDE DEF added, kept
<1>6. /\ DOMAIN values = {added} \cup loaded[t].lines
      /\ \A i \in DOMAIN values : values[i] \in LineRow
  BY <1>5
<1> HIDE DEF values
<1>7. DOMAIN values \subseteq LineIds
  BY <1>3, <1>4, <1>6
<1>8. RowsTyped(values)
  BY <1>6, <1>7, RowsDiffer DEF RowsTyped, RowTyped, RowIds
<1>9. \A u \in Txs \ {t} : DOMAIN values \cap Locked(u) = {}
  <2>1. \A u \in Txs \ {t} : loaded[t].lines \cap Locked(u) = {}
    BY <1>2 DEF Free, HeldByOthers
  <2>2. \A u \in Txs : added \notin Locked(u)
    BY <1>3
  <2>3. QED
    BY <1>6, <2>1, <2>2
<1>10. /\ Typed' /\ Exclusive' /\ LevelMatchesBatches'
       /\ \A u \in Txs : u # t => Doing(u)'
       /\ todo'[t] = Tail(todo[t])
  BY <1>1, <1>8, <1>9, WriteStays
<1>11. todo[t] \in Fresh /\ Tail(todo[t]) = <<"commit">>
  BY <1>2, PlanOf DEF OrderInv, Typed
<1>12. Settled(t)
  BY <1>2, <1>11, NothingSettled DEF Doing
<1>13. Settled(t)'
  BY <1>1, <1>7, <1>12, OffStock
<1>14. Doing(t)'
  BY <1>10, <1>11, <1>13, SettledCommits
<1>15. QED
  BY <1>10, <1>14 DEF OrderInv

LEMMA SellKeeps ==
    ASSUME OrderInv, NEW t \in Txs, Sell(t)
    PROVE  OrderInv'
<1>0. CASE Rollback(t)
  BY <1>0, RollbackStays
<1> DEFINE level == db[Level] - 1
           values == Only(Level, level)
<1>1. SUFFICES ASSUME Write(t, values), Proceed(t), db[Level] > 0 PROVE OrderInv'
  BY <1>0 DEF Sell, Sellable
<1>2. At(t, "sell") /\ Doing(t) /\ Free(t, {Level})
  BY DEF Sell, Run, Wanted, OrderInv
<1>3. DOMAIN values = {Level} /\ values[Level] = level
  BY DEF Only
<1>4. RowsTyped(values)
  <2>1. db[Level] \in Nat
    BY DEF OrderInv, Typed, RowsTyped, RowTyped, RowIds
  <2>2. level \in Nat
    BY <1>1, <2>1
  <2> HIDE DEF level
  <2>3. QED
    BY <1>3, <2>2, RowsDiffer DEF RowsTyped, RowTyped, RowIds
<1> HIDE DEF values
<1>5. \A u \in Txs \ {t} : DOMAIN values \cap Locked(u) = {}
  BY <1>2, <1>3 DEF Free, HeldByOthers
<1>6. /\ Typed' /\ Exclusive' /\ LevelMatchesBatches'
      /\ \A u \in Txs : u # t => Doing(u)'
      /\ own'[t] = Over(values, own[t])
      /\ todo'[t] = Tail(todo[t]) /\ Locked(t)' = DOMAIN values \cup Locked(t)
  BY <1>1, <1>4, <1>5, WriteStays
<1>7. goal'[t] = goal[t] /\ db' = db
  BY <1>1 DEF Proceed
<1>8. Doing(t)'
  <2> DEFINE s == <<"fifo", "commit">>
  <2>1. todo'[t] = s /\ Locked(t) = {}
    BY <1>2, <1>6, PlanOf DEF OrderInv, Typed, Doing
  <2>2. s \in Plans /\ s \notin Fresh /\ s # <<>> /\ Head(s) = "fifo"
    BY DEF Plans, Fresh
  <2>3. s # <<"order", "restock", "batches", "commit">> /\ s \notin {<<"order", "commit">>, <<"commit">>}
    OBVIOUS
  <2> HIDE DEF s
  <2>4. \A step : At(t, step)' <=> step = "fifo"
    BY <2>1, <2>2, StepAt
  <2>5. goal'[t] = "none"
    BY <1>2, <1>7 DEF Doing
  <2>6. Locked(t)' = {Level} /\ own'[t][Level] = db'[Level] - 1
    BY <1>3, <1>6, <1>7, <2>1 DEF Over
  <2>7. QED
    BY <2>1, <2>2, <2>3, <2>4, <2>5, <2>6 DEF Doing
<1>9. QED
  BY <1>6, <1>8 DEF OrderInv

\* A sale has moved the stock row by the unit it sold, and received nothing.
LEMMA SaleSettles ==
    ASSUME OrderInv, NEW t \in Txs, goal'[t] = "none", db' = db,
           Level \in Locked(t)', own'[t][Level] = db[Level] - 1,
           \A i \in BatchIds \cap Locked(t)' : own'[t][i].received = db[i].received
    PROVE  Settled(t)'
<1>1. db[Level] \in Nat /\ \A i \in BatchIds : db[i].received \in Nat
  BY OrderAssumption DEF OrderInv, Typed, RowsTyped, RowTyped, RowIds, BatchRow
<1>2. Moved(t)' = -1 /\ Selling(t)'
  BY <1>1 DEF Moved, Selling
<1>3. \A i \in BatchIds : Gained(t)'[i] = 0
  BY <1>1 DEF Gained
<1>4. SumFunctionOnSet(Gained(t)', BatchIds) = 0
  BY <1>3, FewRows, SumZero
<1>5. QED
  BY <1>2, <1>4 DEF Settled

LEMMA FifoDeductKeeps ==
    ASSUME OrderInv, NEW t \in Txs, FifoDeduct(t)
    PROVE  OrderInv'
<1> DEFINE batches == {i \in BatchIds : db[i].remaining > 0}
<1>1. /\ At(t, "fifo") /\ Doing(t) /\ Free(t, batches) /\ Proceed(t)
  BY DEF FifoDeduct, Run, Wanted, OrderInv
<1>2. goal[t] = "none" /\ Locked(t) = {Level} /\ own[t][Level] = db[Level] - 1
  BY <1>1 DEF Doing
<1>3. todo[t] # <<>> /\ Tail(todo[t]) = <<"commit">>
  BY <1>1, PlanOf DEF OrderInv, Typed, At, Idle
<1>4. goal'[t] = goal[t] /\ db' = db
  BY <1>1 DEF Proceed
<1>5. CASE batches = {} /\ UNCHANGED own
  <2>1. /\ todo'[t] = <<"commit">> /\ DOMAIN todo' = Txs
        /\ \A u \in Txs : u # t => todo'[u] = todo[u]
        /\ UNCHANGED <<db, own, loaded, goal, sold>>
    BY <1>1, <1>3, <1>5 DEF Proceed, Advance, OrderInv, Typed
  <2>2. \A u \in Txs : Locked(u)' = Locked(u)
    BY <2>1 DEF Locked
  <2>3. Typed'
    BY <2>1 DEF OrderInv, Typed, RowsTyped, RowTyped
  <2>4. Exclusive'
    BY <2>2 DEF OrderInv, Exclusive
  <2>5. LevelMatchesBatches'
    BY <2>1 DEF OrderInv, LevelMatchesBatches, Received
  <2>6. \A u \in Txs : u # t => Doing(u)'
    BY <2>1, OthersStay
  <2>7. Settled(t)'
    BY <1>2, <2>1, <2>2, RowsDiffer, SaleSettles
  <2>8. Doing(t)'
    BY <2>1, <2>7, SettledCommits
  <2>9. QED
    BY <2>3, <2>4, <2>5, <2>6, <2>8 DEF OrderInv
<1>6. ASSUME NEW used \in batches,
             Write(t, [i \in batches |-> IF i = used THEN [db[i] EXCEPT !.remaining = @ - 1] ELSE db[i]])
      PROVE  OrderInv'
  <2> DEFINE values == [i \in batches |-> IF i = used THEN [db[i] EXCEPT !.remaining = @ - 1] ELSE db[i]]
  <2>1. \A i \in BatchIds : db[i] \in BatchRow
    BY DEF OrderInv, Typed, RowsTyped, RowTyped, RowIds
  <2>2. \A i \in batches : values[i] \in BatchRow /\ values[i].received = db[i].received
    BY <2>1, OrderAssumption DEF BatchRow
  <2>3. DOMAIN values = batches /\ Write(t, values)
    BY <1>6
  <2> HIDE DEF values
  <2>4. RowsTyped(values)
    BY <2>2, <2>3, RowsDiffer DEF RowsTyped, RowTyped, RowIds
  <2>5. \A u \in Txs \ {t} : DOMAIN values \cap Locked(u) = {}
    BY <1>1, <2>3 DEF Free, HeldByOthers
  <2>6. /\ Typed' /\ Exclusive' /\ LevelMatchesBatches'
        /\ \A u \in Txs : u # t => Doing(u)'
        /\ own'[t] = Over(values, own[t])
        /\ todo'[t] = Tail(todo[t]) /\ Locked(t)' = DOMAIN values \cup Locked(t)
    BY <1>1, <2>3, <2>4, <2>5, WriteStays
  <2>7. /\ Level \in Locked(t)' /\ own'[t][Level] = db[Level] - 1
        /\ \A i \in BatchIds \cap Locked(t)' : own'[t][i].received = db[i].received
    BY <1>2, <2>2, <2>3, <2>6, RowsDiffer DEF Over, Locked
  <2>8. Settled(t)'
    BY <1>2, <1>4, <2>7, SaleSettles
  <2>9. Doing(t)'
    BY <1>3, <2>6, <2>8, SettledCommits
  <2>10. QED
    BY <2>6, <2>9 DEF OrderInv
<1>7. QED
  BY <1>5, <1>6 DEF FifoDeduct, Wanted

------------------------------------------------------------------------------
(* The commit.                                                             *)

LEMMA CommitKeeps ==
    ASSUME OrderInv, NEW t \in Txs, Commit(t)
    PROVE  OrderInv'
<1>1. /\ DOMAIN own' = Txs /\ DOMAIN todo' = Txs /\ DOMAIN loaded' = Txs /\ DOMAIN goal' = Txs
      /\ own'[t] = <<>> /\ todo'[t] = <<>> /\ loaded'[t] = NotLoaded /\ goal'[t] = "none"
      /\ \A u \in Txs : u # t => /\ own'[u] = own[u] /\ todo'[u] = todo[u]
                                 /\ loaded'[u] = loaded[u] /\ goal'[u] = goal[u]
      /\ db' = Over(own[t], db) /\ sold' = IF Selling(t) THEN sold + 1 ELSE sold
  BY DEF Commit, Publish, Finish, Release, OrderInv, Typed
<1>2. Locked(t)' = {} /\ \A u \in Txs : u # t => Locked(u)' = Locked(u)
  BY <1>1, EmptyRows DEF Locked
<1>3. RowsTyped(own[t]) /\ RowsTyped(db) /\ DOMAIN db = RowIds
  BY DEF OrderInv, Typed
<1>4. /\ DOMAIN db' = RowIds
      /\ \A i \in RowIds : db'[i] = IF i \in Locked(t) THEN own[t][i] ELSE db[i]
  BY <1>1, <1>3 DEF Over, RowsTyped, Locked
<1>5. Typed'
  <2>1. RowsTyped(db')
    BY <1>3, <1>4 DEF RowsTyped, Locked
  <2>2. RowsTyped(own'[t])
    BY <1>1, EmptyRows
  <2>3. sold' \in Nat
    BY <1>1 DEF OrderInv, Typed
  <2>4. QED
    BY <1>1, <1>4, <2>1, <2>2, <2>3 DEF OrderInv, Typed, NotLoaded, RowsTyped, RowTyped
<1>6. Exclusive'
  BY <1>2 DEF OrderInv, Exclusive
<1>7. Doing(t)'
  <2>1. \A step : ~At(t, step)'
    BY <1>1 DEF At, Idle
  <2>2. todo'[t] \in Fresh /\ todo'[t] \in Plans
    BY <1>1 DEF Fresh, Plans
  <2>3. todo'[t] # <<"order", "restock", "batches", "commit">>
        /\ todo'[t] \notin {<<"order", "commit">>, <<"commit">>}
    BY <1>1
  <2>4. QED
    BY <1>2, <2>1, <2>2, <2>3 DEF Doing
<1>8. ASSUME NEW u \in Txs, u # t PROVE Doing(u)'
  <2>1. Locked(t) \cap Locked(u) = {}
    BY <1>8 DEF OrderInv, Exclusive
  <2>2. \A i \in Locked(u) : db'[i] = db[i]
    BY <1>3, <1>4, <2>1 DEF OrderInv, Typed, RowsTyped, Locked
  <2>3. QED
    BY <1>1, <1>8, <2>2, OthersStay
<1>9. Settled(t)
  <2>1. todo[t] = <<"commit">> /\ Doing(t)
    BY PlanOf DEF Commit, OrderInv, Typed
  <2>2. QED
    BY <2>1 DEF Doing
<1>10. LevelMatchesBatches'
  <2> DEFINE before == Received(db)
             after == Received(db)'
             gained == Gained(t)
  <2>1. \A i \in BatchIds : before[i] \in Int /\ gained[i] \in Int /\ after[i] = before[i] + gained[i]
    <3>1. SUFFICES ASSUME NEW i \in BatchIds
                   PROVE  before[i] \in Int /\ gained[i] \in Int /\ after[i] = before[i] + gained[i]
      OBVIOUS
    <3>2. i \in RowIds /\ db[i].received \in Int
      BY <1>3, OrderAssumption DEF RowIds, RowsTyped, RowTyped, BatchRow
    <3>3. i \in Locked(t) => own[t][i].received \in Int
      BY <1>3, OrderAssumption DEF RowsTyped, RowTyped, BatchRow, Locked
    <3>4. before[i] = db[i].received /\ after[i] = db'[i].received
      BY DEF Received
    <3>5. gained[i] = IF i \in Locked(t) THEN own[t][i].received - db[i].received ELSE 0
      BY DEF Gained
    <3> HIDE DEF before, after, gained
    <3>6. QED
      BY <1>4, <3>2, <3>3, <3>4, <3>5
  <2> HIDE DEF before, after, gained
  <2>2. SumFunctionOnSet(after, BatchIds)
          = SumFunctionOnSet(before, BatchIds) + SumFunctionOnSet(gained, BatchIds)
    BY <2>1, FewRows, SumPlus
  <2>3. SumFunctionOnSet(before, BatchIds) \in Int /\ SumFunctionOnSet(gained, BatchIds) \in Int
    BY <2>1, FewRows, SumInt
  <2>4. Moved(t) + (IF Selling(t) THEN 1 ELSE 0) = SumFunctionOnSet(gained, BatchIds)
    BY <1>9 DEF Settled, gained
  <2>5. db[Level] \in Int /\ (Level \in Locked(t) => own[t][Level] \in Int) /\ sold \in Int /\ InitialStock \in Int
    BY <1>3, OrderAssumption DEF OrderInv, Typed, RowsTyped, RowTyped, RowIds, Locked
  <2>6. Level \in RowIds
    BY DEF RowIds
  <2>7. db'[Level] = db[Level] + Moved(t) /\ Moved(t) \in Int
    BY <1>4, <2>5, <2>6 DEF Moved
  <2>8. db[Level] = InitialStock - sold + SumFunctionOnSet(before, BatchIds)
    BY DEF OrderInv, LevelMatchesBatches, before
  <2>9. db'[Level] = InitialStock - sold' + SumFunctionOnSet(after, BatchIds)
    BY <1>1, <2>2, <2>3, <2>4, <2>5, <2>7, <2>8
  <2>10. QED
    BY <2>9 DEF LevelMatchesBatches, after
<1>11. QED
  BY <1>5, <1>6, <1>7, <1>8, <1>10 DEF OrderInv

------------------------------------------------------------------------------
(* The specification.                                                      *)

LEMMA InitOrder == Init => OrderInv
<1>1. SUFFICES ASSUME Init PROVE OrderInv
  OBVIOUS
<1>2. /\ DOMAIN own = Txs /\ DOMAIN todo = Txs /\ DOMAIN loaded = Txs /\ DOMAIN goal = Txs
      /\ \A t \in Txs : own[t] = <<>> /\ todo[t] = <<>> /\ loaded[t] = NotLoaded
      /\ sold = 0
  BY <1>1 DEF Init, InitSessions
<1>3. \A t \in Txs : Locked(t) = {}
  BY <1>2, EmptyRows DEF Locked
<1>4. /\ DOMAIN db = RowIds /\ db[Order] = "ORDERED" /\ db[Level] = InitialStock
      /\ \A i \in LineIds : db[i] \in {NewLine(-1), NoLine("new")}
      /\ \A i \in BatchIds : db[i] = NoBatch
  <2>1. Line(1) \in LineIds
    BY OrderAssumption DEF LineIds
  <2>2. QED
    BY <1>1, <2>1, RowsDiffer DEF Init, RowIds
<1>5. RowsTyped(db)
  <2>1. /\ "ORDERED" \in Statuses /\ InitialStock \in Nat
        /\ NewLine(-1) \in LineRow /\ NoLine("new") \in LineRow /\ NoBatch \in BatchRow
    BY OrderAssumption DEF Statuses, Transitions, NewLine, NoLine, LineRow, NoBatch, BatchRow
  <2>2. QED
    BY <1>4, <2>1, RowsDiffer DEF RowsTyped, RowTyped, RowIds
<1>6. Typed
  <2>1. \A t \in Txs : RowsTyped(own[t]) /\ loaded[t].lines = {} /\ loaded[t].tracked = {}
    <3>1. NotLoaded.lines = {} /\ NotLoaded.tracked = {}
      BY DEF NotLoaded
    <3>2. QED
      BY <1>2, <3>1, EmptyRows
  <2>2. QED
    BY <1>2, <1>4, <1>5, <2>1 DEF Typed
<1>7. Exclusive
  BY <1>3 DEF Exclusive
<1>8. ASSUME NEW t \in Txs PROVE Doing(t)
  <2>1. \A step : ~At(t, step)
    BY <1>2 DEF At, Idle
  <2>2. todo[t] \in Fresh /\ todo[t] \in Plans
    BY <1>2 DEF Fresh, Plans
  <2>3. todo[t] # <<"order", "restock", "batches", "commit">>
        /\ todo[t] \notin {<<"order", "commit">>, <<"commit">>}
    <3>1. todo[t] = <<>>
      BY <1>2
    <3>2. QED
      BY <3>1
  <2>4. QED
    BY <1>3, <2>1, <2>2, <2>3 DEF Doing
<1>9. LevelMatchesBatches
  <2>1. \A i \in BatchIds : Received(db)[i] = 0
    BY <1>4 DEF Received, NoBatch
  <2>2. SumFunctionOnSet(Received(db), BatchIds) = 0
    BY <2>1, FewRows, SumZero
  <2>3. InitialStock \in Int
    BY OrderAssumption
  <2>4. QED
    BY <1>2, <1>4, <2>2, <2>3 DEF LevelMatchesBatches
<1>10. QED
  BY <1>6, <1>7, <1>8, <1>9 DEF OrderInv

LEMMA StandStill ==
    ASSUME OrderInv, UNCHANGED vars
    PROVE  OrderInv'
<1>1. UNCHANGED <<db, own, todo, loaded, goal, sold>>
  BY DEF vars
<1>2. \A t \in Txs : Locked(t)' = Locked(t)
  BY <1>1 DEF Locked
<1>3. Typed' /\ Exclusive'
  BY <1>1, <1>2 DEF OrderInv, Typed, Exclusive, RowsTyped, RowTyped
<1>4. LevelMatchesBatches'
  BY <1>1 DEF OrderInv, LevelMatchesBatches, Received
<1>5. \A t \in Txs : Doing(t)'
  BY <1>1, OthersStay
<1>6. QED
  BY <1>3, <1>4, <1>5 DEF OrderInv

LEMMA NextOrder == OrderInv /\ [Next]_vars => OrderInv'
<1>1. SUFFICES ASSUME OrderInv, [Next]_vars PROVE OrderInv'
  OBVIOUS
<1>2. CASE UNCHANGED vars
  BY <1>1, <1>2, StandStill
<1>3. ASSUME NEW t \in Txs, NEW target \in DOMAIN Transitions, BeginTransition(t, target) PROVE OrderInv'
  BY <1>1, <1>3, BeginTransitionKeeps
<1>4. ASSUME NEW t \in Txs, BeginRevert(t) \/ BeginEdit(t) \/ BeginSale(t) PROVE OrderInv'
  BY <1>1, <1>4, BeginOthersKeep
<1>5. ASSUME NEW t \in Txs, UpdateOrder(t) PROVE OrderInv'
  BY <1>1, <1>5, UpdateOrderKeeps
<1>6. ASSUME NEW t \in Txs, Restock(t) PROVE OrderInv'
  BY <1>1, <1>6, RestockKeeps
<1>7. ASSUME NEW t \in Txs, OpenBatches(t) PROVE OrderInv'
  BY <1>1, <1>7, OpenBatchesKeeps
<1>8. ASSUME NEW t \in Txs, CheckBatches(t) PROVE OrderInv'
  BY <1>1, <1>8, CheckBatchesKeeps
<1>9. ASSUME NEW t \in Txs, Unstock(t) PROVE OrderInv'
  BY <1>1, <1>9, UnstockKeeps
<1>10. ASSUME NEW t \in Txs, ReplaceLines(t) PROVE OrderInv'
  BY <1>1, <1>10, ReplaceLinesKeeps
<1>11. ASSUME NEW t \in Txs, Sell(t) PROVE OrderInv'
  BY <1>1, <1>11, SellKeeps
<1>12. ASSUME NEW t \in Txs, FifoDeduct(t) PROVE OrderInv'
  BY <1>1, <1>12, FifoDeductKeeps
<1>13. ASSUME NEW t \in Txs, Commit(t) PROVE OrderInv'
  BY <1>1, <1>13, CommitKeeps
<1>14. ASSUME NEW t \in Txs, Fail(t) PROVE OrderInv'
  BY <1>1, <1>14, RollbackStays DEF Fail
<1>15. QED
  BY <1>1, <1>2, <1>3, <1>4, <1>5, <1>6, <1>7, <1>8, <1>9, <1>10, <1>11, <1>12, <1>13, <1>14
     DEF Next

\* Through every interleaving of deliveries, reverts, edits and sales, failing
\* or not, of any number of requests, lines and batches.
THEOREM OrderInvariant == Spec => []OrderInv
<1>1. QED
  BY InitOrder, NextOrder, PTL DEF Spec

\* The stock row holds the units of the batches that exist, received less sold.
THEOREM LevelMatchesBatchesHolds == Spec => []LevelMatchesBatches
<1>1. OrderInv => LevelMatchesBatches
  BY DEF OrderInv
<1>2. QED
  BY <1>1, OrderInvariant, PTL

\* The committed rows hold what their columns may hold.
THEOREM OrderTypeCorrect == Spec => []TypeOK
<1>1. OrderInv => TypeOK
  BY DEF OrderInv, Typed, TypeOK, RowsTyped, RowTyped, RowIds, Statuses, LineRow, BatchRow
<1>2. QED
  BY <1>1, OrderInvariant, PTL

\* Only the commit of a request writes the committed rows.
LEMMA CommitsWrite ==
    ASSUME [Next]_vars
    PROVE  db' = db \/ \E t \in Txs : Commit(t)
BY DEF Next, vars, BeginTransition, BeginRevert, BeginEdit, BeginSale, Begin, UpdateOrder,
       Restock, OpenBatches, CheckBatches, Unstock, ReplaceLines, Sell, FifoDeduct, Fail,
       Rollback, Proceed

\* No step deletes a batch some sale was costed from: the revert that deletes it
\* has held it locked since it found it untouched.
THEOREM CostedBatchesKeptHolds == Spec => CostedBatchesKept
<1> DEFINE Kept == \A i \in Batches : db[i].remaining < db[i].received => db'[i].received = db[i].received
<1>1. OrderInv /\ [Next]_vars => [Kept]_vars
  <2>1. SUFFICES ASSUME OrderInv, [Next]_vars, NEW i \in BatchIds, db[i].received > 0,
                        db[i].remaining < db[i].received
                 PROVE  db'[i].received = db[i].received
    BY DEF Batches
  <2>2. CASE db' = db
    BY <2>2
  <2>3. ASSUME NEW t \in Txs, Commit(t) PROVE db'[i].received = db[i].received
    <3>1. i \in RowIds /\ RowsTyped(db) /\ DOMAIN db = RowIds /\ RowsTyped(own[t])
      BY <2>1 DEF RowIds, OrderInv, Typed
    <3>2. db'[i] = IF i \in Locked(t) THEN own[t][i] ELSE db[i]
      BY <2>3, <3>1 DEF Commit, Publish, Over, Locked
    <3>3. todo[t] = <<"commit">> /\ Doing(t)
      BY <2>1, <2>3, PlanOf DEF Commit, OrderInv, Typed
    <3>4. Settled(t)
      BY <3>3 DEF Doing
    <3>5. i \in Locked(t) /\ own[t][i].received # db[i].received => db[i].remaining = db[i].received
      BY <3>4 DEF Settled
    <3>6. db[i].remaining \in Int /\ db[i].received \in Int
      BY <3>1, OrderAssumption DEF RowsTyped, RowTyped, BatchRow
    <3>7. QED
      BY <2>1, <3>2, <3>5, <3>6
  <2>4. QED
    BY <2>1, <2>2, <2>3, CommitsWrite
<1>2. QED
  BY <1>1, OrderInvariant, PTL DEF Spec, CostedBatchesKept
------------------------------------------------------------------------------
(* Requests one at a time: what an order's status says of its batches and  *)
(* lines (DeliveryMatchesStatus).                                          *)

\* One delivery's batch, or none, and one line, counted or not.
Delivered(rows) == rows[Order] = "DELIVERED"
Whole(rows) ==
    /\ IF Delivered(rows)
       THEN \E b \in BatchIds : \A i \in BatchIds : rows[i].received > 0 <=> i = b
       ELSE \A i \in BatchIds : ~(rows[i].received > 0)
    /\ \E l \in LineIds : \A i \in LineIds : rows[i].life = "live" <=> i = l
    /\ \A i \in LineIds : rows[i].life = "live"
          => rows[i].units = IF Delivered(rows) THEN Quantity ELSE -1

\* What a request that is alone has loaded is what is committed, and what it
\* has written so far makes the order whole once it has written the rest.
Lone(t) == ~Idle(t) =>
    /\ loaded[t] = [status |-> db[Order], lines |-> Live(db), tracked |-> Tracked(db)]
    /\ At(t, "order") => IF Delivered(db)
          THEN /\ goal[t] = "CLEARED"
               /\ Locked(t) = {Level} \cup Batches
               /\ \A i \in Batches : own[t][i] = NoBatch
          ELSE Locked(t) = {}
    /\ todo[t] = <<"order", "commit">> => goal[t] # "DELIVERED"
    /\ At(t, "restock") \/ At(t, "batches") =>
          /\ ~Delivered(db)
          /\ Order \in Locked(t) /\ own[t][Order] = "DELIVERED"
          /\ Locked(t) \cap LineIds = Live(db)
          /\ \A i \in Live(db) : own[t][i] = NewLine(Quantity)
    /\ At(t, "check") => Delivered(db)
    /\ At(t, "unstock") => Delivered(db) /\ Locked(t) = Batches
    /\ At(t, "lines") => ~Delivered(db)
    /\ At(t, "commit") => Whole(Over(own[t], db))

LoneInv == ~overlapped =>
    /\ Whole(db)
    /\ \A t, u \in Txs : t # u => Idle(t) \/ Idle(u)
    /\ \A t \in Txs : Lone(t)

\* The parts of Lone that hold by what the plan says.
LEMMA LoneAt ==
    ASSUME NEW t \in Txs, NEW s \in Plans, s # <<>>, todo'[t] = s,
           loaded'[t] = [status |-> db'[Order], lines |-> Live(db'), tracked |-> Tracked(db')],
           Head(s) = "order" => IF Delivered(db')
              THEN /\ goal'[t] = "CLEARED"
                   /\ Locked(t)' = {Level} \cup Batches'
                   /\ \A i \in Batches' : own'[t][i] = NoBatch
              ELSE Locked(t)' = {},
           s = <<"order", "commit">> => goal'[t] # "DELIVERED",
           Head(s) \in {"restock", "batches"} =>
              /\ ~Delivered(db')
              /\ Order \in Locked(t)' /\ own'[t][Order] = "DELIVERED"
              /\ Locked(t)' \cap LineIds = Live(db')
              /\ \A i \in Live(db') : own'[t][i] = NewLine(Quantity),
           Head(s) = "check" => Delivered(db'),
           Head(s) = "unstock" => Delivered(db') /\ Locked(t)' = Batches',
           Head(s) = "lines" => ~Delivered(db'),
           Head(s) = "commit" => Whole(Over(own'[t], db'))
    PROVE  Lone(t)'
<1>1. \A step : At(t, step)' <=> step = Head(s)
  BY StepAt
<1>2. QED
  BY <1>1 DEF Lone

LEMMA LoneRows ==
    ASSUME db' = db
    PROVE  /\ Whole(db') <=> Whole(db)
           /\ Delivered(db') <=> Delivered(db)
           /\ Live(db') = Live(db) /\ Tracked(db') = Tracked(db) /\ Batches' = Batches
BY DEF Batches

\* The other requests are not under way while one is alone.
LEMMA LoneGoesOn ==
    ASSUME OrderInv, LoneInv, NEW t \in Txs, ~Idle(t), Proceed(t), ~overlapped' => Lone(t)'
    PROVE  LoneInv'
<1>1. SUFFICES ASSUME ~overlapped' PROVE LoneInv'
  BY DEF LoneInv
<1>2. /\ ~overlapped /\ db' = db
      /\ \A u \in Txs : u # t => todo'[u] = todo[u]
  BY <1>1 DEF Proceed, Advance, OrderInv, Typed
<1>3. Whole(db) /\ \A u \in Txs : u # t => Idle(u)
  BY <1>2 DEF LoneInv
<1>4. \A u \in Txs : u # t => Idle(u)'
  BY <1>2, <1>3 DEF Idle
<1>5. Whole(db)'
  BY <1>2, <1>3
<1>6. \A u \in Txs : Lone(u)'
  BY <1>1, <1>4 DEF Lone
<1>7. \A u, v \in Txs : u # v => Idle(u)' \/ Idle(v)'
  BY <1>4
<1>8. QED
  BY <1>5, <1>6, <1>7 DEF LoneInv

\* A request that has gone wrong leaves everything as it was.
LEMMA LoneRollback ==
    ASSUME OrderInv, LoneInv, NEW t \in Txs, Rollback(t)
    PROVE  LoneInv'
<1>1. SUFFICES ASSUME ~overlapped' PROVE LoneInv'
  BY DEF LoneInv
<1>2. /\ ~overlapped /\ db' = db /\ todo'[t] = <<>>
      /\ \A u \in Txs : u # t => /\ own'[u] = own[u] /\ todo'[u] = todo[u]
                                 /\ loaded'[u] = loaded[u] /\ goal'[u] = goal[u]
  BY <1>1 DEF Rollback, Finish, Release, OrderInv, Typed
<1>3. /\ Whole(db) /\ \A u, v \in Txs : u # v => Idle(u) \/ Idle(v)
      /\ \A u \in Txs : Lone(u)
  BY <1>2 DEF LoneInv
<1>4. Whole(db)'
  BY <1>2, <1>3
<1>5. Idle(t)' /\ \A u \in Txs : u # t => (Idle(u)' <=> Idle(u))
  BY <1>2 DEF Idle
<1>6. \A u, v \in Txs : u # v => Idle(u)' \/ Idle(v)'
  BY <1>3, <1>5
<1>7. ASSUME NEW u \in Txs, u # t PROVE Lone(u)'
  <2>1. Locked(u)' = Locked(u) /\ \A step : At(u, step)' <=> At(u, step)
    BY <1>2, <1>7 DEF Locked, At, Idle
  <2>2. Live(db)' = Live(db) /\ Tracked(db)' = Tracked(db) /\ Batches' = Batches
    BY <1>2 DEF Live, Tracked, Batches
  <2>3. Delivered(db)' <=> Delivered(db)
    BY <1>2 DEF Delivered
  <2>4. Lone(u) /\ own'[u] = own[u] /\ todo'[u] = todo[u] /\ loaded'[u] = loaded[u]
        /\ goal'[u] = goal[u] /\ db' = db
    BY <1>2, <1>3, <1>7
  <2>5. Whole(Over(own[u], db)) => Whole(Over(own[u], db))'
    BY <1>2, <1>7
  <2>6. QED
    BY <1>5, <1>7, <2>1, <2>2, <2>3, <2>4, <2>5 DEF Lone
<1>8. Lone(t)'
  BY <1>5 DEF Lone
<1>9. QED
  BY <1>4, <1>6, <1>7, <1>8 DEF LoneInv

\* A request begins alone.
LEMMA LoneBegin ==
    ASSUME OrderInv, LoneInv, NEW t \in Txs, NEW steps \in Plans, steps # <<>>, NEW target,
           Begin(t, steps, target),
           Head(steps) \in {"order", "check", "lines", "sell"},
           Head(steps) = "order" => ~Delivered(db),
           Head(steps) = "check" => Delivered(db),
           Head(steps) = "lines" => ~Delivered(db),
           steps = <<"order", "commit">> => target # "DELIVERED"
    PROVE  LoneInv'
<1>1. SUFFICES ASSUME ~overlapped' PROVE LoneInv'
  BY DEF LoneInv
<1>2. /\ ~overlapped /\ Alone(t) /\ db' = db /\ own' = own
      /\ todo'[t] = steps /\ goal'[t] = target
      /\ loaded'[t] = [status |-> db[Order], lines |-> Live(db), tracked |-> Tracked(db)]
      /\ \A u \in Txs : u # t => todo'[u] = todo[u]
  BY <1>1 DEF Begin, OrderInv, Typed
<1>3. Whole(db) /\ \A u \in Txs : u # t => Idle(u)
  BY <1>2 DEF LoneInv, Alone
<1>4. \A u \in Txs : u # t => Idle(u)' /\ Lone(u)'
  BY <1>2, <1>3 DEF Idle, Lone
<1>5. Whole(db)'
  BY <1>2, <1>3
<1>6. Locked(t) = {}
  BY PlanOf DEF Begin, Doing, OrderInv, Typed
<1>7. Locked(t)' = {}
  BY <1>2, <1>6 DEF Locked
<1>8. loaded'[t] = [status |-> db'[Order], lines |-> Live(db'), tracked |-> Tracked(db')]
  BY <1>2
<1>9. Delivered(db') <=> Delivered(db)
  BY <1>2
<1>10. Lone(t)'
  BY <1>2, <1>7, <1>8, <1>9, LoneAt
<1>11. \A u, v \in Txs : u # v => Idle(u)' \/ Idle(v)'
  BY <1>4
<1>12. QED
  BY <1>4, <1>5, <1>10, <1>11 DEF LoneInv

LEMMA LoneBegins ==
    ASSUME OrderInv, LoneInv, NEW t \in Txs,
           \/ \E target \in DOMAIN Transitions : BeginTransition(t, target)
           \/ BeginRevert(t) \/ BeginEdit(t) \/ BeginSale(t)
    PROVE  LoneInv'
<1>1. ASSUME NEW target \in DOMAIN Transitions, BeginTransition(t, target) PROVE LoneInv'
  <2>1. ~Delivered(db)
    BY <1>1 DEF BeginTransition, Delivered, Transitions
  <2>2. CASE target = "DELIVERED"
    <3> DEFINE steps == <<"order", "restock", "batches", "commit">>
    <3>1. steps \in Plans /\ steps # <<>> /\ Head(steps) = "order" /\ steps # <<"order", "commit">>
      BY DEF Plans, Fresh
    <3>2. Begin(t, steps, target)
      BY <1>1, <2>2 DEF BeginTransition
    <3> HIDE DEF steps
    <3>3. QED
      BY <2>1, <3>1, <3>2, LoneBegin
  <2>3. CASE target # "DELIVERED"
    <3> DEFINE steps == <<"order", "commit">>
    <3>1. steps \in Plans /\ steps # <<>> /\ Head(steps) = "order"
      BY DEF Plans
    <3>2. Begin(t, steps, target)
      BY <1>1, <2>3 DEF BeginTransition
    <3> HIDE DEF steps
    <3>3. QED
      BY <2>1, <2>3, <3>1, <3>2, LoneBegin
  <2>4. QED
    BY <2>2, <2>3
<1>2. CASE BeginRevert(t)
  <2> DEFINE steps == <<"check", "unstock", "order", "commit">>
  <2>1. steps \in Plans /\ steps # <<>> /\ Head(steps) = "check" /\ steps # <<"order", "commit">>
    BY DEF Plans, Fresh
  <2>2. Begin(t, steps, "CLEARED") /\ Delivered(db)
    BY <1>2 DEF BeginRevert, Delivered
  <2> HIDE DEF steps
  <2>3. QED
    BY <2>1, <2>2, LoneBegin
<1>3. CASE BeginEdit(t)
  <2> DEFINE steps == <<"lines", "commit">>
  <2>1. steps \in Plans /\ steps # <<>> /\ Head(steps) = "lines" /\ steps # <<"order", "commit">>
    BY DEF Plans, Fresh
  <2>2. Begin(t, steps, "none") /\ ~Delivered(db)
    BY <1>3 DEF BeginEdit, Delivered, Editable
  <2> HIDE DEF steps
  <2>3. QED
    BY <2>1, <2>2, LoneBegin
<1>4. CASE BeginSale(t)
  <2> DEFINE steps == <<"sell", "fifo", "commit">>
  <2>1. steps \in Plans /\ steps # <<>> /\ Head(steps) = "sell" /\ steps # <<"order", "commit">>
    BY DEF Plans, Fresh
  <2>2. Begin(t, steps, "none")
    BY <1>4 DEF BeginSale
  <2> HIDE DEF steps
  <2>3. QED
    BY <2>1, <2>2, LoneBegin
<1>5. QED
  BY <1>1, <1>2, <1>3, <1>4

\* What a lone request has done when it is about to commit a write of the order.
LEMMA LoneUpdateOrder ==
    ASSUME OrderInv, LoneInv, NEW t \in Txs, UpdateOrder(t)
    PROVE  LoneInv'
<1>0. CASE Rollback(t)
  BY <1>0, LoneRollback
<1> DEFINE values == [i \in {Order} \cup FlushedLines(t) |->
                        IF i = Order THEN goal[t] ELSE NewLine(FlushedUnits(t))]
<1>1. SUFFICES ASSUME Write(t, values), Proceed(t) PROVE LoneInv'
  BY <1>0 DEF UpdateOrder
<1>2. At(t, "order") /\ Doing(t) /\ ~Idle(t)
  BY DEF UpdateOrder, Run, OrderInv, At
<1>3. SUFFICES ASSUME ~overlapped' PROVE Lone(t)'
  BY <1>1, <1>2, LoneGoesOn
<1>4. /\ own'[t] = Over(values, own[t]) /\ todo'[t] = Tail(todo[t])
      /\ db' = db /\ loaded' = loaded /\ goal' = goal /\ ~overlapped
  BY <1>1, <1>3 DEF Write, Proceed, Advance, OrderInv, Typed
<1>5. Whole(db) /\ Lone(t)
  BY <1>4 DEF LoneInv
<1>6. loaded'[t] = [status |-> db'[Order], lines |-> Live(db'), tracked |-> Tracked(db')]
  BY <1>2, <1>4, <1>5 DEF Lone
<1>7. /\ DOMAIN values = {Order} \cup FlushedLines(t) /\ values[Order] = goal[t]
      /\ \A i \in FlushedLines(t) : values[i] = NewLine(FlushedUnits(t))
  BY FlushedAreLines, RowsDiffer
<1> HIDE DEF values
<1>8. Locked(t)' = {Order} \cup FlushedLines(t) \cup Locked(t)
  BY <1>4, <1>7 DEF Over, Locked
<1>9. CASE todo[t] = <<"order", "restock", "batches", "commit">>
  <2> DEFINE s == <<"restock", "batches", "commit">>
  <2>1. s \in Plans /\ s # <<>> /\ Head(s) = "restock" /\ s # <<"order", "commit">>
    BY DEF Plans
  <2>2. todo'[t] = s
    BY <1>4, <1>9
  <2> HIDE DEF s
  <2>3. todo[t] \in Fresh
    BY <1>9 DEF Fresh
  <2>4. goal[t] = "DELIVERED" /\ Locked(t) = {}
    BY <1>2, <1>9, <2>3 DEF Doing
  <2>5. ~Delivered(db)
    BY <1>2, <1>5, <2>4 DEF Lone
  <2>6. FlushedLines(t) = Live(db) /\ FlushedUnits(t) = Quantity
    <3>1. loaded[t].lines = Live(db) /\ loaded[t].status # "DELIVERED"
      BY <1>2, <1>5, <2>5 DEF Lone, Delivered
    <3>2. QED
      BY <2>4, <3>1 DEF FlushedLines, FlushedUnits
  <2>7. /\ Order \in Locked(t)' /\ own'[t][Order] = "DELIVERED"
        /\ Locked(t)' \cap LineIds = Live(db)
        /\ \A i \in Live(db) : own'[t][i] = NewLine(Quantity)
    BY <1>4, <1>7, <1>8, <2>4, <2>6, RowsDiffer DEF Over, Live
  <2>8. QED
    BY <1>4, <1>6, <2>1, <2>2, <2>5, <2>7, LoneAt
<1>10. CASE todo[t] = <<"order", "commit">>
  <2> DEFINE s == <<"commit">>
  <2>1. s \in Plans /\ s # <<>> /\ Head(s) = "commit" /\ s # <<"order", "commit">>
    BY DEF Plans
  <2>2. todo'[t] = s
    BY <1>4, <1>10
  <2> HIDE DEF s
  <2> DEFINE rows == Over(own'[t], db)
  <2>3. goal[t] # "DELIVERED" /\ FlushedUnits(t) = -1
    BY <1>2, <1>5, <1>10 DEF Lone, FlushedUnits
  <2>4. DOMAIN own'[t] = Locked(t)'
    BY DEF Locked
  <2>5. rows[Order] = goal[t] /\ ~Delivered(rows)
    BY <1>4, <1>7, <2>3 DEF Over, Delivered
  <2>6. Whole(rows)
    <3>1. CASE Delivered(db)
      <4>1. /\ Locked(t) = {Level} \cup Batches
            /\ \A i \in Batches : own[t][i] = NoBatch
        BY <1>2, <1>5, <3>1 DEF Lone
      <4>2. \A i \in Live(db) : db[i].units = Quantity
        BY <1>5, <3>1 DEF Whole, Live
      <4>3. FlushedLines(t) = Live(db)
        <5>1. Tracked(db) = Live(db)
          BY <4>2, OrderAssumption DEF Tracked
        <5>2. loaded[t].status = "DELIVERED" /\ loaded[t].tracked = Tracked(db)
          BY <1>2, <1>5, <3>1 DEF Lone, Delivered
        <5>3. QED
          BY <2>3, <5>1, <5>2 DEF FlushedLines
      <4>4. \A i \in BatchIds : rows[i] = IF i \in Batches THEN NoBatch ELSE db[i]
        BY <1>4, <1>7, <1>8, <2>4, <4>1, <4>3, RowsDiffer DEF Over, Locked, Live, Batches, OrderInv, Typed, RowIds
      <4>5. \A i \in LineIds : rows[i] = IF i \in Live(db) THEN NewLine(-1) ELSE db[i]
        BY <1>4, <1>7, <1>8, <2>3, <2>4, <4>1, <4>3, RowsDiffer DEF Over, Locked, Live, Batches, OrderInv, Typed, RowIds
      <4>6. \A i \in BatchIds : ~(rows[i].received > 0)
        BY <4>4 DEF NoBatch, Batches
      <4> HIDE DEF rows
      <4>7. \A i \in LineIds : /\ rows[i].life = "live" <=> i \in Live(db)
                               /\ i \in Live(db) => rows[i].units = -1
        BY <4>5 DEF Live, NewLine
      <4>8. \E l \in LineIds : \A i \in LineIds : i \in Live(db) <=> i = l
        BY <1>5 DEF Whole, Live
      <4>9. QED
        BY <2>5, <4>6, <4>7, <4>8 DEF Whole
    <3>2. CASE ~Delivered(db)
      <4>1. Locked(t) = {} /\ FlushedLines(t) = {}
        BY <1>2, <1>5, <2>3, <3>2 DEF Lone, FlushedLines, Delivered
      <4>2. \A i \in LineIds \cup BatchIds : rows[i] = db[i]
        BY <1>8, <2>4, <4>1, RowsDiffer DEF Over, OrderInv, Typed, RowIds
      <4> HIDE DEF rows
      <4>3. QED
        BY <1>5, <2>5, <3>2, <4>2 DEF Whole
    <3>3. QED
      BY <3>1, <3>2
  <2>7. Whole(Over(own'[t], db'))
    BY <1>4, <2>6
  <2>8. QED
    BY <1>6, <2>1, <2>2, <2>7, LoneAt
<1>11. QED
  BY <1>2, <1>9, <1>10, PlanOf DEF OrderInv, Typed

LEMMA LoneRestock ==
    ASSUME OrderInv, LoneInv, NEW t \in Txs, Restock(t)
    PROVE  LoneInv'
<1> DEFINE values == Only(Level, db[Level] + Quantity * Cardinality(loaded[t].lines))
<1>1. Write(t, values) /\ Proceed(t)
  BY DEF Restock
<1>2. At(t, "restock") /\ Doing(t) /\ ~Idle(t)
  BY DEF Restock, Run, OrderInv, At
<1>3. SUFFICES ASSUME ~overlapped' PROVE Lone(t)'
  BY <1>1, <1>2, LoneGoesOn
<1>4. /\ own'[t] = Over(values, own[t]) /\ todo'[t] = Tail(todo[t])
      /\ db' = db /\ loaded' = loaded /\ goal' = goal /\ ~overlapped
  BY <1>1, <1>3 DEF Write, Proceed, Advance, OrderInv, Typed
<1>5. Lone(t)
  BY <1>4 DEF LoneInv
<1>6. loaded'[t] = [status |-> db'[Order], lines |-> Live(db'), tracked |-> Tracked(db')]
  BY <1>2, <1>4, <1>5 DEF Lone
<1>7. DOMAIN values = {Level}
  BY DEF Only
<1> HIDE DEF values
<1>8. /\ Locked(t)' = {Level} \cup Locked(t)
      /\ \A i \in Locked(t) : i # Level => own'[t][i] = own[t][i]
  BY <1>4, <1>7 DEF Over, Locked
<1>9. /\ ~Delivered(db) /\ Order \in Locked(t) /\ own[t][Order] = "DELIVERED"
      /\ Locked(t) \cap LineIds = Live(db)
      /\ \A i \in Live(db) : own[t][i] = NewLine(Quantity)
  BY <1>2, <1>5 DEF Lone
<1>10. /\ Order \in Locked(t)' /\ own'[t][Order] = "DELIVERED"
       /\ Locked(t)' \cap LineIds = Live(db)
       /\ \A i \in Live(db) : own'[t][i] = NewLine(Quantity)
  BY <1>8, <1>9, RowsDiffer
<1> DEFINE s == <<"batches", "commit">>
<1>11. s \in Plans /\ s # <<>> /\ Head(s) = "batches" /\ s # <<"order", "commit">>
  BY DEF Plans
<1>12. todo'[t] = s
  BY <1>2, <1>4, PlanOf DEF OrderInv, Typed
<1> HIDE DEF s
<1>13. QED
  BY <1>4, <1>6, <1>9, <1>10, <1>11, <1>12, LoneAt

LEMMA LoneOpenBatches ==
    ASSUME OrderInv, LoneInv, NEW t \in Txs, OpenBatches(t)
    PROVE  LoneInv'
<1> DEFINE unused == {i \in BatchIds : db[i] = NoBatch /\ \A u \in Txs : i \notin Locked(u)}
<1>1. PICK ids \in kSubset(Cardinality(loaded[t].lines), unused) :
         Write(t, [i \in ids |-> [received |-> Quantity, remaining |-> Quantity]])
  BY DEF OpenBatches
<1>2. At(t, "batches") /\ Doing(t) /\ ~Idle(t) /\ Proceed(t)
  BY DEF OpenBatches, Run, OrderInv, At
<1>3. SUFFICES ASSUME ~overlapped' PROVE Lone(t)'
  BY <1>2, LoneGoesOn
<1> DEFINE values == [i \in ids |-> [received |-> Quantity, remaining |-> Quantity]]
<1>4. /\ own'[t] = Over(values, own[t]) /\ todo'[t] = Tail(todo[t])
      /\ db' = db /\ loaded' = loaded /\ goal' = goal /\ ~overlapped
  BY <1>1, <1>2, <1>3 DEF Write, Proceed, Advance, OrderInv, Typed
<1>5. Whole(db) /\ Lone(t)
  BY <1>4 DEF LoneInv
<1>6. loaded'[t] = [status |-> db'[Order], lines |-> Live(db'), tracked |-> Tracked(db')]
  BY <1>2, <1>4, <1>5 DEF Lone
<1>7. /\ ~Delivered(db) /\ Order \in Locked(t) /\ own[t][Order] = "DELIVERED"
      /\ Locked(t) \cap LineIds = Live(db)
      /\ \A i \in Live(db) : own[t][i] = NewLine(Quantity)
      /\ loaded[t].lines = Live(db)
  BY <1>2, <1>5 DEF Lone
<1>8. \E l \in LineIds : Live(db) = {l}
  BY <1>5 DEF Whole, Live
<1>9. Cardinality(loaded[t].lines) = 1
  BY <1>7, <1>8, FS_Singleton
<1>10. ids \subseteq BatchIds /\ Cardinality(ids) = 1
  BY <1>9 DEF kSubset
<1>11. PICK b \in BatchIds : ids = {b}
  <2>1. IsFiniteSet(ids)
    BY <1>10, FewRows, FS_Subset
  <2>2. QED
    BY <1>10, <2>1, FS_Singleton
<1>12. Locked(t) \cap BatchIds = {}
  BY <1>2 DEF Doing
<1> DEFINE rows == Over(own'[t], db)
<1>13. /\ DOMAIN values = {b} /\ values[b] = [received |-> Quantity, remaining |-> Quantity]
  BY <1>11
<1> HIDE DEF values
<1>14. /\ DOMAIN own'[t] = {b} \cup Locked(t)
       /\ \A i \in Locked(t) : i # b => own'[t][i] = own[t][i]
       /\ own'[t][b] = [received |-> Quantity, remaining |-> Quantity]
  BY <1>4, <1>13 DEF Over, Locked
<1>15. rows[Order] = "DELIVERED"
  BY <1>7, <1>14, RowsDiffer DEF Over
<1>16. \A i \in BatchIds : rows[i] = IF i = b THEN [received |-> Quantity, remaining |-> Quantity] ELSE db[i]
  BY <1>12, <1>14 DEF Over, OrderInv, Typed, RowIds
<1>17. \A i \in LineIds : rows[i] = IF i \in Live(db) THEN NewLine(Quantity) ELSE db[i]
  <2>1. \A i \in LineIds : i # b /\ (i \in Locked(t) <=> i \in Live(db))
    BY <1>7, RowsDiffer
  <2>2. QED
    BY <1>7, <1>14, <2>1 DEF Over, OrderInv, Typed, RowIds
<1> HIDE DEF rows
<1>18. Whole(rows)
  <2>1. \A i \in BatchIds : rows[i].received > 0 <=> i = b
    BY <1>5, <1>7, <1>16, OrderAssumption DEF Whole
  <2>2. \A i \in LineIds : /\ rows[i].life = "live" <=> i \in Live(db)
                           /\ i \in Live(db) => rows[i].units = Quantity
    BY <1>17 DEF Live, NewLine
  <2>3. \E l \in LineIds : \A i \in LineIds : i \in Live(db) <=> i = l
    BY <1>8
  <2>4. QED
    BY <1>15, <2>1, <2>2, <2>3 DEF Whole, Delivered
<1>19. Whole(Over(own'[t], db'))
  BY <1>4, <1>18 DEF rows
<1> DEFINE s == <<"commit">>
<1>20. s \in Plans /\ s # <<>> /\ Head(s) = "commit" /\ s # <<"order", "commit">>
  BY DEF Plans
<1>21. todo'[t] = s
  BY <1>2, <1>4, PlanOf DEF OrderInv, Typed
<1> HIDE DEF s
<1>22. QED
  BY <1>6, <1>19, <1>20, <1>21, LoneAt

LEMMA LoneCheckBatches ==
    ASSUME OrderInv, LoneInv, NEW t \in Txs, CheckBatches(t)
    PROVE  LoneInv'
<1>0. CASE Rollback(t)
  BY <1>0, LoneRollback
<1> DEFINE batches == {i \in BatchIds : db[i].received > 0}
           values == [i \in batches |-> db[i]]
<1>1. SUFFICES ASSUME Write(t, values), Proceed(t) PROVE LoneInv'
  BY <1>0 DEF CheckBatches, Wanted
<1>2. At(t, "check") /\ Doing(t) /\ ~Idle(t)
  BY DEF CheckBatches, Run, OrderInv, At
<1>3. SUFFICES ASSUME ~overlapped' PROVE Lone(t)'
  BY <1>1, <1>2, LoneGoesOn
<1>4. /\ own'[t] = Over(values, own[t]) /\ todo'[t] = Tail(todo[t])
      /\ db' = db /\ loaded' = loaded /\ goal' = goal /\ ~overlapped
  BY <1>1, <1>3 DEF Write, Proceed, Advance, OrderInv, Typed
<1>5. Lone(t)
  BY <1>4 DEF LoneInv
<1>6. loaded'[t] = [status |-> db'[Order], lines |-> Live(db'), tracked |-> Tracked(db')]
  BY <1>2, <1>4, <1>5 DEF Lone
<1> DEFINE s == <<"unstock", "order", "commit">>
<1>7. todo'[t] = s /\ Locked(t) = {}
  BY <1>2, <1>4, PlanOf DEF OrderInv, Typed, Doing
<1>8. s \in Plans /\ s # <<>> /\ Head(s) = "unstock" /\ s # <<"order", "commit">>
  BY DEF Plans
<1> HIDE DEF s
<1>9. Delivered(db) /\ Locked(t)' = Batches'
  BY <1>2, <1>4, <1>5, <1>7 DEF Lone, Over, Locked, Batches
<1>10. QED
  BY <1>4, <1>6, <1>7, <1>8, <1>9, LoneAt

LEMMA LoneUnstock ==
    ASSUME OrderInv, LoneInv, NEW t \in Txs, Unstock(t)
    PROVE  LoneInv'
<1>0. CASE Rollback(t)
  BY <1>0, LoneRollback
<1> DEFINE batches == Locked(t)
           level == db[Level] - SumFunctionOnSet(Received(db), batches)
           values == [i \in {Level} \cup batches |-> IF i = Level THEN level ELSE NoBatch]
<1>1. SUFFICES ASSUME Proceed(t), batches = {} \/ Write(t, values) PROVE LoneInv'
  BY <1>0 DEF Unstock
<1>2. At(t, "unstock") /\ Doing(t) /\ ~Idle(t)
  BY DEF Unstock, Run, OrderInv, At
<1>3. SUFFICES ASSUME ~overlapped' PROVE Lone(t)'
  BY <1>1, <1>2, LoneGoesOn
<1>4. /\ todo'[t] = Tail(todo[t])
      /\ db' = db /\ loaded' = loaded /\ goal' = goal /\ ~overlapped
  BY <1>1, <1>3 DEF Proceed, Advance, OrderInv, Typed
<1>5. Whole(db) /\ Lone(t)
  BY <1>4 DEF LoneInv
<1>6. loaded'[t] = [status |-> db'[Order], lines |-> Live(db'), tracked |-> Tracked(db')]
  BY <1>2, <1>4, <1>5 DEF Lone
<1>7. Delivered(db) /\ batches = Batches /\ goal[t] = "CLEARED"
  BY <1>2, <1>5 DEF Lone, Doing
<1>8. Batches # {} /\ Level \notin Batches
  BY <1>5, <1>7, RowsDiffer DEF Whole, Batches
<1>9. own'[t] = Over(values, own[t])
  BY <1>1, <1>7, <1>8 DEF Write, OrderInv, Typed
<1>10. /\ DOMAIN values = {Level} \cup Batches
       /\ \A i \in Batches : values[i] = NoBatch
  BY <1>7, <1>8
<1> HIDE DEF values
<1>11. Locked(t)' = {Level} \cup Batches' /\ \A i \in Batches' : own'[t][i] = NoBatch
  BY <1>4, <1>7, <1>9, <1>10 DEF Over, Locked, Batches
<1> DEFINE s == <<"order", "commit">>
<1>12. s \in Plans /\ s # <<>> /\ Head(s) = "order"
  BY DEF Plans
<1>13. todo'[t] = s
  BY <1>2, <1>4, PlanOf DEF OrderInv, Typed
<1> HIDE DEF s
<1>14. goal'[t] = "CLEARED" /\ goal'[t] # "DELIVERED" /\ Delivered(db')
  BY <1>4, <1>7
<1>15. QED
  BY <1>6, <1>11, <1>12, <1>13, <1>14, LoneAt

LEMMA LoneReplaceLines ==
    ASSUME OrderInv, LoneInv, NEW t \in Txs, ReplaceLines(t)
    PROVE  LoneInv'
<1> DEFINE fresh == {n \in 1..MaxLines : db[Line(n)].life = "new" /\ \A u \in Txs : Line(n) \notin Locked(u)}
           kept == IF loaded[t].tracked = {} THEN -1 ELSE Quantity
           added == Line(Min(fresh))
           values == [i \in {added} \cup loaded[t].lines |->
                        IF i = added THEN NewLine(kept) ELSE NoLine("gone")]
<1>1. Write(t, values) /\ Proceed(t) /\ fresh # {}
  BY DEF ReplaceLines
<1>2. At(t, "lines") /\ Doing(t) /\ ~Idle(t)
  BY DEF ReplaceLines, Run, OrderInv, At
<1>3. SUFFICES ASSUME ~overlapped' PROVE Lone(t)'
  BY <1>1, <1>2, LoneGoesOn
<1>4. /\ own'[t] = Over(values, own[t]) /\ todo'[t] = Tail(todo[t])
      /\ db' = db /\ loaded' = loaded /\ goal' = goal /\ ~overlapped
  BY <1>1, <1>3 DEF Write, Proceed, Advance, OrderInv, Typed
<1>5. Whole(db) /\ Lone(t)
  BY <1>4 DEF LoneInv
<1>6. loaded'[t] = [status |-> db'[Order], lines |-> Live(db'), tracked |-> Tracked(db')]
  BY <1>2, <1>4, <1>5 DEF Lone
<1>7. added \in LineIds /\ db[added].life = "new"
  <2>1. Min(fresh) \in fresh
    <3>1. fresh \in SUBSET (1..MaxLines)
      OBVIOUS
    <3> HIDE DEF fresh
    <3>2. QED
      BY <1>1, <3>1, SmallestLine
  <2>2. QED
    BY <2>1 DEF LineIds
<1> HIDE DEF added
<1>8. ~Delivered(db) /\ loaded[t].lines = Live(db) /\ loaded[t].tracked = Tracked(db)
  BY <1>2, <1>5 DEF Lone
<1>9. kept = -1
  <2>1. Tracked(db) = {}
    BY <1>5, <1>8 DEF Whole, Tracked, Live
  <2>2. QED
    BY <1>8, <2>1
<1> HIDE DEF kept
<1>10. /\ DOMAIN values = {added} \cup Live(db)
       /\ values[added] = NewLine(-1) /\ \A i \in Live(db) : i # added => values[i] = NoLine("gone")
  BY <1>8, <1>9
<1> HIDE DEF values
<1>11. todo[t] \in Fresh /\ Tail(todo[t]) = <<"commit">>
  BY <1>2, PlanOf DEF OrderInv, Typed
<1>12. Locked(t) = {}
  BY <1>2, <1>11 DEF Doing
<1> DEFINE rows == Over(own'[t], db)
<1>13. /\ DOMAIN own'[t] = {added} \cup Live(db)
       /\ \A i \in DOMAIN own'[t] : own'[t][i] = values[i]
  BY <1>4, <1>10, <1>12 DEF Over, Locked
<1>14. rows[Order] = db[Order] /\ \A i \in BatchIds : rows[i] = db[i]
  BY <1>7, <1>13, RowsDiffer DEF Over, Live, OrderInv, Typed, RowIds
<1>15. \A i \in LineIds : rows[i] = IF i = added THEN NewLine(-1)
                                    ELSE IF i \in Live(db) THEN NoLine("gone") ELSE db[i]
  BY <1>10, <1>13 DEF Over, OrderInv, Typed, RowIds
<1> HIDE DEF rows
<1>16. Whole(rows)
  <2>1. ~Delivered(rows) /\ \A i \in BatchIds : ~(rows[i].received > 0)
    BY <1>5, <1>8, <1>14 DEF Whole, Delivered
  <2>2. \A i \in LineIds : rows[i].life = "live" <=> i = added
    BY <1>15 DEF Live, NewLine, NoLine
  <2>3. rows[added].units = -1
    BY <1>7, <1>15 DEF NewLine
  <2>4. QED
    BY <1>7, <2>1, <2>2, <2>3 DEF Whole
<1>17. Whole(Over(own'[t], db'))
  BY <1>4, <1>16 DEF rows
<1> DEFINE s == <<"commit">>
<1>18. s \in Plans /\ s # <<>> /\ Head(s) = "commit" /\ s # <<"order", "commit">>
  BY DEF Plans
<1>19. todo'[t] = s
  BY <1>4, <1>11
<1> HIDE DEF s
<1>20. QED
  BY <1>6, <1>17, <1>18, <1>19, LoneAt

LEMMA LoneSell ==
    ASSUME OrderInv, LoneInv, NEW t \in Txs, Sell(t)
    PROVE  LoneInv'
<1>0. CASE Rollback(t)
  BY <1>0, LoneRollback
<1>1. SUFFICES ASSUME Proceed(t) PROVE LoneInv'
  BY <1>0 DEF Sell
<1>2. At(t, "sell") /\ Doing(t) /\ ~Idle(t)
  BY DEF Sell, Run, OrderInv, At
<1>3. SUFFICES ASSUME ~overlapped' PROVE Lone(t)'
  BY <1>1, <1>2, LoneGoesOn
<1>4. /\ todo'[t] = Tail(todo[t])
      /\ db' = db /\ loaded' = loaded /\ ~overlapped
  BY <1>1, <1>3 DEF Proceed, Advance, OrderInv, Typed
<1>5. loaded'[t] = [status |-> db'[Order], lines |-> Live(db'), tracked |-> Tracked(db')]
  BY <1>2, <1>4 DEF LoneInv, Lone
<1> DEFINE s == <<"fifo", "commit">>
<1>6. s \in Plans /\ s # <<>> /\ Head(s) = "fifo" /\ s # <<"order", "commit">>
  BY DEF Plans
<1>7. todo'[t] = s
  BY <1>2, <1>4, PlanOf DEF OrderInv, Typed
<1> HIDE DEF s
<1>8. QED
  BY <1>5, <1>6, <1>7, LoneAt

LEMMA LoneFifo ==
    ASSUME OrderInv, LoneInv, NEW t \in Txs, FifoDeduct(t)
    PROVE  LoneInv'
<1>1. At(t, "fifo") /\ Doing(t) /\ ~Idle(t) /\ Proceed(t)
  BY DEF FifoDeduct, Run, OrderInv, At
<1>2. SUFFICES ASSUME ~overlapped' PROVE Lone(t)'
  BY <1>1, LoneGoesOn
<1>3. /\ todo'[t] = Tail(todo[t])
      /\ db' = db /\ loaded' = loaded /\ ~overlapped
  BY <1>1, <1>2 DEF Proceed, Advance, OrderInv, Typed
<1>4. Whole(db) /\ Lone(t)
  BY <1>3 DEF LoneInv
<1>5. loaded'[t] = [status |-> db'[Order], lines |-> Live(db'), tracked |-> Tracked(db')]
  BY <1>1, <1>3, <1>4 DEF Lone
<1>6. DOMAIN own[t] = {Level}
  BY <1>1 DEF Doing, Locked
<1>7. /\ DOMAIN own'[t] \subseteq {Level} \cup BatchIds
      /\ \A i \in BatchIds \cap DOMAIN own'[t] : own'[t][i].received = db[i].received
  <2>1. CASE UNCHANGED own
    BY <1>6, <2>1, RowsDiffer
  <2>2. CASE ~UNCHANGED own
    <3> DEFINE batches == {i \in BatchIds : db[i].remaining > 0}
    <3>1. PICK used \in batches :
             Write(t, [i \in batches |-> IF i = used THEN [db[i] EXCEPT !.remaining = @ - 1] ELSE db[i]])
      BY <2>2 DEF FifoDeduct, Wanted
    <3> DEFINE values == [i \in batches |-> IF i = used THEN [db[i] EXCEPT !.remaining = @ - 1] ELSE db[i]]
    <3>2. \A i \in BatchIds : db[i] \in BatchRow
      BY DEF OrderInv, Typed, RowsTyped, RowTyped, RowIds
    <3>3. DOMAIN values = batches /\ \A i \in batches : values[i].received = db[i].received
      BY <3>2 DEF BatchRow
    <3>4. own'[t] = Over(values, own[t])
      BY <3>1 DEF Write, OrderInv, Typed
    <3> HIDE DEF values
    <3>5. QED
      BY <1>6, <3>3, <3>4, RowsDiffer DEF Over
  <2>3. QED
    BY <2>1, <2>2
<1> DEFINE rows == Over(own'[t], db)
<1>8. /\ rows[Order] = db[Order] /\ \A i \in LineIds : rows[i] = db[i]
      /\ \A i \in BatchIds : rows[i].received = db[i].received
  BY <1>7, RowsDiffer DEF Over, OrderInv, Typed, RowIds
<1> HIDE DEF rows
<1>9. Whole(rows)
  BY <1>4, <1>8 DEF Whole, Delivered
<1>10. Whole(Over(own'[t], db'))
  BY <1>3, <1>9 DEF rows
<1> DEFINE s == <<"commit">>
<1>11. s \in Plans /\ s # <<>> /\ Head(s) = "commit" /\ s # <<"order", "commit">>
  BY DEF Plans
<1>12. todo'[t] = s
  BY <1>1, <1>3, PlanOf DEF OrderInv, Typed
<1> HIDE DEF s
<1>13. QED
  BY <1>5, <1>10, <1>11, <1>12, LoneAt

LEMMA LoneCommit ==
    ASSUME OrderInv, LoneInv, NEW t \in Txs, Commit(t)
    PROVE  LoneInv'
<1>1. SUFFICES ASSUME ~overlapped' PROVE LoneInv'
  BY DEF LoneInv
<1>2. /\ ~overlapped /\ todo'[t] = <<>> /\ db' = Over(own[t], db)
      /\ \A u \in Txs : u # t => todo'[u] = todo[u]
  BY <1>1 DEF Commit, Publish, Finish, Release, OrderInv, Typed
<1>3. At(t, "commit") /\ ~Idle(t)
  BY DEF Commit, At
<1>4. Lone(t) /\ \A u \in Txs : u # t => Idle(u)
  BY <1>2, <1>3 DEF LoneInv
<1>5. Whole(db')
  BY <1>2, <1>3, <1>4 DEF Lone
<1>6. \A u \in Txs : Idle(u)'
  BY <1>2, <1>4 DEF Idle
<1>7. \A u \in Txs : Lone(u)'
  BY <1>6 DEF Lone
<1>8. QED
  BY <1>5, <1>6, <1>7 DEF LoneInv

LEMMA InitLone == Init => LoneInv
<1>1. SUFFICES ASSUME Init PROVE LoneInv
  OBVIOUS
<1>2. \A t \in Txs : Idle(t)
  BY <1>1 DEF Init, InitSessions, Idle
<1>3. \A t \in Txs : Lone(t)
  BY <1>2 DEF Lone
<1>4. Line(1) \in LineIds
  BY OrderAssumption DEF LineIds
<1>5. /\ db[Order] = "ORDERED"
      /\ \A i \in LineIds : db[i] = IF i = Line(1) THEN NewLine(-1) ELSE NoLine("new")
      /\ \A i \in BatchIds : db[i] = NoBatch
  BY <1>1, <1>4, RowsDiffer DEF Init
<1>6. ~Delivered(db) /\ \A i \in BatchIds : ~(db[i].received > 0)
  BY <1>5 DEF Delivered, NoBatch
<1>7. \A i \in LineIds : /\ db[i].life = "live" <=> i = Line(1)
                         /\ db[i].life = "live" => db[i].units = -1
  BY <1>5 DEF NewLine, NoLine
<1>8. Whole(db)
  BY <1>4, <1>6, <1>7 DEF Whole
<1>9. QED
  BY <1>2, <1>3, <1>8 DEF LoneInv

LEMMA NextLone == OrderInv /\ LoneInv /\ [Next]_vars => LoneInv'
<1>1. SUFFICES ASSUME OrderInv, LoneInv, [Next]_vars PROVE LoneInv'
  OBVIOUS
<1>2. CASE UNCHANGED vars
  <2>1. UNCHANGED <<db, own, todo, loaded, goal, overlapped>>
    BY <1>2 DEF vars
  <2>2. \A t \in Txs : Locked(t)' = Locked(t) /\ (Idle(t)' <=> Idle(t)) /\ \A step : At(t, step)' <=> At(t, step)
    BY <2>1 DEF Locked, Idle, At
  <2>3. Live(db)' = Live(db) /\ Tracked(db)' = Tracked(db) /\ Batches' = Batches /\ (Delivered(db)' <=> Delivered(db))
    BY <2>1 DEF Live, Tracked, Batches, Delivered
  <2>4. Whole(db) => Whole(db)'
    BY <2>1
  <2>5. \A t \in Txs : Whole(Over(own[t], db)) => Whole(Over(own[t], db))'
    BY <2>1
  <2>6. \A t \in Txs : Lone(t) => Lone(t)'
    BY <2>1, <2>2, <2>3, <2>5 DEF Lone
  <2>7. QED
    BY <1>1, <2>1, <2>2, <2>4, <2>6 DEF LoneInv
<1>3. ASSUME NEW t \in Txs,
             \/ \E target \in DOMAIN Transitions : BeginTransition(t, target)
             \/ BeginRevert(t) \/ BeginEdit(t) \/ BeginSale(t)
      PROVE  LoneInv'
  BY <1>1, <1>3, LoneBegins
<1>4. ASSUME NEW t \in Txs, UpdateOrder(t) PROVE LoneInv'
  BY <1>1, <1>4, LoneUpdateOrder
<1>5. ASSUME NEW t \in Txs, Restock(t) PROVE LoneInv'
  BY <1>1, <1>5, LoneRestock
<1>6. ASSUME NEW t \in Txs, OpenBatches(t) PROVE LoneInv'
  BY <1>1, <1>6, LoneOpenBatches
<1>7. ASSUME NEW t \in Txs, CheckBatches(t) PROVE LoneInv'
  BY <1>1, <1>7, LoneCheckBatches
<1>8. ASSUME NEW t \in Txs, Unstock(t) PROVE LoneInv'
  BY <1>1, <1>8, LoneUnstock
<1>9. ASSUME NEW t \in Txs, ReplaceLines(t) PROVE LoneInv'
  BY <1>1, <1>9, LoneReplaceLines
<1>10. ASSUME NEW t \in Txs, Sell(t) PROVE LoneInv'
  BY <1>1, <1>10, LoneSell
<1>11. ASSUME NEW t \in Txs, FifoDeduct(t) PROVE LoneInv'
  BY <1>1, <1>11, LoneFifo
<1>12. ASSUME NEW t \in Txs, Commit(t) PROVE LoneInv'
  BY <1>1, <1>12, LoneCommit
<1>13. ASSUME NEW t \in Txs, Fail(t) PROVE LoneInv'
  BY <1>1, <1>13, LoneRollback DEF Fail
<1>14. QED
  BY <1>1, <1>2, <1>3, <1>4, <1>5, <1>6, <1>7, <1>8, <1>9, <1>10, <1>11, <1>12, <1>13 DEF Next

\* What a lone request has loaded is current, and what it leaves is whole.
THEOREM LoneInvariant == Spec => []LoneInv
<1>1. QED
  BY InitLone, NextLone, OrderInvariant, PTL DEF Spec

\* As long as requests come one at a time, a delivered order has the batches and
\* the units of one delivery, any other neither.
THEOREM DeliveryMatchesStatusHolds == Spec => []DeliveryMatchesStatus
<1>1. LoneInv => DeliveryMatchesStatus
  <2>1. SUFFICES ASSUME Whole(db)
                 PROVE  /\ Cardinality(Batches) = IF Delivered(db) THEN 1 ELSE 0
                        /\ Cardinality(Live(db)) = 1
                        /\ \A i \in Live(db) : db[i].units = IF Delivered(db) THEN Quantity ELSE -1
    BY DEF LoneInv, DeliveryMatchesStatus, Delivered
  <2>2. Cardinality(Batches) = IF Delivered(db) THEN 1 ELSE 0
    <3>1. CASE Delivered(db)
      <4>1. \E b \in BatchIds : Batches = {b}
        BY <2>1, <3>1 DEF Whole, Batches
      <4>2. QED
        BY <3>1, <4>1, FS_Singleton
    <3>2. CASE ~Delivered(db)
      <4>1. Batches = {}
        BY <2>1, <3>2 DEF Whole, Batches
      <4>2. QED
        BY <3>2, <4>1, FS_EmptySet
    <3>3. QED
      BY <3>1, <3>2
  <2>3. \E l \in LineIds : Live(db) = {l}
    BY <2>1 DEF Whole, Live
  <2>4. Cardinality(Live(db)) = 1
    BY <2>3, FS_Singleton
  <2>5. \A i \in Live(db) : db[i].units = IF Delivered(db) THEN Quantity ELSE -1
    BY <2>1 DEF Whole, Live
  <2>6. QED
    BY <2>2, <2>4, <2>5
<1>2. QED
  BY <1>1, LoneInvariant, PTL
=============================================================================
