------------------------------ MODULE OrderTx ------------------------------
(***************************************************************************)
(* Overlapping requests on one purchase order and the stock its delivery   *)
(* brings: transition_status() and cancel_order(), update_order() with     *)
(* line items, revert_delivered_order(), and create_sale() as far as it    *)
(* locks the same stock row and batches.                                   *)
(*                                                                         *)
(* get_order() loads the order and its lines without a lock; loaded[t]     *)
(* is what the ORM keeps of them for the rest of the request.              *)
(*                                                                         *)
(* The order has one kind of line, of Quantity units of one stock row; an  *)
(* edit puts a line of the same price in its place, so total_amount stays  *)
(* and the order row is not written.                                       *)
(* Batches of equal date: a sale may draw on any.  Ids of rows are used    *)
(* once (lines) or again after the row is gone (batches).                  *)
(***************************************************************************)
EXTENDS RowLocks, FiniteSets, FiniteSetsExt, Functions

CONSTANTS
    Quantity,      \* units per line
    InitialStock,  \* units in the stock row at the start
    MaxLines,      \* bound on the line rows ever created
    MaxBatches     \* bound on the batches that exist at a time

ASSUME OrderAssumption ==
    /\ Quantity \in Nat \ {0} /\ InitialStock \in Nat
    /\ MaxLines \in Nat \ {0} /\ MaxBatches \in Nat

Order    == <<"order", 0>>
Level    == <<"stock", 0>>
Line(n)  == <<"line", n>>
Batch(n) == <<"batch", n>>

LineIds  == {Line(n) : n \in 1..MaxLines}
BatchIds == {Batch(n) : n \in 1..MaxBatches}

VARIABLES
    loaded,        \* tx -> status, lines, and lines with units it loaded
    goal,          \* tx -> the status it wants to set
    sold,          \* units of committed sales
    overlapped     \* whether two requests were ever under way at once

vars == <<db, own, todo, loaded, goal, sold, overlapped>>

\* A line row before it is inserted, while it lives, and once it is deleted;
\* units is units_remaining, -1 for NULL.
NoLine(life)   == [life |-> life, units |-> -1]
NewLine(units) == [life |-> "live", units |-> units]
NoBatch == [received |-> 0, remaining |-> 0]

Received(rows) == [i \in BatchIds |-> rows[i].received]

Live(rows) == {i \in LineIds : rows[i].life = "live"}
Tracked(rows) == {i \in Live(rows) : rows[i].units # -1}
NotLoaded == [status |-> "none", lines |-> {}, tracked |-> {}]

Init ==
    /\ db = [i \in {Order, Level} \cup LineIds \cup BatchIds |->
               CASE i = Order    -> "ORDERED"
                 [] i = Level    -> InitialStock
                 [] i = Line(1)  -> NewLine(-1)
                 [] i \in BatchIds -> NoBatch
                 [] OTHER        -> NoLine("new")]
    /\ InitSessions
    /\ loaded = [t \in Txs |-> NotLoaded]
    /\ goal = [t \in Txs |-> "none"]
    /\ sold = 0
    /\ overlapped = FALSE

------------------------------------------------------------------------------
Transitions ==                                    \* VALID_TRANSITIONS
    [ORDERED       |-> {"PENDING", "CANCELLED"},
     PENDING       |-> {"IN_PRODUCTION", "CANCELLED"},
     IN_PRODUCTION |-> {"SHIPPING"},
     SHIPPING      |-> {"CLEARED"},
     CLEARED       |-> {"DELIVERED"},
     DELIVERED     |-> {},
     CANCELLED     |-> {}]

Editable == {"ORDERED", "PENDING", "IN_PRODUCTION", "SHIPPING", "CLEARED"}

Finish(t) ==
    /\ Release(t)
    /\ loaded' = [loaded EXCEPT ![t] = NotLoaded]
    /\ goal' = [goal EXCEPT ![t] = "none"]

Rollback(t) == Finish(t) /\ UNCHANGED <<db, sold, overlapped>>

\* The end of every statement but the last.
Proceed(t) == Advance(t) /\ UNCHANGED <<db, loaded, goal, sold, overlapped>>

Begin(t, steps, target) ==
    /\ Idle(t)
    /\ todo' = [todo EXCEPT ![t] = steps]
    /\ loaded' = [loaded EXCEPT ![t] = [status |-> db[Order], lines |-> Live(db),
                                        tracked |-> Tracked(db)]]
    /\ goal' = [goal EXCEPT ![t] = target]
    /\ overlapped' = (overlapped \/ ~Alone(t))
    /\ UNCHANGED <<db, own, sold>>

BeginTransition(t, target) ==
    /\ target \in Transitions[db[Order]]
    /\ Begin(t, IF target = "DELIVERED"
                THEN <<"order", "restock", "batches", "commit">>
                ELSE <<"order", "commit">>, target)

\* The check before revert_delivered_order() locks anything.
BeginRevert(t) ==
    /\ db[Order] = "DELIVERED"
    /\ Begin(t, <<"check", "unstock", "order", "commit">>, "CLEARED")

BeginEdit(t) ==
    /\ db[Order] \in Editable
    /\ Begin(t, <<"lines", "commit">>, "none")

BeginSale(t) == Begin(t, <<"sell", "fifo", "commit">>, "none")

------------------------------------------------------------------------------
\* What the flush of the order also writes: units_remaining of every loaded
\* line when it is delivered, NULL where it was not when that is reverted.
FlushedLines(t) ==
    CASE goal[t] = "DELIVERED"            -> loaded[t].lines
      [] loaded[t].status = "DELIVERED"   -> loaded[t].tracked
      [] OTHER                            -> {}

\* The definitions named ...Bug are plausible mistakes in the definition that
\* follows; they only serve to show that the properties can fail.
FlushedUnitsBugKept(t) == Quantity

FlushedUnits(t) == IF goal[t] = "DELIVERED" THEN Quantity ELSE -1

\* The rows a statement has to lock.
Wanted(t, step) ==
    CASE step = "order"               -> {Order} \cup FlushedLines(t)
      [] step \in {"restock", "sell"} -> {Level}
      [] step = "unstock"             -> IF Locked(t) = {} THEN {} ELSE {Level}
      [] step = "check"               -> {i \in BatchIds : db[i].received > 0}
      [] step = "fifo"                -> {i \in BatchIds : db[i].remaining > 0}
      [] step = "lines"               -> loaded[t].lines
      [] OTHER                        -> {}

Needs(t) == IF Idle(t) THEN {} ELSE Wanted(t, Head(todo[t]))

Run(t, step) == At(t, step) /\ Free(t, Wanted(t, step))

\* The flush.  A line that is gone makes it fail (StaleDataError).
UpdateOrder(t) ==
    /\ Run(t, "order")
    /\ \/ /\ FlushedLines(t) \subseteq Live(db)
          /\ Write(t, [i \in {Order} \cup FlushedLines(t) |->
                         IF i = Order THEN goal[t] ELSE NewLine(FlushedUnits(t))])
          /\ Proceed(t)
       \/ ~(FlushedLines(t) \subseteq Live(db)) /\ Rollback(t)

\* adjust_stock() for every line of the delivery.
Restock(t) ==
    /\ Run(t, "restock")
    /\ Write(t, Only(Level, db[Level] + Quantity * Cardinality(loaded[t].lines)))
    /\ Proceed(t)

\* create_batch() for every line, on row ids nobody uses.
OpenBatches(t) ==
    /\ Run(t, "batches")
    /\ \E ids \in kSubset(Cardinality(loaded[t].lines),
                          {i \in BatchIds : db[i] = NoBatch
                              /\ \A u \in Txs : i \notin Locked(u)}) :
          Write(t, [i \in ids |-> [received |-> Quantity,
                                   remaining |-> Quantity]])
    /\ Proceed(t)

\* revert_delivered_order(): lock the order's batches, stop unless untouched.
CheckBatches(t) ==
    LET batches == Wanted(t, "check")
    IN  /\ Run(t, "check")
        /\ \/ /\ \A i \in batches : db[i].remaining = db[i].received
              /\ Write(t, [i \in batches |-> db[i]])
              /\ Proceed(t)
           \/ /\ \E i \in batches : db[i].remaining # db[i].received
              /\ Rollback(t)

\* ... then take each batch off the stock row and delete it.
Unstock(t) ==
    LET batches == Locked(t)
        level   == db[Level] - SumFunctionOnSet(Received(db), batches)
    IN  /\ Run(t, "unstock")
        /\ \/ /\ level >= 0
              /\ IF batches = {} THEN UNCHANGED own
                 ELSE Write(t, [i \in {Level} \cup batches |->
                                  IF i = Level THEN level ELSE NoBatch])
              /\ Proceed(t)
           \/ level < 0 /\ Rollback(t)

\* update_order() with line items: delete the loaded lines, insert new ones
\* that inherit units_remaining.
ReplaceLines(t) ==
    LET fresh == {n \in 1..MaxLines : db[Line(n)].life = "new"
                                        /\ \A u \in Txs : Line(n) \notin Locked(u)}
        kept  == IF loaded[t].tracked = {} THEN -1 ELSE Quantity
    IN  /\ Run(t, "lines")
        /\ fresh # {}
        /\ LET added == Line(Min(fresh))
           IN  Write(t, [i \in {added} \cup loaded[t].lines |->
                           IF i = added THEN NewLine(kept) ELSE NoLine("gone")])
        /\ Proceed(t)

SellableBugZero(level) == level >= 0
Sellable(level) == level > 0

\* create_sale(): one unit off the stock row ...
Sell(t) ==
    /\ Run(t, "sell")
    /\ \/ /\ Sellable(db[Level])
          /\ Write(t, Only(Level, db[Level] - 1))
          /\ Proceed(t)
       \/ ~Sellable(db[Level]) /\ Rollback(t)

\* ... and one off a batch, all of the non-empty ones locked.
FifoDeduct(t) ==
    LET batches == Wanted(t, "fifo")
    IN  /\ Run(t, "fifo")
        /\ \/ /\ \E used \in batches :
                    Write(t, [i \in batches |->
                               IF i = used
                               THEN [db[i] EXCEPT !.remaining = @ - 1]
                               ELSE db[i]])
           \/ batches = {} /\ UNCHANGED own
        /\ Proceed(t)

Selling(t) == goal[t] = "none" /\ Level \in Locked(t)

Commit(t) ==
    /\ At(t, "commit")
    /\ Publish(t)
    /\ sold' = IF Selling(t) THEN sold + 1 ELSE sold
    /\ UNCHANGED overlapped
    /\ Finish(t)

\* A lost connection, or the server choosing this request as deadlock victim.
Fail(t) == ~Idle(t) /\ Rollback(t)

Next ==
    \E t \in Txs :
        \/ \E target \in DOMAIN Transitions : BeginTransition(t, target)
        \/ BeginRevert(t) \/ BeginEdit(t) \/ BeginSale(t)
        \/ UpdateOrder(t) \/ Restock(t) \/ OpenBatches(t)
        \/ CheckBatches(t) \/ Unstock(t)
        \/ ReplaceLines(t)
        \/ Sell(t) \/ FifoDeduct(t)
        \/ Commit(t) \/ Fail(t)

Spec == Init /\ [][Next]_vars

------------------------------------------------------------------------------
Batches == {i \in BatchIds : db[i].received > 0}

TypeOK ==
    /\ db[Order] \in DOMAIN Transitions
    /\ db[Level] \in Nat
    /\ \A i \in LineIds : db[i] \in [life : {"new", "live", "gone"},
                                     units : {-1, Quantity}]
    /\ \A i \in BatchIds : db[i] \in [received : {0, Quantity},
                                      remaining : 0..Quantity]

\* However deliveries, reverts and sales overlap, the stock row holds the units
\* of the batches that exist, received less sold: no movement is lost, and a
\* revert takes off exactly what the batches it deletes had brought.
LevelMatchesBatches ==
    db[Level] = InitialStock - sold + SumFunctionOnSet(Received(db), BatchIds)

\* However a revert and sales overlap, a batch some sale was costed from is
\* never deleted.
CostedBatchesKept ==
    [][\A i \in Batches : db[i].remaining < db[i].received
          => db'[i].received = db[i].received]_vars

\* As long as requests come one at a time, a delivered order has exactly the
\* batches, and its only line the units, of one delivery; any other order has
\* neither, through any sequence of deliveries, reverts, edits and sales.
DeliveryMatchesStatus == ~overlapped =>
    /\ Cardinality(Batches) = IF db[Order] = "DELIVERED" THEN 1 ELSE 0
    /\ Cardinality(Live(db)) = 1
    /\ \A i \in Live(db) :
          db[i].units = IF db[Order] = "DELIVERED" THEN Quantity ELSE -1

\* "Valid status transitions": a status only follows one it may follow, but for
\* the revert of a delivery.
ValidTransitions ==
    [][db'[Order] # db[Order] =>
          \/ db'[Order] \in Transitions[db[Order]]
          \/ db[Order] = "DELIVERED" /\ db'[Order] = "CLEARED"]_vars

\* "DELIVERED is intentionally excluded" from the editable statuses: the lines
\* of a delivered order never change.
DeliveredNotEdited ==
    [][db[Order] = "DELIVERED" => Live(db') = Live(db)]_vars

\* "Whichever transaction gets here first wins, the other blocks until it
\* commits": no two requests block each other.
Blocks(u, t) == Needs(t) \cap Locked(u) # {}
NoMutualBlock ==
    \A t, u \in Txs : t # u => ~(Blocks(t, u) /\ Blocks(u, t))

=============================================================================
