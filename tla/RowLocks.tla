------------------------------ MODULE RowLocks ------------------------------
(***************************************************************************)
(* The database as the services use it: PostgreSQL under READ COMMITTED,   *)
(* one transaction per request (core/database.py get_db(): commit at the   *)
(* end of the request, roll back on any exception).                        *)
(*                                                                         *)
(* db holds the committed rows.  A transaction t keeps the rows it has     *)
(* locked, by SELECT ... FOR UPDATE or by a flushed INSERT, UPDATE or      *)
(* DELETE, with its own values in own[t] until it ends, so DOMAIN own[t]   *)
(* is its set of row locks.  A plain SELECT returns its own value of such  *)
(* a row and the committed value of any other.                             *)
(*                                                                         *)
(* A statement takes all its row locks at once, on the rows that match     *)
(* when it gets them.                                                      *)
(***************************************************************************)
EXTENDS Integers, Sequences, TLC

CONSTANT Txs       \* database sessions serving requests

VARIABLES
    db,            \* row id -> committed value
    own,           \* tx -> row id it has locked -> its value
    todo           \* tx -> the statements still to run, <<>> when idle

Idle(t) == todo[t] = <<>>
\* No other session has a request under way.
Alone(t) == \A u \in Txs \ {t} : Idle(u)

At(t, step) == ~Idle(t) /\ Head(todo[t]) = step
Advance(t) == todo' = [todo EXCEPT ![t] = Tail(@)]

InitSessions == own = [t \in Txs |-> <<>>] /\ todo = [t \in Txs |-> <<>>]

See(t, i) == IF i \in DOMAIN own[t] THEN own[t][i] ELSE db[i]

Locked(t) == DOMAIN own[t]

\* The definitions named ...Bug are plausible mistakes in the definition that
\* follows: FOR UPDATE forgotten on one table.
HeldByOthers(t, ids) == UNION {Locked(u) \cap ids : u \in Txs \ {t}}
FreeBugNoBatchLock(t, ids) == \A i \in HeldByOthers(t, ids) : i[1] = "batch"
FreeBugNoStockLock(t, ids) == \A i \in HeldByOthers(t, ids) : i[1] = "stock"

\* The row locks a statement waits for are free.
Free(t, ids) == HeldByOthers(t, ids) = {}

\* One row with its value, and these rows in place of the others'.
Only(i, value) == [j \in {i} |-> value]
Over(rows, others) ==
    [i \in DOMAIN rows \cup DOMAIN others |-> IF i \in DOMAIN rows THEN rows[i] ELSE others[i]]

\* Lock these rows and write them (a row locked and not changed keeps its value).
Write(t, values) == own' = [own EXCEPT ![t] = Over(values, @)]

Publish(t) == db' = Over(own[t], db)

\* The end of a request, committed or rolled back.
Release(t) ==
    /\ own' = [own EXCEPT ![t] = <<>>]
    /\ todo' = [todo EXCEPT ![t] = <<>>]

=============================================================================
