----------------------------- MODULE BulkUpload -----------------------------
(***************************************************************************)
(* Sales uploaded as a file: create_bulk_upload_job() records the job and  *)
(* run_bulk_upload_job_in_background() works through the rows in a session *)
(* of its own, one job per session, committing every CommitInterval rows,  *)
(* at most MaxJobs of them in a worker process at a time.                  *)
(*                                                                         *)
(* A row sells one unit of a product, or is Invalid (refused before        *)
(* anything is written).  Batches and lots are in StockLedger and SaleTx;  *)
(* here a row locks and moves its product's stock row, and that lock is    *)
(* held until the next commit of the job.                                  *)
(***************************************************************************)
EXTENDS RowLocks, FiniteSets, Functions

CONSTANTS
    Products,
    Invalid,       \* a row create_sale() refuses before it writes anything
    Files,         \* the files users may upload: sequences of rows
    InitialStock,  \* product -> units on hand
    CommitInterval,\* _PROGRESS_COMMIT_INTERVAL
    MaxJobs        \* BULK_UPLOAD_MAX_CONCURRENT_JOBS

Jobs == Txs

ASSUME FilesAssumption ==
    /\ IsFiniteSet(Jobs) /\ IsFiniteSet(Products)
    /\ Files \subseteq Seq(Products \cup {Invalid}) /\ Invalid \notin Products
    /\ InitialStock \in [Products -> Nat]
    /\ CommitInterval \in Nat \ {0} /\ MaxJobs \in Nat \ {0}

Stock(p) == <<"stock", p>>
Job(j)   == <<"job", j>>      \* its SaleBulkUploadJob row
Sold(j)  == <<"sold", j>>     \* the Sale rows it inserted

VARIABLES
    file,          \* job -> its file
    waiting,       \* jobs whose background task waits for the semaphore
    crashed        \* whether the worker process was ever killed

uploadVars == <<db, own, todo, file, waiting, crashed>>

NoJob   == [status |-> "NEW", processed |-> 0, successful |-> 0, failed |-> 0]
\* stocked: product -> sales that took their unit off the stock row;
\* loose: Sale rows whose unit was never taken.
NoSales == [stocked |-> [p \in Products |-> 0], loose |-> 0]

UploadInit ==
    /\ db = Over([i \in {Stock(p) : p \in Products} |-> InitialStock[i[2]]],
              Over([i \in {Job(j) : j \in Jobs} |-> NoJob],
                   [i \in {Sold(j) : j \in Jobs} |-> NoSales]))
    /\ InitSessions
    /\ file \in [Jobs -> Files]
    /\ waiting = {}
    /\ crashed = FALSE

------------------------------------------------------------------------------
Running == {j \in Jobs : ~Idle(j)}

\* create_bulk_upload_job() commits the row, then the request schedules the task.
Submit(j) ==
    /\ db[Job(j)] = NoJob
    /\ db' = [db EXCEPT ![Job(j)].status = "PENDING"]
    /\ waiting' = waiting \cup {j}
    /\ UNCHANGED <<own, todo, file, crashed>>

Start(j) ==
    /\ j \in waiting
    /\ Cardinality(Running) < MaxJobs
    /\ waiting' = waiting \ {j}
    /\ Write(j, Only(Job(j), [db[Job(j)] EXCEPT !.status = "PROCESSING"]))
    /\ todo' = [todo EXCEPT ![j] = <<"row">>]
    /\ UNCHANGED <<db, file, crashed>>

Progress(j) == See(j, Job(j))
Done(j)     == Progress(j).processed = Len(file[j])
NextRow(j)  == file[j][Progress(j).processed + 1]

\* The definitions named ...Bug are plausible mistakes in the definition that
\* follows; they only serve to show that the properties can fail.
ShortBugCounted(progress) == [progress EXCEPT !.processed = @ + 1,
                                              !.successful = @ + 1]

\* The counters after a row that succeeded, was refused, or was short of stock.
Successful(progress) == [progress EXCEPT !.processed = @ + 1, !.successful = @ + 1]
Refused(progress)    == [progress EXCEPT !.processed = @ + 1, !.failed = @ + 1]
Short(progress)      == [progress EXCEPT !.processed = @ + 1, !.failed = @ + 1]

\* After every row: commit when the interval is full, then the next row.
AfterRow(j) ==
    /\ todo' = [todo EXCEPT ![j] =
                  IF (Progress(j).processed + 1) % CommitInterval = 0
                  THEN <<"progress", "row">> ELSE <<"row">>]
    /\ UNCHANGED <<db, file, waiting, crashed>>

RefuseRow(j) ==
    /\ At(j, "row") /\ ~Done(j)
    /\ NextRow(j) = Invalid
    /\ Write(j, Only(Job(j), Refused(Progress(j))))
    /\ AfterRow(j)

\* The rows a row of the file writes: stock, sales and counters.
RowWritten(j, p, level, sales, progress) ==
    Over(Only(Stock(p), level), Over(Only(Sold(j), sales), Only(Job(j), progress)))

AvailableBugUnchecked(level) == TRUE
Available(level) == level > 0

\* create_sale(): the Sale is flushed, then adjust_stock() locks the stock row.
SellRow(j) ==
    LET p     == NextRow(j)
        level == See(j, Stock(p))
        sales == See(j, Sold(j))
    IN  /\ At(j, "row") /\ ~Done(j)
        /\ p # Invalid
        /\ Free(j, {Stock(p)})
        /\ \/ /\ Available(level)
              /\ Write(j, RowWritten(j, p, level - 1, [sales EXCEPT !.stocked[p] = @ + 1],
                                     Successful(Progress(j))))
           \* adjust_stock() raises and the row is counted as failed; the
           \* flushed Sale is not taken back.
           \/ /\ ~Available(level)
              /\ Write(j, RowWritten(j, p, level, [sales EXCEPT !.loose = @ + 1],
                                     Short(Progress(j))))
        /\ AfterRow(j)

CommitProgress(j) ==
    /\ At(j, "progress")
    /\ Publish(j)
    /\ own' = [own EXCEPT ![j] = <<>>]
    /\ Advance(j)
    /\ UNCHANGED <<file, waiting, crashed>>

FinalStatusBugAnySuccess(progress) ==
    IF progress.successful > 0 THEN "COMPLETED" ELSE "FAILED"

FinalStatus(progress) ==
    CASE progress.failed = 0     -> "COMPLETED"
      [] progress.successful = 0 -> "FAILED"
      [] OTHER                   -> "PARTIAL"

Finish(j) ==
    /\ At(j, "row") /\ Done(j)
    /\ db' = Over(Only(Job(j), [Progress(j) EXCEPT !.status = FinalStatus(Progress(j))]),
                  Over(own[j], db))
    /\ Release(j)
    /\ UNCHANGED <<file, waiting, crashed>>

\* The database aborts the session's transaction and frees its locks (deadlock
\* victim, lost connection).  The rows left before the next commit then fail
\* one by one, without effect, and that commit raises.
Abort(j) ==
    /\ At(j, "row") \/ At(j, "progress")
    /\ own' = [own EXCEPT ![j] = <<>>]
    /\ todo' = [todo EXCEPT ![j] = <<"except">>]
    /\ UNCHANGED <<db, file, waiting, crashed>>

ClosedBugForgotten(row) == row
Closed(row) == [row EXCEPT !.status = "FAILED"]

\* The except branch: roll back, mark the job as committed so far FAILED.
CloseFailed(j) ==
    /\ At(j, "except")
    /\ db' = [db EXCEPT ![Job(j)] = Closed(@)]
    /\ Release(j)
    /\ UNCHANGED <<file, waiting, crashed>>

\* The worker process dies; what waits and runs in it is gone.
Crash ==
    /\ waiting # {} \/ Running # {}
    /\ own' = [j \in Jobs |-> <<>>]
    /\ todo' = [j \in Jobs |-> <<>>]
    /\ waiting' = {}
    /\ crashed' = TRUE
    /\ UNCHANGED <<db, file>>

UploadNext ==
    \/ \E j \in Jobs :
          \/ Submit(j) \/ Start(j)
          \/ RefuseRow(j) \/ SellRow(j) \/ CommitProgress(j) \/ Finish(j)
          \/ Abort(j) \/ CloseFailed(j)
    \/ Crash

UploadSpec == UploadInit /\ [][UploadNext]_uploadVars

\* Jobs wait for each other's stock rows in a circle (of two).
WaitsFor(j, k) ==
    /\ At(j, "row") /\ ~Done(j) /\ NextRow(j) # Invalid
    /\ Stock(NextRow(j)) \in Locked(k)
Deadlocked(j) == \E k \in Jobs \ {j} : WaitsFor(j, k) /\ WaitsFor(k, j)

\* The event loop runs every task that can go on, waiters for the semaphore in
\* turn, and PostgreSQL aborts one of the transactions in a deadlock.
UploadFairSpec ==
    /\ UploadSpec
    /\ \A j \in Jobs :
          /\ SF_uploadVars(Start(j))
          /\ SF_uploadVars(RefuseRow(j) \/ SellRow(j))
          /\ WF_uploadVars(CommitProgress(j) \/ Finish(j) \/ CloseFailed(j))
          /\ WF_uploadVars(Deadlocked(j) /\ Abort(j))

------------------------------------------------------------------------------
Ended == {"COMPLETED", "PARTIAL", "FAILED"}

UploadTypeOK ==
    /\ \A p \in Products : db[Stock(p)] \in Nat
    /\ \A j \in Jobs :
          /\ db[Job(j)].status \in {"NEW", "PENDING", "PROCESSING"} \cup Ended
          /\ db[Sold(j)] \in [stocked : [Products -> Nat], loose : Nat]

Account == INSTANCE StockAccount WITH
    Accounts <- Products,
    onHand   <- [p \in Products |-> db[Stock(p)]],
    booked   <- [p \in Products |->
                   InitialStock[p]
                     - SumFunction([j \in Jobs |-> db[Sold(j)].stocked[p]])]

\* However jobs overlap, are aborted or die with their worker, a commit takes
\* off the stock rows what its sales say and never more than is there.
ImplementsAccount == Account!Spec

\* A job counts as successful exactly the sales it left behind that took their
\* unit, at every commit of the job and after any abort or crash.
CountsMatchSales ==
    \A j \in Jobs : db[Job(j)].successful = SumFunction(db[Sold(j)].stocked)

\* A job reported COMPLETED recorded a sale for every row of its file, one
\* reported PARTIAL for some and not for others.
StatusTellsOutcome ==
    \A j \in Jobs :
        LET recorded == SumFunction(db[Sold(j)].stocked)
        IN  /\ db[Job(j)].status = "COMPLETED" => recorded = Len(file[j])
            /\ db[Job(j)].status = "PARTIAL" => recorded \in 1..(Len(file[j]) - 1)

\* A job is not "stuck in PROCESSING forever" while its worker lives: neither
\* the semaphore, nor another job's locks, nor an aborted transaction stop it.
JobsEnd ==
    \A j \in Jobs :
        db[Job(j)].status = "PENDING" ~> db[Job(j)].status \in Ended \/ crashed

(* What the code's documentation says and these steps do not keep.         *)

\* create_sale() is to "record a sale and deplete inventory atomically": there
\* is no sale whose unit was not taken.
NoLooseSales == \A j \in Jobs : db[Sold(j)].loose = 0

=============================================================================
