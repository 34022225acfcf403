# TLA+ models of ModishLog

ModishLog is a multi-tenant back office for shops that buy goods abroad: purchase
orders in foreign currency, landed cost per delivered batch, sales costed first in
first out, payments, subscriptions, imports from a previous point of sale, prices,
exchange rates and cash-flow projections.  The core is `backend/src`, a FastAPI
application over PostgreSQL (SQLAlchemy, asyncpg).  These modules model its
bookkeeping: what must still add up after any sequence of requests, and what is left
of that when requests overlap, fail half way, are delivered twice, or lose the
process that served them.

Paths below are relative to the repository.  "TLC" is the model checker, which
explores a small instance completely; "TLAPS" the proof system, whose theorems hold
for every value of the constants.

## 1. The system

### Parts, state and operations

| Part | State | Operations that change it | Hard behaviour | What makes it correct | Module |
|---|---|---|---|---|---|
| `inventory` | `InventoryLevel.quantity_on_hand` per product and variant, `StockMovement`, `InventoryBatch` (costed, dated), `FifoConsumption` | `adjust_stock`, `create_batch`, `fifo_deduct`, `reverse_fifo_consumption`, manual adjustment | a figure kept by increments from six handlers; a FIFO walk with equal dates; row locks | stock = movements; batch + ledger = received | StockLedger, SaleTx, Fifo |
| `sales` | `Sale` (quantity, price, discount, cogs, profit, status), `LotConsumption`, `SaleBulkUploadJob` | create, edit, void, bulk upload in the background | unlocked status checks; edits reverse and redo two ledgers; periodic commits; a killed worker | a voided sale holds nothing; counters tell what was recorded | StockLedger, SaleTx, BulkUpload |
| `orders` | `PurchaseOrder` (status, total, payment status), `OrderLineItem` (quantity, `units_remaining`), `OrderPayment`, `PurchaseReturn` | status workflow, delivery, revert, line edits, cost correction, payments, returns | unlocked reads; batches and stock row locked in two orders; a cached payment status | delivery and books match the status; costed batches are kept | StockLedger, OrderTx, OrderPayments |
| `core` database and query helpers | the database session of a request | `get_db` commit/rollback, `reverse_ledger_consumption`, `variant_or_untagged_filter` | READ COMMITTED, row locks | – | RowLocks |
| `billing` | `Business.subscription_status`, `past_due_since`, `WebhookEvent` | webhook events, the daily grace job | redelivery, reordering, the job against a webhook | applied once; clock from the first failure; grace ends | Billing |
| `auth` | users, lockout counters, refresh tokens, denylist, the business's deletion | registration, login, refresh, logout, reset, roles, deletion request, cancel and purge | token races; a purge racing a cancellation | tokens current; someone in charge; a purge is final | Accounts |
| `data_import` | `MigrationJob`, imported rows | extract or upload, validate, confirm, import, recompute, roll back | double confirmation, crash while importing, rollback of what was sold since, a shop that changes between validation and import | a rollback explains every unit; a job is imported whole | ImportJob, Migration |
| `pos_sync` | watermarks, inserted sells and purchases | the loop of every server process | retries, two workers, a poisoned purchase | what the watermark passed is in the shop | PosSync |
| `products` | catalogue, `has_variants`, variants, `PriceHistory`, categories | edits, variants, deactivation, filing | flags derived from counts; a deletion racing a filing | history tells the price; references exist | Catalogue, Directory |
| `stockcount` | count sheets and lines | update a line, finalise | finalising while a line changes | a final count stays | Catalogue |
| `pricing` | targets, category defaults, scenarios, recommendations | suggest, save, accept, apply | which policy applies | suggestions keep the margin | Pricing, Catalogue |
| `fx` | rates, alerts, locked exposure, forecasts | ingest, sync, live rate, backfill, lock, train | rates from everywhere; replacing a generation | every crossed alert fires; one generation | FxRates |
| `cashflow` | loans, costs, cached projection, snapshots, liquidity alerts | edits, projection, scenarios, runway, triage | a stale cache; order inside one request | the next reader sees the edit | Cashflow |
| `ai_engine` | recommendations, reorder suggestions | generate, apply, dismiss, expire | a status read earlier | decisions stand | Advice |
| `customers`, `suppliers`, `locations`, `expenses`, `settings` | single rows, two ledgers, the API key | create, edit, deactivate, delete | check and write in two steps | references exist, codes unique | Directory |
| `scripts` | – | grace-period script, POS client and wipe | – | – | Billing, PosSync |
| invoice schemes, `reports`, `dashboard`, `audit`, middleware, e-mail, frontend, deployment | – | – | – | – | none |

### How they interact

A request is one database transaction (`core/database.py` `get_db`): it commits when the
handler returns and rolls back on any exception.  Services call each other inside it:
`sales` calls `inventory.adjust_stock` and `fifo_deduct`; an order's delivery calls
`adjust_stock` and `create_batch` and invalidates the projection; a void calls the two ledger
reversals; an ingested rate triggers alerts and a recommendation.  Requests
only meet in the database.  `SELECT ... FOR UPDATE` guards stock rows and batches;
sales, orders, lots, payments, users, products and the business are read without a lock.
Background jobs (bulk upload, import) run in the worker with sessions of their own; the
grace job runs daily from `.github/workflows`; the POS loop (`main.py`) runs in every server
process.  The payment gateway calls the webhook, and may call again.

The full list of hazards, with the line where each bites and the property that
covers it, is in `PROJECT.json` under `hazards`.

## 2. The modules

```
  StockLedger    extends Fifo                 StockLedger_proofs   MCStockLedger
  SaleTx         extends Fifo, RowLocks       SaleTx_proofs        MCSaleTx
  OrderTx        extends RowLocks             OrderTx_proofs       MCOrderTx

  ImportJob      extends Fifo, RowLocks  \                         MCImportJob
  Accounts                               /    Tenant_proofs        MCOffice

  Catalogue      extends RowLocks        \
  Pricing        extends Catalogue        |   Catalogue_proofs     MCCatalogue
  BulkUpload     extends RowLocks        /                         MCBulkUpload

  PosSync, Migration, Directory          \                         MCOffice
  Billing        extends RowLocks         |   Office_proofs        MCBilling
  OrderPayments  extends RowLocks        /                         MCOrderPayments

  FxRates                                \
  Cashflow       extends FxRates          |   Treasury_proofs      MCTreasury
  Advice         extends Cashflow        /
```
SaleTx and BulkUpload implement StockAccount.  Every `_proofs` module also extends SumTheorems.

`MC<module>.tla` instantiates modules for TLC; `MC<module>_<run>.cfg` is one run.
Definitions named `...Bug...` are plausible mistakes in the definition that follows
them.  They are used only to check that each property can fail.

**Fifo** – `Allocations(avail, age, quantity)`: what a first-in-first-out walk may take.
Among rows of equal date the database's order is arbitrary, so it is a set.

**StockLedger** – the books of one product; one action per request:
`CreateSale`, `InsertPosSale`, `UpdateSaleTerms`, `UpdateSaleQuantity`, `VoidSale`,
`Deliver`, `RevertDelivery`, `ReplaceLines`, `PurchaseReturn`, `CorrectCosts`,
`AdjustManually`.  Each is the whole transaction; a false guard is the exception that
rolls it back.  An order is its rank in the lot order; a *slot* `<<order, row>>` is a
line of the order and also the batch the line becomes.  `onHand` is the stock row,
`units` is `units_remaining`, `fifoUsed` and `lotUsed` are the two ledgers.

**RowLocks** – PostgreSQL READ COMMITTED as the services use it.  `db` is the committed
rows; `own[t]` holds the rows transaction `t` locked with its own values, so
`DOMAIN own[t]` is its locks; `See` is a plain SELECT, `Free` a lock wait, `Publish` a
commit.  `todo[t]` is the statements left.  What the code read earlier and uses
later lives in the other modules' per-session variables (`was`, `seen`, `loaded`,
`orderLoaded`, `intent`, `request`).

**SaleTx** – `create_sale`, `update_sale` (quantity) and `void_sale` as sequences of
statements (`Steps`) on one product with variants.  `Wanted` is the rows a request's next
statement locks.

**StockAccount** – what the services promise about stock: an account that only changes
together with the booking of what moved, by as much, and never below zero.  SaleTx
and BulkUpload implement it, both checked and proved.

**OrderTx** – one order: status changes, cancelling, the revert, replacing its lines,
and a sale as far as it locks the same stock row and batches.

**OrderPayments** – one order's payments: record, edit, void, the derived status,
changes of the total.  Money counts in units of the column's last decimal, so the
rounding of a conversion is the code's (half up).

**Billing** – one business: webhook events and the grace job.

**BulkUpload** – upload jobs, their semaphore, periodic commits, aborted transactions
and a killed worker.

**Accounts** – one business, its users, tokens, and its deletion.  A login is a read and
a later finish; a request is let in by its access token and acts later; the purge job
selects and writes in two steps.

**Catalogue** – a product's price and cost with their history, its variants, a pricing
recommendation, price advice, and one line of a stock count; every request loads, flushes
the columns that differ and commits.  **Pricing** extends it with targets, category
defaults, suggestions, mix and scenarios.

**FxRates**, **Cashflow**, **Advice** – each extends the one before: rates, alerts,
backfills, locked exposure and forecasts; loans, costs, the cached projection and what
hangs on it; the recommendations drawn from all of these.  A request that awaits
between reading and writing is two steps.

**ImportJob** – one migration job beside the trading shop: validation, confirmation,
import, the two recomputes product by product, rollback, a crash.

**Migration** – what is carried: extraction from the POS or files, mapping, deduplication,
validation and loading, job after job.

**PosSync** – the synchronisation loops, the watermarks, imports with their rollback and the wipe
script.  A cycle asks for one page of sells and one of purchases (`per_page=2000`): a full page is any
`pos.page` of the rows, since their order is the POS's.  A sell's amounts may be such that no conversion
takes them (`pos.garbled`).

**Directory** – categories and filing, customers and suppliers with their ledgers,
locations, expenses, and the API key in settings.

**SumTheorems** – lemmas about sums over finite sets and functions (section 4).

### Modelling decisions a reader should know

- No relationship keeps an `InventoryLevel` or a batch loaded and the session's identity map is
  weak, so `SELECT ... FOR UPDATE` returns the row as it is once the lock is held.  A
  row loaded into a local variable (the sale, the order, the payment, the business)
  stays as loaded.
- A flush updates the columns that differ from what was loaded, no others
  (`Changed` in OrderPayments, `Updated` in Billing and Catalogue).  An edit of an order's lines in OrderTx
  keeps the price, so the order row is not written.
- A statement takes all its row locks at once.  Deadlocks between two statements that
  lock the same set of rows in different orders are therefore not seen; between
  statements of different requests they are (`NoDeadlock`, `NoMutualBlock`, and TLC's deadlock
  check where a run has it).
- A bulk-upload row keeps the stock row locked until the job's next commit.  After a
  database error the rest of the rows up to that commit fail without effect, the commit raises and
  the `except` branch marks the job FAILED.  Both are in `Abort` and `CloseFailed`.
- A sale inserted by `pos_sync` moves no stock and has no cost; StockLedger counts its
  units as sold outside the books.
- Migration counts half units, because the POS sells fractions and the importer rounds or
  truncates them, differently on each path.  Stock adjustments are loaded row by row, as the POS lists them, so a loss
  listed before the stock it is taken from fails the whole import (`BelowZero`).
- Ghost variables and fields that only properties (and bounds) read: `manual`, `reverted`
  (StockLedger); `moved`, `voids` (SaleTx); `sold`, `overlapped` (OrderTx); `applied`,
  `failedOn`, `overlapped` (Billing); `crossed` (OrderPayments); `crashed` (BulkUpload, ImportJob); `late`,
  `disturbed` and a token's `raced` (Accounts); `blurred`, `crossed`, `miscounted` (Catalogue);
  `heard`, `crowded` (FxRates); `crossed` (Cashflow); `tally.overlapped` (Advice); `doubled`
  (ImportJob); `lapses` (PosSync); `promised` (Directory).

## 3. The runs

Every run below ends in at most about three and a half minutes with two workers; the figures are
distinct states.

| Run | Shows | Bounds, and why they are enough |
|---|---|---|
| `ledger_books` (183,827) | stock = what moved; lot + ledger = delivered (while never reverted); cost stamps = cost of the ledger rows; `LedgerInv`, the inductive invariant of the proofs | two scopes of one specification: *quantities* (two orders in either date order, two delivery dates: lot order and batch order differ, sales straddle batches) and *amounts* (one order with everything that moves stock or cost: two landed costs of the untagged batch, adjustments either way, a returned unit); 1 variant plus untagged stock, 2 sales of 1 or 2 units |
| `sales_overlapping` (501,289) | overlapping requests implement the stock account; no unit is costed twice; no circle of requests waiting for row locks, unless two edit sales of different variants | 2 requests at a time, 2 sales, 2 variants that share two untagged batches; batch dates opposite to order dates; at most 2 units in a row. It takes two shared batches for edits of different variants to wait in a circle, 30 steps deep. Batches of a variant's own are in the proofs, for overlapping requests, and in `ledger_books` |
| `order_overlapping` (232,748) | stock = batches + initial less sold; a batch drawn on is never deleted; while nothing overlaps, batches and lots match the status | 2 requests at a time, 3 line rows, 2 batches: enough for a delivery, its revert, an edit and another delivery |
| `payments_overlapping` (324,084) | a request that overlaps no other leaves the order with the status its payments give, and does not overpay it, whatever overlapping ones did before | 2 requests at a time, 2 payments, the order's currency, naira and a third one, one amount whose conversions round and do not, 2 totals; of two requests under way one pays in the order's currency (`OneConverts`) |
| `billing_events` (55,621) | each event once; the clock from the first failure; no dated grace period lasts for ever | 3 events, 2 requests at a time, one day of grace and a day more; events differ by their type only, so one order of the types stands for all (`KindsInOrder`), and only failures and successes come twice (`FewRepeated`) |
| `upload_jobs` (24,500) | stock and counters agree at every commit; uploads implement the stock account; jobs end | 3 jobs, 2 slots, commits every 2 rows, files in opposite orders (`OppositeFiles`), one with a bad row, stock that runs out; aborts, a crash |
| `catalogue_requests` (783,444) | the last history row tells the price; a product that asks for a variant has one; a final count stays; suggestions keep their margin | a behaviour has requests of Catalogue (2 sessions, 3 requests, 2 variants, 2 prices) or of Pricing (2 requests on margins 20, 60 and 100 percent) |
| `import_jobs` (133,684) | a costed sale was deducted; stock and batches are explained; an import ends | 2 sessions, one product the shop had and one the import creates, at most 2 imports, 1 live request, an imported sale and an adjustment below zero |
| `office_requests` (367,390) | the watermark never passes a sell the shop lacks; a migration is whole and leaves the source's stock; references exist; every sell arrives; refresh tokens are current; someone is in charge; a purge is final; a deletion is carried out or cancelled | nine parts that touch no row of each other, a behaviour is about one (`about`): pos (2 workers, 2 sells or a sell and a purchase, 1 incident; with pages of one row, two sells and no incident), migration (2 products of one name, 1 sell, 2 purchases of one reference, a loss listed before the opening stock, 2 jobs), categories, filing, customers, suppliers, records, settings, accounts (an owner and a colleague, 2 sessions of 2 requests, 4 instants; access shorter than grace, as configured) |
| `treasury_requests` (1,562,633) | every crossed alert fires; one generation of forecasts; the projection is current; high risk is alerted; decisions stand | 2 requests at a time, 2 quotes, 2 rates, 2 months, 3 requests; a behaviour is about alerts, the EUR rate, history, books or advice (`market.about`) |
| `eur_moves` | *violated*: `EurMovesRecommended` | the same instance |
| `expense_deleted` | *violated*: `DeletedExpensesGone` | the same instance as `office_requests`, two names |

`CHECK_DEADLOCK FALSE` stands where the model really runs out of work (every sale voided,
every event recorded, every job ended, every bound reached).  Symmetry is used for
sales, sessions and variants in runs without liveness only.  Random simulation
with larger bounds found no further violation.

Definitions that hold under the cfg of their module and are in no run, being proved:
`StatusTellsOutcome` (BulkUpload), `OwnTargetWins` (Pricing), `BatchConserved` (StockLedger), `LedgersWithinSale`
(StockLedger, SaleTx), `MovementsExplainStock` (SaleTx) and `PurgeOnlyWhenDue` (Accounts).

### Fairness

- Billing: the scheduled workflow starts the job daily and not every run
  fails; a request that can go on takes its next statement.  Hence strong fairness of
  the job's start and of each statement (a rollback may come between), and days pass.
  Nothing is assumed of the gateway.
- BulkUpload: the event loop runs every task that can go on and `asyncio.Semaphore`
  wakes its waiters first in, first out, hence strong fairness of `Start` and of a
  row (which waits for a lock others take in turn), weak fairness of a job's commits;
  PostgreSQL's deadlock detector aborts one transaction of a circle.  Nothing is assumed to
  abort otherwise, and `JobsEnd` ends with the worker's life.
- Accounts: the purge job runs daily and days pass, hence weak fairness of its two steps and
  of the clock.  Nothing is assumed of the team.
- ImportJob: the event loop runs every session on (weak fairness of `SessionStep`); an exception
  may end any of them, and a crash ends the promise.
- PosSync: the loop catches every exception and runs as long as its process (weak fairness of
  each worker's `LoopStep`).  Nothing is assumed of the POS; outages are bounded.  `SellsReachTheShop`
  promises nothing while a sell or a purchase the shop cannot take fails every cycle (`Poisoned`), or
  the sells do not fit on the one page (`Crowded`).

### Statements the code does not keep

Two are listed runs with findings: a change of EURUSD above 3% makes the ingestion fail
(`eur_moves`, `cashflow/service.py:1153`: the recommendation lacks its business), and a
deleted expense stays (`expense_deleted`, `expenses/service.py:129`: `AsyncSession.delete()` is
not awaited).

The others are definitions in the last part of their modules, next to the words of the
repository they state.  Each is refuted by TLC when it replaces the properties of the cfg
named.

| Property | cfg | What happens |
|---|---|---|
| `LotsWithinOrder` (StockLedger) | `MCStockLedger_books` | lots follow order dates, batches delivery dates, so a delivery may be reverted although a sale drew on its lots; delivered again and the sale voided, the line holds more than was ordered |
| `ProfitMatchesCogs` (StockLedger) | the same, `Prices = {2, 3}` | a price edit leaves `fifo_gross_profit` at the old total |
| `DiscountWithinGross` (StockLedger) | the same, `Discounts = {0, 4}` | an edit skips the check `create_sale()` makes |
| `ReturnsOnlyReceived` (StockLedger) | the same | a return is accepted for an order not received |
| `VoidedOnce` (SaleTx) | `MCSaleTx_overlapping` | two voids pass the unlocked status check; stock is credited twice |
| `VoidedReleased` (SaleTx) | the same | an edit overlapping a void writes ledger rows nobody releases |
| `LotConserved` (SaleTx) | the same | sales of two variants overwrite each other's deduction from an untagged lot, which is read without a lock |
| `NoDeadlock` without `~EditsCross` (SaleTx) | `MCSaleTx_overlapping` | edits of sales of two variants each put back an untagged batch, which locks it, and then lock every untagged batch that has units: each waits for the other's (`sales/service.py:456`) |
| `ValidTransitions`, `DeliveredNotEdited` (OrderTx) | `MCOrderTx_overlapping` | a status checked on an unlocked order is stale: a cancelled order goes on, a delivered one is edited |
| `DeliveryMatchesStatus` without `~overlapped` | the same | two deliveries of one order both stock it |
| `NoMutualBlock` (OrderTx) | the same | a revert locks batches, then the stock row; a sale the other way round: a deadlock, although a comment says one simply waits |
| `StatusInSync` (OrderPayments) | `MCOrderPayments_overlapping` | `update_order()` changes the total and not the payment status |
| `NeverOverpaid` (OrderPayments) | the same | two payments pass the same balance check; `FitsTheTotal` is what is left of it |
| `OriginalsConvert` (OrderPayments) | the same with one payment, `Amounts = {2, 5}`, `Rates = {2, 3}`, `PaymentsSpec` | two overlapping edits, of the rate and of the amount, write a column each: what is kept of the payment does not convert to what counts |
| `ReadOnlyFromPastDue` (Billing) | `MCBilling_events` | the job writes READ_ONLY over a charge that succeeded meanwhile |
| `PastDueDated` (Billing) | the same | a failure overlapping a success leaves a past-due business without a date, which the job never finds |
| `ActiveCleared` (Billing) | the same | `subscription.create` makes the business active and keeps the old date |
| `NoLooseSales` (BulkUpload) | `MCBulkUpload_jobs` | a row refused by `adjust_stock()` leaves the flushed `Sale` in the session, and the next commit keeps it |
| `OwnerCanCancel` (Accounts) | `MCOffice_requests` | the request for deletion revokes every refresh token (`auth/service.py`) and a scheduled business cannot log in, so once the access token has run out nobody can cancel |
| `NothingInflated` (ImportJob) | `MCImportJob_jobs` | a deducted imported sale is voided, which puts its units back by an untagged movement; the rollback then undoes the tagged deduction and puts them back again, and reports nothing skipped |
| `StoredOnce` (PosSync) | `MCOffice_requests` | two workers (`docker-compose.prod.yml` starts two), or a sync and an import, insert a sell both |
| `DiscontinuedResolve` (Migration) | the same | the transformer knows active products only: a purchase of a discontinued one is an error for good |
| `FiledStayFiled` (Directory) | the same | `delete_category()` checks, then its flush nulls the category of whatever was filed since |
| `SoldToStayActive` (Directory) | the same | a sale made between the two steps of a deactivation |
| `CustomerOwes`, `SupplierIsOwed` (Directory) | the same | voided sales, cancelled orders and voided payments count in the ledgers |
| `SecretUsable` (Directory) | the same | two first saves of an API key leave two rows, and every later read raises `MultipleResultsFound` |

### What else the models show

Behaviours a reader of the code may not expect; the models contain them.

- **Migration.** A second import from the same POS fails at confirmation (categories and
  locations are unique, and what stands for deleted products is never deduplicated); quantities of
  CSV sales are truncated; a receipt line without a number goes to the last active product of the
  name; a list the POS fails to return counts as empty; purchases sharing a reference are merged; a
  return of a sale voided meanwhile fails the whole job; two suppliers or customers of one name make the next import raise
  `MultipleResultsFound`.
- **ImportJob.** A stale decline may cancel an imported job; deleting an imported batch takes the
  cost rows of live sales with it; a crash leaves the job IMPORTING, which only a validation revives.
- **PosSync.** The watermark is written blindly and may move back (harmless: sells are looked up by id); one
  purchase whose number is taken, or one sell with an amount such as `1,000`, fails every cycle, all sells included; the
  watermark passes what a full page left out below its last id (`Overtaken`); the wipe keeps the watermarks,
  so wiped sells never come back; an import undone after the watermark passed loses its sells.
- **Accounts.** Activating a member does not count seats; an ADMIN may demote the OWNER; the lockout
  count is written back from the loaded row; a logout fails whole if Redis is unreachable; a login that read the user
  before a password reset or a deletion request and finishes after it keeps its refresh token (`raced`, which
  `RefreshTokensCurrent` exempts).
- **Catalogue, Pricing.** `check_mix_drift_alert()` never stores its alert: the row lacks the business the table requires
  (no route calls it, and its tests mock the session).  A dismissed pricing recommendation can still be applied; an
  applied AI recommendation writes no history; reactivating a variant never sets `has_variants`; a target of 100% divides
  by zero.
- **Treasury.** A backfill of a day with two provider rates raises `MultipleResultsFound`; live
  rates and backfills never check alerts; forecasts train on the oldest 365 rows; overlapping trainings leave two
  generations; a stressed projection becomes the latest; sales, new orders and payments do not invalidate the projection; overlapping
  triage requests may create two active plans; applying an expired recommendation answers 410 and rolls EXPIRED back.
- **Directory.** `SECRET_KEY` is no longer tried once `FERNET_KEYS` is set.

## 4. The proofs

Each `<module>_proofs` proves its theorems for every value of the constants that satisfies
the named assumptions of `<module>` (TLC evaluates those in the module's run).  A safety property is
proved from an inductive invariant: it holds initially, every action keeps it, and it implies
the property.  One lemma per action or statement carries the induction step; TLC checked
the invariants on the instances of section 3 before they were proved.

**SumTheorems.** Most properties are about sums over functions, and the sum operators of the community
modules are recursive folds.  These lemmas reduce a fold to its values without an induction principle that takes
an operator: a set of subsets that contains `{}` and grows by single elements contains every
finite set (`FiniteInduction`, from the well-foundedness of strict inclusion).  From it come the
existence and uniqueness of the fold, and the facts cited everywhere: taking one element out (`SumTake`),
changing one value (`SumChanged`), adding functions (`SumPlus`), comparing them (`SumAtMost`), dropping zeroes
(`SumWithin`), summing over what an injective function makes of a set (`SumMapped`).

**StockLedger_proofs.**

- `LedgerSafety`: `Spec => []LedgerInv`, and from it `TypeCorrect` (no stock row, batch or lot is
  ever negative), `NoCrossVariantDraw`, `VoidReleases`, `CostHistorySafe`.  `LedgerInv` also says
  that only delivered orders have batches and only an existing batch holds units
  (`BatchesOfDelivered`).  None of its conjuncts is inductive alone: that a revert deletes no
  costed batch needs that ledger rows lie on delivered orders, which needs that a draw only takes
  from slots that hold units; that a void releases its own slots needs that a sale not recorded has no
  rows.  `DrawsBounded` (a draw takes at most what a slot holds, and only from the sale's own or untagged
  slots) gives `DepleteStep`, which carries the steps that cost a sale.
- `BooksInvHolds`: `Spec => []BooksInv`, and from it `StockConservedHolds`, `BatchConservedHolds`,
  `LotConservedHolds`, `CogsMatchesLedgerHolds`, `LedgersWithinSaleHolds`.  `BooksInv` adds the sums to
  `LedgerInv`, and that a sale without a cost holds nothing (`UncostedBare`), without which the bound of a
  sale's ledgers would not survive an edit of its quantity.

  Assumptions: orders, sales and rows are finite; orders are naturals, the untagged row is not
  a variant, line choices and amounts are naturals, quantities and prices positive, `None` is no integer.

**SaleTx_proofs.** Any number of overlapping requests.

- `AccountInvHolds`, `AccountImplemented` (`Spec => ImplementsAccount`, the refinement of StockAccount: initial
  state and every step) and `MovementsExplainStockHolds`.  The invariant: a row is locked by one
  transaction only (`Exclusive`), so what a transaction keeps of a stock row it locked is the committed value and
  its own movement (`Booking`); the statements a request has left (`Planned`) book once and commit last.  `Quiet`
  statements touch no stock row; `AdjustInv` carries `adjust_stock()`, `CommitBooks` the commit.
- `NoDeadlockHolds`, from `WaitInvHolds`.  `WaitInv` (`Orderly`) says which rows a request may hold by the statements
  it has left.  Statements come in one order (`Rank`), and a request that holds a row another one wants is further on than
  that one, or both are edits at the same statement (`HolderAhead`).  So in a set of requests that all wait for one another,
  the one furthest on waits for nobody (`NoCircle`), unless edits of sales of different variants are among them (`EditsCross`).
- `LedgersInvHolds`, and from it `BatchConservedHolds`, `LedgersWithinSaleHolds`, `TypeCorrect`.  Statement by
  statement (`Working`), in what a request sees, the units its own ledger names and those left in the
  batches add up to what is committed; what is committed balances because a commit publishes locked rows only.

  Assumptions: finite sets of sales and slots, natural quantities; nothing about the sessions.

**OrderTx_proofs.** Any number of overlapping requests, lines and batches.

- `OrderInvariant`: `Spec => []OrderInv`, and from it `LevelMatchesBatchesHolds`, `CostedBatchesKeptHolds` (an action
  property) and `OrderTypeCorrect`.  Rows are locked by one request at most (`Exclusive`).  What the statements a request
  has left say of the rows it holds (`Doing`) ends in `Settled`: it has moved the stock row (`Moved`) by what its batches
  received (`Gained`), less the unit it sold, and any batch it deletes is untouched.  A commit then adds equals to equals.
- `DeliveryMatchesStatusHolds` adds `LoneInv`: while requests come one at a time, what the only one under way
  has loaded is what is committed, and one delivery has made exactly the batches of the order's lines.

  Assumption `OrderAssumption`: a positive quantity of a line, natural stock, a line at least.

**Tenant_proofs.** Two specifications about one business.

- ImportJob: `ImportInvHolds`, and from it `CostedMeansDeductedHolds`, `StockExplainedHolds`, `BatchesConservedHolds`.  Imports,
  recomputes, rollbacks and the trading shop write the same rows, each in a session of many statements, so none of the three is
  inductive.  `ImportInv` says that four books balance (`StockBook`, `BatchBook`, `CopyBook`, `SaleBook`, together `Books`) in the
  committed rows and, once a session that recomputes has locked its job, in what that session sees (`Laid`); what each kind of
  session holds at each of its statements (`LoadedRows`, `RecomputingRows`, `RollingBackRows`, the last by what it has credited
  and cleared so far); that the rows of different sessions are apart (`RowsApart`); and that no sale names a copy that is
  gone (`NoneReferring`).
- Accounts: `AccountsInvHolds`, and from it `RefreshTokensCurrentHolds`, `SomeoneInChargeHolds`, `PurgeFinalHolds`,
  `PurgeOnlyWhenDueHolds` (an action property), for any team, sessions and lifetimes.  The invariant says what a login or request
  under way may have read before a password, a role or the business changed (`Requests`), and what the purge job has selected (`Purges`).

  Assumption `ImportAssumption`: finitely many sales of positive quantities, natural opening stock and purchases; a product is
  deduplicated or created, not both.

**Catalogue_proofs.** Three specifications.

- Catalogue: `CatalogueInvHolds`, and from it `PriceExplainedHolds`, `SellableVariantsHolds`, `CountFrozenHolds` (an action property).
  `CatalogueInv` says of a request under way that it has locked its own rows only (`RowsApart`, `WritesOwn`) and, while no other of
  its kind overlapped it, that what it has loaded is what is committed: the prices (`PricesKnown`), the number of active variants
  (`Checked`), the open count (`StillDraft`).
- Pricing: `SuggestInv` follows the cost, the margin policy and the target through every path of a suggestion to
  `SuggestionsKeepMarginHolds`; `OwnTargetWinsHolds` is an action property.
- BulkUpload: `UploadInvHolds`, and from it `CountsMatchSalesHolds`, `StatusTellsOutcomeHolds` and `UploadImplementsAccount`, the
  refinement of StockAccount.  `UploadInv`: what a job has recorded since its last commit (`JobInv`) is what the stock rows it
  has locked lack, and jobs hold different rows (`Apart`), so that a commit is one booking, and an abort or a kill none.

  Assumptions: prices, costs and the rate are positive, margins between 0 and 100 percent (`CatalogueAssumption`,
  `PricingAssumption`); finitely many jobs and products, a commit interval and a slot at least (`FilesAssumption`).

**Office_proofs.** Five specifications that share no row.

- `FilesSoundHolds` (Directory): whatever two-step requests overlap, references exist, names and codes are unique,
  categories have two levels.  The invariant adds what each clerk's first step has read (`Desks`).
- `PosInvariant`, `WatermarkCoveredHolds` (PosSync).  The property alone is not inductive: a cycle writes a watermark it
  chose before others stored, failed or wiped.  `PosInv` says of the committed watermark (`MarkStands`) and of every one
  about to be written (`Reaches`, in `CycleStands`) that it is a listed sell, those up to it passed or about to be; it rests
  on what every step keeps (`Grows`: listed and passed sells stay so, a sell finalised below another is late) and on an import
  keeping the shop from the wipe (`ImportStands`).
- `MigrationInvariant`, `ValidatedWholeHolds`, `StockAsSourceHolds` (Migration).  `MigrationInv`: what was validated resolves to a product of the upload or to one
  that is made up (`ValidatedStands`), whatever the shop has by now, and a sale's transaction is its job and sell
  (`TransactionsStand`); purchases are fetched whole or not at all, for every product or none, adjustments as the POS has them (`DataStands`); a SKU is one
  product's (`SkusUnique`).  Both properties are action properties, about the step that completes a job: once it is complete, the shop may change its rows.
  The stock needs that a product of the upload is one row of the shop and no other (`IsInternal`): two rows with its barcode or
  a slug the shop has make the load fail, and SKUs are unique.  The items delivered then correspond one to one to
  the lines bought, the rows adjusted to the adjustments listed, and `SumMapped` equates the sums.

- `AppliedOnceHolds`, `ClockHolds` (Billing).  Redelivered and overlapping events are applied at most once each (the
  primary key of `WebhookEvent` is a row lock until the commit); while requests do not overlap, the grace
  period counts from the first unpaid failure.  The invariant relates what a request has loaded to what is committed
  while it is alone (`Loads`, `ClockInv`).
- `StatusFollowsPaymentsHolds`, `FitsTheTotalHolds` (OrderPayments, action properties), from `PaymentsInvariant`.  The invariant
  says what each request holds, has read and will write (`PaymentShapes`) and, unless another was under way when the latest
  began, that the one there is has loaded what is committed, that its payment fits the balance if it raises what is
  paid, and that the status it will write is the one its own view of the payments gives (`OneByOne`, `Running`).  What
  requests that did overlap left behind is anything of the right type.

  Assumptions: the bounds are naturals; products of the POS are positive numbers, what is returned was sold, purchases and adjustments are
  finitely many, of positive quantities; `Gone` is no row; no
  event is named like the job; finitely many payments, positive amounts and rates (`MoneyAssumption`, `CurrencyAssumption`,
  `PaymentsAssumption`).

**Treasury_proofs.** The three modules of the treasury, each with an invariant about what a request has read.

- `FxInvariant`, and from it `AlertsFireHolds`, `OneGenerationHolds`.  An observation checks the alerts in one step and
  triggers them in another; between the two an alert may be created, edited or deleted.  `Noticed`: it will still
  trigger all its rates cross, but for the alerts edited since, for which the edit starts anew.  `Replacing`: unless two
  trainings replace the forecasts at a time, the one that is about to has found all there are.
- `CashInvariant`, and from it `ProjectionCurrentHolds`, `HighRiskAlertedHolds`.  `Alone`: unless projections overlap, one
  request at most projects, its stamp is later than that of what is shown, and it has read the books its own change
  leaves (`Covers`); orders placed meanwhile only add to what is owed.  `HighRisk` follows a month's rating through sums and roundings, for every projection.
- `AdviceInvariant`, and from it `DecisionsStandHolds` (an action property): until requests overlap, what a request will mark is still pending, keys
  are unique, and a generation's number is above all.
- `TreasuryInvariant`: the composed specification keeps the first two invariants and the four safety properties.

  Assumptions (`FxAssumption`, `CashAssumption`, `AdviceAssumption`): finitely many positive rates, one at least; positive amounts, a month at least; natural bounds.

Only model-checked: liveness (`GraceEnds`, `JobsEnd`, `DeletionEnds`, `ImportsEnd`, `SellsReachTheShop`), because fairness and
`ENABLED` are beyond the prover.  Every safety property a passing run checks is a theorem.

## 5. What is left out, and the plan

Left out of modelled parts: returns of single sold units and multi-line sale
transactions, quick quotes, order numbers (`_generate_order_number` relies on the
unique column), file export, low-stock alerts and reports, the checkout call
to the gateway, audit rows, `current_period_end`; exposure reports, Monte Carlo runs and the numbers of forecasts;
elasticity estimates; budgets and exports of the cash flow; prompts and answers of the language model; price history, alerts and reorder
suggestions of an import; CSV upload of products.  Rounding of landed costs and of
cost of goods is left out (costs are whole units); rounding of payments is not.

Not modelled at all, and why: reports and dashboards (read only), invoice schemes (no code advances
`next_number`, so no state depends on another), the audit log (append only, never read back), middleware, rate limits and e-mail
(I/O around a request; what a failed call does is in the callers), the schema migrations, the frontend.

What remains is to prove the liveness properties, once the prover supports `ENABLED`.
