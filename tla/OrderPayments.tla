--------------------------- MODULE OrderPayments ---------------------------
(***************************************************************************)
(* The payments of one purchase order: record_payment(), update_payment(), *)
(* void_payment(), the payment_status kept on the order, and update_order()*)
(* changing total_amount, statement by statement.  (That the order's       *)
(* status allows the change of its total is left to OrderTx.)              *)
(*                                                                         *)
(* Money counts in units of the last decimal of its Numeric column.        *)
(* fx_rate is NGN per unit of the other currency.                          *)
(***************************************************************************)
EXTENDS RowLocks, FiniteSets, Functions

CONSTANTS
    Payments,      \* ids of payments
    OrderCurrency, \* the currency of the order
    Currencies,    \* the currencies a payer may use
    Amounts,       \* amounts paid
    Rates,         \* exchange rates
    Totals,        \* the totals update_order() may give the order
    Tolerance,     \* PAYMENT_BALANCE_TOLERANCE
    Null           \* SQL NULL

ASSUME MoneyAssumption ==
    /\ Amounts \subseteq Nat \ {0} /\ Rates \subseteq Nat \ {0}
    /\ Totals \subseteq Nat /\ Tolerance \in Nat
    /\ Null \notin Nat
ASSUME CurrencyAssumption == OrderCurrency \in Currencies
ASSUME PaymentsAssumption == IsFiniteSet(Payments) /\ Null \notin Payments

Order      == <<"order", "order">>
Payment(p) == <<"payment", p>>

VARIABLES
    orderLoaded,   \* tx -> order total and payment_status it loaded
    intent,        \* tx -> [id, was, row]: the payment it writes, as loaded
                   \*       and as it wants it
    synced,        \* tx -> the payment_status it computed
    crossed        \* another request was under way when the latest one began

paymentVars == <<db, own, todo, orderLoaded, intent, synced, crossed>>

NoPayment == [status |-> "NEW", amount |-> 0, rate |-> Null,
              original |-> Null, originalCurrency |-> Null]
NotLoaded == [total |-> 0, status |-> "UNPAID"]
NoIntent  == [id |-> Null, was |-> NoPayment, row |-> NoPayment]

PaymentsInit ==
    /\ \E total \in Totals :
          db = Over(Only(Order, [total |-> total, status |-> "UNPAID"]),
                    [i \in {Payment(p) : p \in Payments} |-> NoPayment])
    /\ InitSessions
    /\ orderLoaded = [t \in Txs |-> NotLoaded]
    /\ intent = [t \in Txs |-> NoIntent]
    /\ synced = [t \in Txs |-> "UNPAID"]
    /\ crossed = FALSE

------------------------------------------------------------------------------
\* _convert_to_order_currency(), rounding half up.
ConvertBugDivides(amount, currency, rate) == (2 * amount + rate) \div (2 * rate)

Convert(amount, currency, rate) ==
    IF currency = "NGN" THEN (2 * amount + rate) \div (2 * rate)
    ELSE amount * rate

\* derive_payment_status()
PaymentStatus(paid, balance) ==
    CASE paid = 0             -> "UNPAID"
      [] balance <= Tolerance -> "PAID"
      [] OTHER                -> "PARTIAL"

\* The sum of COMPLETED payments a session sees.
PaidIn(rows) ==
    SumFunction([p \in Payments |->
        IF rows[Payment(p)].status = "COMPLETED" THEN rows[Payment(p)].amount
        ELSE 0])
PaidSeenBugCommitted(t) == PaidIn(db)
PaidSeen(t) == PaidIn([i \in DOMAIN db |-> See(t, i)])

\* The columns of a payment of `amount` paid in `currency`.
Columns(amount, currency, rate) ==
    IF currency = OrderCurrency
    THEN [status |-> "COMPLETED", amount |-> amount, rate |-> rate,
          original |-> Null, originalCurrency |-> Null]
    ELSE [status |-> "COMPLETED", amount |-> Convert(amount, currency, rate),
          rate |-> rate, original |-> amount, originalCurrency |-> currency]

Finish(t) ==
    /\ Release(t)
    /\ orderLoaded' = [orderLoaded EXCEPT ![t] = NotLoaded]
    /\ intent' = [intent EXCEPT ![t] = NoIntent]
    /\ synced' = [synced EXCEPT ![t] = "UNPAID"]

RollBackRequest(t) == Finish(t) /\ UNCHANGED <<db, crossed>>

BeginRequest(t, steps, p, was, row) ==
    /\ Idle(t)
    /\ todo' = [todo EXCEPT ![t] = steps]
    /\ orderLoaded' = [orderLoaded EXCEPT ![t] = db[Order]]
    /\ intent' = [intent EXCEPT ![t] = [id |-> p, was |-> was, row |-> row]]
    /\ crossed' = ~Alone(t)
    /\ UNCHANGED <<db, own, synced>>

\* A payment in another currency needs a rate.
Payable(currency, rate) == currency # OrderCurrency => rate # Null

BeginRecord(t, p, amount, currency, rate) ==
    /\ db[Payment(p)] = NoPayment /\ \A u \in Txs : intent[u].id # p
    /\ Payable(currency, rate)
    /\ BeginRequest(t, <<"insert", "sync", "commit">>, p, NoPayment,
             Columns(amount, currency, rate))

\* update_payment(): what is not given (Null) is taken from the payment as it
\* was paid, before any conversion.
BeginUpdate(t, p, amount, currency, rate) ==
    LET old == db[Payment(p)]
        rawAmount   == IF amount # Null THEN amount
                       ELSE IF old.original # Null THEN old.original
                       ELSE old.amount
        rawCurrency == IF currency # Null THEN currency
                       ELSE IF old.originalCurrency # Null
                       THEN old.originalCurrency ELSE OrderCurrency
        rawRate     == IF rate # Null THEN rate ELSE old.rate
    IN  /\ old.status = "COMPLETED"
        /\ Payable(rawCurrency, rawRate)
        /\ BeginRequest(t, <<"update", "sync", "commit">>, p, old,
                 Columns(rawAmount, rawCurrency, rawRate))

\* void_payment() does not ask whether the payment is voided already.
BeginVoid(t, p) ==
    LET old == db[Payment(p)]
    IN  /\ old.status # "NEW"
        /\ BeginRequest(t, <<"void", "sync", "commit">>, p, old,
                 [old EXCEPT !.status = "VOIDED"])

BeginTotal(t, total) ==
    /\ total # db[Order].total
    /\ BeginRequest(t, <<"total", "commit">>, Null, NoPayment,
             [NoPayment EXCEPT !.amount = total])

------------------------------------------------------------------------------
Balance(t) == orderLoaded[t].total - PaidSeen(t)

\* A plausible mistake: only a new payment is checked.
FitsBugEdits(t) ==
    intent[t].was = NoPayment => intent[t].row.amount <= Balance(t)

\* The overpayment check: against the balance as if the payment edited did not
\* count for anything yet.
Fits(t) == intent[t].row.amount <= Balance(t) + intent[t].was.amount

\* The INSERT or UPDATE sets the columns the request changed.
Changed(t, row) ==
    [column \in DOMAIN row |->
        IF intent[t].row[column] # intent[t].was[column]
        THEN intent[t].row[column] ELSE row[column]]

\* A flush without changes writes, and locks, nothing.
WritePayment(t) ==
    LET payment == Payment(intent[t].id)
    IN  /\ \/ intent[t].row = intent[t].was /\ UNCHANGED own
           \/ /\ intent[t].row # intent[t].was
              /\ Free(t, {payment})
              /\ Write(t, Only(payment, Changed(t, db[payment])))
        /\ Advance(t)
        /\ UNCHANGED <<db, orderLoaded, intent, synced, crossed>>

Insert(t) ==
    /\ At(t, "insert")
    /\ \/ Fits(t) /\ WritePayment(t)
       \/ ~Fits(t) /\ RollBackRequest(t)

Update(t) ==
    /\ At(t, "update")
    /\ \/ Fits(t) /\ WritePayment(t)
       \/ ~Fits(t) /\ RollBackRequest(t)

Void(t) == At(t, "void") /\ WritePayment(t)

\* _sync_payment_status(), from the total the session loaded.
Sync(t) ==
    /\ At(t, "sync")
    /\ synced' = [synced EXCEPT ![t] = PaymentStatus(PaidSeen(t), Balance(t))]
    /\ Advance(t)
    /\ UNCHANGED <<db, own, orderLoaded, intent, crossed>>

SetTotal(t) ==
    /\ At(t, "total")
    /\ Free(t, {Order})
    /\ Write(t, Only(Order, [db[Order] EXCEPT !.total = intent[t].row.amount]))
    /\ Advance(t)
    /\ UNCHANGED <<db, orderLoaded, intent, synced, crossed>>

\* The last flush updates payment_status only if it differs from what the
\* session loaded.
CommitRequest(t) ==
    /\ At(t, "commit")
    /\ IF intent[t].id # Null /\ synced[t] # orderLoaded[t].status
       THEN /\ Free(t, {Order})
            /\ db' = Over(own[t], [db EXCEPT ![Order].status = synced[t]])
       ELSE Publish(t)
    /\ Finish(t)
    /\ UNCHANGED crossed

RequestFails(t) == ~Idle(t) /\ RollBackRequest(t)

Maybe(S) == S \cup {Null}

PaymentsNext ==
    \E t \in Txs :
        \/ \E p \in Payments :
              \/ \E amount \in Amounts, currency \in Currencies,
                    rate \in Maybe(Rates) : BeginRecord(t, p, amount, currency, rate)
              \/ \E amount \in Maybe(Amounts), currency \in Maybe(Currencies),
                    rate \in Maybe(Rates) : BeginUpdate(t, p, amount, currency, rate)
              \/ BeginVoid(t, p)
        \/ \E total \in Totals : BeginTotal(t, total)
        \/ Insert(t) \/ Update(t) \/ Void(t) \/ Sync(t) \/ SetTotal(t)
        \/ CommitRequest(t) \/ RequestFails(t)

PaymentsSpec == PaymentsInit /\ [][PaymentsNext]_paymentVars

------------------------------------------------------------------------------
Paid == PaidIn(db)

\* A change of what is paid by a request that overlapped no other leaves the order
\* with the status derived from it, also after its total was changed and whatever
\* requests that did overlap left behind.
StatusFollowsPayments ==
    [][Paid' # Paid /\ ~crossed =>
          db'[Order].status = PaymentStatus(Paid', db'[Order].total - Paid')]_paymentVars

\* ... and never brings what is paid above the order's total.
FitsTheTotal ==
    [][Paid' > Paid /\ ~crossed => Paid' <= db'[Order].total]_paymentVars

(* What the code's documentation says and these steps do not keep.         *)

\* "Raised when a payment would exceed the order total amount": no payment brings
\* what is paid above the total.  Two overlapping ones may (FitsTheTotal).
NeverOverpaid == [][Paid' > Paid => Paid' <= db'[Order].total]_paymentVars

\* "amount/currency/fx_rate describe what was actually paid, converted into the
\* order's own currency": what a payment keeps of it converts to what counts.
\* Two overlapping edits, of the rate and of the amount, write a column each.
OriginalsConvert ==
    \A p \in Payments :
        LET row == db[Payment(p)]
        IN  row.original # Null =>
              row.amount = IF row.originalCurrency = "NGN"
                           THEN (2 * row.original + row.rate) \div (2 * row.rate)
                           ELSE row.original * row.rate

\* "Single source of truth": payment_status is the one derived from the order's
\* total and payments whenever no request is running.
StatusInSync ==
    (\A t \in Txs : Idle(t)) =>
        db[Order].status = PaymentStatus(Paid, db[Order].total - Paid)

=============================================================================
