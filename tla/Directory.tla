----------------------------- MODULE Directory -----------------------------
(***************************************************************************)
(* The shop's reference data: categories and the products filed under them *)
(* (products), customers, suppliers, locations, expenses and settings.     *)
(*                                                                         *)
(* A request that checks something first reads in one step and writes and  *)
(* commits in another, so requests overlap; one that only writes is a step.*)
(* The database refuses a duplicate name or code and a reference to a row  *)
(* that is gone, and the request is rolled back.                           *)
(*                                                                         *)
(* The definitions named ...Bug are plausible mistakes in the definition   *)
(* that follows.                                                           *)
(***************************************************************************)
EXTENDS Integers, Sequences, FiniteSets, FiniteSetsExt, TLC

CONSTANTS
    Clerks,        \* sessions serving requests
    Categories,    \* ids of categories
    Names,         \* names of categories and codes of locations
    Items,         \* products
    Parties,       \* ids of customers, suppliers, locations and expenses
    MaxMoney,      \* bound on amounts
    MaxEntries,    \* bound on sales, orders and payments, key rows and restarts
    Gone           \* no row, or SQL NULL

ASSUME DirectoryAssumption ==
    /\ Gone \notin Categories \cup Names
    /\ \A name \in Names, parent \in Categories \cup {Gone} :
          Gone # [name |-> name, parent |-> parent]

VARIABLES
    files,         \* the committed rows by table
    desk,          \* clerk -> the request between its two steps
    promised,      \* history: expenses a client was told are deleted
    fernet         \* FERNET_KEYS, newest first, and how often it was changed

directoryVars == <<files, desk, promised, fernet>>

Nothing == [does |-> "nothing"]

DirectoryInit ==
    /\ files = [categories |-> [i \in Categories |-> Gone],
                products   |-> [i \in Items |-> Gone],
                customers  |-> [p \in Parties |-> [active |-> TRUE, opening |-> 0]],
                sales      |-> <<>>,
                suppliers  |-> [p \in Parties |-> 0],
                orders     |-> <<>>,
                payments   |-> <<>>,
                locations  |-> [p \in Parties |-> Gone],
                expenses   |-> [p \in Parties |-> Gone],
                profile    |-> Gone,
                secrets    |-> <<>>]
    /\ desk = [c \in Clerks |-> Nothing]
    /\ promised = {}
    /\ fernet = [keys |-> <<>>, restarts |-> 0]

------------------------------------------------------------------------------
Does(c, what) == desk[c].does = what

\* The first step of a request: what it read lets it go on.
Read(c, request) ==
    /\ Does(c, "nothing")
    /\ desk' = [desk EXCEPT ![c] = request]
    /\ UNCHANGED <<files, promised, fernet>>

Rows(table, rows) ==
    /\ files' = [files EXCEPT ![table] = rows]
    /\ UNCHANGED <<promised, fernet>>

\* A request of one step.
Save(table, rows) == Rows(table, rows) /\ UNCHANGED desk

\* The second step of a request, or its rollback on any exception.
Finished(c) == desk' = [desk EXCEPT ![c] = Nothing]
Store(c, table, rows) == Rows(table, rows) /\ Finished(c)
RollBack(c) ==
    /\ desk[c] # Nothing /\ Finished(c)
    /\ UNCHANGED <<files, promised, fernet>>

Present(table) == {i \in DOMAIN files[table] : files[table][i] # Gone}

------------------------------------------------------------------------------
(* Categories, in two levels, and the products filed under them.           *)

Children(i) == {j \in Present("categories") : files.categories[j].parent = i}
Filed(i) == {p \in Items : files.products[p] = i}
Taken(name) == \E i \in Present("categories") : files.categories[i].name = name

\* create_category(): the parent must be a category without one.
ReadParent(c, name, parent) ==
    /\ parent # Gone => parent \in Present("categories") /\ files.categories[parent].parent = Gone
    /\ Read(c, [does |-> "create", name |-> name, parent |-> parent])

ThereBugUnchecked(i) == TRUE

\* The foreign keys to product_categories.
There(i) == i = Gone \/ i \in Present("categories")

\* Ids are never used again: here not as long as a request may name them.
Named(i) ==
    \E c \in Clerks :
        \/ Does(c, "create") /\ desk[c].parent = i
        \/ (Does(c, "delete") \/ Does(c, "file")) /\ desk[c].category = i

Unused == {i \in Categories \ Present("categories") : ~Named(i)}

InsertCategory(c) ==
    /\ Does(c, "create") /\ There(desk[c].parent) /\ ~Taken(desk[c].name)
    /\ Unused # {}
    /\ Store(c, "categories", [files.categories EXCEPT
          ![CHOOSE i \in Unused : TRUE] = [name |-> desk[c].name, parent |-> desk[c].parent]])

\* update_category() changes no parent.
RenameCategory(i, name) ==
    /\ i \in Present("categories") /\ ~Taken(name)
    /\ Save("categories", [files.categories EXCEPT ![i].name = name])

\* delete_category(): with neither sub-categories nor products.
ReadDeletion(c, i) ==
    /\ i \in Present("categories") /\ Children(i) = {} /\ Filed(i) = {}
    /\ Read(c, [does |-> "delete", category |-> i])

\* The flush takes the category out of the rows that name it by then, and
\* deletes it.
DeleteCategory(c) ==
    LET i == desk[c].category
        without(rows) == [j \in Categories |->
            IF j = i THEN Gone
            ELSE IF j \in Children(i) THEN [rows[j] EXCEPT !.parent = Gone] ELSE rows[j]]
    IN  /\ Does(c, "delete") /\ i \in Present("categories")
        /\ files' = [files EXCEPT
              !.categories = without(@),
              !.products = [p \in Items |-> IF p \in Filed(i) THEN Gone ELSE @[p]]]
        /\ Finished(c)
        /\ UNCHANGED <<promised, fernet>>

\* create_product() and update_product(): get_category(), then the product.
ReadCategory(c, item, i) ==
    /\ i \in Present("categories")
    /\ Read(c, [does |-> "file", item |-> item, category |-> i])

FileProduct(c) ==
    /\ Does(c, "file") /\ There(desk[c].category)
    /\ Store(c, "products", [files.products EXCEPT ![desk[c].item] = desk[c].category])

CategoriesNext ==
    \/ \E c \in Clerks :
          \/ \E name \in Names, parent \in Categories \cup {Gone} : ReadParent(c, name, parent)
          \/ \E i \in Categories : ReadDeletion(c, i)
          \/ \E item \in Items, i \in Categories : ReadCategory(c, item, i)
          \/ InsertCategory(c) \/ DeleteCategory(c) \/ FileProduct(c)
    \/ \E i \in Categories, name \in Names : RenameCategory(i, name)

------------------------------------------------------------------------------
(* Customers and suppliers, and their ledgers.                             *)

\* update_customer()
UpdateCustomer(p, active, opening) ==
    Save("customers", [files.customers EXCEPT ![p] = [active |-> active, opening |-> opening]])

SalesTo(p) == {i \in DOMAIN files.sales : files.sales[i].customer = p}

\* create_sale() looks the customer up for its name only.
SellTo(p, amount) ==
    /\ Len(files.sales) < MaxEntries
    /\ Save("sales", Append(files.sales, [customer |-> p, amount |-> amount, voided |-> FALSE]))

VoidSaleTo(i) ==
    /\ ~files.sales[i].voided
    /\ Save("sales", [files.sales EXCEPT ![i].voided = TRUE])

\* deactivate_customer(): without any sale, voided ones included.
ReadSales(c, p) == SalesTo(p) = {} /\ Read(c, [does |-> "deactivate", customer |-> p])

Deactivate(c) ==
    /\ Does(c, "deactivate")
    /\ Store(c, "customers", [files.customers EXCEPT ![desk[c].customer].active = FALSE])

\* get_customer_ledger(): the balance of its last entry.
CustomerBalance(p) ==
    files.customers[p].opening + MapThenSumSet(LAMBDA i : files.sales[i].amount, SalesTo(p))

UpdateSupplier(p, opening) == Save("suppliers", [files.suppliers EXCEPT ![p] = opening])

\* Orders and their payments, as OrderTx and OrderPayments have them.
OrderFrom(p, total) ==
    /\ Len(files.orders) < MaxEntries
    /\ Save("orders", Append(files.orders, [supplier |-> p, total |-> total, cancelled |-> FALSE]))

CancelOrder(i) ==
    /\ ~files.orders[i].cancelled
    /\ Save("orders", [files.orders EXCEPT ![i].cancelled = TRUE])

PayOrder(i, amount) ==
    /\ Len(files.payments) < MaxEntries /\ amount <= files.orders[i].total
    /\ Save("payments", Append(files.payments, [order |-> i, amount |-> amount, voided |-> FALSE]))

VoidPayment(i) == Save("payments", [files.payments EXCEPT ![i].voided = TRUE])

OrdersFrom(p) == {i \in DOMAIN files.orders : files.orders[i].supplier = p}
PaymentsTo(p) == {i \in DOMAIN files.payments : files.payments[i].order \in OrdersFrom(p)}

\* get_supplier_ledger(): every order is added and every payment subtracted,
\* cancelled and voided or not.
SupplierCredit(p) ==
    files.suppliers[p] + MapThenSumSet(LAMBDA i : files.orders[i].total, OrdersFrom(p))
SupplierDebit(p) == MapThenSumSet(LAMBDA i : files.payments[i].amount, PaymentsTo(p))

CustomersNext ==
    \/ \E p \in Parties, amount \in 1..MaxMoney :
          SellTo(p, amount) \/ \E active \in BOOLEAN : UpdateCustomer(p, active, amount)
    \/ \E i \in DOMAIN files.sales : VoidSaleTo(i)
    \/ \E c \in Clerks : Deactivate(c) \/ \E p \in Parties : ReadSales(c, p)

SuppliersNext ==
    \/ \E p \in Parties, amount \in 1..MaxMoney : UpdateSupplier(p, amount) \/ OrderFrom(p, amount)
    \/ \E i \in DOMAIN files.orders : CancelOrder(i) \/ \E amount \in 1..MaxMoney : PayOrder(i, amount)
    \/ \E i \in DOMAIN files.payments : VoidPayment(i)

------------------------------------------------------------------------------
(* Locations and expenses.                                                 *)

CodeTaken(code) == \E p \in Parties : files.locations[p] = code

\* create_location() looks for the code before it inserts.
ReadCode(c, code) == ~CodeTaken(code) /\ Read(c, [does |-> "locate", code |-> code])

InsertLocation(c) ==
    /\ Does(c, "locate") /\ ~CodeTaken(desk[c].code)
    /\ \E p \in Parties \ Present("locations") :
          Store(c, "locations", [files.locations EXCEPT ![p] = desk[c].code])

\* update_location() leaves a duplicate to the database.
RecodeLocation(p, code) ==
    /\ p \in Present("locations") /\ ~CodeTaken(code)
    /\ Save("locations", [files.locations EXCEPT ![p] = code])

\* create_expense() and update_expense(); an id is never used again.
SaveExpense(p, amount) ==
    /\ p \in promised => p \in Present("expenses")
    /\ Save("expenses", [files.expenses EXCEPT ![p] = amount])

\* delete_expense(): db.delete(exp) of an AsyncSession is a coroutine and is not
\* awaited, so nothing is deleted; the router answers 204 all the same.
DeleteExpense(p) ==
    /\ p \in Present("expenses")
    /\ promised' = promised \cup {p}
    /\ UNCHANGED <<files, desk, fernet>>

RecordsNext ==
    \/ \E c \in Clerks : InsertLocation(c) \/ \E code \in Names : ReadCode(c, code)
    \/ \E p \in Parties, code \in Names : RecodeLocation(p, code)
    \/ \E p \in Parties, amount \in 1..MaxMoney : SaveExpense(p, amount)
    \/ \E p \in Parties : DeleteExpense(p)

------------------------------------------------------------------------------
(* Settings: an API key of one user, and the profile of the business.      *)

\* _get_fernet_keys(): SECRET_KEY, key 0, serves only while FERNET_KEYS is empty.
FernetKeys == IF fernet.keys = <<>> THEN <<0>> ELSE fernet.keys

\* upsert_api_key(): the row is looked for, and updated or inserted; nothing
\* keeps two first saves apart, and nobody can read or save with two rows.
ReadSecret(c, value) ==
    /\ Len(files.secrets) <= 1
    /\ Read(c, [does |-> "secret", value |-> value, row |-> Len(files.secrets)])

WriteSecret(c) ==
    LET row == [under |-> Head(FernetKeys), value |-> desk[c].value]
    IN  /\ Does(c, "secret")
        /\ Store(c, "secrets", IF desk[c].row = 0 THEN Append(files.secrets, row)
                               ELSE [files.secrets EXCEPT ![1] = row])

\* decrypt_api_key() tries every key.
Decrypts(row) == \E i \in DOMAIN FernetKeys : FernetKeys[i] = row.under

\* get_api_key_status() and test_anthropic_api_key(): the key can be used.
Usable == Len(files.secrets) = 1 /\ Decrypts(files.secrets[1])

\* update_business_profile(), as update_fiscal_year_start() and
\* update_app_setting(): one INSERT ... ON CONFLICT DO UPDATE.
UpdateProfile(changes) ==
    Save("profile", IF files.profile = Gone THEN changes ELSE changes @@ files.profile)

\* The processes restart with a key put before the others, or the oldest
\* dropped; requests under way are lost.
Restart ==
    /\ fernet.restarts < MaxEntries
    /\ \E keys \in {<<fernet.restarts + 1>> \o fernet.keys} \cup
                   {SubSeq(fernet.keys, 1, Len(fernet.keys) - 1) : i \in DOMAIN fernet.keys} :
          fernet' = [keys |-> keys, restarts |-> fernet.restarts + 1]
    /\ desk' = [c \in Clerks |-> Nothing]
    /\ UNCHANGED <<files, promised>>

SettingsNext ==
    \/ \E c \in Clerks : WriteSecret(c) \/ \E value \in Names : ReadSecret(c, value)
    \/ \E value \in Names : UpdateProfile([name |-> value]) \/ UpdateProfile([phone |-> value])
    \/ Restart

DirectoryNext ==
    \/ CategoriesNext \/ CustomersNext \/ SuppliersNext \/ RecordsNext \/ SettingsNext
    \/ \E c \in Clerks : RollBack(c)

DirectorySpec == DirectoryInit /\ [][DirectoryNext]_directoryVars

------------------------------------------------------------------------------
\* However creations, filings and deletions overlap, categories have at most two
\* levels, every parent and every product's category exists, and no name is on
\* two categories nor a code on two locations.
FilesSound ==
    /\ \A i \in Present("categories") :
          LET parent == files.categories[i].parent
          IN  parent # Gone =>
                parent \in Present("categories") /\ files.categories[parent].parent = Gone
    /\ \A p \in Present("products") : files.products[p] \in Present("categories")
    /\ \A i, j \in Present("categories") :
          files.categories[i].name = files.categories[j].name => i = j
    /\ \A p, q \in Present("locations") : files.locations[p] = files.locations[q] => p = q

\* "delete_expense calls db.delete then db.flush", and the client is told 204: an
\* expense deleted is not listed any more.
DeletedExpensesGone == promised \cap Present("expenses") = {}

(* What the code's comments say and these steps do not keep.               *)

\* "Delete a category (only if no products or sub-categories are linked)": one
\* filed between the check and the flush loses its category.
FiledStayFiled == [][\A p \in Present("products") : files'.products[p] # Gone]_directoryVars

\* deactivate_customer() "Raises CustomerHasLinkedSalesError if the customer has
\* any linked sales": one may be made between its two steps.
SoldToStayActive ==
    [][\A c \in Clerks : Does(c, "deactivate") /\ desk'[c] = Nothing
          => SalesTo(desk[c].customer) = {}]_directoryVars

\* "Build a running debit ledger for a customer from their sales": what the
\* customer owes.  Voided sales count for good.
CustomerOwes ==
    \A p \in Parties :
        CustomerBalance(p) = files.customers[p].opening
            + MapThenSumSet(LAMBDA i : files.sales[i].amount,
                            {i \in SalesTo(p) : ~files.sales[i].voided})

\* "Build a running debit/credit ledger for the supplier from orders and
\* payments": what the shop owes.  Cancelled orders and voided payments count.
SupplierIsOwed ==
    \A p \in Parties :
        SupplierCredit(p) - SupplierDebit(p) = files.suppliers[p]
            + MapThenSumSet(LAMBDA i : files.orders[i].total,
                            {i \in OrdersFrom(p) : ~files.orders[i].cancelled})
            - MapThenSumSet(LAMBDA i : files.payments[i].amount,
                            {i \in PaymentsTo(p) : ~files.payments[i].voided})

\* A key that was saved can be used for as long as the key it was encrypted with
\* is configured.  Two first saves leave two rows.
SecretUsable == \A i \in DOMAIN files.secrets : Decrypts(files.secrets[i]) => Usable

=============================================================================
