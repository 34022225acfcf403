------------------------------ MODULE MCOffice ------------------------------
(* Instances for TLC of the parts of the office that touch no row of each  *)
(* other: a behaviour is about one of them, and the others stay as they    *)
(* begin.                                                                  *)
EXTENDS PosSync, Migration, Directory, Accounts

VARIABLE about     \* the part this behaviour is about

Parts == {"pos", "migration", "categories", "filing", "customers", "suppliers", "records",
          "settings", "accounts"}

\* One product name sold by two ids, one line without a number, two purchases
\* under one reference, one with two lines alike, half units everywhere but in
\* what is returned, a loss and then opening stock.
TwoProducts == {1, 2}
SameName == [p \in TwoProducts |-> "soap"]
OneSell == [s \in {"s"} |-> <<[product |-> 1, quantity |-> 3, numbered |-> TRUE],
                             [product |-> 2, quantity |-> 2, numbered |-> FALSE]>>]
TwoPurchases ==
    [b \in {1, 2} |->
        [ref |-> "r", lines |-> [n \in 1..b |-> [product |-> b, quantity |-> 3, cost |-> 5]]]]
LossThenOpening ==
    <<[opening |-> FALSE, product |-> 2, quantity |-> 2],
      [opening |-> TRUE, product |-> 2, quantity |-> 1]>>
TheSell == {"s"}
TheFirst == {1}

\* What a part begins with when the behaviour is about another.
PosIdle == books.names = {} /\ \A size \in PageSizes : pos.page <= size
MigrationIdle == source.active = Products
AccountsIdle ==
    /\ mails = {}
    /\ \A u \in Others : user[u] = [Row("ADMIN", TRUE) EXCEPT !.there = FALSE]

OfficeInit ==
    /\ about \in Parts
    /\ PosInit /\ MigrationInit /\ DirectoryInit /\ Init
    /\ about = "pos" \/ PosIdle
    /\ about = "migration" \/ MigrationIdle
    /\ about = "accounts" \/ AccountsIdle

Concerns(part) == about = part /\ UNCHANGED about
PosStays == UNCHANGED posVars
MigrationStays == UNCHANGED migrationVars
DirectoryStays == UNCHANGED directoryVars
AccountsStay == UNCHANGED vars

\* Three categories make up to three levels; two are enough to file under and to
\* rename, and two secrets to replace one.
OnlyLevels == desk' # desk /\ \A c \in Clerks : desk'[c].does # "file"

Spare == CHOOSE name \in Names : TRUE
TwoNames ==
    /\ \A c \in Clerks : \A field \in {"name", "value"} \cap DOMAIN desk'[c] :
          desk'[c][field] # Spare
    /\ ~Taken(Spare)'

\* Either two sells or a sell and a purchase are enough to reorder.
OneOfEach == pos.sells'[MaxSell] # Absent => pos.purchases'[MaxPurchase] = Absent

\* Where a page may be too small, sells and cycles are enough.
OnlyPages ==
    pos.page < MaxSell =>
        lapses'.incidents = 0 /\ \A p \in PurchaseIds : pos.purchases'[p] = Absent

PosOffice ==
    /\ Concerns("pos") /\ PosNext /\ OneOfEach /\ OnlyPages
    /\ MigrationStays /\ DirectoryStays /\ AccountsStay
MigrationOffice ==
    /\ Concerns("migration") /\ MigrationNext
    /\ PosStays /\ DirectoryStays /\ AccountsStay
DirectoryOffice ==
    /\ \/ Concerns("categories") /\ CategoriesNext /\ OnlyLevels
       \/ Concerns("filing") /\ CategoriesNext /\ TwoNames
       \/ Concerns("customers") /\ CustomersNext
       \/ Concerns("suppliers") /\ SuppliersNext
       \/ Concerns("records") /\ RecordsNext
       \/ Concerns("settings") /\ SettingsNext /\ TwoNames
       \/ UNCHANGED about /\ \E c \in Clerks : RollBack(c)
    /\ PosStays /\ MigrationStays /\ AccountsStay

OnlyAccounts == Concerns("accounts") /\ PosStays /\ MigrationStays /\ DirectoryStays
AccountsOffice == OnlyAccounts /\ Next

OfficeNext == PosOffice \/ MigrationOffice \/ DirectoryOffice \/ AccountsOffice

officeVars == <<about, posVars, migrationVars, directoryVars, vars>>

OfficeSpec == OfficeInit /\ [][OfficeNext]_officeVars

\* The loop of every worker goes on, the purge job runs every day, and days pass.
LoopFairness ==
    \A w \in Workers :
        WF_officeVars(/\ Concerns("pos") /\ LoopStep(w)
                      /\ MigrationStays /\ DirectoryStays /\ AccountsStay)
PurgeFairness ==
    /\ WF_officeVars(OnlyAccounts /\ SelectDue)
    /\ WF_officeVars(OnlyAccounts /\ Purge)
    /\ WF_officeVars(OnlyAccounts /\ Tick)

FairOffice == OfficeSpec /\ LoopFairness /\ PurgeFairness

=============================================================================
