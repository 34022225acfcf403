----------------------------- MODULE Catalogue -----------------------------
(***************************************************************************)
(* Overlapping requests on one product: price and cost edits with their    *)
(* PriceHistory, its variants and the has_variants switch create_sale()    *)
(* reads, pricing recommendations, the AI engine's price advice, and a     *)
(* stock count of it.                                                      *)
(*                                                                         *)
(* A request loads rows without a lock (request[t].seen), flushes the      *)
(* columns that differ from what it loaded and commits.  An UPDATE waits   *)
(* for the row and leaves the columns it does not name as they are.        *)
(***************************************************************************)
EXTENDS RowLocks, FiniteSets, SequencesExt

CONSTANTS
    Variants,      \* the variants the product may get
    Prices,        \* prices and costs requests ask for
    MaxRequests    \* bound on the requests of a behaviour

ASSUME CatalogueAssumption == Prices \subseteq Nat \ {0} /\ MaxRequests \in Nat

Product  == <<"product">>
Advice   == <<"advice">>
Rec      == <<"recommendation">>
Header   == <<"count">>
Item     == <<"count", "item">>
StockRow == <<"stock">>
Variant(v) == <<"variant", v>>

VARIABLES
    request,       \* tx -> its request, with the rows it loaded
    history,       \* PriceHistory rows in the order they were committed
    old,           \* which of Rec and Advice are past their age
    requests,      \* requests begun
    blurred,       \* price requests overlapped, or advice set the price
    crossed,       \* two deactivations of variants overlapped
    miscounted     \* two requests on the count overlapped

ghosts == <<requests, blurred, crossed, miscounted>>
vars == <<db, own, todo, request, history, old, ghosts>>

NoRequest == [op |-> "none"]

Pricing(p) == [price |-> p.price, cost |-> p.cost]
PriceChange(before, after) == [from |-> Pricing(before), to |-> Pricing(after)]

\* create_product(): the product, its stock row and its first history row; its
\* variants, if it came to have some.
\* Advice with a single product's price in it is what earlier releases stored.
Init ==
    \E price \in Prices, cost \in Prices, legacy \in {"none", "PENDING"},
       live \in {{}, Variants} :
       LET product == [price |-> price, cost |-> cost, has |-> live # {}, active |-> TRUE]
           single == [i \in {Product, StockRow, Rec, Advice, Header, Item} |->
                         CASE i = Product  -> product
                           [] i = StockRow -> [units |-> 1]
                           [] i = Rec      -> [status |-> "none", price |-> price]
                           [] i = Advice   -> [status |-> legacy, price |-> price]
                           [] i = Header   -> [status |-> "none"]
                           [] i = Item     -> [counted |-> -1, system |-> -1]]
       IN /\ db = Over(single, [i \in {Variant(v) : v \in Variants} |->
                                   [state |-> IF live = {} THEN "none" ELSE "active"]])
          /\ InitSessions
          /\ request = [t \in Txs |-> NoRequest]
          /\ history = <<PriceChange(product, product)>>
          /\ old = {}
          /\ requests = 0
          /\ blurred = FALSE /\ crossed = FALSE /\ miscounted = FALSE

------------------------------------------------------------------------------
(* What the requests ask for, and the checks they pass on what they load.  *)

\* The optimizer's proposal: from 1.1 to 3 times the cost (its bounds, so the
\* floor E5 holds), and another price than the current one.
Proposals(p) == {q \in Prices : 11 * p.cost <= 10 * q /\ q <= 3 * p.cost /\ q # p.price}

PriceColumns == UNION {[c -> Prices] : c \in (SUBSET {"price", "cost"}) \ {{}}}

\* ProductUpdate with the columns it sets (exclude_unset).
Edits == [op : {"edit"}, set : PriceColumns]
Priced == {"edit", "apply", "applyAdvice"}
Counting == {"count", "finalize"}

DraftBugAnyStatus == db[Header].status # "none"
Draft == db[Header].status = "DRAFT"

\* apply_recommendation() and dismiss_recommendation() of pricing/service.py look
\* at the age at most; those of ai_engine/service.py also at the status.
Offered ==
    LET rec == db[Rec].status # "none"
        pending == db[Advice].status = "PENDING"
        present == {v \in Variants : db[Variant(v)].state # "none"}
        named(name, enabled) == {r \in [op : {name}] : enabled}
    IN  Edits
        \cup named("deactivate", TRUE)
        \cup [op : {"create"}, variant : Variants \ present]
        \cup [op : {"disable", "enable"}, variant : present]
        \cup [op : {"generate"}, price : IF rec THEN {} ELSE Proposals(db[Product])]
        \cup named("apply", rec /\ Rec \notin old)
        \cup named("dismiss", rec)
        \cup named("applyAdvice", pending /\ Advice \notin old)
        \cup named("dismissAdvice", pending)
        \cup named("generateAdvice", pending /\ Advice \in old)
        \cup named("open", db[Header].status = "none")
        \cup [op : {"count"}, units : IF Draft THEN 0..1 ELSE {}]
        \cup named("finalize", Draft)

\* The columns a request sets, row by row.
EditProduct(r)       == Only(Product, r.set)
DeactivateProduct    == Only(Product, [active |-> FALSE])
CreateVariant(r)     == Over(Only(Variant(r.variant), [state |-> "active"]),
                             Only(Product, [has |-> TRUE]))
DeactivateVariant(r) == Only(Variant(r.variant), [state |-> "inactive"])
EnableVariant(r)     == Only(Variant(r.variant), [state |-> "active"])

GenerateRecommendations(r) == Only(Rec, [status |-> "PENDING", price |-> r.price])
ApplyRecommendation(r)     == Over(Only(Product, [price |-> r.seen[Rec].price]),
                                   Only(Rec, [status |-> "APPLIED"]))
DismissRecommendation      == Only(Rec, [status |-> "REJECTED"])

GenerateAll    == Only(Advice, [status |-> "EXPIRED"])
ApplyAdvice(r) == Over(Only(Product, [price |-> r.seen[Advice].price]),
                       Only(Advice, [status |-> "APPLIED"]))
DismissAdvice  == Only(Advice, [status |-> "DISMISSED"])

CreateStockCount      == Over(Only(Header, [status |-> "DRAFT"]),
                              Only(Item, [counted |-> -1, system |-> -1]))
UpdateCountItem(r)    == Only(Item, [counted |-> r.units])
FinalizeStockCount(r) == Over(Only(Item, [system |-> r.seen[StockRow].units]),
                              Only(Header, [status |-> "FINALIZED"]))

Assignments(r) ==
    CASE r.op = "edit"           -> EditProduct(r)
      [] r.op = "deactivate"     -> DeactivateProduct
      [] r.op = "create"         -> CreateVariant(r)
      [] r.op = "disable"        -> DeactivateVariant(r)
      [] r.op = "enable"         -> EnableVariant(r)
      [] r.op = "generate"       -> GenerateRecommendations(r)
      [] r.op = "apply"          -> ApplyRecommendation(r)
      [] r.op = "dismiss"        -> DismissRecommendation
      [] r.op = "generateAdvice" -> GenerateAll
      [] r.op = "applyAdvice"    -> ApplyAdvice(r)
      [] r.op = "dismissAdvice"  -> DismissAdvice
      [] r.op = "open"           -> CreateStockCount
      [] r.op = "count"          -> UpdateCountItem(r)
      [] r.op = "finalize"       -> FinalizeStockCount(r)

\* The rows whose loaded values the request uses later on.
Loads(r) ==
    CASE r.op \in {"edit", "deactivate"} -> {Product}
      [] r.op = "create"                 -> {Product, Variant(r.variant)}
      [] r.op \in {"disable", "enable"}  -> {Variant(r.variant)}
      [] r.op \in {"generate", "dismiss"} -> {Rec}
      [] r.op = "apply"                  -> {Product, Rec}
      [] r.op = "applyAdvice"            -> {Product, Advice}
      [] r.op \in {"dismissAdvice", "generateAdvice"} -> {Advice}
      [] r.op = "count"                  -> {Item}
      [] r.op \in {"open", "finalize"}   -> {Item, Header, StockRow}

------------------------------------------------------------------------------
UnderWay(t, ops) == \E u \in Txs \ {t} : request[u].op \in ops

Begin(t) ==
    /\ Idle(t)
    /\ requests < MaxRequests
    /\ \E r \in Offered :
          /\ request' = [request EXCEPT ![t] = Over(r, [seen |-> Restrict(db, Loads(r))])]
          /\ todo' = [todo EXCEPT ![t] = IF r.op = "disable"
                                         THEN <<"flush", "check", "commit">>
                                         ELSE <<"flush", "commit">>]
          /\ blurred' = (blurred \/ (r.op \in Priced /\ UnderWay(t, Priced)))
          /\ crossed' = (crossed \/ (r.op = "disable" /\ UnderWay(t, {"disable"})))
          /\ miscounted' = (miscounted \/ (r.op \in Counting /\ UnderWay(t, Counting)))
    /\ requests' = requests + 1
    /\ UNCHANGED <<db, own, history, old>>

End(t) == Release(t) /\ request' = [request EXCEPT ![t] = NoRequest]

Rollback(t) == End(t) /\ UNCHANGED <<db, history, old, ghosts>>

\* SQLAlchemy names only the columns whose value differs from the loaded one.
Changed(loaded, set) == [c \in {c \in DOMAIN set : set[c] # loaded[c]} |-> set[c]]

\* The rows an UPDATE of these columns writes.
Updated(t, set) ==
    LET columns(i) == Changed(request[t].seen[i], set[i])
    IN [i \in {i \in DOMAIN set : DOMAIN columns(i) # {}} |-> Over(columns(i), See(t, i))]

\* A variant's SKU or a count inserted by another request in between.
Taken(r) ==
    \/ r.op = "create" /\ db[Variant(r.variant)].state # "none"
    \/ r.op = "open" /\ db[Header].status # "none"
    \/ r.op = "generate" /\ db[Rec].status # "none"

Flush(t) ==
    LET rows == Updated(t, Assignments(request[t]))
    IN  /\ At(t, "flush")
        /\ Free(t, DOMAIN rows)
        /\ \/ ~Taken(request[t]) /\ Write(t, rows) /\ Advance(t)
              /\ UNCHANGED <<db, request, history, old, ghosts>>
           \/ Taken(request[t]) /\ Rollback(t)

\* The definitions named ...Bug are plausible mistakes in the definition that
\* follows; they only serve to show that the properties can fail.
ActiveBugNotOwn(t) == {v \in Variants : db[Variant(v)].state = "active"}

\* The variants a transaction counts as active.
Active(t) == {v \in Variants : See(t, Variant(v)).state = "active"}

\* update_variant() and deactivate_variant() reset has_variants with the last
\* active variant gone.
CheckVariants(t) ==
    LET reset == Active(t) = {} /\ See(t, Product).has
    IN  /\ At(t, "check")
        /\ reset => Free(t, {Product})
        /\ Write(t, IF reset THEN Only(Product, [See(t, Product) EXCEPT !.has = FALSE])
                    ELSE <<>>)
        /\ Advance(t)
        /\ UNCHANGED <<db, request, history, old, ghosts>>

HistoryOfBugEditsOnly(r) ==
    LET loaded == r.seen[Product]
    IN  IF r.op = "edit" /\ DOMAIN Changed(loaded, r.set) # {}
        THEN <<PriceChange(loaded, Over(r.set, loaded))>> ELSE <<>>

\* The PriceHistory row of a request, out of what it loaded.
HistoryOf(r) ==
    LET loaded == r.seen[Product]
    IN CASE r.op = "edit" /\ DOMAIN Changed(loaded, r.set) # {} ->
              <<PriceChange(loaded, Over(r.set, loaded))>>
         [] r.op = "apply" ->
              <<PriceChange(loaded, [loaded EXCEPT !.price = r.seen[Rec].price])>>
         [] OTHER -> <<>>

Commit(t) ==
    /\ At(t, "commit")
    /\ Publish(t)
    /\ history' = history \o HistoryOf(request[t])
    /\ blurred' = (blurred \/ request[t].op = "applyAdvice")
    /\ End(t)
    /\ UNCHANGED <<old, requests, crossed, miscounted>>

Fail(t) == ~Idle(t) /\ Rollback(t)

\* Thirty days pass for the recommendation or the advice.
Age(i) ==
    /\ i \in {Rec, Advice} \ old /\ db[i].status # "none"
    /\ old' = old \cup {i}
    /\ UNCHANGED <<db, own, todo, request, history, ghosts>>

\* A sale or a delivery moves the product's stock, which matters to a count only.
MoveStock ==
    /\ Draft
    /\ db' = [db EXCEPT ![StockRow].units = 1 - @]
    /\ UNCHANGED <<own, todo, request, history, old, ghosts>>

Next ==
    \/ \E t \in Txs : Begin(t) \/ Flush(t) \/ CheckVariants(t) \/ Commit(t) \/ Fail(t)
    \/ \E i \in {Rec, Advice} : Age(i)
    \/ MoveStock

Spec == Init /\ [][Next]_vars

------------------------------------------------------------------------------
TypeOK ==
    /\ db[Product] \in [price : Prices, cost : Prices, has : BOOLEAN, active : BOOLEAN]
    /\ db[Rec].status \in {"none", "PENDING", "APPLIED", "REJECTED"}
    /\ db[Advice].status \in {"none", "PENDING", "APPLIED", "DISMISSED", "EXPIRED"}
    /\ \A v \in Variants : db[Variant(v)].state \in {"none", "active", "inactive"}
    /\ db[Item] \in [counted : -1..1, system : -1..1]

\* The last PriceHistory row tells the product's price and cost, through edits
\* of either or both and applied recommendations, unless price requests
\* overlapped (a cost edit then writes down the price it loaded) or advice of
\* the AI engine set the price (it writes no history).
PriceExplained == ~blurred => Last(history).to = Pricing(db[Product])

\* A product that demands a variant on every sale has one that can be sold,
\* unless two deactivations overlapped and each counted the other's variant.
SellableVariants ==
    ~crossed => (db[Product].has => \E v \in Variants : db[Variant(v)].state = "active")

\* A finalized count stays as it is, unless requests on it overlapped: an update
\* that saw the draft still writes its line afterwards.
CountFrozen ==
    [][db[Header].status = "FINALIZED" /\ ~miscounted' => db'[Item] = db[Item]]_vars

=============================================================================
