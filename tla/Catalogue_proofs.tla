--------------------------- MODULE Catalogue_proofs ---------------------------
(***************************************************************************)
(* Products and their bulk uploads, for any number of sessions, variants,  *)
(* prices and files:                                                       *)
(*   Catalogue: the price history, the variants a sale asks for and a      *)
(*     finalized count stay true of the product, unless requests that the  *)
(*     code lets overlap did;                                              *)
(*   Pricing: no suggestion is below cost or below the minimum margin;     *)
(*   BulkUpload: a job's counters and status tell which of its sales are   *)
(*     recorded, and its commits are bookings on the stock account.        *)
(***************************************************************************)
EXTENDS Pricing, BulkUpload, SumTheorems, TLAPS

------------------------------------------------------------------------------
(* The rows and their columns.                                             *)

CatalogueRows ==
    {Product, StockRow, Rec, Advice, Header, Item} \cup {Variant(v) : v \in Variants}

\* The values of each column of a row.
Kind(i) ==
    CASE i = Product  -> [price |-> Prices, cost |-> Prices, has |-> BOOLEAN, active |-> BOOLEAN]
      [] i = StockRow -> [units |-> 0..1]
      [] i = Rec      -> [status |-> {"none", "PENDING", "APPLIED", "REJECTED"}, price |-> Prices]
      [] i = Advice   -> [status |-> {"none", "PENDING", "APPLIED", "DISMISSED", "EXPIRED"},
                          price |-> Prices]
      [] i = Header   -> [status |-> {"none", "DRAFT", "FINALIZED"}]
      [] i = Item     -> [counted |-> -1..1, system |-> -1..1]
      [] OTHER        -> [state |-> {"none", "active", "inactive"}]

\* A whole row, and some of its columns.
Typed(i, row) ==
    DOMAIN row = DOMAIN Kind(i) /\ \A c \in DOMAIN Kind(i) : row[c] \in Kind(i)[c]
Fits(i, set) ==
    DOMAIN set \subseteq DOMAIN Kind(i) /\ \A c \in DOMAIN set : set[c] \in Kind(i)[c]

Ops == {"edit", "deactivate", "create", "disable", "enable", "generate", "apply", "dismiss",
        "generateAdvice", "applyAdvice", "dismissAdvice", "open", "count", "finalize"}

\* A request, with the rows it loaded.
IsRequest(r) ==
    /\ r.op \in Ops
    /\ DOMAIN r.seen = Loads(r)
    /\ \A i \in Loads(r) : Typed(i, r.seen[i])
    /\ r.op = "edit" => r.set \in PriceColumns
    /\ r.op \in {"create", "disable", "enable"} => r.variant \in Variants
    /\ r.op = "create" => r.seen[Variant(r.variant)].state = "none"
    /\ r.op = "generate" => r.price \in Prices
    /\ r.op = "count" => r.units \in 0..1
    /\ r.op = "open" => r.seen[Header].status = "none"

PriceChanges ==
    [from : [price : Prices, cost : Prices], to : [price : Prices, cost : Prices]]

CatalogueTables ==
    /\ DOMAIN db = CatalogueRows /\ DOMAIN own = Txs /\ DOMAIN todo = Txs /\ DOMAIN request = Txs
    /\ \A i \in CatalogueRows : Typed(i, db[i])
    /\ history \in Seq(PriceChanges) /\ history # <<>>

------------------------------------------------------------------------------
(* The inductive invariant, one request at a time.                         *)

Settled(t) == todo[t] = <<"commit">>

\* Where a request is, and what it has locked there.
InStage(t) ==
    /\ todo[t] \in {<<>>, <<"flush", "commit">>, <<"flush", "check", "commit">>,
                    <<"check", "commit">>, <<"commit">>}
    /\ IF Idle(t) THEN request[t] = NoRequest ELSE IsRequest(request[t])
    /\ todo[t] \in {<<"flush", "check", "commit">>, <<"check", "commit">>}
          => request[t].op = "disable"
    /\ todo[t] = <<"flush", "commit">> => request[t].op # "disable"
    /\ todo[t] \in {<<>>, <<"flush", "commit">>, <<"flush", "check", "commit">>}
          => Locked(t) = {}
    /\ todo[t] = <<"check", "commit">> => Product \notin Locked(t)
    /\ Locked(t) \subseteq CatalogueRows
    /\ \A i \in Locked(t) : Typed(i, own[t][i])

\* Whose rows it writes, and what it leaves of them.
WritesOwn(t) ==
    /\ Product \in Locked(t) /\ request[t].op \notin Priced
          => Pricing(own[t][Product]) = Pricing(db[Product])
    /\ Product \in Locked(t) /\ own[t][Product].has
          => \/ db[Product].has
             \/ request[t].op = "create" /\ Variant(request[t].variant) \in Locked(t)
    /\ \A v \in Variants : Variant(v) \in Locked(t) /\ request[t].op # "disable"
          => own[t][Variant(v)].state = "active"
    /\ Item \in Locked(t) => request[t].op \in Counting \cup {"open"}
    /\ Header \in Locked(t) => request[t].op \in {"open", "finalize"}
    /\ request[t].op = "open" /\ Settled(t)
          => db[Header].status = "none" /\ Header \in Locked(t)

\* A price request alone read the prices that are, and will tell what it wrote.
PricesKnown(t) ==
    ~blurred /\ request[t].op \in Priced =>
       /\ \A u \in Txs \ {t} : request[u].op \notin Priced
       /\ Pricing(request[t].seen[Product]) = Pricing(db[Product])
       /\ Settled(t) /\ request[t].op # "applyAdvice" =>
             Pricing(See(t, Product))
               = Last(history \o HistoryOf(request[t])).to

\* A lone deactivation, once checked, leaves what it should.
LeavesOne(t) ==
    See(t, Product).has => \E v \in Variants : See(t, Variant(v)).state = "active"
Checked(t) ==
    ~crossed /\ request[t].op = "disable" =>
       /\ \A u \in Txs \ {t} : request[u].op # "disable"
       /\ Settled(t) => LeavesOne(t)

\* A lone request on the count finds the draft it saw.
StillDraft(t) ==
    ~miscounted /\ request[t].op \in Counting =>
       /\ \A u \in Txs \ {t} : request[u].op \notin Counting
       /\ Draft

RequestInv(t) ==
    InStage(t) /\ WritesOwn(t) /\ PricesKnown(t) /\ Checked(t) /\ StillDraft(t)

RowsApart == \A t, u \in Txs : t # u => Locked(t) \cap Locked(u) = {}

CatalogueInv ==
    /\ CatalogueTables
    /\ RowsApart
    /\ \A t \in Txs : RequestInv(t)
    /\ PriceExplained
    /\ SellableVariants

------------------------------------------------------------------------------
(* Rows.                                                                   *)

LEMMA RowsDistinct ==
    /\ Product # StockRow /\ Product # Rec /\ Product # Advice /\ Product # Header /\ Product # Item
    /\ StockRow # Rec /\ StockRow # Advice /\ StockRow # Header /\ StockRow # Item
    /\ Rec # Advice /\ Rec # Header /\ Rec # Item
    /\ Advice # Header /\ Advice # Item /\ Header # Item
    /\ \A v : /\ Variant(v) # Product /\ Variant(v) # StockRow /\ Variant(v) # Rec
              /\ Variant(v) # Advice /\ Variant(v) # Header /\ Variant(v) # Item
    /\ \A v, w : Variant(v) = Variant(w) => v = w
BY DEF Product, StockRow, Rec, Advice, Header, Item, Variant

LEMMA KindIs ==
    /\ Kind(Product) = [price |-> Prices, cost |-> Prices, has |-> BOOLEAN, active |-> BOOLEAN]
    /\ Kind(StockRow) = [units |-> 0..1]
    /\ Kind(Rec) = [status |-> {"none", "PENDING", "APPLIED", "REJECTED"}, price |-> Prices]
    /\ Kind(Advice) = [status |-> {"none", "PENDING", "APPLIED", "DISMISSED", "EXPIRED"},
                       price |-> Prices]
    /\ Kind(Header) = [status |-> {"none", "DRAFT", "FINALIZED"}]
    /\ Kind(Item) = [counted |-> -1..1, system |-> -1..1]
    /\ \A v : Kind(Variant(v)) = [state |-> {"none", "active", "inactive"}]
<1>1. \A v : /\ Variant(v) # Product /\ Variant(v) # StockRow /\ Variant(v) # Rec
             /\ Variant(v) # Advice /\ Variant(v) # Header /\ Variant(v) # Item
  BY RowsDistinct
<1>2. \A v : Kind(Variant(v)) = [state |-> {"none", "active", "inactive"}]
  BY <1>1 DEF Kind
<1>3. QED
  BY <1>2, RowsDistinct DEF Kind

LEMMA TypedColumns ==
    ASSUME NEW row
    PROVE  /\ Typed(Product, row) <=>
                 /\ DOMAIN row = {"price", "cost", "has", "active"}
                 /\ row.price \in Prices /\ row.cost \in Prices
                 /\ row.has \in BOOLEAN /\ row.active \in BOOLEAN
           /\ Typed(StockRow, row) <=> DOMAIN row = {"units"} /\ row.units \in 0..1
           /\ Typed(Rec, row) => row.price \in Prices
           /\ Typed(Advice, row) => row.price \in Prices
           /\ Typed(Header, row) <=> /\ DOMAIN row = {"status"}
                                     /\ row.status \in {"none", "DRAFT", "FINALIZED"}
           /\ \A v : Typed(Variant(v), row) <=>
                 /\ DOMAIN row = {"state"}
                 /\ row.state \in {"none", "active", "inactive"}
<1>1. Typed(Product, row) <=>
                 /\ DOMAIN row = {"price", "cost", "has", "active"}
                 /\ row.price \in Prices /\ row.cost \in Prices
                 /\ row.has \in BOOLEAN /\ row.active \in BOOLEAN
  BY KindIs DEF Typed
<1>2. Typed(StockRow, row) <=> DOMAIN row = {"units"} /\ row.units \in 0..1
  BY KindIs DEF Typed
<1>3. /\ Typed(Rec, row) => row.price \in Prices
      /\ Typed(Advice, row) => row.price \in Prices
  BY KindIs DEF Typed
<1>4. Typed(Header, row) <=> /\ DOMAIN row = {"status"}
                             /\ row.status \in {"none", "DRAFT", "FINALIZED"}
  BY KindIs DEF Typed
<1>5. ASSUME NEW v
      PROVE  Typed(Variant(v), row) <=> /\ DOMAIN row = {"state"}
                                        /\ row.state \in {"none", "active", "inactive"}
  BY KindIs DEF Typed
<1>6. QED
  BY <1>1, <1>2, <1>3, <1>4, <1>5

\* What an UPDATE writes.
LEMMA UpdatedRow ==
    ASSUME NEW t, NEW set, NEW i \in DOMAIN set
    PROVE  /\ i \in DOMAIN Updated(t, set)
                 <=> \E c \in DOMAIN set[i] : set[i][c] # request[t].seen[i][c]
           /\ i \in DOMAIN Updated(t, set) =>
                 /\ \A c : c \in DOMAIN (Updated(t, set)[i])
                             <=> \/ c \in DOMAIN set[i] /\ set[i][c] # request[t].seen[i][c]
                                 \/ c \in DOMAIN See(t, i)
                 /\ \A c \in DOMAIN (Updated(t, set)[i]) :
                       Updated(t, set)[i][c]
                          = IF c \in DOMAIN set[i] /\ set[i][c] # request[t].seen[i][c]
                            THEN set[i][c] ELSE See(t, i)[c]
BY DEF Updated, Changed, Over

LEMMA UpdatedTyped ==
    ASSUME NEW t, NEW set, NEW i \in DOMAIN set, i \in DOMAIN Updated(t, set),
           Fits(i, set[i]), Typed(i, See(t, i))
    PROVE  Typed(i, Updated(t, set)[i])
<1> DEFINE loaded == request[t].seen[i]
           row == Updated(t, set)[i]
           columns == set[i]
           seen == See(t, i)
<1>1. /\ \A c : c \in DOMAIN row <=> \/ c \in DOMAIN columns /\ columns[c] # loaded[c]
                                     \/ c \in DOMAIN seen
      /\ \A c \in DOMAIN row :
            row[c] = IF c \in DOMAIN columns /\ columns[c] # loaded[c] THEN columns[c] ELSE seen[c]
  BY UpdatedRow
<1>2. Fits(i, columns) /\ Typed(i, seen)
  OBVIOUS
<1> HIDE DEF row, columns, seen, loaded
<1>3. Typed(i, row)
  BY <1>1, <1>2 DEF Fits, Typed
<1>4. QED
  BY <1>3 DEF row

------------------------------------------------------------------------------
(* What the requests set.                                                  *)

LEMMA PriceColumnsAre ==
    ASSUME NEW s \in PriceColumns
    PROVE  DOMAIN s \subseteq {"price", "cost"} /\ \A c \in DOMAIN s : s[c] \in Prices
BY DEF PriceColumns

\* The columns of the rows a request sets, all of them rows it loaded.
LEMMA Sets ==
    ASSUME NEW r
    PROVE  /\ r.op = "edit" => /\ DOMAIN Assignments(r) = {Product} /\ Loads(r) = {Product}
                               /\ Assignments(r)[Product] = r.set
           /\ r.op = "deactivate" => /\ DOMAIN Assignments(r) = {Product} /\ Loads(r) = {Product}
                                     /\ Assignments(r)[Product] = [active |-> FALSE]
           /\ r.op = "create" => /\ DOMAIN Assignments(r) = {Variant(r.variant), Product}
                                 /\ Loads(r) = {Product, Variant(r.variant)}
                                 /\ Assignments(r)[Variant(r.variant)] = [state |-> "active"]
                                 /\ Assignments(r)[Product] = [has |-> TRUE]
           /\ r.op = "disable" => /\ DOMAIN Assignments(r) = {Variant(r.variant)}
                                  /\ Loads(r) = {Variant(r.variant)}
                                  /\ Assignments(r)[Variant(r.variant)] = [state |-> "inactive"]
           /\ r.op = "enable" => /\ DOMAIN Assignments(r) = {Variant(r.variant)}
                                 /\ Loads(r) = {Variant(r.variant)}
                                 /\ Assignments(r)[Variant(r.variant)] = [state |-> "active"]
           /\ r.op = "generate" => /\ DOMAIN Assignments(r) = {Rec} /\ Loads(r) = {Rec}
                                   /\ Assignments(r)[Rec] = [status |-> "PENDING", price |-> r.price]
           /\ r.op = "apply" => /\ DOMAIN Assignments(r) = {Product, Rec} /\ Loads(r) = {Product, Rec}
                                /\ Assignments(r)[Product] = [price |-> r.seen[Rec].price]
                                /\ Assignments(r)[Rec] = [status |-> "APPLIED"]
           /\ r.op = "dismiss" => /\ DOMAIN Assignments(r) = {Rec} /\ Loads(r) = {Rec}
                                  /\ Assignments(r)[Rec] = [status |-> "REJECTED"]
           /\ r.op = "generateAdvice" => /\ DOMAIN Assignments(r) = {Advice} /\ Loads(r) = {Advice}
                                         /\ Assignments(r)[Advice] = [status |-> "EXPIRED"]
           /\ r.op = "applyAdvice" => /\ DOMAIN Assignments(r) = {Product, Advice}
                                      /\ Loads(r) = {Product, Advice}
                                      /\ Assignments(r)[Product] = [price |-> r.seen[Advice].price]
                                      /\ Assignments(r)[Advice] = [status |-> "APPLIED"]
           /\ r.op = "dismissAdvice" => /\ DOMAIN Assignments(r) = {Advice} /\ Loads(r) = {Advice}
                                        /\ Assignments(r)[Advice] = [status |-> "DISMISSED"]
           /\ r.op = "open" => /\ DOMAIN Assignments(r) = {Header, Item}
                               /\ Loads(r) = {Item, Header, StockRow}
                               /\ Assignments(r)[Header] = [status |-> "DRAFT"]
                               /\ Assignments(r)[Item] = [counted |-> -1, system |-> -1]
           /\ r.op = "count" => /\ DOMAIN Assignments(r) = {Item} /\ Loads(r) = {Item}
                                /\ Assignments(r)[Item] = [counted |-> r.units]
           /\ r.op = "finalize" => /\ DOMAIN Assignments(r) = {Item, Header}
                                   /\ Loads(r) = {Item, Header, StockRow}
                                   /\ Assignments(r)[Item] = [system |-> r.seen[StockRow].units]
                                   /\ Assignments(r)[Header] = [status |-> "FINALIZED"]
<1>1. CASE r.op = "edit"
  <2>1. Assignments(r) = EditProduct(r) /\ Loads(r) = {Product}
    BY <1>1 DEF Assignments, Loads
  <2>2. QED
    BY <1>1, <2>1 DEF EditProduct, Only
<1>2. CASE r.op = "deactivate"
  <2>1. Assignments(r) = DeactivateProduct /\ Loads(r) = {Product}
    BY <1>2 DEF Assignments, Loads
  <2>2. QED
    BY <1>2, <2>1 DEF DeactivateProduct, Only
<1>3. CASE r.op = "create"
  <2>1. Assignments(r) = CreateVariant(r) /\ Loads(r) = {Variant(r.variant), Product}
    BY <1>3 DEF Assignments, Loads
  <2>2. QED
    BY <1>3, <2>1, RowsDistinct DEF CreateVariant, Over, Only
<1>4. CASE r.op = "disable"
  <2>1. Assignments(r) = DeactivateVariant(r) /\ Loads(r) = {Variant(r.variant)}
    BY <1>4 DEF Assignments, Loads
  <2>2. QED
    BY <1>4, <2>1 DEF DeactivateVariant, Only
<1>5. CASE r.op = "enable"
  <2>1. Assignments(r) = EnableVariant(r) /\ Loads(r) = {Variant(r.variant)}
    BY <1>5 DEF Assignments, Loads
  <2>2. QED
    BY <1>5, <2>1 DEF EnableVariant, Only
<1>6. CASE r.op = "generate"
  <2>1. Assignments(r) = GenerateRecommendations(r) /\ Loads(r) = {Rec}
    BY <1>6 DEF Assignments, Loads
  <2>2. QED
    BY <1>6, <2>1 DEF GenerateRecommendations, Only
<1>7. CASE r.op = "apply"
  <2>1. Assignments(r) = ApplyRecommendation(r) /\ Loads(r) = {Product, Rec}
    BY <1>7 DEF Assignments, Loads
  <2>2. QED
    BY <1>7, <2>1, RowsDistinct DEF ApplyRecommendation, Over, Only
<1>8. CASE r.op = "dismiss"
  <2>1. Assignments(r) = DismissRecommendation /\ Loads(r) = {Rec}
    BY <1>8 DEF Assignments, Loads
  <2>2. QED
    BY <1>8, <2>1 DEF DismissRecommendation, Only
<1>9. CASE r.op = "generateAdvice"
  <2>1. Assignments(r) = GenerateAll /\ Loads(r) = {Advice}
    BY <1>9 DEF Assignments, Loads
  <2>2. QED
    BY <1>9, <2>1 DEF GenerateAll, Only
<1>10. CASE r.op = "applyAdvice"
  <2>1. Assignments(r) = ApplyAdvice(r) /\ Loads(r) = {Product, Advice}
    BY <1>10 DEF Assignments, Loads
  <2>2. QED
    BY <1>10, <2>1, RowsDistinct DEF ApplyAdvice, Over, Only
<1>11. CASE r.op = "dismissAdvice"
  <2>1. Assignments(r) = DismissAdvice /\ Loads(r) = {Advice}
    BY <1>11 DEF Assignments, Loads
  <2>2. QED
    BY <1>11, <2>1 DEF DismissAdvice, Only
<1>12. CASE r.op = "open"
  <2>1. Assignments(r) = CreateStockCount /\ Loads(r) = {Item, Header, StockRow}
    BY <1>12 DEF Assignments, Loads
  <2>2. QED
    BY <1>12, <2>1, RowsDistinct DEF CreateStockCount, Over, Only
<1>13. CASE r.op = "count"
  <2>1. Assignments(r) = UpdateCountItem(r) /\ Loads(r) = {Item}
    BY <1>13 DEF Assignments, Loads
  <2>2. QED
    BY <1>13, <2>1 DEF UpdateCountItem, Only
<1>14. CASE r.op = "finalize"
  <2>1. Assignments(r) = FinalizeStockCount(r) /\ Loads(r) = {Item, Header, StockRow}
    BY <1>14 DEF Assignments, Loads
  <2>2. QED
    BY <1>14, <2>1, RowsDistinct DEF FinalizeStockCount, Over, Only
<1>15. QED
  BY <1>1, <1>2, <1>3, <1>4, <1>5, <1>6, <1>7, <1>8, <1>9, <1>10, <1>11, <1>12, <1>13, <1>14

\* The rows a request sets.
LEMMA SetRows ==
    ASSUME NEW r
    PROVE  /\ r.op \in {"edit", "deactivate"} => DOMAIN Assignments(r) = {Product}
           /\ r.op = "create" => DOMAIN Assignments(r) = {Variant(r.variant), Product}
           /\ r.op \in {"disable", "enable"} => DOMAIN Assignments(r) = {Variant(r.variant)}
           /\ r.op \in {"generate", "dismiss"} => DOMAIN Assignments(r) = {Rec}
           /\ r.op = "apply" => DOMAIN Assignments(r) = {Product, Rec}
           /\ r.op = "applyAdvice" => DOMAIN Assignments(r) = {Product, Advice}
           /\ r.op \in {"generateAdvice", "dismissAdvice"} => DOMAIN Assignments(r) = {Advice}
           /\ r.op = "count" => DOMAIN Assignments(r) = {Item}
           /\ r.op \in {"open", "finalize"} => DOMAIN Assignments(r) = {Item, Header}
BY Sets

LEMMA SetsProduct ==
    ASSUME NEW r, r.op \in Ops, Product \in DOMAIN Assignments(r)
    PROVE  r.op \in {"edit", "deactivate", "create", "apply", "applyAdvice"}
<1> DEFINE rows == DOMAIN Assignments(r)
<1>1. /\ r.op \in {"disable", "enable"} => rows = {Variant(r.variant)}
      /\ r.op \in {"generate", "dismiss"} => rows = {Rec}
      /\ r.op \in {"generateAdvice", "dismissAdvice"} => rows = {Advice}
      /\ r.op = "count" => rows = {Item}
      /\ r.op \in {"open", "finalize"} => rows = {Item, Header}
  BY SetRows
<1>2. Product \in rows
  OBVIOUS
<1> HIDE DEF rows
<1>3. QED
  BY <1>1, <1>2, RowsDistinct DEF Ops

LEMMA FitColumns ==
    /\ \A s : DOMAIN s \subseteq {"price", "cost"} /\ (\A c \in DOMAIN s : s[c] \in Prices) => Fits(Product, s)
    /\ Fits(Product, [active |-> FALSE]) /\ Fits(Product, [has |-> TRUE])
    /\ \A x \in Prices : Fits(Product, [price |-> x])
    /\ \A v : Fits(Variant(v), [state |-> "active"]) /\ Fits(Variant(v), [state |-> "inactive"])
    /\ \A x \in Prices : Fits(Rec, [status |-> "PENDING", price |-> x])
    /\ Fits(Rec, [status |-> "APPLIED"]) /\ Fits(Rec, [status |-> "REJECTED"])
    /\ Fits(Advice, [status |-> "EXPIRED"]) /\ Fits(Advice, [status |-> "APPLIED"]) /\ Fits(Advice, [status |-> "DISMISSED"])
    /\ Fits(Header, [status |-> "DRAFT"]) /\ Fits(Header, [status |-> "FINALIZED"])
    /\ Fits(Item, [counted |-> -1, system |-> -1])
    /\ \A n \in 0..1 : Fits(Item, [counted |-> n]) /\ Fits(Item, [system |-> n])
<1>1. \A s : DOMAIN s \subseteq {"price", "cost"} /\ (\A c \in DOMAIN s : s[c] \in Prices) => Fits(Product, s)
  BY KindIs DEF Fits
<1>2. Fits(Product, [active |-> FALSE]) /\ Fits(Product, [has |-> TRUE])
  <2>1. ASSUME NEW s, DOMAIN s = {"active"} \/ DOMAIN s = {"has"},
               \A c \in DOMAIN s : s[c] \in BOOLEAN
        PROVE  Fits(Product, s)
    BY <2>1, KindIs DEF Fits
  <2>2. \A b \in BOOLEAN : /\ DOMAIN [active |-> b] = {"active"} /\ [active |-> b]["active"] \in BOOLEAN
                           /\ DOMAIN [has |-> b] = {"has"} /\ [has |-> b]["has"] \in BOOLEAN
    OBVIOUS
  <2>3. \A b \in BOOLEAN : Fits(Product, [active |-> b]) /\ Fits(Product, [has |-> b])
    BY <2>1, <2>2
  <2>4. QED
    BY <2>3
<1>3. \A x \in Prices : Fits(Product, [price |-> x])
  BY KindIs DEF Fits
<1>4. \A v : Fits(Variant(v), [state |-> "active"]) /\ Fits(Variant(v), [state |-> "inactive"])
  BY KindIs DEF Fits
<1>5. \A x \in Prices : Fits(Rec, [status |-> "PENDING", price |-> x])
  BY KindIs DEF Fits
<1>6. Fits(Rec, [status |-> "APPLIED"]) /\ Fits(Rec, [status |-> "REJECTED"])
  BY KindIs DEF Fits
<1>7. Fits(Advice, [status |-> "EXPIRED"]) /\ Fits(Advice, [status |-> "APPLIED"]) /\ Fits(Advice, [status |-> "DISMISSED"])
  BY KindIs DEF Fits
<1>8. Fits(Header, [status |-> "DRAFT"]) /\ Fits(Header, [status |-> "FINALIZED"])
  BY KindIs DEF Fits
<1>9. Fits(Item, [counted |-> -1, system |-> -1])
  BY KindIs DEF Fits
<1>10. \A n \in 0..1 : Fits(Item, [counted |-> n]) /\ Fits(Item, [system |-> n])
  BY KindIs DEF Fits
<1>11. QED
  BY <1>1, <1>2, <1>3, <1>4, <1>5, <1>6, <1>7, <1>8, <1>9, <1>10

LEMMA SetsFit ==
    ASSUME NEW r, IsRequest(r), NEW i \in DOMAIN Assignments(r)
    PROVE  i \in Loads(r) /\ i \in CatalogueRows /\ Fits(i, Assignments(r)[i])
<1>1. r.op \in Ops
  BY DEF IsRequest
<1>2. CASE r.op = "edit"
  <2>1. /\ DOMAIN Assignments(r) = {Product} /\ Loads(r) = {Product}
        /\ Assignments(r)[Product] = r.set
    BY <1>2, Sets
  <2>2. DOMAIN r.set \subseteq {"price", "cost"} /\ \A c \in DOMAIN r.set : r.set[c] \in Prices
    BY <1>2, <2>1, PriceColumnsAre DEF IsRequest
  <2> QED
    BY <2>1, <2>2, FitColumns DEF CatalogueRows
<1>3. CASE r.op = "deactivate"
  <2>1. /\ DOMAIN Assignments(r) = {Product} /\ Loads(r) = {Product}
        /\ Assignments(r)[Product] = [active |-> FALSE]
    BY <1>3, Sets
  <2> QED
    BY <2>1, FitColumns DEF CatalogueRows
<1>4. CASE r.op = "create"
  <2>1. /\ DOMAIN Assignments(r) = {Variant(r.variant), Product} /\ Loads(r) = {Product, Variant(r.variant)}
        /\ Assignments(r)[Variant(r.variant)] = [state |-> "active"]
        /\ Assignments(r)[Product] = [has |-> TRUE]
    BY <1>4, Sets
  <2>2. r.variant \in Variants
    BY <1>4, <2>1 DEF IsRequest
  <2> QED
    BY <2>1, <2>2, FitColumns DEF CatalogueRows
<1>5. CASE r.op = "disable"
  <2>1. /\ DOMAIN Assignments(r) = {Variant(r.variant)} /\ Loads(r) = {Variant(r.variant)}
        /\ Assignments(r)[Variant(r.variant)] = [state |-> "inactive"]
    BY <1>5, Sets
  <2>2. r.variant \in Variants
    BY <1>5, <2>1 DEF IsRequest
  <2> QED
    BY <2>1, <2>2, FitColumns DEF CatalogueRows
<1>6. CASE r.op = "enable"
  <2>1. /\ DOMAIN Assignments(r) = {Variant(r.variant)} /\ Loads(r) = {Variant(r.variant)}
        /\ Assignments(r)[Variant(r.variant)] = [state |-> "active"]
    BY <1>6, Sets
  <2>2. r.variant \in Variants
    BY <1>6, <2>1 DEF IsRequest
  <2> QED
    BY <2>1, <2>2, FitColumns DEF CatalogueRows
<1>7. CASE r.op = "generate"
  <2>1. /\ DOMAIN Assignments(r) = {Rec} /\ Loads(r) = {Rec}
        /\ Assignments(r)[Rec] = [status |-> "PENDING", price |-> r.price]
    BY <1>7, Sets
  <2>2. r.price \in Prices
    BY <1>7, <2>1 DEF IsRequest
  <2> QED
    BY <2>1, <2>2, FitColumns DEF CatalogueRows
<1>8. CASE r.op = "apply"
  <2>1. /\ DOMAIN Assignments(r) = {Product, Rec} /\ Loads(r) = {Product, Rec}
        /\ Assignments(r)[Product] = [price |-> r.seen[Rec].price]
        /\ Assignments(r)[Rec] = [status |-> "APPLIED"]
    BY <1>8, Sets
  <2>2. r.seen[Rec].price \in Prices
    BY <1>8, <2>1, TypedColumns DEF IsRequest
  <2> QED
    BY <2>1, <2>2, FitColumns DEF CatalogueRows
<1>9. CASE r.op = "dismiss"
  <2>1. /\ DOMAIN Assignments(r) = {Rec} /\ Loads(r) = {Rec}
        /\ Assignments(r)[Rec] = [status |-> "REJECTED"]
    BY <1>9, Sets
  <2> QED
    BY <2>1, FitColumns DEF CatalogueRows
<1>10. CASE r.op = "generateAdvice"
  <2>1. /\ DOMAIN Assignments(r) = {Advice} /\ Loads(r) = {Advice}
        /\ Assignments(r)[Advice] = [status |-> "EXPIRED"]
    BY <1>10, Sets
  <2> QED
    BY <2>1, FitColumns DEF CatalogueRows
<1>11. CASE r.op = "applyAdvice"
  <2>1. /\ DOMAIN Assignments(r) = {Product, Advice} /\ Loads(r) = {Product, Advice}
        /\ Assignments(r)[Product] = [price |-> r.seen[Advice].price]
        /\ Assignments(r)[Advice] = [status |-> "APPLIED"]
    BY <1>11, Sets
  <2>2. r.seen[Advice].price \in Prices
    BY <1>11, <2>1, TypedColumns DEF IsRequest
  <2> QED
    BY <2>1, <2>2, FitColumns DEF CatalogueRows
<1>12. CASE r.op = "dismissAdvice"
  <2>1. /\ DOMAIN Assignments(r) = {Advice} /\ Loads(r) = {Advice}
        /\ Assignments(r)[Advice] = [status |-> "DISMISSED"]
    BY <1>12, Sets
  <2> QED
    BY <2>1, FitColumns DEF CatalogueRows
<1>13. CASE r.op = "open"
  <2>1. /\ DOMAIN Assignments(r) = {Header, Item} /\ Loads(r) = {Item, Header, StockRow}
        /\ Assignments(r)[Header] = [status |-> "DRAFT"]
        /\ Assignments(r)[Item] = [counted |-> -1, system |-> -1]
    BY <1>13, Sets
  <2> QED
    BY <2>1, FitColumns DEF CatalogueRows
<1>14. CASE r.op = "count"
  <2>1. /\ DOMAIN Assignments(r) = {Item} /\ Loads(r) = {Item}
        /\ Assignments(r)[Item] = [counted |-> r.units]
    BY <1>14, Sets
  <2>2. r.units \in 0..1
    BY <1>14, <2>1 DEF IsRequest
  <2> QED
    BY <2>1, <2>2, FitColumns DEF CatalogueRows
<1>15. CASE r.op = "finalize"
  <2>1. /\ DOMAIN Assignments(r) = {Item, Header} /\ Loads(r) = {Item, Header, StockRow}
        /\ Assignments(r)[Item] = [system |-> r.seen[StockRow].units]
        /\ Assignments(r)[Header] = [status |-> "FINALIZED"]
    BY <1>15, Sets
  <2>2. r.seen[StockRow].units \in 0..1
    BY <1>15, <2>1, TypedColumns DEF IsRequest
  <2> QED
    BY <2>1, <2>2, FitColumns DEF CatalogueRows
<1>16. QED
  BY <1>1, <1>2, <1>3, <1>4, <1>5, <1>6, <1>7, <1>8, <1>9, <1>10, <1>11, <1>12, <1>13, <1>14, <1>15 DEF Ops

------------------------------------------------------------------------------
(* Steps.                                                                  *)

\* A request keeps its part of the invariant through a step that is not its
\* own, as far as the step leaves alone what it read.
LEMMA OtherRequest ==
    ASSUME CatalogueInv, NEW u \in Txs,
           own'[u] = own[u], todo'[u] = todo[u], request'[u] = request[u],
           blurred => blurred', crossed => crossed', miscounted => miscounted',
           \A i \in Locked(u) \ {StockRow} : db'[i] = db[i],
           ~blurred' /\ request[u].op \in Priced =>
               /\ \A w \in Txs \ {u} : request'[w].op \notin Priced
               /\ Pricing(db'[Product]) = Pricing(db[Product])
               /\ history' = history,
           ~crossed' /\ request[u].op = "disable" =>
               /\ \A w \in Txs \ {u} : request'[w].op # "disable"
               /\ LeavesOne(u) => LeavesOne(u)',
           ~miscounted' /\ request[u].op \in Counting =>
               /\ \A w \in Txs \ {u} : request'[w].op \notin Counting
               /\ Draft => Draft'
    PROVE  RequestInv(u)'
<1>1. InStage(u) /\ WritesOwn(u) /\ PricesKnown(u) /\ Checked(u) /\ StillDraft(u)
  BY DEF CatalogueInv, RequestInv
<1>2. /\ Locked(u)' = Locked(u) /\ (Idle(u)' <=> Idle(u)) /\ (Settled(u)' <=> Settled(u))
      /\ CatalogueRows' = CatalogueRows
  BY DEF Locked, Idle, Settled, CatalogueRows
<1>3. InStage(u)'
  BY <1>1, <1>2 DEF InStage
<1>4. WritesOwn(u)'
  <2>1. /\ Product \in Locked(u) => db'[Product] = db[Product]
        /\ Header \in Locked(u) => db'[Header] = db[Header]
    BY RowsDistinct
  <2>2. QED
    BY <1>1, <1>2, <2>1 DEF WritesOwn
<1>5. PricesKnown(u)'
  <2> SUFFICES ASSUME ~blurred', request[u].op \in Priced
               PROVE  /\ \A w \in Txs \ {u} : request'[w].op \notin Priced
                      /\ Pricing(request[u].seen[Product]) = Pricing(db'[Product])
                      /\ Settled(u) /\ request[u].op # "applyAdvice" =>
                            Pricing(See(u, Product)')
                               = Last(history' \o HistoryOf(request[u])).to
    BY <1>2 DEF PricesKnown
  <2>1. /\ Pricing(request[u].seen[Product]) = Pricing(db[Product])
        /\ Settled(u) /\ request[u].op # "applyAdvice" =>
              Pricing(See(u, Product)) = Last(history \o HistoryOf(request[u])).to
    BY <1>1 DEF PricesKnown
  <2>2. Pricing(See(u, Product)') = Pricing(See(u, Product))
    BY <1>2, RowsDistinct DEF See, Locked
  <2>3. QED
    BY <2>1, <2>2
<1>6. Checked(u)'
  BY <1>1, <1>2 DEF Checked
<1>7. StillDraft(u)'
  BY <1>1, <1>2 DEF StillDraft
<1>8. QED
  BY <1>3, <1>4, <1>5, <1>6, <1>7 DEF RequestInv

\* A step of one request that commits nothing.
LEMMA QuietRequest ==
    ASSUME CatalogueInv, NEW t \in Txs, UNCHANGED <<db, history>>,
           DOMAIN own' = Txs, DOMAIN todo' = Txs, DOMAIN request' = Txs,
           \A u \in Txs : u # t => own'[u] = own[u] /\ todo'[u] = todo[u] /\ request'[u] = request[u],
           blurred => blurred', crossed => crossed', miscounted => miscounted',
           \A u \in Txs : u # t => Locked(t)' \cap Locked(u) = {},
           RequestInv(t)'
    PROVE  CatalogueInv'
<1>1. CatalogueTables'
  <2>1. CatalogueRows' = CatalogueRows
    BY DEF CatalogueRows
  <2>2. QED
    BY <2>1 DEF CatalogueInv, CatalogueTables
<1>2. RowsApart'
  <2>1. \A u \in Txs : u # t => Locked(u)' = Locked(u)
    BY DEF Locked
  <2>2. QED
    BY <2>1 DEF CatalogueInv, RowsApart
<1>3. ASSUME NEW u \in Txs, u # t PROVE RequestInv(u)'
  <2>1. PricesKnown(u) /\ Checked(u) /\ StillDraft(u)
    BY DEF CatalogueInv, RequestInv
  <2>2. PricesKnown(t)' /\ Checked(t)' /\ StillDraft(t)'
    BY DEF RequestInv
  <2>3. See(u, Product)' = See(u, Product) /\ \A v : See(u, Variant(v))' = See(u, Variant(v))
    BY <1>3 DEF See
  <2>4. (LeavesOne(u) <=> LeavesOne(u)') /\ (Draft <=> Draft')
    BY <2>3 DEF LeavesOne, Draft
  <2>5. ~blurred' /\ request[u].op \in Priced => \A w \in Txs \ {u} : request'[w].op \notin Priced
    BY <1>3, <2>1, <2>2 DEF PricesKnown
  <2>6. ~crossed' /\ request[u].op = "disable" => \A w \in Txs \ {u} : request'[w].op # "disable"
    BY <1>3, <2>1, <2>2 DEF Checked
  <2>7. ~miscounted' /\ request[u].op \in Counting => \A w \in Txs \ {u} : request'[w].op \notin Counting
    BY <1>3, <2>1, <2>2 DEF StillDraft
  <2>8. QED
    BY <1>3, <2>4, <2>5, <2>6, <2>7, OtherRequest
<1>4. PriceExplained' /\ SellableVariants'
  BY DEF CatalogueInv, PriceExplained, SellableVariants
<1>5. QED
  BY <1>1, <1>2, <1>3, <1>4 DEF CatalogueInv

LEMMA RequestEnded ==
    ASSUME CatalogueInv, NEW t \in Txs, End(t)
    PROVE  /\ DOMAIN own' = Txs /\ DOMAIN todo' = Txs /\ DOMAIN request' = Txs
           /\ \A u \in Txs : u # t => own'[u] = own[u] /\ todo'[u] = todo[u] /\ request'[u] = request[u]
           /\ Locked(t)' = {} /\ RequestInv(t)'
<1>1. /\ DOMAIN own' = Txs /\ DOMAIN todo' = Txs /\ DOMAIN request' = Txs
      /\ own'[t] = <<>> /\ todo'[t] = <<>> /\ request'[t] = NoRequest
      /\ \A u \in Txs : u # t => own'[u] = own[u] /\ todo'[u] = todo[u] /\ request'[u] = request[u]
  BY DEF CatalogueInv, CatalogueTables, End, Release
<1>2. Locked(t)' = {} /\ Idle(t)' /\ ~Settled(t)'
  BY <1>1 DEF Locked, Idle, Settled
<1>3. request'[t].op = "none"
  BY <1>1 DEF NoRequest
<1>4. InStage(t)'
  BY <1>1, <1>2 DEF InStage
<1>5. WritesOwn(t)'
  BY <1>2, <1>3 DEF WritesOwn
<1>6. PricesKnown(t)' /\ Checked(t)' /\ StillDraft(t)'
  BY <1>3 DEF PricesKnown, Checked, StillDraft, Priced, Counting
<1>7. QED
  BY <1>1, <1>2, <1>4, <1>5, <1>6 DEF RequestInv

LEMMA RollbackInv ==
    ASSUME CatalogueInv, NEW t \in Txs, Rollback(t)
    PROVE  CatalogueInv'
<1>1. End(t) /\ UNCHANGED <<db, history, blurred, crossed, miscounted>>
  BY DEF Rollback, ghosts
<1>2. QED
  BY <1>1, RequestEnded, QuietRequest


------------------------------------------------------------------------------
(* Beginning a request.                                                    *)

LEMMA OfferedRequest ==
    ASSUME NEW r \in Offered
    PROVE  /\ "op" \in DOMAIN r /\ "seen" \notin DOMAIN r /\ r.op \in Ops
           /\ r.op = "edit" => "set" \in DOMAIN r /\ r.set \in PriceColumns
           /\ r.op \in {"create", "disable", "enable"} => "variant" \in DOMAIN r /\ r.variant \in Variants
           /\ r.op = "create" => db[Variant(r.variant)].state = "none"
           /\ r.op = "generate" => "price" \in DOMAIN r /\ r.price \in Prices
           /\ r.op = "count" => "units" \in DOMAIN r /\ r.units \in 0..1
           /\ r.op = "open" => db[Header].status = "none"
           /\ r.op \in Counting => Draft
<1> DEFINE Present == {v \in Variants : db[Variant(v)].state # "none"}
           Plain == {"deactivate", "apply", "dismiss", "applyAdvice", "dismissAdvice", "generateAdvice",
                     "open", "finalize"}
<1>1. \/ r \in Edits
      \/ \E name \in Plain : /\ r \in [op : {name}]
                             /\ name = "open" => db[Header].status = "none"
                             /\ name = "finalize" => Draft
      \/ r \in [op : {"create"}, variant : Variants \ Present]
      \/ r \in [op : {"disable", "enable"}, variant : Present]
      \/ r \in [op : {"generate"}, price : Prices]
      \/ r \in [op : {"count"}, units : 0..1] /\ Draft
  BY DEF Offered, Proposals
<1>2. CASE r \in Edits
  BY <1>2 DEF Edits, Ops, Counting
<1>3. CASE \E name \in Plain : /\ r \in [op : {name}]
                               /\ name = "open" => db[Header].status = "none"
                               /\ name = "finalize" => Draft
  BY <1>3 DEF Ops, Counting
<1>4. CASE r \in [op : {"create"}, variant : Variants \ Present]
  BY <1>4 DEF Ops, Counting
<1>5. CASE r \in [op : {"disable", "enable"}, variant : Present]
  BY <1>5 DEF Ops, Counting
<1>6. CASE r \in [op : {"generate"}, price : Prices]
  BY <1>6 DEF Ops, Counting
<1>7. CASE r \in [op : {"count"}, units : 0..1] /\ Draft
  BY <1>7 DEF Ops, Counting
<1>8. QED
  BY <1>1, <1>2, <1>3, <1>4, <1>5, <1>6, <1>7

\* A request as it is when it has loaded its rows.
LEMMA LoadedRequest ==
    ASSUME CatalogueTables, NEW r \in Offered, NEW q,
           q = Over(r, [seen |-> Restrict(db, Loads(r))])
    PROVE  /\ IsRequest(q) /\ q.op = r.op
           /\ Pricing(q.seen[Product]) = Pricing(db[Product]) \/ q.op \notin Priced
<1>1. /\ \A c \in DOMAIN r : q[c] = r[c]
      /\ q.seen = Restrict(db, Loads(r))
  BY OfferedRequest DEF Over
<1>2. DOMAIN q.seen = Loads(r) /\ \A i \in Loads(r) : q.seen[i] = db[i]
  BY <1>1 DEF Restrict
<1>3. /\ q.op = r.op
      /\ r.op = "edit" => q.set = r.set
      /\ r.op \in {"create", "disable", "enable"} => q.variant = r.variant
      /\ r.op = "generate" => q.price = r.price
      /\ r.op = "count" => q.units = r.units
  BY <1>1, OfferedRequest
<1>4. Loads(q) = Loads(r)
  <2>1. r.op \in Ops
    BY OfferedRequest
  <2>2. QED
    BY <1>3, <2>1 DEF Loads, Ops
<1>5. Loads(r) \subseteq CatalogueRows
  <2>1. r.op \in {"create", "disable", "enable"} => r.variant \in Variants
    BY OfferedRequest
  <2>2. r.op \in Ops
    BY OfferedRequest
  <2>3. /\ r.op \in {"edit", "deactivate"} => Loads(r) = {Product}
        /\ r.op = "create" => Loads(r) = {Product, Variant(r.variant)}
        /\ r.op \in {"disable", "enable"} => Loads(r) = {Variant(r.variant)}
        /\ r.op \in {"generate", "dismiss"} => Loads(r) = {Rec}
        /\ r.op = "apply" => Loads(r) = {Product, Rec}
        /\ r.op = "applyAdvice" => Loads(r) = {Product, Advice}
        /\ r.op \in {"dismissAdvice", "generateAdvice"} => Loads(r) = {Advice}
        /\ r.op = "count" => Loads(r) = {Item}
        /\ r.op \in {"open", "finalize"} => Loads(r) = {Item, Header, StockRow}
    BY DEF Loads
  <2>4. QED
    BY <2>1, <2>2, <2>3 DEF CatalogueRows, Ops
<1>6. \A i \in Loads(q) : Typed(i, q.seen[i])
  BY <1>2, <1>4, <1>5 DEF CatalogueTables
<1>7. /\ r.op = "create" => Variant(r.variant) \in Loads(r)
      /\ r.op = "open" => Header \in Loads(r)
      /\ r.op \in Priced => Product \in Loads(r)
  BY DEF Loads, Priced
<1>8. IsRequest(q)
  BY <1>2, <1>3, <1>4, <1>6, <1>7, OfferedRequest DEF IsRequest
<1>9. q.op \in Priced => Pricing(q.seen[Product]) = Pricing(db[Product])
  BY <1>2, <1>3, <1>7
<1>10. QED
  BY <1>3, <1>8, <1>9

LEMMA BeginInv ==
    ASSUME CatalogueInv, NEW t \in Txs, Begin(t)
    PROVE  CatalogueInv'
<1>1. PICK r \in Offered :
          /\ request' = [request EXCEPT ![t] = Over(r, [seen |-> Restrict(db, Loads(r))])]
          /\ todo' = [todo EXCEPT ![t] = IF r.op = "disable"
                                         THEN <<"flush", "check", "commit">>
                                         ELSE <<"flush", "commit">>]
          /\ blurred' = (blurred \/ (r.op \in Priced /\ UnderWay(t, Priced)))
          /\ crossed' = (crossed \/ (r.op = "disable" /\ UnderWay(t, {"disable"})))
          /\ miscounted' = (miscounted \/ (r.op \in Counting /\ UnderWay(t, Counting)))
  BY DEF Begin
<1>2. Idle(t) /\ UNCHANGED <<db, own, history>>
  BY DEF Begin
<1>3. CatalogueTables /\ InStage(t)
  BY DEF CatalogueInv, RequestInv
<1>4. Locked(t) = {}
  BY <1>2, <1>3 DEF InStage, Idle
<1> DEFINE q == Over(r, [seen |-> Restrict(db, Loads(r))])
<1>5. /\ IsRequest(q) /\ q.op = r.op
      /\ Pricing(q.seen[Product]) = Pricing(db[Product]) \/ q.op \notin Priced
  BY <1>3, LoadedRequest
<1>6. /\ DOMAIN request' = Txs /\ request'[t] = q /\ DOMAIN todo' = Txs /\ DOMAIN own' = Txs
      /\ \A u \in Txs : u # t => own'[u] = own[u] /\ todo'[u] = todo[u] /\ request'[u] = request[u]
  BY <1>1, <1>2, <1>3 DEF CatalogueTables
<1>7. todo'[t] = IF r.op = "disable" THEN <<"flush", "check", "commit">> ELSE <<"flush", "commit">>
  BY <1>1, <1>3 DEF CatalogueTables
<1>8. r.op \in Counting => Draft
  BY OfferedRequest
<1> HIDE DEF q
<1>9. Locked(t)' = {} /\ ~Idle(t)' /\ ~Settled(t)'
  <2>1. /\ <<"flush", "check", "commit">> # <<>> /\ <<"flush", "commit">> # <<>>
        /\ <<"flush", "check", "commit">> # <<"commit">> /\ <<"flush", "commit">> # <<"commit">>
    OBVIOUS
  <2>2. QED
    BY <1>2, <1>4, <1>7, <2>1 DEF Locked, Idle, Settled
<1>10. InStage(t)'
  <2>1. /\ <<"flush", "check", "commit">> # <<"flush", "commit">>
        /\ <<"check", "commit">> # <<"flush", "commit">>
    OBVIOUS
  <2>2. QED
    BY <1>5, <1>6, <1>7, <1>9, <2>1 DEF InStage
<1>11. WritesOwn(t)'
  BY <1>9 DEF WritesOwn
<1>12. PricesKnown(t)' /\ Checked(t)' /\ StillDraft(t)'
  <2>1. /\ ~blurred' /\ r.op \in Priced => \A u \in Txs \ {t} : request'[u].op \notin Priced
        /\ ~crossed' /\ r.op = "disable" => \A u \in Txs \ {t} : request'[u].op # "disable"
        /\ ~miscounted' /\ r.op \in Counting => \A u \in Txs \ {t} : request'[u].op \notin Counting
    BY <1>1, <1>6 DEF UnderWay
  <2>2. Draft' = Draft
    BY <1>2 DEF Draft
  <2>3. PricesKnown(t)'
    BY <1>2, <1>5, <1>6, <1>9, <2>1 DEF PricesKnown
  <2>4. Checked(t)'
    BY <1>5, <1>6, <1>9, <2>1 DEF Checked
  <2>5. StillDraft(t)'
    BY <1>5, <1>6, <1>8, <2>1, <2>2 DEF StillDraft
  <2>6. QED
    BY <2>3, <2>4, <2>5
<1>13. RequestInv(t)'
  BY <1>10, <1>11, <1>12 DEF RequestInv
<1>14. (blurred => blurred') /\ (crossed => crossed') /\ (miscounted => miscounted')
  BY <1>1
<1>15. QED
  BY <1>2, <1>6, <1>9, <1>13, <1>14, QuietRequest

------------------------------------------------------------------------------
(* Flushing a request.                                                     *)

\* What a session sees and holds after a statement of its own.
LEMMA StatementSeen ==
    ASSUME DOMAIN own = Txs, NEW t \in Txs, NEW STATE values, Write(t, values), UNCHANGED db
    PROVE  /\ DOMAIN own' = Txs
           /\ \A u \in Txs : u # t => own'[u] = own[u]
           /\ Locked(t)' = Locked(t) \cup DOMAIN values
           /\ \A i : See(t, i)' = IF i \in DOMAIN values THEN values[i] ELSE See(t, i)
           /\ \A i \in Locked(t)' : own'[t][i] = See(t, i)'
<1>1. DOMAIN own' = Txs /\ own'[t] = Over(values, own[t])
      /\ \A u \in Txs : u # t => own'[u] = own[u]
  BY DEF Write
<1>2. DOMAIN own'[t] = DOMAIN values \cup DOMAIN own[t]
      /\ \A i \in DOMAIN own'[t] : own'[t][i] = IF i \in DOMAIN values THEN values[i] ELSE own[t][i]
  BY <1>1 DEF Over
<1>3. QED
  BY <1>1, <1>2 DEF Locked, See

\* A statement locks no row another session has.
LEMMA FreeApart ==
    ASSUME RowsApart, NEW t \in Txs, NEW ids, Free(t, ids), NEW u \in Txs, u # t
    PROVE  (Locked(t) \cup ids) \cap Locked(u) = {}
<1>1. Locked(u) \cap ids = {}
  BY DEF Free, HeldByOthers
<1>2. Locked(t) \cap Locked(u) = {}
  BY DEF RowsApart
<1>3. QED
  BY <1>1, <1>2

\* The rows a request flushes: those where some column differs from the loaded
\* one; the other columns are the committed ones.
Flushed(t) == Updated(t, Assignments(request[t]))
Differs(t, i) ==
    \E c \in DOMAIN Assignments(request[t])[i] :
       Assignments(request[t])[i][c] # request[t].seen[i][c]

LEMMA FlushedRows ==
    ASSUME CatalogueInv, NEW t \in Txs, At(t, "flush")
    PROVE  /\ IsRequest(request[t]) /\ Locked(t) = {} /\ \A i : See(t, i) = db[i]
           /\ todo[t] \in {<<"flush", "commit">>, <<"flush", "check", "commit">>}
           /\ DOMAIN Flushed(t) \subseteq DOMAIN Assignments(request[t])
           /\ DOMAIN Flushed(t) \subseteq CatalogueRows
           /\ \A i \in DOMAIN Assignments(request[t]) : i \in DOMAIN Flushed(t) <=> Differs(t, i)
           /\ \A i \in DOMAIN Flushed(t) : Typed(i, Flushed(t)[i])
           /\ \A i \in DOMAIN Flushed(t) : \A c \in DOMAIN (Flushed(t)[i]) :
                 Flushed(t)[i][c]
                    = IF /\ c \in DOMAIN Assignments(request[t])[i]
                         /\ Assignments(request[t])[i][c] # request[t].seen[i][c]
                      THEN Assignments(request[t])[i][c] ELSE db[i][c]
<1> DEFINE set == Assignments(request[t])
<1>1. InStage(t) /\ CatalogueTables
  BY DEF CatalogueInv, RequestInv
<1>2. /\ ~Idle(t) /\ todo[t] \in {<<"flush", "commit">>, <<"flush", "check", "commit">>}
  <2>1. /\ Head(<<"commit">>) # "flush" /\ Head(<<"check", "commit">>) # "flush"
    OBVIOUS
  <2>2. QED
    BY <1>1, <2>1 DEF InStage, At, Idle
<1>3. IsRequest(request[t]) /\ Locked(t) = {}
  BY <1>1, <1>2 DEF InStage
<1>4. \A i : See(t, i) = db[i]
  BY <1>3 DEF See, Locked
<1>5. Flushed(t) = Updated(t, set) /\ DOMAIN Updated(t, set) \subseteq DOMAIN set
  BY DEF Updated, Flushed
<1>6. \A i \in DOMAIN set : Fits(i, set[i]) /\ Typed(i, See(t, i)) /\ i \in CatalogueRows
  BY <1>1, <1>3, <1>4, SetsFit DEF CatalogueTables
<1> HIDE DEF set
<1>7. \A i \in DOMAIN Updated(t, set) : Typed(i, Updated(t, set)[i])
  BY <1>5, <1>6, UpdatedTyped
<1>8. \A i \in DOMAIN set :
         i \in DOMAIN Updated(t, set) <=> \E c \in DOMAIN set[i] : set[i][c] # request[t].seen[i][c]
  BY UpdatedRow
<1>9. \A i \in DOMAIN Updated(t, set) : \A c \in DOMAIN (Updated(t, set)[i]) :
         Updated(t, set)[i][c] = IF c \in DOMAIN set[i] /\ set[i][c] # request[t].seen[i][c]
                                 THEN set[i][c] ELSE db[i][c]
  BY <1>4, <1>5, UpdatedRow
<1>10. \A i \in DOMAIN set : i \in DOMAIN Flushed(t) <=> Differs(t, i)
  BY <1>5, <1>8 DEF Differs, set
<1>11. QED
  BY <1>2, <1>3, <1>4, <1>5, <1>6, <1>7, <1>9, <1>10 DEF set

\* What it changes of the product.
LEMMA FlushedProduct ==
    ASSUME CatalogueInv, NEW t \in Txs, At(t, "flush"), Product \in DOMAIN Flushed(t)
    PROVE  /\ request[t].op \notin Priced => Pricing(Flushed(t)[Product]) = Pricing(db[Product])
           /\ Flushed(t)[Product].has
                 => \/ db[Product].has
                    \/ /\ request[t].op = "create"
                       /\ Variant(request[t].variant) \in DOMAIN Flushed(t)
<1> DEFINE r == request[t]
           row == Flushed(t)[Product]
           set == Assignments(r)[Product]
           loaded == r.seen[Product]
<1>1. /\ IsRequest(r) /\ Product \in DOMAIN Assignments(r) /\ Typed(Product, row)
      /\ \A c \in DOMAIN row :
            row[c] = IF c \in DOMAIN set /\ set[c] # loaded[c] THEN set[c] ELSE db[Product][c]
  BY FlushedRows
<1>2. DOMAIN row = {"price", "cost", "has", "active"}
  BY <1>1, TypedColumns
<1>3. r.op \in {"edit", "deactivate", "create", "apply", "applyAdvice"}
  <2>1. r.op \in Ops
    BY <1>1 DEF IsRequest
  <2>2. QED
    BY <1>1, <2>1, SetsProduct
<1>4. /\ r.op = "deactivate" => DOMAIN set = {"active"}
      /\ r.op = "create" => DOMAIN set = {"has"}
      /\ r.op = "edit" => DOMAIN set \subseteq {"price", "cost"}
      /\ r.op \in {"apply", "applyAdvice"} => DOMAIN set = {"price"}
  <2>1. r.op = "edit" => r.set \in PriceColumns
    BY <1>1 DEF IsRequest
  <2>2. r.op = "edit" => set = r.set
    BY Sets
  <2>3. r.op = "deactivate" => set = [active |-> FALSE]
    BY Sets
  <2>4. r.op = "create" => set = [has |-> TRUE]
    BY Sets
  <2>5. r.op = "apply" => set = [price |-> r.seen[Rec].price]
    BY Sets
  <2>6. r.op = "applyAdvice" => set = [price |-> r.seen[Advice].price]
    BY Sets
  <2> HIDE DEF set
  <2>7. QED
    BY <2>1, <2>2, <2>3, <2>4, <2>5, <2>6, PriceColumnsAre
<1>5. r.op = "create" => Variant(r.variant) \in DOMAIN Flushed(t)
  <2>1. r.op = "create" => Variant(r.variant) \in DOMAIN Assignments(r)
    BY SetRows
  <2>2. r.op = "create" => Assignments(r)[Variant(r.variant)] = [state |-> "active"]
    BY Sets
  <2>3. r.op = "create" => r.seen[Variant(r.variant)].state = "none"
    BY <1>1 DEF IsRequest
  <2>4. r.op = "create" => Differs(t, Variant(r.variant))
    BY <2>2, <2>3 DEF Differs
  <2>5. QED
    BY <2>1, <2>4, FlushedRows
<1> HIDE DEF row, set, loaded, r
<1>6. r.op \notin Priced => row["price"] = db[Product]["price"] /\ row["cost"] = db[Product]["cost"]
  BY <1>1, <1>2, <1>3, <1>4 DEF Priced
<1>7. r.op # "create" => row["has"] = db[Product]["has"]
  BY <1>1, <1>2, <1>3, <1>4
<1>8. r.op \notin Priced => Pricing(row) = Pricing(db[Product])
  BY <1>6 DEF Pricing
<1>9. QED
  BY <1>5, <1>7, <1>8 DEF row, r

\* Which other rows it changes.
LEMMA FlushedOthers ==
    ASSUME CatalogueInv, NEW t \in Txs, At(t, "flush")
    PROVE  /\ \A v \in Variants : Variant(v) \in DOMAIN Flushed(t) /\ request[t].op # "disable"
                 => Flushed(t)[Variant(v)].state = "active"
           /\ Item \in DOMAIN Flushed(t) => request[t].op \in Counting \cup {"open"}
           /\ Header \in DOMAIN Flushed(t) => request[t].op \in {"open", "finalize"}
           /\ request[t].op = "open" => Header \in DOMAIN Flushed(t)
           /\ request[t].op = "disable" => Product \notin DOMAIN Flushed(t)
<1> DEFINE r == request[t]
<1>1. /\ IsRequest(r) /\ DOMAIN Flushed(t) \subseteq DOMAIN Assignments(r) /\ r.op \in Ops
      /\ \A i \in DOMAIN Assignments(r) : i \in DOMAIN Flushed(t) <=> Differs(t, i)
  BY FlushedRows DEF IsRequest
<1>2. /\ r.op \in {"edit", "deactivate"} => DOMAIN Assignments(r) = {Product}
      /\ r.op = "create" => DOMAIN Assignments(r) = {Variant(r.variant), Product}
      /\ r.op \in {"disable", "enable"} => DOMAIN Assignments(r) = {Variant(r.variant)}
      /\ r.op \in {"generate", "dismiss"} => DOMAIN Assignments(r) = {Rec}
      /\ r.op = "apply" => DOMAIN Assignments(r) = {Product, Rec}
      /\ r.op = "applyAdvice" => DOMAIN Assignments(r) = {Product, Advice}
      /\ r.op \in {"generateAdvice", "dismissAdvice"} => DOMAIN Assignments(r) = {Advice}
      /\ r.op = "count" => DOMAIN Assignments(r) = {Item}
      /\ r.op \in {"open", "finalize"} => DOMAIN Assignments(r) = {Item, Header}
  BY SetRows
<1>3. ASSUME NEW v \in Variants, Variant(v) \in DOMAIN Flushed(t), r.op # "disable"
      PROVE  Flushed(t)[Variant(v)].state = "active"
  <2> DEFINE row == Flushed(t)[Variant(v)]
             set == Assignments(r)[Variant(v)]
  <2>1. r.op \in {"create", "enable"} /\ v = r.variant
    BY <1>1, <1>2, <1>3, RowsDistinct DEF Ops
  <2>2. set = [state |-> "active"]
    BY <2>1, Sets
  <2>3. /\ Typed(Variant(v), row) /\ Differs(t, Variant(v))
        /\ \A c \in DOMAIN row :
              row[c] = IF c \in DOMAIN set /\ set[c] # r.seen[Variant(v)][c]
                       THEN set[c] ELSE db[Variant(v)][c]
    BY <1>1, <1>3, FlushedRows
  <2>4. "state" \in DOMAIN row
    BY <2>3, TypedColumns
  <2>5. set["state"] # r.seen[Variant(v)]["state"]
    BY <2>2, <2>3 DEF Differs
  <2> HIDE DEF row, set
  <2>6. row["state"] = "active"
    BY <2>2, <2>3, <2>4, <2>5
  <2>7. QED
    BY <2>6 DEF row
<1>4. r.op = "open" => Header \in DOMAIN Flushed(t)
  <2>1. r.op = "open" => Assignments(r)[Header] = [status |-> "DRAFT"]
    BY Sets
  <2>2. r.op = "open" => r.seen[Header].status = "none"
    BY <1>1 DEF IsRequest
  <2>3. r.op = "open" => Differs(t, Header)
    BY <2>1, <2>2 DEF Differs
  <2>4. QED
    BY <1>1, <1>2, <2>3
<1>5. QED
  BY <1>1, <1>2, <1>3, <1>4, RowsDistinct DEF Ops, Counting

------------------------------------------------------------------------------
(* What a request tells in the history.                                    *)

LEMMA Appended ==
    ASSUME NEW S, NEW h \in Seq(S), NEW x \in S
    PROVE  /\ Last(h \o <<x>>) = x /\ h \o <<x>> \in Seq(S) /\ h \o <<x>> # <<>>
           /\ h \o <<>> = h
BY DEF Last

LEMMA ColumnsOver ==
    ASSUME NEW set, NEW loaded, NEW c, c \in DOMAIN set \/ c \in DOMAIN loaded
    PROVE  Over(set, loaded)[c] = IF c \in DOMAIN set THEN set[c] ELSE loaded[c]
BY DEF Over

LEMMA HistoryIs ==
    ASSUME NEW r, IsRequest(r)
    PROVE  /\ r.op \notin {"edit", "apply"} => HistoryOf(r) = <<>>
           /\ r.op = "edit" /\ (\E c \in DOMAIN r.set : r.set[c] # r.seen[Product][c]) =>
                 HistoryOf(r) = <<PriceChange(r.seen[Product], Over(r.set, r.seen[Product]))>>
           /\ r.op = "edit" /\ (\A c \in DOMAIN r.set : r.set[c] = r.seen[Product][c]) =>
                 HistoryOf(r) = <<>>
           /\ r.op = "apply" =>
                 HistoryOf(r) = <<PriceChange(r.seen[Product],
                                              [r.seen[Product] EXCEPT !.price = r.seen[Rec].price])>>
<1> DEFINE loaded == r.seen[Product]
<1>1. r.op = "edit" => (DOMAIN Changed(loaded, r.set) # {} <=> \E c \in DOMAIN r.set : r.set[c] # loaded[c])
  BY DEF Changed
<1>2. CASE r.op = "edit"
  BY <1>1, <1>2 DEF HistoryOf
<1>3. CASE r.op = "apply"
  BY <1>3 DEF HistoryOf
<1>4. CASE r.op \notin {"edit", "apply"}
  BY <1>4 DEF HistoryOf
<1>5. QED
  BY <1>2, <1>3, <1>4

LEMMA ChangeTyped ==
    ASSUME NEW p, NEW q, p.price \in Prices, p.cost \in Prices, q.price \in Prices, q.cost \in Prices
    PROVE  PriceChange(p, q) \in PriceChanges
BY DEF PriceChange, PriceChanges, Pricing

LEMMA HistoryTyped ==
    ASSUME NEW r, IsRequest(r)
    PROVE  HistoryOf(r) = <<>> \/ \E x \in PriceChanges : HistoryOf(r) = <<x>>
<1> DEFINE loaded == r.seen[Product]
<1>1. CASE r.op = "edit"
  <2>1. Loads(r) = {Product}
    BY <1>1 DEF Loads
  <2>2. /\ DOMAIN loaded = {"price", "cost", "has", "active"}
        /\ loaded.price \in Prices /\ loaded.cost \in Prices
    BY <2>1, TypedColumns DEF IsRequest
  <2>3. r.set \in PriceColumns
    BY <1>1 DEF IsRequest
  <2> DEFINE set == r.set
             after == Over(set, loaded)
  <2>4. DOMAIN set \subseteq {"price", "cost"} /\ \A c \in DOMAIN set : set[c] \in Prices
    BY <2>3, PriceColumnsAre
  <2> HIDE DEF loaded, set
  <2>5. after["price"] \in Prices /\ after["cost"] \in Prices
    BY <2>2, <2>4, ColumnsOver
  <2>6. PriceChange(loaded, after) \in PriceChanges
    BY <2>2, <2>5, ChangeTyped
  <2>7. HistoryOf(r) = <<>> \/ HistoryOf(r) = <<PriceChange(loaded, after)>>
    BY <1>1, HistoryIs DEF loaded, set
  <2>8. QED
    BY <2>6, <2>7
<1>2. CASE r.op = "apply"
  <2>1. Loads(r) = {Product, Rec}
    BY <1>2 DEF Loads
  <2>2. /\ DOMAIN loaded = {"price", "cost", "has", "active"}
        /\ loaded.price \in Prices /\ loaded.cost \in Prices /\ r.seen[Rec].price \in Prices
    BY <2>1, TypedColumns DEF IsRequest
  <2> DEFINE x == r.seen[Rec].price
             after == [loaded EXCEPT !.price = x]
  <2>3. HistoryOf(r) = <<PriceChange(loaded, after)>>
    BY <1>2, HistoryIs
  <2> HIDE DEF loaded, x
  <2>4. after.price \in Prices /\ after.cost \in Prices
    BY <2>2 DEF x
  <2>5. PriceChange(loaded, after) \in PriceChanges
    BY <2>2, <2>4, ChangeTyped
  <2>6. QED
    BY <2>3, <2>5
<1>3. CASE r.op \notin {"edit", "apply"}
  BY <1>3, HistoryIs
<1>4. QED
  BY <1>1, <1>2, <1>3

\* A price request that was alone writes the prices its history row tells.
LEMMA FlushTells ==
    ASSUME CatalogueInv, NEW t \in Txs, At(t, "flush"), ~blurred,
           request[t].op \in {"edit", "apply"}, NEW after,
           after = IF Product \in DOMAIN Flushed(t) THEN Flushed(t)[Product] ELSE db[Product]
    PROVE  Pricing(after) = Last(history \o HistoryOf(request[t])).to
<1> DEFINE r == request[t]
           loaded == r.seen[Product]
           set == Assignments(r)[Product]
           product == db[Product]
<1>1. /\ IsRequest(r) /\ PricesKnown(t) /\ CatalogueTables
      /\ Product \in Loads(r) /\ Product \in DOMAIN Assignments(r)
  <2>1. IsRequest(r) /\ PricesKnown(t) /\ CatalogueTables
    BY FlushedRows DEF CatalogueInv, RequestInv
  <2>2. Product \in Loads(r) /\ Product \in DOMAIN Assignments(r)
    BY SetRows DEF Loads
  <2>3. QED
    BY <2>1, <2>2
<1>2. loaded.price = product.price /\ loaded.cost = product.cost
  BY <1>1 DEF PricesKnown, Priced, Pricing
<1>3. /\ DOMAIN loaded = {"price", "cost", "has", "active"}
      /\ DOMAIN product = {"price", "cost", "has", "active"}
  BY <1>1, TypedColumns DEF IsRequest, CatalogueTables, CatalogueRows
<1>4. /\ r.op = "edit" => set = r.set
      /\ r.op = "apply" => set = [price |-> r.seen[Rec].price]
  BY Sets
<1>5. DOMAIN set \subseteq {"price", "cost"}
  BY <1>1, <1>4, PriceColumnsAre DEF IsRequest
<1>6. ASSUME NEW c \in {"price", "cost"}
      PROVE  after[c] = IF c \in DOMAIN set THEN set[c] ELSE loaded[c]
  <2>1. CASE Product \in DOMAIN Flushed(t)
    <3> DEFINE row == Flushed(t)[Product]
    <3>1. /\ Typed(Product, row)
          /\ \A d \in DOMAIN row :
                row[d] = IF d \in DOMAIN set /\ set[d] # loaded[d] THEN set[d] ELSE product[d]
      BY <2>1, FlushedRows
    <3>2. DOMAIN row = {"price", "cost", "has", "active"}
      BY <3>1, TypedColumns
    <3>3. after = row
      BY <2>1
    <3> HIDE DEF row, set, loaded, product
    <3>4. QED
      BY <1>2, <3>1, <3>2, <3>3
  <2>2. CASE Product \notin DOMAIN Flushed(t)
    <3>1. ~Differs(t, Product) /\ after = product
      BY <1>1, <2>2, FlushedRows
    <3>2. \A d \in DOMAIN set : set[d] = loaded[d]
      BY <3>1 DEF Differs
    <3> HIDE DEF set, loaded, product
    <3>3. QED
      BY <1>2, <3>1, <3>2
  <2>3. QED
    BY <2>1, <2>2
<1>7. history \in Seq(PriceChanges) /\ Last(history).to = Pricing(product)
  BY <1>1 DEF CatalogueTables, CatalogueInv, PriceExplained
<1>8. HistoryOf(r) = <<>> \/ \E x \in PriceChanges : HistoryOf(r) = <<x>>
  BY <1>1, HistoryTyped
<1> HIDE DEF r
<1>9. CASE r.op = "apply"
  <2> DEFINE new == [loaded EXCEPT !.price = r.seen[Rec].price]
             x == PriceChange(loaded, new)
  <2>1. HistoryOf(r) = <<x>>
    BY <1>1, <1>9, HistoryIs
  <2>2. x.to = Pricing(new)
    BY DEF PriceChange
  <2>3. new.price = r.seen[Rec].price /\ new.cost = loaded.cost
    BY <1>3
  <2>4. DOMAIN set = {"price"} /\ set.price = r.seen[Rec].price
    BY <1>4, <1>9
  <2> HIDE DEF new, set, loaded, product
  <2>5. after.price = new.price /\ after.cost = new.cost
    BY <1>6, <2>3, <2>4
  <2> HIDE DEF x
  <2>6. Last(history \o HistoryOf(r)) = x
    BY <1>7, <1>8, <2>1, Appended
  <2>7. QED
    BY <2>2, <2>5, <2>6 DEF Pricing, r
<1>10. CASE r.op = "edit" /\ \E c \in DOMAIN set : set[c] # loaded[c]
  <2> DEFINE new == Over(r.set, loaded)
             x == PriceChange(loaded, new)
  <2>1. HistoryOf(r) = <<x>>
    BY <1>1, <1>4, <1>10, HistoryIs
  <2>2. x.to = Pricing(new)
    BY DEF PriceChange
  <2>3. \A c \in {"price", "cost"} : new[c] = IF c \in DOMAIN set THEN set[c] ELSE loaded[c]
    BY <1>3, <1>4, <1>10, ColumnsOver
  <2> HIDE DEF new, set, loaded, product
  <2>4. after.price = new.price /\ after.cost = new.cost
    BY <1>6, <2>3
  <2> HIDE DEF x
  <2>5. Last(history \o HistoryOf(r)) = x
    BY <1>7, <1>8, <2>1, Appended
  <2>6. QED
    BY <2>2, <2>4, <2>5 DEF Pricing, r
<1>11. CASE r.op = "edit" /\ \A c \in DOMAIN set : set[c] = loaded[c]
  <2>1. HistoryOf(r) = <<>>
    BY <1>1, <1>4, <1>11, HistoryIs
  <2>2. after.price = product.price /\ after.cost = product.cost
    <3> HIDE DEF set, loaded, product
    <3>1. QED
      BY <1>2, <1>6, <1>11
  <2>3. history \o HistoryOf(r) = history
    BY <1>7, <2>1
  <2>4. QED
    BY <1>7, <2>2, <2>3 DEF Pricing, r
<1>12. QED
  BY <1>9, <1>10, <1>11 DEF r

------------------------------------------------------------------------------
(* The steps of a request.                                                 *)

LEMMA StageLists ==
    /\ <<"commit">> # <<>> /\ <<"check", "commit">> # <<>>
    /\ <<"flush", "commit">> # <<>> /\ <<"flush", "check", "commit">> # <<>>
    /\ <<"commit">> # <<"check", "commit">> /\ <<"commit">> # <<"flush", "commit">>
    /\ <<"commit">> # <<"flush", "check", "commit">>
    /\ <<"check", "commit">> # <<"flush", "commit">>
    /\ <<"check", "commit">> # <<"flush", "check", "commit">>
    /\ <<"flush", "commit">> # <<"flush", "check", "commit">>
    /\ Tail(<<"flush", "commit">>) = <<"commit">>
    /\ Tail(<<"flush", "check", "commit">>) = <<"check", "commit">>
    /\ Tail(<<"check", "commit">>) = <<"commit">>
OBVIOUS

LEMMA FlushInv ==
    ASSUME CatalogueInv, NEW t \in Txs, Flush(t)
    PROVE  CatalogueInv'
<1> DEFINE r == request[t]
<1>1. CASE Rollback(t)
  BY <1>1, RollbackInv
<1>2. CASE ~Rollback(t)
  <2>1. /\ At(t, "flush") /\ Free(t, DOMAIN Flushed(t)) /\ ~Taken(r)
        /\ Write(t, Flushed(t)) /\ Advance(t)
        /\ UNCHANGED <<db, request, history, blurred, crossed, miscounted>>
    BY <1>2 DEF Flush, Flushed, ghosts
  <2>2. /\ CatalogueTables /\ InStage(t) /\ WritesOwn(t) /\ PricesKnown(t) /\ Checked(t) /\ StillDraft(t)
        /\ RowsApart
    BY DEF CatalogueInv, RequestInv
  <2>3. /\ IsRequest(r) /\ Locked(t) = {} /\ \A i : See(t, i) = db[i]
        /\ todo[t] \in {<<"flush", "commit">>, <<"flush", "check", "commit">>}
        /\ DOMAIN Flushed(t) \subseteq CatalogueRows
        /\ \A i \in DOMAIN Flushed(t) : Typed(i, Flushed(t)[i])
    BY <2>1, FlushedRows
  <2> DEFINE rows == Flushed(t)
  <2>4. /\ DOMAIN own' = Txs
        /\ \A u \in Txs : u # t => own'[u] = own[u]
        /\ Locked(t)' = DOMAIN rows
        /\ \A i : See(t, i)' = IF i \in DOMAIN rows THEN rows[i] ELSE db[i]
        /\ \A i \in DOMAIN rows : own'[t][i] = rows[i]
    <3>1. Write(t, rows)
      BY <2>1
    <3>2. Locked(t) = {} /\ (\A i : See(t, i) = db[i]) /\ DOMAIN own = Txs /\ UNCHANGED db
      BY <2>1, <2>2, <2>3 DEF CatalogueTables
    <3> HIDE DEF rows
    <3>3. /\ DOMAIN own' = Txs /\ \A u \in Txs : u # t => own'[u] = own[u]
          /\ Locked(t)' = Locked(t) \cup DOMAIN rows
          /\ \A i : See(t, i)' = IF i \in DOMAIN rows THEN rows[i] ELSE See(t, i)
          /\ \A i \in Locked(t)' : own'[t][i] = See(t, i)'
      BY <3>1, <3>2, StatementSeen
    <3>4. QED
      BY <3>2, <3>3
  <2>5. /\ DOMAIN todo' = Txs /\ DOMAIN request' = Txs /\ request'[t] = r
        /\ \A u \in Txs : u # t => todo'[u] = todo[u] /\ request'[u] = request[u]
        /\ todo'[t] = Tail(todo[t])
    BY <2>1, <2>2 DEF Advance, CatalogueTables
  <2>6. \A u \in Txs : u # t => Locked(t)' \cap Locked(u) = {}
    BY <2>1, <2>2, <2>4, FreeApart
  <2>7. /\ todo[t] = <<"flush", "commit">> => r.op # "disable" /\ todo'[t] = <<"commit">>
        /\ todo[t] = <<"flush", "check", "commit">> => r.op = "disable" /\ todo'[t] = <<"check", "commit">>
    BY <2>2, <2>5, StageLists DEF InStage
  <2>8. ~Idle(t)' /\ (r.op = "disable" <=> todo'[t] = <<"check", "commit">>)
        /\ (Settled(t)' <=> r.op # "disable") /\ todo'[t] \in {<<"check", "commit">>, <<"commit">>}
    BY <2>3, <2>7, StageLists DEF Idle, Settled
  <2>9. InStage(t)'
    <3>1. r.op = "disable" => Product \notin Locked(t)'
      BY <2>1, <2>4, FlushedOthers
    <3>2. CatalogueRows' = CatalogueRows
      BY DEF CatalogueRows
    <3>3. Locked(t)' \subseteq CatalogueRows /\ \A i \in Locked(t)' : Typed(i, own'[t][i])
      BY <2>3, <2>4
    <3> HIDE DEF rows, r
    <3>4. QED
      BY <2>3, <2>5, <2>8, <3>1, <3>2, <3>3, StageLists DEF InStage
  <2>10. WritesOwn(t)'
    <3>1. r.op = "open" => db[Header].status = "none"
      BY <2>1 DEF Taken
    <3>2. Product \in DOMAIN rows =>
              /\ r.op \notin Priced => Pricing(rows[Product]) = Pricing(db[Product])
              /\ rows[Product].has => \/ db[Product].has
                                      \/ r.op = "create" /\ Variant(r.variant) \in DOMAIN rows
      BY <2>1, FlushedProduct
    <3>3. /\ \A v \in Variants : Variant(v) \in DOMAIN rows /\ r.op # "disable"
                => rows[Variant(v)].state = "active"
          /\ Item \in DOMAIN rows => r.op \in Counting \cup {"open"}
          /\ Header \in DOMAIN rows => r.op \in {"open", "finalize"}
          /\ r.op = "open" => Header \in DOMAIN rows
      BY <2>1, FlushedOthers
    <3> HIDE DEF rows, r
    <3>4. QED
      BY <2>1, <2>4, <2>5, <3>1, <3>2, <3>3 DEF WritesOwn
  <2>11. PricesKnown(t)'
    <3>1. ASSUME ~blurred, r.op \in {"edit", "apply"}
          PROVE  Pricing(See(t, Product)') = Last(history \o HistoryOf(r)).to
      BY <2>1, <2>4, <3>1, FlushTells
    <3>2. r.op \in Priced /\ r.op # "applyAdvice" => r.op \in {"edit", "apply"}
      BY DEF Priced
    <3> HIDE DEF rows, r
    <3>3. QED
      BY <2>1, <2>2, <2>5, <3>1, <3>2 DEF PricesKnown, r
  <2>12. Checked(t)'
    BY <2>1, <2>2, <2>5, <2>8 DEF Checked
  <2>13. StillDraft(t)'
    BY <2>1, <2>2, <2>5 DEF StillDraft, Draft
  <2>14. RequestInv(t)'
    BY <2>9, <2>10, <2>11, <2>12, <2>13 DEF RequestInv
  <2>15. QED
    BY <2>1, <2>4, <2>5, <2>6, <2>14, QuietRequest
<1>3. QED
  BY <1>1, <1>2

LEMMA CheckVariantsInv ==
    ASSUME CatalogueInv, NEW t \in Txs, CheckVariants(t)
    PROVE  CatalogueInv'
<1> DEFINE reset == Active(t) = {} /\ See(t, Product).has
           values == IF reset THEN Only(Product, [See(t, Product) EXCEPT !.has = FALSE]) ELSE <<>>
<1>1. /\ At(t, "check") /\ (reset => Free(t, {Product})) /\ Write(t, values) /\ Advance(t)
      /\ UNCHANGED <<db, request, history, blurred, crossed, miscounted>>
  BY DEF CheckVariants, ghosts
<1>2. /\ CatalogueTables /\ InStage(t) /\ WritesOwn(t) /\ PricesKnown(t) /\ Checked(t) /\ StillDraft(t)
      /\ RowsApart
  BY DEF CatalogueInv, RequestInv
<1>3. ~Idle(t) /\ todo[t] = <<"check", "commit">>
  <2>1. /\ Head(<<"commit">>) # "check" /\ Head(<<"flush", "commit">>) # "check"
        /\ Head(<<"flush", "check", "commit">>) # "check"
    OBVIOUS
  <2>2. QED
    BY <1>1, <1>2, <2>1 DEF InStage, At, Idle
<1>4. /\ IsRequest(request[t]) /\ request[t].op = "disable" /\ Product \notin Locked(t)
      /\ Locked(t) \subseteq CatalogueRows /\ \A i \in Locked(t) : Typed(i, own[t][i])
  BY <1>2, <1>3 DEF InStage
<1> DEFINE product == db[Product]
           emptied == [product EXCEPT !.has = FALSE]
<1>5. See(t, Product) = product /\ Product \in CatalogueRows /\ Typed(Product, product)
  BY <1>2, <1>4 DEF See, Locked, CatalogueTables, CatalogueRows
<1>6. /\ Typed(Product, emptied) /\ Pricing(emptied) = Pricing(product) /\ emptied.has = FALSE
  <2>1. /\ DOMAIN product = {"price", "cost", "has", "active"}
        /\ product.price \in Prices /\ product.cost \in Prices
        /\ product.has \in BOOLEAN /\ product.active \in BOOLEAN
    BY <1>5, TypedColumns
  <2> HIDE DEF product
  <2>2. /\ DOMAIN emptied = {"price", "cost", "has", "active"}
        /\ emptied.price = product.price /\ emptied.cost = product.cost
        /\ emptied.has = FALSE /\ emptied.active = product.active
    BY <2>1
  <2> HIDE DEF emptied
  <2>3. emptied.has \in BOOLEAN /\ emptied.active \in BOOLEAN
    BY <2>1, <2>2
  <2>4. Typed(Product, emptied)
    BY <2>1, <2>2, <2>3, TypedColumns
  <2>5. QED
    BY <2>2, <2>4 DEF Pricing
<1>7. /\ reset => DOMAIN values = {Product} /\ values[Product] = emptied
      /\ ~reset => DOMAIN values = {}
  BY <1>5 DEF Only
<1> HIDE DEF values, emptied, product
<1>8. /\ DOMAIN own' = Txs
      /\ \A u \in Txs : u # t => own'[u] = own[u]
      /\ Locked(t)' = Locked(t) \cup DOMAIN values
      /\ \A i : See(t, i)' = IF i \in DOMAIN values THEN values[i] ELSE See(t, i)
      /\ \A i \in Locked(t)' : own'[t][i] = See(t, i)'
  BY <1>1, <1>2, StatementSeen DEF CatalogueTables
<1>9. /\ DOMAIN todo' = Txs /\ DOMAIN request' = Txs /\ request'[t] = request[t]
      /\ \A u \in Txs : u # t => todo'[u] = todo[u] /\ request'[u] = request[u]
      /\ todo'[t] = <<"commit">> /\ Settled(t)' /\ ~Idle(t)'
  BY <1>1, <1>2, <1>3, StageLists DEF Advance, CatalogueTables, Settled, Idle
<1>10. \A u \in Txs : u # t => Locked(t)' \cap Locked(u) = {}
  <2>1. CASE reset
    BY <1>1, <1>2, <1>7, <1>8, <2>1, FreeApart
  <2>2. CASE ~reset
    BY <1>2, <1>7, <1>8, <2>2 DEF RowsApart
  <2>3. QED
    BY <2>1, <2>2
<1>11. \A i \in Locked(t)' : /\ i # Product => i \in Locked(t) /\ own'[t][i] = own[t][i]
                             /\ i = Product => reset /\ own'[t][i] = emptied
  BY <1>4, <1>7, <1>8 DEF See, Locked
<1>12. InStage(t)'
  <2>1. CatalogueRows' = CatalogueRows
    BY DEF CatalogueRows
  <2>2. Locked(t)' \subseteq CatalogueRows /\ \A i \in Locked(t)' : Typed(i, own'[t][i])
    BY <1>4, <1>5, <1>6, <1>11
  <2>3. QED
    BY <1>4, <1>9, <2>1, <2>2, StageLists DEF InStage
<1>13. WritesOwn(t)'
  <2>1. \A v \in Variants : Variant(v) # Product
    BY RowsDistinct
  <2>2. Item # Product /\ Header # Product
    BY RowsDistinct
  <2>3. request[t].op \notin Counting \cup {"open"}
    BY <1>4 DEF Counting
  <2>4. Item \notin Locked(t)' /\ Header \notin Locked(t)'
    BY <1>2, <1>4, <1>11, <2>2, <2>3 DEF WritesOwn
  <2>5. Product \in Locked(t)' => Pricing(own'[t][Product]) = Pricing(db[Product]) /\ ~own'[t][Product].has
    BY <1>6, <1>11 DEF product
  <2>6. QED
    BY <1>1, <1>4, <1>9, <2>4, <2>5 DEF WritesOwn
<1>14. Checked(t)'
  <2>1. LeavesOne(t)'
    <3>1. CASE reset
      BY <1>6, <1>7, <1>8, <3>1 DEF LeavesOne
    <3>2. CASE ~reset
      <4>1. \A i : See(t, i)' = See(t, i)
        BY <1>7, <1>8, <3>2
      <4>2. See(t, Product).has => \E v \in Variants : See(t, Variant(v)).state = "active"
        BY <3>2 DEF Active
      <4>3. QED
        BY <4>1, <4>2 DEF LeavesOne
    <3>3. QED
      BY <3>1, <3>2
  <2>2. QED
    BY <1>1, <1>2, <1>4, <1>9, <2>1 DEF Checked
<1>15. PricesKnown(t)' /\ StillDraft(t)'
  BY <1>4, <1>9 DEF PricesKnown, StillDraft, Priced, Counting
<1>16. RequestInv(t)'
  BY <1>12, <1>13, <1>14, <1>15 DEF RequestInv
<1>17. QED
  BY <1>1, <1>8, <1>9, <1>10, <1>16, QuietRequest

\* A request that did not deactivate a variant leaves one where one is needed.
LEMMA OthersLeaveOne ==
    ASSUME CatalogueInv, NEW t \in Txs, request[t].op # "disable", ~crossed
    PROVE  LeavesOne(t)
<1>1. WritesOwn(t) /\ SellableVariants /\ InStage(t)
  BY DEF CatalogueInv, RequestInv
<1>2. ASSUME NEW v \in Variants, db[Variant(v)].state = "active"
      PROVE  See(t, Variant(v)).state = "active"
  BY <1>1, <1>2 DEF WritesOwn, See, Locked
<1>3. CASE See(t, Product).has /\ db[Product].has
  BY <1>1, <1>2, <1>3 DEF SellableVariants, LeavesOne
<1>4. CASE See(t, Product).has /\ ~db[Product].has
  <2>1. Product \in Locked(t)
    BY <1>4 DEF See, Locked
  <2>2. request[t].op = "create" /\ Variant(request[t].variant) \in Locked(t)
    BY <1>1, <1>4, <2>1 DEF WritesOwn, See, Locked
  <2>3. request[t].variant \in Variants
    BY <1>1, <2>1, <2>2 DEF InStage, IsRequest, NoRequest
  <2>4. See(t, Variant(request[t].variant)).state = "active"
    BY <1>1, <2>2, <2>3 DEF WritesOwn, See, Locked
  <2>5. QED
    BY <2>3, <2>4 DEF LeavesOne
<1>5. QED
  BY <1>3, <1>4 DEF LeavesOne

LEMMA CommitRequestInv ==
    ASSUME CatalogueInv, NEW t \in Txs, Commit(t)
    PROVE  CatalogueInv'
<1> DEFINE r == request[t]
<1>1. /\ At(t, "commit") /\ db' = Over(own[t], db) /\ history' = history \o HistoryOf(r)
      /\ blurred' = (blurred \/ r.op = "applyAdvice") /\ End(t)
      /\ UNCHANGED <<crossed, miscounted>>
  BY DEF Commit, Publish
<1>2. /\ CatalogueTables /\ InStage(t) /\ WritesOwn(t) /\ PricesKnown(t) /\ Checked(t) /\ StillDraft(t)
      /\ RowsApart
  BY DEF CatalogueInv, RequestInv
<1>3. ~Idle(t) /\ Settled(t)
  <2>1. /\ Head(<<"check", "commit">>) # "commit" /\ Head(<<"flush", "commit">>) # "commit"
        /\ Head(<<"flush", "check", "commit">>) # "commit"
    OBVIOUS
  <2>2. QED
    BY <1>1, <1>2, <2>1 DEF InStage, At, Idle, Settled
<1>4. IsRequest(r) /\ Locked(t) \subseteq CatalogueRows /\ \A i \in Locked(t) : Typed(i, own[t][i])
  BY <1>2, <1>3 DEF InStage
<1>5. DOMAIN db' = CatalogueRows /\ \A i \in CatalogueRows : db'[i] = See(t, i)
  BY <1>1, <1>2, <1>4 DEF Over, See, Locked, CatalogueTables
<1>6. /\ DOMAIN own' = Txs /\ DOMAIN todo' = Txs /\ DOMAIN request' = Txs
      /\ \A u \in Txs : u # t => own'[u] = own[u] /\ todo'[u] = todo[u] /\ request'[u] = request[u]
      /\ Locked(t)' = {} /\ RequestInv(t)' /\ request'[t].op = "none"
  BY <1>1, <1>2, RequestEnded DEF End, NoRequest, CatalogueTables
<1>7. HistoryOf(r) = <<>> \/ \E x \in PriceChanges : HistoryOf(r) = <<x>>
  BY <1>4, HistoryTyped
<1>8. /\ Product \in CatalogueRows /\ Header \in CatalogueRows
      /\ \A v \in Variants : Variant(v) \in CatalogueRows
  BY DEF CatalogueRows
<1>9. history' \in Seq(PriceChanges) /\ history' # <<>>
  <2>1. history \in Seq(PriceChanges) /\ history # <<>>
    BY <1>2 DEF CatalogueTables
  <2>2. CASE HistoryOf(r) = <<>>
    BY <1>1, <2>1, <2>2
  <2>3. CASE \E x \in PriceChanges : HistoryOf(r) = <<x>>
    BY <1>1, <2>1, <2>3, Appended
  <2>4. QED
    BY <1>7, <2>2, <2>3
<1>10. r.op \notin Priced => history' = history /\ Pricing(db'[Product]) = Pricing(db[Product])
  <2>1. r.op \notin Priced => HistoryOf(r) = <<>>
    BY <1>4, HistoryIs DEF Priced
  <2>2. r.op \notin Priced => Pricing(See(t, Product)) = Pricing(db[Product])
    BY <1>2 DEF WritesOwn, See, Locked
  <2>3. QED
    BY <1>1, <1>2, <1>5, <1>8, <2>1, <2>2, Appended DEF CatalogueTables
<1> HIDE DEF r
<1>11. CatalogueTables'
  <2>1. CatalogueRows' = CatalogueRows
    BY DEF CatalogueRows
  <2>2. \A i \in CatalogueRows : Typed(i, db'[i])
    BY <1>2, <1>4, <1>5 DEF See, Locked, CatalogueTables
  <2>3. QED
    BY <1>5, <1>6, <1>9, <2>1, <2>2 DEF CatalogueTables
<1>12. RowsApart'
  <2>1. \A u \in Txs : u # t => Locked(u)' = Locked(u)
    BY <1>6 DEF Locked
  <2>2. QED
    BY <1>2, <1>6, <2>1 DEF RowsApart
<1>13. ASSUME NEW u \in Txs, u # t
       PROVE  RequestInv(u)'
  <2>1. InStage(u) /\ PricesKnown(u) /\ Checked(u) /\ StillDraft(u) /\ WritesOwn(u)
    BY DEF CatalogueInv, RequestInv
  <2>2. Locked(u) \subseteq CatalogueRows
    BY <2>1 DEF InStage
  <2>3. \A i \in Locked(u) : i \notin Locked(t)
    BY <1>2, <1>13 DEF RowsApart
  <2>4. \A i \in Locked(u) : db'[i] = db[i]
    BY <1>5, <2>2, <2>3 DEF See, Locked
  <2>5. ASSUME ~blurred', request[u].op \in Priced
        PROVE  /\ \A w \in Txs \ {u} : request'[w].op \notin Priced
               /\ Pricing(db'[Product]) = Pricing(db[Product]) /\ history' = history
    <3>1. ~blurred
      BY <1>1, <2>5
    <3>2. \A w \in Txs \ {u} : request[w].op \notin Priced
      BY <2>1, <2>5, <3>1 DEF PricesKnown
    <3>3. r.op \notin Priced
      BY <1>13, <3>2 DEF r
    <3>4. \A w \in Txs \ {u} : request'[w].op \notin Priced
      BY <1>6, <3>2 DEF Priced
    <3>5. QED
      BY <1>10, <3>3, <3>4
  <2>6. ASSUME ~crossed', request[u].op = "disable"
        PROVE  /\ \A w \in Txs \ {u} : request'[w].op # "disable"
               /\ LeavesOne(u) => LeavesOne(u)'
    <3>1. ~crossed /\ \A w \in Txs \ {u} : request[w].op # "disable"
      BY <1>1, <2>1, <2>6 DEF Checked
    <3>2. request[t].op # "disable" /\ \A w \in Txs \ {u} : request'[w].op # "disable"
      BY <1>6, <1>13, <3>1
    <3>3. ASSUME NEW v \in Variants, See(u, Variant(v)).state = "active"
          PROVE  See(u, Variant(v))'.state = "active"
      <4>1. CASE Variant(v) \in Locked(u)
        BY <1>6, <1>13, <3>3, <4>1 DEF See, Locked
      <4>2. CASE Variant(v) \notin Locked(u)
        <5>1. db[Variant(v)].state = "active" /\ See(u, Variant(v))' = db'[Variant(v)]
          BY <1>6, <1>13, <3>3, <4>2 DEF See, Locked
        <5>2. See(t, Variant(v)).state = "active"
          BY <1>2, <3>2, <5>1 DEF WritesOwn, See, Locked
        <5>3. QED
          BY <1>5, <1>8, <5>1, <5>2
      <4>3. QED
        BY <4>1, <4>2
    <3>4. ASSUME LeavesOne(u), See(u, Product)'.has
          PROVE  \E v \in Variants : See(u, Variant(v))'.state = "active"
      <4>1. CASE See(u, Product).has
        BY <3>3, <3>4, <4>1 DEF LeavesOne
      <4>2. CASE ~See(u, Product).has
        <5>1. Product \notin Locked(u)
          BY <1>6, <1>13, <3>4, <4>2 DEF See, Locked
        <5>2. See(u, Product)' = See(t, Product) /\ ~db[Product].has
          BY <1>5, <1>6, <1>8, <1>13, <4>2, <5>1 DEF See, Locked
        <5>3. Product \in Locked(t) /\ own[t][Product].has
          BY <3>4, <5>2 DEF See, Locked
        <5>4. request[t].op = "create" /\ Variant(request[t].variant) \in Locked(t)
          BY <1>2, <5>2, <5>3 DEF WritesOwn
        <5>5. PICK v \in Variants : v = request[t].variant
          BY <1>4, <5>4 DEF IsRequest, r
        <5>6. See(t, Variant(v)).state = "active" /\ Variant(v) \notin Locked(u)
          BY <1>2, <2>3, <5>4, <5>5 DEF WritesOwn, See, Locked
        <5>7. See(u, Variant(v))'.state = "active"
          BY <1>5, <1>6, <1>8, <1>13, <5>5, <5>6 DEF See, Locked
        <5>8. QED
          BY <5>5, <5>7
      <4>3. QED
        BY <4>1, <4>2
    <3>5. QED
      BY <3>2, <3>4 DEF LeavesOne
  <2>7. ASSUME ~miscounted', request[u].op \in Counting
        PROVE  /\ \A w \in Txs \ {u} : request'[w].op \notin Counting
               /\ Draft => Draft'
    <3>1. \A w \in Txs \ {u} : request[w].op \notin Counting
      BY <1>1, <2>1, <2>7 DEF StillDraft
    <3>2. \A w \in Txs \ {u} : request'[w].op \notin Counting
      BY <1>6, <3>1 DEF Counting
    <3>3. request[t].op \notin Counting
      BY <1>13, <3>1
    <3>4. ASSUME Draft PROVE Header \notin Locked(t)
      BY <1>2, <1>3, <3>3, <3>4 DEF WritesOwn, Counting, Draft
    <3>5. Draft => db'[Header] = db[Header]
      BY <1>5, <1>8, <3>4 DEF See, Locked
    <3>6. QED
      BY <3>2, <3>5 DEF Draft
  <2>8. QED
    BY <1>1, <1>6, <1>13, <2>4, <2>5, <2>6, <2>7, OtherRequest
<1>14. PriceExplained'
  <2>1. ASSUME ~blurred' PROVE Last(history').to = Pricing(db'[Product])
    <3>1. ~blurred /\ r.op # "applyAdvice"
      BY <1>1, <2>1
    <3>2. CASE r.op \in Priced
      <4>1. Pricing(See(t, Product)) = Last(history \o HistoryOf(r)).to
        BY <1>2, <1>3, <3>1, <3>2 DEF PricesKnown, r
      <4>2. QED
        BY <1>1, <1>5, <1>8, <4>1
    <3>3. CASE r.op \notin Priced
      BY <1>10, <3>1, <3>3 DEF CatalogueInv, PriceExplained
    <3>4. QED
      BY <3>2, <3>3
  <2>2. QED
    BY <2>1 DEF PriceExplained
<1>15. SellableVariants'
  <2>1. ASSUME ~crossed PROVE LeavesOne(t)
    BY <1>2, <1>3, <2>1, OthersLeaveOne DEF Checked
  <2>2. QED
    BY <1>1, <1>5, <1>8, <2>1 DEF SellableVariants, LeavesOne
<1>16. QED
  <2>1. \A u \in Txs : RequestInv(u)'
    BY <1>6, <1>13
  <2>2. QED
    BY <1>11, <1>12, <1>14, <1>15, <2>1 DEF CatalogueInv

------------------------------------------------------------------------------
(* The invariant of the catalogue.                                         *)

\* Where nobody writes, what is known stays known.
LEMMA NothingWritten ==
    ASSUME CatalogueInv, UNCHANGED <<own, todo, request, history, blurred, crossed, miscounted>>,
           DOMAIN db' = DOMAIN db, \A i \in CatalogueRows : i # StockRow => db'[i] = db[i],
           Typed(StockRow, db'[StockRow])
    PROVE  CatalogueInv'
<1>1. /\ Product \in CatalogueRows /\ Header \in CatalogueRows
      /\ \A v \in Variants : Variant(v) \in CatalogueRows /\ Variant(v) # StockRow
      /\ Product # StockRow /\ Header # StockRow /\ CatalogueRows' = CatalogueRows
  BY RowsDistinct DEF CatalogueRows
<1>2. ASSUME NEW u \in Txs PROVE RequestInv(u)'
  <2>1. InStage(u) /\ PricesKnown(u) /\ Checked(u) /\ StillDraft(u)
    BY DEF CatalogueInv, RequestInv
  <2>2. Locked(u) \subseteq CatalogueRows
    BY <2>1 DEF InStage
  <2>3. /\ See(u, Product)' = See(u, Product)
        /\ \A v \in Variants : See(u, Variant(v))' = See(u, Variant(v))
    BY <1>1 DEF See
  <2>4. (LeavesOne(u) => LeavesOne(u)') /\ (Draft => Draft')
    BY <1>1, <2>3 DEF LeavesOne, Draft
  <2>5. \A i \in Locked(u) \ {StockRow} : db'[i] = db[i]
    BY <2>2
  <2>6. /\ ~blurred' /\ request[u].op \in Priced =>
              \A w \in Txs \ {u} : request'[w].op \notin Priced
        /\ ~crossed' /\ request[u].op = "disable" =>
              \A w \in Txs \ {u} : request'[w].op # "disable"
        /\ ~miscounted' /\ request[u].op \in Counting =>
              \A w \in Txs \ {u} : request'[w].op \notin Counting
    BY <2>1 DEF PricesKnown, Checked, StillDraft
  <2>7. QED
    BY <1>1, <2>4, <2>5, <2>6, OtherRequest
<1>3. CatalogueTables'
  BY <1>1 DEF CatalogueInv, CatalogueTables
<1>4. RowsApart'
  BY DEF CatalogueInv, RowsApart, Locked
<1>5. PriceExplained' /\ SellableVariants'
  BY <1>1 DEF CatalogueInv, PriceExplained, SellableVariants
<1>6. QED
  BY <1>2, <1>3, <1>4, <1>5 DEF CatalogueInv

LEMMA MoveStockInv == ASSUME CatalogueInv, MoveStock PROVE CatalogueInv'
<1> DEFINE level == db[StockRow]
           moved == [level EXCEPT !.units = 1 - @]
<1>1. /\ db' = [db EXCEPT ![StockRow] = moved]
      /\ UNCHANGED <<own, todo, request, history, blurred, crossed, miscounted>>
  BY DEF MoveStock, ghosts
<1>2. DOMAIN level = {"units"} /\ level.units \in 0..1 /\ StockRow \in DOMAIN db
  BY TypedColumns DEF CatalogueInv, CatalogueTables, CatalogueRows
<1> HIDE DEF level
<1>3. DOMAIN moved = {"units"} /\ moved.units \in 0..1
  BY <1>2
<1> HIDE DEF moved
<1>4. Typed(StockRow, moved)
  BY <1>3, TypedColumns
<1>5. /\ DOMAIN db' = DOMAIN db /\ db'[StockRow] = moved
      /\ \A i \in CatalogueRows : i # StockRow => db'[i] = db[i]
  BY <1>1, <1>2 DEF CatalogueInv, CatalogueTables
<1>6. QED
  BY <1>1, <1>4, <1>5, NothingWritten

LEMMA NoStep ==
    ASSUME CatalogueInv, UNCHANGED <<db, own, todo, request, history, blurred, crossed, miscounted>>
    PROVE  CatalogueInv'
<1>1. Typed(StockRow, db'[StockRow])
  BY DEF CatalogueInv, CatalogueTables, CatalogueRows
<1>2. QED
  BY <1>1, NothingWritten

LEMMA CatalogueInitRows ==
    ASSUME Init
    PROVE  /\ DOMAIN db = CatalogueRows /\ \A i \in CatalogueRows : Typed(i, db[i])
           /\ history = <<PriceChange(db[Product], db[Product])>>
           /\ db[Product].price \in Prices /\ db[Product].cost \in Prices
           /\ db[Product].has => \E v \in Variants : db[Variant(v)].state = "active"
           /\ own = [t \in Txs |-> <<>>] /\ todo = [t \in Txs |-> <<>>]
           /\ request = [t \in Txs |-> NoRequest]
<1> DEFINE Single == {Product, StockRow, Rec, Advice, Header, Item}
           rows(product, price, legacy) ==
              [i \in Single |-> CASE i = Product  -> product
                                  [] i = StockRow -> [units |-> 1]
                                  [] i = Rec      -> [status |-> "none", price |-> price]
                                  [] i = Advice   -> [status |-> legacy, price |-> price]
                                  [] i = Header   -> [status |-> "none"]
                                  [] i = Item     -> [counted |-> -1, system |-> -1]]
           variants(live) == [i \in {Variant(v) : v \in Variants} |->
                                 [state |-> IF live = {} THEN "none" ELSE "active"]]
<1>1. PICK price \in Prices, cost \in Prices, legacy \in {"none", "PENDING"}, live \in {{}, Variants} :
         /\ db = Over(rows([price |-> price, cost |-> cost, has |-> live # {}, active |-> TRUE],
                           price, legacy), variants(live))
         /\ InitSessions /\ request = [t \in Txs |-> NoRequest]
         /\ history = <<PriceChange([price |-> price, cost |-> cost, has |-> live # {}, active |-> TRUE],
                                    [price |-> price, cost |-> cost, has |-> live # {}, active |-> TRUE])>>
  BY DEF Init
<1> DEFINE product == [price |-> price, cost |-> cost, has |-> live # {}, active |-> TRUE]
           first == rows(product, price, legacy)
           second == variants(live)
<1>2. /\ DOMAIN first = Single /\ DOMAIN second = {Variant(v) : v \in Variants}
      /\ first[Product] = product /\ first[StockRow] = [units |-> 1]
      /\ first[Rec] = [status |-> "none", price |-> price]
      /\ first[Advice] = [status |-> legacy, price |-> price]
      /\ first[Header] = [status |-> "none"]
      /\ first[Item] = [counted |-> -1, system |-> -1]
      /\ \A v \in Variants : second[Variant(v)] = [state |-> IF live = {} THEN "none" ELSE "active"]
  BY RowsDistinct
<1>3. db = Over(first, second)
  BY <1>1
<1> HIDE DEF first, second
<1>4. DOMAIN db = CatalogueRows
  BY <1>2, <1>3 DEF Over, CatalogueRows
<1>5. /\ \A i \in Single : db[i] = first[i]
      /\ \A v \in Variants : db[Variant(v)] = second[Variant(v)]
  BY <1>2, <1>3, RowsDistinct DEF Over
<1>6. /\ DOMAIN product = {"price", "cost", "has", "active"} /\ product.price = price /\ product.cost = cost
      /\ product.has = (live # {}) /\ product.active = TRUE
  OBVIOUS
<1>7. product.has \in BOOLEAN /\ product.active \in BOOLEAN
  BY <1>6
<1> HIDE DEF product
<1>8. Typed(Product, product)
  BY <1>6, <1>7, TypedColumns
<1>9. /\ Typed(StockRow, [units |-> 1]) /\ Typed(Header, [status |-> "none"])
      /\ \A v : Typed(Variant(v), [state |-> "none"]) /\ Typed(Variant(v), [state |-> "active"])
  BY TypedColumns
<1>10. Typed(Rec, [status |-> "none", price |-> price])
  BY KindIs DEF Typed
<1>11. Typed(Advice, [status |-> legacy, price |-> price])
  BY KindIs DEF Typed
<1>12. Typed(Item, [counted |-> -1, system |-> -1])
  BY KindIs DEF Typed
<1>13. \A i \in CatalogueRows : Typed(i, db[i])
  <2>1. \A i \in Single : Typed(i, db[i])
    BY <1>2, <1>5, <1>8, <1>9, <1>10, <1>11, <1>12
  <2>2. \A v \in Variants : Typed(Variant(v), db[Variant(v)])
    BY <1>2, <1>5, <1>9
  <2>3. QED
    BY <2>1, <2>2 DEF CatalogueRows
<1>14. db[Product] = product
  BY <1>2, <1>5
<1>15. product.has => \E v \in Variants : db[Variant(v)].state = "active"
  <2>1. product.has => live = Variants /\ \E v \in Variants : TRUE
    BY <1>6
  <2>2. ASSUME NEW v \in Variants, live # {} PROVE db[Variant(v)].state = "active"
    <3>1. db[Variant(v)] = [state |-> "active"]
      BY <1>2, <1>5, <2>2
    <3>2. QED
      BY <3>1
  <2>3. QED
    BY <1>6, <2>1, <2>2
<1>16. history = <<PriceChange(product, product)>>
  BY <1>1 DEF product
<1>17. QED
  BY <1>1, <1>4, <1>6, <1>13, <1>14, <1>15, <1>16 DEF InitSessions

LEMMA CatalogueInitInv == ASSUME Init PROVE CatalogueInv
<1> DEFINE x == PriceChange(db[Product], db[Product])
<1>1. CatalogueTables /\ Last(history).to = Pricing(db[Product])
  <2>1. history = <<x>> /\ x.to = Pricing(db[Product])
    BY CatalogueInitRows DEF PriceChange
  <2>2. x \in PriceChanges
    BY CatalogueInitRows, ChangeTyped
  <2> HIDE DEF x
  <2>3. history \in Seq(PriceChanges) /\ history # <<>> /\ Last(history) = x
    BY <2>1, <2>2 DEF Last
  <2>4. QED
    BY <2>1, <2>3, CatalogueInitRows DEF CatalogueTables
<1>2. \A t \in Txs : Locked(t) = {} /\ Idle(t) /\ todo[t] = <<>> /\ request[t] = NoRequest
                     /\ request[t].op = "none" /\ ~Settled(t)
  <2> TAKE t \in Txs
  <2>1. own[t] = <<>> /\ todo[t] = <<>> /\ request[t] = NoRequest
    BY CatalogueInitRows
  <2>2. DOMAIN own[t] = {}
    BY <2>1
  <2>3. todo[t] # <<"commit">>
    BY <2>1
  <2>4. NoRequest.op = "none"
    BY DEF NoRequest
  <2>5. QED
    BY <2>1, <2>2, <2>3, <2>4 DEF Locked, Idle, Settled
<1>3. ASSUME NEW t \in Txs PROVE RequestInv(t)
  <2>1. InStage(t)
    BY <1>2 DEF InStage
  <2>2. WritesOwn(t)
    BY <1>2 DEF WritesOwn
  <2>3. PricesKnown(t) /\ Checked(t) /\ StillDraft(t)
    BY <1>2 DEF PricesKnown, Checked, StillDraft, Priced, Counting
  <2>4. QED
    BY <2>1, <2>2, <2>3 DEF RequestInv
<1>4. RowsApart
  BY <1>2 DEF RowsApart
<1>5. PriceExplained /\ SellableVariants
  BY <1>1, CatalogueInitRows DEF PriceExplained, SellableVariants
<1>6. QED
  BY <1>1, <1>3, <1>4, <1>5 DEF CatalogueInv

LEMMA CatalogueStepInv == CatalogueInv /\ [Next]_vars => CatalogueInv'
<1> SUFFICES ASSUME CatalogueInv, [Next]_vars PROVE CatalogueInv'
  OBVIOUS
<1>1. CASE UNCHANGED vars
  BY <1>1, NoStep DEF vars, ghosts
<1>2. ASSUME NEW t \in Txs, Begin(t) \/ Flush(t) \/ CheckVariants(t) \/ Commit(t) \/ Fail(t)
      PROVE  CatalogueInv'
  BY <1>2, BeginInv, FlushInv, CheckVariantsInv, CommitRequestInv, RollbackInv DEF Fail
<1>3. ASSUME NEW i, Age(i) PROVE CatalogueInv'
  BY <1>3, NoStep DEF Age, ghosts
<1>4. CASE MoveStock
  BY <1>4, MoveStockInv
<1>5. QED
  BY <1>1, <1>2, <1>3, <1>4 DEF Next

\* The inductive invariant of the catalogue holds in every reachable state, for
\* any number of requests on any variants at any prices.
THEOREM CatalogueInvHolds == Spec => []CatalogueInv
  BY CatalogueInitInv, CatalogueStepInv, PTL DEF Spec

\* The last PriceHistory row tells the price and cost update_product() and
\* apply_recommendation() left, unless price requests overlapped.
THEOREM PriceExplainedHolds == Spec => []PriceExplained
<1>1. CatalogueInv => PriceExplained
  BY DEF CatalogueInv
<1>2. QED
  BY <1>1, CatalogueInvHolds, PTL

\* A product that asks create_sale() for a variant has an active one, unless
\* deactivations overlapped.
THEOREM SellableVariantsHolds == Spec => []SellableVariants
<1>1. CatalogueInv => SellableVariants
  BY DEF CatalogueInv
<1>2. QED
  BY <1>1, CatalogueInvHolds, PTL

\* The line of a final count is written by a commit of the count only, and a
\* request on the count that overlaps no other found a draft.
LEMMA CountStep ==
    ASSUME CatalogueInv, [Next]_vars, db[Header].status = "FINALIZED", ~miscounted'
    PROVE  db'[Item] = db[Item]
<1>1. ASSUME db' # db
      PROVE  MoveStock \/ \E t \in Txs : Commit(t)
  BY <1>1 DEF Next, vars, Begin, Flush, CheckVariants, Fail, Rollback, Age
<1>2. ~MoveStock
  BY DEF MoveStock, Draft
<1>3. ASSUME NEW t \in Txs, Commit(t) PROVE db'[Item] = db[Item]
  <2>1. ~miscounted
    BY <1>3 DEF Commit
  <2>2. InStage(t) /\ WritesOwn(t) /\ StillDraft(t) /\ CatalogueTables
    BY DEF CatalogueInv, RequestInv
  <2>3. Settled(t)
    <3>1. /\ Head(<<"check", "commit">>) # "commit" /\ Head(<<"flush", "commit">>) # "commit"
          /\ Head(<<"flush", "check", "commit">>) # "commit"
      OBVIOUS
    <3>2. At(t, "commit")
      BY <1>3 DEF Commit
    <3>3. QED
      BY <2>2, <3>1, <3>2 DEF InStage, At, Idle, Settled
  <2>4. Item \notin Locked(t)
    BY <2>1, <2>2, <2>3 DEF WritesOwn, StillDraft, Draft
  <2>5. Item \in CatalogueRows
    BY DEF CatalogueRows
  <2>6. db' = Over(own[t], db)
    BY <1>3 DEF Commit, Publish
  <2>7. QED
    BY <2>2, <2>4, <2>5, <2>6 DEF Over, Locked, CatalogueTables
<1>4. QED
  BY <1>1, <1>2, <1>3

\* finalize_stock_count() is final: a later step leaves the line as it is,
\* unless requests on the count overlapped.
THEOREM CountFrozenHolds == Spec => CountFrozen
<1>1. CatalogueInv /\ [Next]_vars
         => [db[Header].status = "FINALIZED" /\ ~miscounted' => db'[Item] = db[Item]]_vars
  BY CountStep
<1>2. QED
  BY <1>1, CatalogueInvHolds, PTL DEF Spec, CountFrozen

------------------------------------------------------------------------------
(* Rounding.                                                               *)

LEMMA RestIs == ASSUME NEW a \in Int, NEW b \in Int, b > 0 PROVE a % b \in Int /\ 0 <= a % b
OBVIOUS

LEMMA RestBelow == ASSUME NEW a \in Int, NEW b \in Int, b > 0 PROVE a % b < b
OBVIOUS

LEMMA QuotientIs == ASSUME NEW a \in Int, NEW b \in Int, b > 0 PROVE a \div b \in Int
OBVIOUS

LEMMA Division == ASSUME NEW a \in Int, NEW b \in Int, b > 0 PROVE a = b * (a \div b) + (a % b)
OBVIOUS

LEMMA Smaller ==
    ASSUME NEW b \in Int, NEW q \in Int, NEW p \in Int, b > 0, b * q < b * p
    PROVE  q < p
OBVIOUS

LEMMA Larger ==
    ASSUME NEW b \in Nat, NEW q \in Int, NEW p \in Int, q <= p
    PROVE  b * q <= b * p
OBVIOUS

LEMMA Times == ASSUME NEW a \in Int, NEW b \in Int PROVE a * b \in Int
OBVIOUS

LEMMA HalfUpRounds ==
    ASSUME NEW a \in Int, NEW b \in Int, b > 0
    PROVE  HalfUp(a, b) \in Int /\ 2 * (b * HalfUp(a, b)) + b >= 2 * a
<1> DEFINE n == 2 * a + b
           d == 2 * b
           q == n \div d
           r == n % d
<1>1. n \in Int /\ d \in Int /\ d > 0 /\ n = 2 * a + b /\ d = 2 * b
  OBVIOUS
<1> HIDE DEF n, d
<1>2. q \in Int
  BY <1>1, QuotientIs
<1>3. n = d * q + r
  BY <1>1, Division
<1>4. r \in Int /\ r < d
  BY <1>1, RestIs, RestBelow
<1>5. HalfUp(a, b) = q
  BY DEF HalfUp, n, d
<1> HIDE DEF q, r
<1>6. d * q = 2 * (b * q) /\ b * q \in Int
  BY <1>1, <1>2
<1> DEFINE m == b * q
<1>7. 2 * m + b >= 2 * a
  <2>1. m \in Int /\ n = 2 * m + r
    BY <1>3, <1>6
  <2> HIDE DEF m
  <2>2. QED
    BY <2>1, <1>1, <1>4
<1>8. QED
  BY <1>2, <1>5, <1>7

LEMMA HalfEvenRounds ==
    ASSUME NEW a \in Int, NEW b \in Int, b > 0
    PROVE  HalfEven(a, b) \in Int /\ 2 * (b * HalfEven(a, b)) + b >= 2 * a
<1> DEFINE q == a \div b
           r == a % b
           m == b * q
           e == HalfEven(a, b)
<1>1. q \in Int
  BY QuotientIs
<1>2. r \in Int /\ 0 <= r /\ r < b
  BY RestIs, RestBelow
<1>3. a = m + r
  BY Division
<1>4. e = IF 2 * r < b \/ (2 * r = b /\ q % 2 = 0) THEN q ELSE q + 1
  BY DEF HalfEven
<1> HIDE DEF q, r, e
<1>5. m \in Int /\ b * (q + 1) = m + b
  BY <1>1
<1> HIDE DEF m
<1>6. CASE e = q /\ 2 * r <= b
  <2>1. b * e = m
    BY <1>6 DEF m
  <2>2. 2 * m + b >= 2 * a
    BY <1>2, <1>3, <1>5, <1>6
  <2>3. QED
    BY <2>1, <2>2, <1>1, <1>6 DEF e
<1>7. CASE e = q + 1
  <2>1. b * e = m + b
    BY <1>5, <1>7
  <2>2. 2 * (m + b) + b >= 2 * a
    BY <1>2, <1>3, <1>5
  <2>3. QED
    BY <2>1, <2>2, <1>1, <1>7 DEF e
<1>8. (e = q /\ 2 * r <= b) \/ e = q + 1
  <2>1. CASE 2 * r < b \/ (2 * r = b /\ q % 2 = 0)
    <3>1. 2 * r <= b
      BY <2>1, <1>2
    <3>2. QED
      BY <2>1, <3>1, <1>4
  <2>2. CASE ~(2 * r < b \/ (2 * r = b /\ q % 2 = 0))
    BY <2>2, <1>4
  <2>3. QED
    BY <2>1, <2>2
<1>9. QED
  BY <1>6, <1>7, <1>8

\* A cost grossed up by a margin of less than 100% is not rounded below the cost,
\* and keeps that margin up to rounding.
LEMMA GrossedUp ==
    ASSUME NEW cost \in Nat, NEW margin \in 0..99, NEW price \in Int,
           2 * ((100 - margin) * price) + (100 - margin) >= 2 * (100 * cost)
    PROVE  price >= cost
<1> DEFINE b == 100 - margin
           p == price + 1
<1>1. b \in Int /\ b > 0 /\ b <= 100
  OBVIOUS
<1>2. SUFFICES ASSUME price < cost PROVE FALSE
  OBVIOUS
<1>3. p \in Int /\ p <= cost
  BY <1>2
<1>4. b * p = b * price + b /\ b * price \in Int
  BY <1>1
<1>5. b * p <= b * cost
  BY <1>1, <1>3, Larger
<1>6. cost * b <= cost * 100
  BY <1>1, Larger
<1>7. b * cost = cost * b /\ b * cost \in Int /\ 100 * cost = cost * 100
  BY <1>1
<1> DEFINE x == b * price
           y == b * cost
<1>8. 2 * x + b >= 2 * (100 * cost)
  OBVIOUS
<1>9. x + b <= y /\ y <= 100 * cost /\ x \in Int /\ y \in Int
  BY <1>4, <1>5, <1>6, <1>7
<1> HIDE DEF x, y, b
<1>10. QED
  BY <1>1, <1>8, <1>9

------------------------------------------------------------------------------
(* Price suggestions.                                                      *)

TargetRows == [scope : Scopes, target : Margins, min : Margins, priority : 1..2]
LotRows == [units : Nat, cost : Nat, dollars : BOOLEAN, ngn : Nat \cup {None}]

\* The rows a suggestion reads, and the suggestion.
ShopRead ==
    /\ DOMAIN shop = {"targets", "defaults", "lot", "coefficients", "revenue", "mix", "scenarios"}
    /\ targets \subseteq TargetRows
    /\ defaults \in [Categories -> (Margins \ {0, 100}) \cup {None}]
    /\ lot \in LotRows

SuggestInv == ShopRead /\ SuggestionsKeepMargin

LEMMA MarginIs == ASSUME NEW m \in Margins PROVE m \in 0..100
BY PricingAssumption

LEMMA CostIs == \A c \in Costs \cup Prices : c \in Nat /\ c > 0
BY PricingAssumption, CatalogueAssumption

LEMMA PolicyIs ==
    ASSUME ShopRead, NEW policy \in Policies
    PROVE  policy.target \in 0..100 /\ policy.min \in (0..100) \cup {None}
<1>1. CASE targets # {}
  <2>1. PICK r \in Picked(targets) : policy = [target |-> r.target, min |-> r.min]
    BY <1>1 DEF Policies
  <2>2. r \in TargetRows
    BY <2>1 DEF Picked, Specific, ShopRead
  <2>3. r.target \in Margins /\ r.min \in Margins
    BY <2>2 DEF TargetRows
  <2>4. policy.target = r.target /\ policy.min = r.min
    BY <2>1
  <2>5. QED
    BY <2>3, <2>4, MarginIs
<1>2. CASE targets = {}
  <2> DEFINE default == CASE defaults.sub # None -> defaults.sub
                          [] defaults.top # None -> defaults.top
                          [] OTHER -> 40
  <2>1. policy = [target |-> default, min |-> None]
    BY <1>2 DEF Policies
  <2>2. policy.target = default /\ policy.min = None
    BY <2>1
  <2>3. defaults.sub \in Margins \cup {None} /\ defaults.top \in Margins \cup {None}
    BY DEF ShopRead, Categories
  <2>4. default \in Margins \cup {40}
    BY <2>3
  <2>5. QED
    BY <2>2, <2>4, MarginIs
<1>3. QED
  BY <1>1, <1>2

LEMMA LotCostIs == ASSUME ShopRead PROVE LotCost(lot) \in Nat
<1>1. lot.ngn \in Nat \cup {None} /\ lot.cost \in Nat
  BY DEF ShopRead, LotRows
<1>2. FxRate \in Nat
  BY PricingAssumption
<1>3. lot.cost * FxRate \in Nat
  BY <1>1, <1>2
<1>4. QED
  BY <1>1, <1>3 DEF LotCost

\* A price the minimum margin floors keeps that margin, and is not lowered.
LEMMA FlooredKeeps ==
    ASSUME NEW price \in Int, NEW cost \in Nat, NEW min \in (0..100) \cup {None}
    PROVE  /\ Floored(price, cost, min) \in Int /\ Floored(price, cost, min) >= price
           /\ min \notin {None, 100} =>
                 2 * Floored(price, cost, min) * (100 - min) + (100 - min) >= 200 * cost
<1>1. CASE min \in {None, 100}
  BY <1>1 DEF Floored
<1>2. CASE min \notin {None, 100}
  <2> DEFINE b == 100 - min
             a == 100 * cost
             f == Floored(price, cost, min)
             h == HalfUp(a, b)
  <2>1. min \in 0..99 /\ b \in Int /\ b > 0 /\ a \in Int
    BY <1>2 DEF None
  <2>2. f = Greater(price, h)
    BY <1>2 DEF Floored
  <2>a. a = 100 * cost
    OBVIOUS
  <2> HIDE DEF a, f
  <2>3. h \in Int /\ 2 * (b * h) + b >= 2 * a
    BY <2>1, HalfUpRounds
  <2> HIDE DEF h
  <2>4. f \in Int /\ f >= price /\ h <= f
    BY <2>2, <2>3 DEF Greater
  <2>5. b * h <= b * f
    BY <2>1, <2>3, <2>4, Larger
  <2>6. 2 * f * b = 2 * (b * f) /\ b * f \in Int /\ b * h \in Int
    BY <2>1, <2>3, <2>4
  <2>7. 2 * a = 200 * cost
    BY <2>a
  <2>b. \A x, y \in Int : x <= y /\ 2 * x + b >= 2 * a => 2 * y + b >= 2 * a
    BY <2>1
  <2>8. 2 * (b * f) + b >= 2 * a
    BY <2>3, <2>5, <2>6, <2>b
  <2>9. 2 * f * b + b >= 200 * cost
    BY <2>6, <2>7, <2>8
  <2>10. QED
    BY <2>4, <2>9 DEF f
<1>3. QED
  BY <1>1, <1>2

LEMMA AnswerIs ==
    ASSUME NEW path, NEW cost, NEW price, NEW min, Answer(path, cost, price, min)
    PROVE  answer'.cost = cost /\ answer'.price = price /\ answer'.min = min
BY DEF Answer

\* A suggestion for a price and a cost that keep the margin.
LEMMA AnswerKeeps ==
    ASSUME NEW path, NEW cost, NEW price, NEW min, Answer(path, cost, price, min), price >= cost,
           min \notin {None, 100} => 2 * price * (100 - min) + (100 - min) >= 200 * cost
    PROVE  SuggestionsKeepMargin'
BY AnswerIs DEF SuggestionsKeepMargin

LEMMA SuggestInvKept == ASSUME ShopRead, UNCHANGED shop PROVE ShopRead'
BY DEF ShopRead, targets, defaults, lot

LEMMA SuggestKeeps == ASSUME SuggestInv, Suggest PROVE SuggestInv'
<1>1. PICK policy \in Policies, margin \in {None} \cup (Margins \ {0, 100}) :
         LET target == IF margin = None THEN policy.target ELSE margin
             cost == HalfEven(LotCost(lot) * lot.units, lot.units)
             price == Floored(HalfEven(100 * cost, 100 - target), cost, policy.min)
         IN lot.units > 0 /\ target # 100 /\ price > cost /\ Answer("lots", cost, price, policy.min)
            /\ UNCHANGED shop
  BY DEF Suggest
<1> DEFINE target == IF margin = None THEN policy.target ELSE margin
           cost == HalfEven(LotCost(lot) * lot.units, lot.units)
           gross == HalfEven(100 * cost, 100 - target)
           price == Floored(gross, cost, policy.min)
<1>2. lot.units > 0 /\ target # 100 /\ price > cost /\ Answer("lots", cost, price, policy.min)
  BY <1>1
<1>3. policy.target \in 0..100 /\ policy.min \in (0..100) \cup {None}
  BY PolicyIs DEF SuggestInv
<1>4. target \in 0..99
  BY <1>2, <1>3, MarginIs
<1>5. cost \in Nat
  <2> DEFINE a == LotCost(lot) * lot.units
             b == lot.units
  <2>1. b \in Int /\ b > 0 /\ LotCost(lot) \in Nat
    BY <1>2, LotCostIs DEF SuggestInv, ShopRead, LotRows
  <2>2. a \in Nat
    BY <2>1
  <2> HIDE DEF a, b
  <2>3. HalfEven(a, b) \in Int /\ 2 * (b * HalfEven(a, b)) + b >= 2 * a
    BY <2>1, <2>2, HalfEvenRounds
  <2> DEFINE q == HalfEven(a, b)
  <2>4. q \in Int /\ 2 * (b * q) + b >= 0
    BY <2>2, <2>3, <2>1
  <2>5. ASSUME q < 0 PROVE FALSE
    <3> HIDE DEF q
    <3>1. q <= -1 /\ -1 \in Int
      BY <2>4, <2>5
    <3>2. b * q <= b * (-1)
      BY <3>1, <2>1, <2>4, Larger
    <3>3. b * (-1) = -b /\ b * q \in Int
      BY <2>1, <2>4
    <3>4. QED
      BY <3>2, <3>3, <2>1, <2>4
  <2>6. QED
    BY <2>4, <2>5 DEF a, b
<1> HIDE DEF cost
<1>6. gross \in Int
  <2> DEFINE b == 100 - target
             a == 100 * cost
  <2>1. b \in Int /\ b > 0 /\ a \in Int
    BY <1>4, <1>5
  <2> HIDE DEF a, b
  <2>2. HalfEven(a, b) \in Int
    BY <2>1, HalfEvenRounds
  <2>3. QED
    BY <2>2 DEF a, b
<1> HIDE DEF gross, target
<1>7. /\ price \in Int
      /\ policy.min \notin {None, 100} =>
            2 * price * (100 - policy.min) + (100 - policy.min) >= 200 * cost
  BY <1>3, <1>5, <1>6, FlooredKeeps
<1> HIDE DEF price
<1>8. price >= cost
  BY <1>2, <1>5, <1>7
<1>9. SuggestionsKeepMargin'
  BY <1>2, <1>7, <1>8, AnswerKeeps
<1>10. QED
  BY <1>1, <1>9, SuggestInvKept DEF SuggestInv

LEMMA SuggestForOrderKeeps == ASSUME SuggestInv, SuggestForOrder PROVE SuggestInv'
<1>1. PICK policy \in Policies, logistics \in 0..1 :
         LET cost == LotCost(lot) + logistics
         IN /\ policy.target # 100
            /\ Answer("order", cost, Floored(HalfUp(100 * cost, 100 - policy.target),
                                             cost, policy.min), policy.min)
            /\ UNCHANGED shop
  BY DEF SuggestForOrder
<1> DEFINE cost == LotCost(lot) + logistics
           target == policy.target
           gross == HalfUp(100 * cost, 100 - target)
           price == Floored(gross, cost, policy.min)
<1>2. target # 100 /\ Answer("order", cost, price, policy.min)
  BY <1>1
<1>3. target \in 0..100 /\ policy.min \in (0..100) \cup {None}
  BY PolicyIs DEF SuggestInv
<1>4. target \in 0..99
  BY <1>2, <1>3
<1>5. cost \in Nat
  BY LotCostIs DEF SuggestInv
<1> HIDE DEF cost, target
<1> DEFINE b == 100 - target
           a == 100 * cost
<1>6. b \in Int /\ b > 0 /\ a \in Int
  BY <1>4, <1>5
<1>7. gross \in Int /\ 2 * (b * gross) + b >= 2 * a
  BY <1>6, HalfUpRounds
<1> HIDE DEF gross
<1>8. gross >= cost
  BY <1>4, <1>5, <1>7, GrossedUp
<1>9. /\ price \in Int /\ price >= gross
      /\ policy.min \notin {None, 100} =>
            2 * price * (100 - policy.min) + (100 - policy.min) >= 200 * cost
  BY <1>3, <1>5, <1>7, FlooredKeeps
<1> HIDE DEF price
<1>10. price >= cost
  BY <1>5, <1>7, <1>8, <1>9
<1>11. SuggestionsKeepMargin'
  BY <1>2, <1>9, <1>10, AnswerKeeps
<1>12. QED
  BY <1>1, <1>11, SuggestInvKept DEF SuggestInv

LEMMA SuggestFromCostKeeps ==
    ASSUME SuggestInv, db[Product].cost \in Prices, SuggestFromCost PROVE SuggestInv'
<1>1. PICK given \in Costs \cup {None}, rate \in {1, FxRate}, min \in Margins \ {0, 100} :
         LET cost == rate * (IF given = None THEN db[Product].cost ELSE given)
         IN Answer("cost", cost, HalfEven(100 * cost, 100 - min), min) /\ UNCHANGED shop
  BY DEF SuggestFromCost
<1> DEFINE base == IF given = None THEN db[Product].cost ELSE given
           cost == rate * base
           price == HalfEven(100 * cost, 100 - min)
           b == 100 - min
           a == 100 * cost
<1>2. Answer("cost", cost, price, min)
  BY <1>1
<1>3. min \in 0..99
  BY <1>1, MarginIs
<1>4. rate \in Nat /\ base \in Nat
  <2>1. rate \in Nat
    BY PricingAssumption
  <2>2. given \in Costs \/ given = None
    OBVIOUS
  <2>3. base \in Costs \cup Prices
    BY <2>2
  <2>4. QED
    BY <2>1, <2>3, CostIs
<1> HIDE DEF base
<1>5. cost \in Nat
  BY <1>4
<1> HIDE DEF cost
<1>6. b \in Int /\ b > 0 /\ a \in Int
  BY <1>3, <1>5
<1>7. price \in Int /\ 2 * (b * price) + b >= 2 * a
  BY <1>6, HalfEvenRounds
<1> HIDE DEF price
<1>8. price >= cost
  BY <1>3, <1>5, <1>7, GrossedUp
<1>9. 2 * price * b = 2 * (b * price) /\ 2 * a = 200 * cost
  BY <1>5, <1>6, <1>7
<1>10. 2 * price * (100 - min) + (100 - min) >= 200 * cost
  BY <1>7, <1>9
<1>11. SuggestionsKeepMargin'
  BY <1>2, <1>8, <1>10, AnswerKeeps
<1>12. QED
  BY <1>1, <1>11, SuggestInvKept DEF SuggestInv

LEMMA JudgePriceKeeps ==
    ASSUME SuggestInv, db[Product].cost \in Prices, JudgePrice PROVE SuggestInv'
<1>1. PICK price \in Prices :
         /\ price > db[Product].cost
         /\ Answer("elasticity", db[Product].cost, price, None)
         /\ UNCHANGED shop
  BY DEF JudgePrice
<1>2. price >= db[Product].cost
  BY <1>1, CostIs
<1>3. SuggestionsKeepMargin'
  BY <1>1, <1>2, AnswerKeeps
<1>4. QED
  BY <1>1, <1>3, SuggestInvKept DEF SuggestInv

\* A suggestion is gone once a request writes one of this module's rows.
LEMMA StoreKeeps ==
    ASSUME ShopRead, NEW row, NEW value, Store(row, value),
           row = "targets" => value \subseteq TargetRows,
           row = "defaults" => value \in [Categories -> (Margins \ {0, 100}) \cup {None}],
           row = "lot" => value \in LotRows
    PROVE  SuggestInv'
<1>1. shop' = [shop EXCEPT ![row] = value] /\ answer' = NoAnswer
  BY DEF Store
<1>2. DOMAIN shop' = DOMAIN shop
  BY <1>1
<1>3. /\ shop'.targets = IF row = "targets" THEN value ELSE shop.targets
      /\ shop'.defaults = IF row = "defaults" THEN value ELSE shop.defaults
      /\ shop'.lot = IF row = "lot" THEN value ELSE shop.lot
  BY <1>1 DEF ShopRead
<1>4. ShopRead'
  BY <1>2, <1>3 DEF ShopRead, targets, defaults, lot
<1>5. QED
  BY <1>1, <1>4 DEF SuggestInv, SuggestionsKeepMargin

LEMMA SettingsKeep ==
    ASSUME SuggestInv, SetTarget \/ DeleteTarget \/ SetDefault \/ Configure \/ Deliver \/ UseLot
                         \/ Sell \/ Save \/ SetMix \/ CheckDrift
    PROVE  SuggestInv'
<1> USE DEF SuggestInv
<1>1. CASE SetTarget
  <2>1. PICK r \in TargetRows : Store("targets", targets \cup {r})
    BY <1>1 DEF SetTarget, TargetRows
  <2>2. targets \cup {r} \subseteq TargetRows
    BY <2>1 DEF ShopRead
  <2>3. QED
    BY <2>1, <2>2, StoreKeeps
<1>2. CASE DeleteTarget
  <2>1. PICK r \in targets : Store("targets", targets \ {r})
    BY <1>2 DEF DeleteTarget
  <2>2. targets \ {r} \subseteq TargetRows
    BY DEF ShopRead
  <2>3. QED
    BY <2>1, <2>2, StoreKeeps
<1>3. CASE SetDefault
  <2>1. PICK c \in Categories, pct \in (Margins \ {0, 100}) \cup {None} :
           Store("defaults", [defaults EXCEPT ![c] = pct])
    BY <1>3 DEF SetDefault
  <2>2. [defaults EXCEPT ![c] = pct] \in [Categories -> (Margins \ {0, 100}) \cup {None}]
    BY DEF ShopRead
  <2>3. QED
    BY <2>1, <2>2, StoreKeeps
<1>4. CASE Configure
  <2>1. PICK value : Store("coefficients", value)
    BY <1>4 DEF Configure
  <2>2. QED
    BY <2>1, StoreKeeps
<1>5. CASE Deliver
  <2>1. PICK cost \in Costs : Store("lot", [lot EXCEPT !.ngn = cost])
    BY <1>5 DEF Deliver
  <2>2. [lot EXCEPT !.ngn = cost] \in LotRows
    BY <2>1, CostIs DEF ShopRead, LotRows
  <2>3. QED
    BY <2>1, <2>2, StoreKeeps
<1>6. CASE UseLot
  <2>1. lot.units > 0 /\ Store("lot", [lot EXCEPT !.units = @ - 1])
    BY <1>6 DEF UseLot
  <2>2. lot \in LotRows /\ lot.units - 1 \in Nat
    BY <2>1 DEF ShopRead, LotRows
  <2>3. [lot EXCEPT !.units = @ - 1] \in LotRows
    BY <2>2 DEF LotRows
  <2>4. QED
    BY <2>1, <2>3, StoreKeeps
<1>7. CASE Sell
  <2>1. PICK value : Store("revenue", value)
    BY <1>7 DEF Sell
  <2>2. QED
    BY <2>1, StoreKeeps
<1>8. CASE Save
  <2>1. PICK value : Store("scenarios", value)
    BY <1>8 DEF Save
  <2>2. QED
    BY <2>1, StoreKeeps
<1>9. CASE SetMix
  <2>1. PICK value : Store("mix", value)
    BY <1>9 DEF SetMix
  <2>2. QED
    BY <2>1, StoreKeeps
<1>10. CASE CheckDrift
  BY <1>10, SuggestInvKept DEF CheckDrift, SuggestInv, SuggestionsKeepMargin
<1>11. QED
  BY <1>1, <1>2, <1>3, <1>4, <1>5, <1>6, <1>7, <1>8, <1>9, <1>10

LEMMA SuggestInvInit == PricingInit => SuggestInv
<1> SUFFICES ASSUME PricingInit PROVE SuggestInv
  OBVIOUS
<1>1. PICK cost \in Costs, dollars \in BOOLEAN :
         shop = [targets |-> {}, defaults |-> [c \in Categories |-> None],
                 lot |-> [units |-> 2, cost |-> cost, dollars |-> dollars, ngn |-> None],
                 coefficients |-> [elasticity |-> None, fx |-> None],
                 revenue |-> [c \in Categories |-> 0], mix |-> [c \in Categories |-> None],
                 scenarios |-> <<>>]
  BY DEF PricingInit
<1> DEFINE l == [units |-> 2, cost |-> cost, dollars |-> dollars, ngn |-> None]
<1>2. targets = {} /\ defaults = [c \in Categories |-> None] /\ lot = l
  BY <1>1 DEF targets, defaults, lot
<1>3. l \in LotRows
  BY CostIs DEF LotRows
<1> HIDE DEF l
<1>4. DOMAIN shop = {"targets", "defaults", "lot", "coefficients", "revenue", "mix", "scenarios"}
  BY <1>1
<1>5. ShopRead
  BY <1>2, <1>3, <1>4 DEF ShopRead
<1>6. QED
  BY <1>5 DEF SuggestInv, SuggestionsKeepMargin, PricingInit

LEMMA SuggestInvStep ==
    CatalogueInv /\ SuggestInv /\ [PricingNext]_<<vars, pricingVars>> => SuggestInv'
<1> SUFFICES ASSUME CatalogueInv, SuggestInv, [PricingNext]_<<vars, pricingVars>> PROVE SuggestInv'
  OBVIOUS
<1>1. CASE UNCHANGED pricingVars
  BY <1>1, SuggestInvKept DEF pricingVars, SuggestInv, SuggestionsKeepMargin
<1>2. CASE PricingRequest
  <2>1. db[Product].cost \in Prices
    BY TypedColumns DEF CatalogueInv, CatalogueTables, CatalogueRows
  <2>2. QED
    BY <1>2, <2>1, SuggestKeeps, SuggestForOrderKeeps, SuggestFromCostKeeps, JudgePriceKeeps,
       SettingsKeep DEF PricingRequest
<1>3. QED
  BY <1>1, <1>2 DEF PricingNext, vars

\* The requests of Pricing leave the rows of Catalogue alone.
LEMMA PricingCatalogue == PricingSpec => Spec
<1>1. PricingInit => Init
  BY DEF PricingInit
<1>2. [PricingNext]_<<vars, pricingVars>> => [Next]_vars
  BY DEF PricingNext
<1>3. QED
  BY <1>1, <1>2, PTL DEF PricingSpec, Spec

\* No path of pricing/service.py suggests a price below cost, or one that gives
\* up the minimum margin of the policy by more than rounding, for any margins,
\* costs and live rate.
THEOREM SuggestionsKeepMarginHolds == PricingSpec => []SuggestionsKeepMargin
<1>1. PricingSpec => []CatalogueInv
  BY PricingCatalogue, CatalogueInvHolds, PTL
<1>2. SuggestInv => SuggestionsKeepMargin
  BY DEF SuggestInv
<1>3. QED
  BY <1>1, <1>2, SuggestInvInit, SuggestInvStep, PTL DEF PricingSpec

\* A product with margin targets of its own is priced by those alone: the
\* settings of its categories do not change what is suggested for it.
THEOREM OwnTargetWinsHolds == PricingSpec => OwnTargetWins
<1>1. ASSUME Specific(targets) # {}, Specific(targets') = Specific(targets)
      PROVE  Policies' = Policies
  <2>1. targets # {} /\ targets' # {}
    BY <1>1 DEF Specific
  <2>2. Picked(targets') = Picked(targets)
    BY <1>1 DEF Picked
  <2>3. /\ Policies = {[target |-> r.target, min |-> r.min] : r \in Picked(targets)}
        /\ Policies' = {[target |-> r.target, min |-> r.min] : r \in Picked(targets')}
    BY <2>1 DEF Policies, targets
  <2>4. QED
    BY <2>2, <2>3
<1>2. QED
  BY <1>1, PTL DEF OwnTargetWins

------------------------------------------------------------------------------
(* The inductive invariant of the uploads.                                 *)

JobRow == [status : {"NEW", "PENDING", "PROCESSING"} \cup Ended,
           processed : Nat, successful : Nat, failed : Nat]
SalesRow == [stocked : [Products -> Nat], loose : Nat]

\* The counters of a job agree with the sales it inserted.
Counted(rows, job, sales) ==
    /\ job \in JobRow /\ sales \in SalesRow
    /\ job.processed = job.successful + job.failed
    /\ job.processed <= Len(rows)
    /\ job.successful = SumFunction(sales.stocked)

Committed(j) == db[Sold(j)].stocked
Inserted(j)  == See(j, Sold(j)).stocked
Holds(j, p)  == Stock(p) \in Locked(j)

\* What a job has not committed yet: it holds the stock rows it moved, and they
\* lack what its new sales took.
Moving(j) ==
    /\ Locked(j) \subseteq {Job(j), Sold(j)} \cup {Stock(p) : p \in Products}
    /\ \A p \in Products :
          /\ Holds(j, p) =>
                /\ own[j][Stock(p)] \in Nat
                /\ own[j][Stock(p)] + Inserted(j)[p] = db[Stock(p)] + Committed(j)[p]
          /\ ~Holds(j, p) => Inserted(j)[p] = Committed(j)[p]

\* A job that has not begun or has ended runs no more, and holds nothing.
Stage(j) ==
    /\ todo[j] \in {<<>>, <<"row">>, <<"progress", "row">>, <<"except">>}
    /\ todo[j] \in {<<>>, <<"except">>} => Locked(j) = {}
    /\ j \in waiting => Idle(j) /\ db[Job(j)].status = "PENDING"
    /\ db[Job(j)].status \in {"NEW"} \cup Ended => Idle(j)
    /\ Progress(j).status \in {"NEW"} \cup Ended => Idle(j)

\* The outcome it reports is the outcome.
Outcome(j) ==
    LET recorded == SumFunction(Committed(j))
    IN  /\ db[Job(j)].status = "COMPLETED" => recorded = Len(file[j])
        /\ db[Job(j)].status = "PARTIAL" => recorded \in 1..(Len(file[j]) - 1)

JobInv(j) ==
    /\ Counted(file[j], db[Job(j)], db[Sold(j)])
    /\ Counted(file[j], Progress(j), See(j, Sold(j)))
    /\ Moving(j) /\ Stage(j) /\ Outcome(j)

UploadRows ==
    {Stock(p) : p \in Products} \cup {Job(j) : j \in Jobs} \cup {Sold(j) : j \in Jobs}

UploadTables ==
    /\ DOMAIN db = UploadRows /\ DOMAIN own = Jobs /\ DOMAIN todo = Jobs
    /\ file \in [Jobs -> Files]
    /\ \A p \in Products : db[Stock(p)] \in Nat

\* Two jobs never hold one stock row.
Apart == \A j, k \in Jobs : j # k => \A p \in Products : ~(Holds(j, p) /\ Holds(k, p))

\* The stock rows, and what the sales took off them, explain each other.
UploadInv ==
    /\ UploadTables
    /\ Apart
    /\ \A j \in Jobs : JobInv(j)

------------------------------------------------------------------------------
(* Rows.                                                                   *)

LEMMA RowIdsDiffer ==
    ASSUME NEW j, NEW p
    PROVE  /\ \A k : Job(k) = Job(j) => k = j
           /\ \A k : Sold(k) = Sold(j) => k = j
           /\ \A q : Stock(q) = Stock(p) => q = p
           /\ \A k : Job(j) # Sold(k)
           /\ \A q : Job(j) # Stock(q) /\ Sold(j) # Stock(q)
BY DEF Job, Sold, Stock

\* What a session sees and holds after a statement of its own.
LEMMA WriteSeen ==
    ASSUME DOMAIN own = Jobs, NEW j \in Jobs, NEW STATE values, Write(j, values), UNCHANGED db
    PROVE  /\ DOMAIN own' = Jobs
           /\ \A k \in Jobs : k # j => own'[k] = own[k]
           /\ Locked(j)' = Locked(j) \cup DOMAIN values
           /\ \A i : See(j, i)' = IF i \in DOMAIN values THEN values[i] ELSE See(j, i)
           /\ \A i \in Locked(j)' : own'[j][i] = See(j, i)'
<1>1. DOMAIN own' = Jobs /\ own'[j] = Over(values, own[j])
      /\ \A k \in Jobs : k # j => own'[k] = own[k]
  BY DEF Write
<1>2. DOMAIN own'[j] = DOMAIN values \cup DOMAIN own[j]
      /\ \A i \in DOMAIN own'[j] : own'[j][i] = IF i \in DOMAIN values THEN values[i] ELSE own[j][i]
  BY <1>1 DEF Over
<1>3. QED
  BY <1>1, <1>2 DEF Locked, See

LEMMA OnlyRow == ASSUME NEW STATE i, NEW STATE v PROVE DOMAIN Only(i, v) = {i} /\ Only(i, v)[i] = v
BY DEF Only

------------------------------------------------------------------------------
(* Steps.                                                                  *)

LEMMA OthersStay ==
    ASSUME UploadInv, NEW k \in Jobs, file' = file,
           own'[k] = own[k], todo'[k] = todo[k], k \in waiting' => k \in waiting,
           db'[Job(k)] = db[Job(k)], db'[Sold(k)] = db[Sold(k)],
           \A p \in Products : Holds(k, p) => db'[Stock(p)] = db[Stock(p)]
    PROVE  JobInv(k)'
<1>1. JobInv(k)
  BY DEF UploadInv
<1>2. /\ Locked(k)' = Locked(k) /\ (Idle(k)' <=> Idle(k))
      /\ Progress(k)' = Progress(k) /\ See(k, Sold(k))' = See(k, Sold(k))
      /\ Inserted(k)' = Inserted(k) /\ Committed(k)' = Committed(k)
      /\ \A p \in Products : Holds(k, p)' <=> Holds(k, p)
  BY DEF Locked, Idle, Progress, See, Inserted, Committed, Holds
<1>3. Counted(file[k], db[Job(k)], db[Sold(k)])' /\ Counted(file[k], Progress(k), See(k, Sold(k)))'
  BY <1>1, <1>2 DEF JobInv, Counted
<1>4. Moving(k)'
  <2>1. Moving(k)
    BY <1>1 DEF JobInv
  <2>2. ASSUME NEW p \in Products, Holds(k, p)'
        PROVE  /\ own'[k][Stock(p)] \in Nat
               /\ own'[k][Stock(p)] + Inserted(k)'[p] = db'[Stock(p)] + Committed(k)'[p]
    BY <1>2, <2>1, <2>2 DEF Moving
  <2>3. \A p \in Products : ~Holds(k, p)' => Inserted(k)'[p] = Committed(k)'[p]
    BY <1>2, <2>1 DEF Moving
  <2>4. Locked(k)' \subseteq {Job(k), Sold(k)} \cup {Stock(p) : p \in Products}
    BY <1>2, <2>1 DEF Moving
  <2>5. QED
    BY <2>2, <2>3, <2>4 DEF Moving
<1>5. Stage(k)'
  BY <1>1, <1>2 DEF JobInv, Stage
<1>6. Outcome(k)'
  BY <1>1, <1>2 DEF JobInv, Outcome
<1>7. QED
  BY <1>3, <1>4, <1>5, <1>6 DEF JobInv

\* A step of one job that commits nothing.
LEMMA QuietStep ==
    ASSUME UploadInv, NEW j \in Jobs, UNCHANGED <<db, file>>,
           DOMAIN own' = Jobs, DOMAIN todo' = Jobs,
           \A k \in Jobs : k # j => own'[k] = own[k] /\ todo'[k] = todo[k],
           waiting' \subseteq waiting,
           \A p \in Products : Holds(j, p)' =>
               \A k \in Jobs : k # j => ~Holds(k, p),
           JobInv(j)'
    PROVE  UploadInv'
<1>1. UploadTables'
  BY DEF UploadInv, UploadTables
<1>2. ASSUME NEW k \in Jobs PROVE JobInv(k)'
  <2>1. CASE k = j
    BY <2>1
  <2>2. CASE k # j
    BY <2>2, OthersStay
  <2>3. QED
    BY <2>1, <2>2
<1>3. Apart'
  <2>1. \A k \in Jobs : k # j => \A p \in Products : Holds(k, p)' <=> Holds(k, p)
    BY DEF Holds, Locked
  <2>2. QED
    BY <2>1 DEF UploadInv, Apart
<1>4. QED
  BY <1>1, <1>2, <1>3 DEF UploadInv

\* The row a job works on is a product its file asks for.
LEMMA AtRow ==
    ASSUME UploadInv, NEW j \in Jobs, At(j, "row")
    PROVE  /\ todo[j] = <<"row">> /\ ~Idle(j)
           /\ ~Done(j) => /\ Progress(j).processed + 1 \in 1..Len(file[j])
                          /\ NextRow(j) # Invalid => NextRow(j) \in Products
<1>1. todo[j] \in {<<>>, <<"row">>, <<"progress", "row">>, <<"except">>} /\ ~Idle(j)
      /\ Head(todo[j]) = "row"
  BY DEF UploadInv, JobInv, Stage, At
<1>2. todo[j] = <<"row">>
  BY <1>1 DEF Idle
<1>3. file[j] \in Seq(Products \cup {Invalid})
  BY FilesAssumption DEF UploadInv, UploadTables
<1>4. ASSUME ~Done(j)
      PROVE  Progress(j).processed + 1 \in 1..Len(file[j])
  <2>1. Progress(j).processed \in Nat /\ Progress(j).processed <= Len(file[j])
    BY DEF UploadInv, JobInv, Counted, JobRow
  <2>2. Progress(j).processed # Len(file[j]) /\ Len(file[j]) \in Nat
    BY <1>3, <1>4 DEF Done
  <2>3. QED
    BY <2>1, <2>2
<1>5. ASSUME ~Done(j) PROVE NextRow(j) \in Products \cup {Invalid}
  BY <1>3, <1>4, <1>5 DEF NextRow
<1>6. QED
  BY <1>1, <1>2, <1>4, <1>5

LEMMA Stages == /\ <<"row">> # <<>> /\ <<"progress", "row">> # <<>> /\ <<"except">> # <<>>
                /\ <<"row">> # <<"except">> /\ <<"progress", "row">> # <<"except">>
OBVIOUS

LEMMA AfterRowStage ==
    ASSUME UploadInv, NEW j \in Jobs, AfterRow(j)
    PROVE  /\ DOMAIN todo' = Jobs /\ UNCHANGED <<db, file, waiting>>
           /\ \A k \in Jobs : k # j => todo'[k] = todo[k]
           /\ todo'[j] \in {<<"row">>, <<"progress", "row">>}
BY DEF UploadInv, UploadTables, AfterRow

\* The counters after a row.
LEMMA CounterSteps ==
    ASSUME NEW STATE was, was \in JobRow
    PROVE  /\ Refused(was) \in JobRow /\ Short(was) = Refused(was)
           /\ Refused(was).processed = was.processed + 1
           /\ Refused(was).successful = was.successful
           /\ Refused(was).failed = was.failed + 1
           /\ Refused(was).status = was.status
           /\ Successful(was) \in JobRow
           /\ Successful(was).processed = was.processed + 1
           /\ Successful(was).successful = was.successful + 1
           /\ Successful(was).failed = was.failed
           /\ Successful(was).status = was.status
<1>1. /\ was.processed \in Nat /\ was.successful \in Nat /\ was.failed \in Nat
      /\ was.processed + 1 \in Nat /\ was.successful + 1 \in Nat /\ was.failed + 1 \in Nat
  BY DEF JobRow
<1>2. Refused(was) \in JobRow /\ Successful(was) \in JobRow
  BY <1>1 DEF Refused, Successful, JobRow
<1>3. QED
  BY <1>2 DEF Refused, Short, Successful, JobRow

LEMMA RefuseRowInv ==
    ASSUME UploadInv, NEW j \in Jobs, RefuseRow(j)
    PROVE  UploadInv'
<1> DEFINE was == Progress(j)
           progress == Refused(was)
<1>1. /\ At(j, "row") /\ ~Done(j) /\ Write(j, Only(Job(j), progress)) /\ AfterRow(j)
  BY DEF RefuseRow
<1>2. JobInv(j) /\ DOMAIN own = Jobs
  BY DEF UploadInv, UploadTables
<1>3. was \in JobRow /\ was.processed = was.successful + was.failed
  BY <1>2 DEF JobInv, Counted
<1>4. /\ progress \in JobRow /\ progress.status = was.status
      /\ progress.processed = progress.successful + progress.failed
      /\ progress.processed = was.processed + 1 /\ progress.successful = was.successful
  <2> HIDE DEF was
  <2>1. /\ was.processed \in Nat /\ was.successful \in Nat /\ was.failed \in Nat
    BY <1>3 DEF JobRow
  <2>2. QED
    BY <1>3, <2>1, CounterSteps
<1>5. progress.processed <= Len(file[j])
  BY <1>1, <1>3, <1>4, AtRow DEF JobRow
<1>6. /\ DOMAIN todo' = Jobs /\ UNCHANGED <<db, file, waiting>>
      /\ \A k \in Jobs : k # j => todo'[k] = todo[k]
      /\ todo'[j] \in {<<"row">>, <<"progress", "row">>}
  BY <1>1, AfterRowStage
<1> HIDE DEF progress, was
<1> DEFINE values == Only(Job(j), progress)
<1>7. DOMAIN values = {Job(j)} /\ values[Job(j)] = progress
  BY OnlyRow
<1>8. /\ DOMAIN own' = Jobs
      /\ \A k \in Jobs : k # j => own'[k] = own[k]
      /\ Locked(j)' = Locked(j) \cup {Job(j)}
      /\ \A i : See(j, i)' = IF i = Job(j) THEN progress ELSE See(j, i)
      /\ \A i \in Locked(j)' : own'[j][i] = See(j, i)'
  <2> HIDE DEF values
  <2>1. Write(j, values)
    BY <1>1 DEF values
  <2>2. QED
    BY <1>2, <1>6, <1>7, <2>1, WriteSeen
<1>9. /\ Progress(j)' = progress /\ See(j, Sold(j))' = See(j, Sold(j))
      /\ Inserted(j)' = Inserted(j) /\ Committed(j)' = Committed(j)
  <2>1. Job(j) # Sold(j)
    BY DEF Job, Sold
  <2>2. QED
    BY <1>6, <1>8, <2>1 DEF Progress, Inserted, Committed
<1>10. ASSUME NEW p \in Products
       PROVE  /\ Holds(j, p)' <=> Holds(j, p)
              /\ Holds(j, p) => own'[j][Stock(p)] = own[j][Stock(p)]
  <2>1. Stock(p) # Job(j)
    BY DEF Job, Stock
  <2>2. QED
    BY <1>8, <2>1 DEF Holds, Locked, See
<1>11. Moving(j)'
  <2>1. Moving(j)
    BY <1>2 DEF JobInv
  <2>2. Locked(j)' \subseteq {Job(j), Sold(j)} \cup {Stock(p) : p \in Products}
    BY <2>1, <1>8 DEF Moving
  <2>3. QED
    BY <2>1, <2>2, <1>6, <1>9, <1>10 DEF Moving
<1>12. Stage(j)'
  <2>1. Stage(j) /\ ~Idle(j)
    BY <1>1, <1>2 DEF JobInv, At
  <2>2. ~Idle(j)' /\ todo'[j] # <<"except">>
    BY <1>6, Stages DEF Idle
  <2>3. progress.status \notin {"NEW"} \cup Ended /\ db'[Job(j)].status \notin {"NEW"} \cup Ended
    BY <2>1, <1>4, <1>6 DEF Stage, was
  <2>4. QED
    BY <2>1, <2>2, <2>3, <1>6, <1>9 DEF Stage, Idle
<1>13. Counted(file[j], db[Job(j)], db[Sold(j)])' /\ Outcome(j)'
  BY <1>2, <1>6, <1>9 DEF JobInv, Outcome
<1>14. Counted(file[j], Progress(j), See(j, Sold(j)))'
  BY <1>2, <1>4, <1>5, <1>6, <1>9 DEF JobInv, Counted, Inserted, was
<1>15. JobInv(j)'
  BY <1>11, <1>12, <1>13, <1>14 DEF JobInv
<1>16. \A p \in Products : Holds(j, p)' => \A k \in Jobs : k # j => ~Holds(k, p)
  BY <1>10 DEF UploadInv, Apart
<1>17. QED
  BY <1>6, <1>8, <1>15, <1>16, QuietStep

LEMMA FreeRow ==
    ASSUME NEW j \in Jobs, NEW p, Free(j, {Stock(p)})
    PROVE  \A k \in Jobs : k # j => ~Holds(k, p)
BY DEF Free, HeldByOthers, Holds, Locked, Jobs

\* The level a job sees, and what its sales took, add up to the committed ones.
LEMMA LevelSeen ==
    ASSUME UploadInv, NEW j \in Jobs, NEW p \in Products
    PROVE  /\ See(j, Stock(p)) \in Nat /\ db[Stock(p)] \in Nat
           /\ Inserted(j) \in [Products -> Nat] /\ Committed(j) \in [Products -> Nat]
           /\ See(j, Stock(p)) + Inserted(j)[p] = db[Stock(p)] + Committed(j)[p]
<1>1. db[Stock(p)] \in Nat
  BY DEF UploadInv, UploadTables
<1>2. JobInv(j)
  BY DEF UploadInv
<1>3. Inserted(j) \in [Products -> Nat] /\ Committed(j) \in [Products -> Nat]
  BY <1>2 DEF JobInv, Counted, SalesRow, Inserted, Committed
<1>4. CASE Holds(j, p)
  BY <1>1, <1>2, <1>3, <1>4 DEF JobInv, Moving, Holds, Locked, See
<1>5. CASE ~Holds(j, p)
  BY <1>1, <1>2, <1>3, <1>5 DEF JobInv, Moving, Holds, Locked, See
<1>6. QED
  BY <1>4, <1>5, <1>1, <1>3

LEMMA RowSold ==
    ASSUME UploadInv, NEW j \in Jobs, NEW p \in Products, Free(j, {Stock(p)}),
           At(j, "row"), ~Done(j), AfterRow(j),
           NEW STATE level, NEW STATE sales, NEW STATE progress,
           Write(j, RowWritten(j, p, level, sales, progress)),
           level \in Nat, sales \in SalesRow, progress \in JobRow,
           progress.status = Progress(j).status,
           progress.processed = Progress(j).processed + 1,
           progress.processed = progress.successful + progress.failed,
           progress.successful = SumFunction(sales.stocked),
           level + sales.stocked[p] = See(j, Stock(p)) + Inserted(j)[p],
           \A q \in Products : q # p => sales.stocked[q] = Inserted(j)[q]
    PROVE  UploadInv'
<1>1. JobInv(j) /\ DOMAIN own = Jobs
  BY DEF UploadInv, UploadTables
<1>2. /\ DOMAIN todo' = Jobs /\ UNCHANGED <<db, file, waiting>>
      /\ \A k \in Jobs : k # j => todo'[k] = todo[k]
      /\ todo'[j] \in {<<"row">>, <<"progress", "row">>}
  BY AfterRowStage
<1> DEFINE values == RowWritten(j, p, level, sales, progress)
<1>3. /\ DOMAIN values = {Stock(p), Sold(j), Job(j)}
      /\ values[Stock(p)] = level /\ values[Sold(j)] = sales /\ values[Job(j)] = progress
  <2>1. Stock(p) # Sold(j) /\ Stock(p) # Job(j) /\ Sold(j) # Job(j)
    BY DEF Job, Sold, Stock
  <2>2. QED
    BY <2>1 DEF RowWritten, Over, Only
<1> HIDE DEF values
<1>4. /\ DOMAIN own' = Jobs
      /\ \A k \in Jobs : k # j => own'[k] = own[k]
      /\ Locked(j)' = Locked(j) \cup {Stock(p), Sold(j), Job(j)}
      /\ \A i : See(j, i)' = IF i \in {Stock(p), Sold(j), Job(j)} THEN values[i] ELSE See(j, i)
      /\ \A i \in Locked(j)' : own'[j][i] = See(j, i)'
  <2>1. Write(j, values)
    BY DEF values
  <2>2. QED
    BY <1>1, <1>2, <1>3, <2>1, WriteSeen
<1>5. /\ Progress(j)' = progress /\ See(j, Sold(j))' = sales
      /\ Inserted(j)' = sales.stocked /\ Committed(j)' = Committed(j)
      /\ See(j, Stock(p))' = level
  BY <1>2, <1>3, <1>4 DEF Progress, Inserted, Committed
<1>6. ASSUME NEW q \in Products
      PROVE  /\ Holds(j, q)' <=> Holds(j, q) \/ q = p
             /\ Holds(j, q)' => own'[j][Stock(q)] = IF q = p THEN level ELSE See(j, Stock(q))
  <2>1. Stock(q) # Job(j) /\ Stock(q) # Sold(j) /\ (Stock(q) = Stock(p) => q = p)
    BY DEF Job, Sold, Stock
  <2>2. QED
    BY <1>3, <1>4, <2>1 DEF Holds
<1>7. Moving(j)'
  <2>1. Moving(j)
    BY <1>1 DEF JobInv
  <2>2. Locked(j)' \subseteq {Job(j), Sold(j)} \cup {Stock(q) : q \in Products}
    BY <2>1, <1>4 DEF Moving
  <2>3. ASSUME NEW q \in Products, Holds(j, q)'
        PROVE  /\ own'[j][Stock(q)] \in Nat
               /\ own'[j][Stock(q)] + Inserted(j)'[q] = db'[Stock(q)] + Committed(j)'[q]
    <3>1. CASE q = p
      BY <3>1, <2>3, <1>2, <1>5, <1>6, LevelSeen
    <3>2. CASE q # p
      BY <3>2, <2>3, <1>2, <1>5, <1>6, LevelSeen
    <3>3. QED
      BY <3>1, <3>2
  <2>4. ASSUME NEW q \in Products, ~Holds(j, q)'
        PROVE  Inserted(j)'[q] = Committed(j)'[q]
    BY <2>1, <2>4, <1>5, <1>6 DEF Moving
  <2>5. QED
    BY <2>2, <2>3, <2>4 DEF Moving
<1>8. Stage(j)'
  <2>1. Stage(j) /\ ~Idle(j)
    BY <1>1 DEF JobInv, At
  <2>2. ~Idle(j)' /\ todo'[j] # <<"except">>
    BY <1>2, Stages DEF Idle
  <2>3. progress.status \notin {"NEW"} \cup Ended /\ db'[Job(j)].status \notin {"NEW"} \cup Ended
    BY <2>1, <1>2 DEF Stage
  <2>4. QED
    BY <2>1, <2>2, <2>3, <1>2, <1>5 DEF Stage, Idle
<1>9. Counted(file[j], db[Job(j)], db[Sold(j)])' /\ Outcome(j)'
  BY <1>1, <1>2, <1>5 DEF JobInv, Outcome
<1>10. Counted(file[j], Progress(j), See(j, Sold(j)))'
  <2>1. progress.processed <= Len(file[j])
    BY AtRow
  <2>2. QED
    BY <2>1, <1>2, <1>5 DEF Counted
<1>11. JobInv(j)'
  BY <1>7, <1>8, <1>9, <1>10 DEF JobInv
<1>12. \A q \in Products : Holds(j, q)' => \A k \in Jobs : k # j => ~Holds(k, q)
  BY <1>6, FreeRow DEF UploadInv, Apart
<1>13. QED
  BY <1>2, <1>4, <1>11, <1>12, QuietStep

LEMMA SellRowInv ==
    ASSUME UploadInv, NEW j \in Jobs, SellRow(j)
    PROVE  UploadInv'
<1> DEFINE p == NextRow(j)
           level == See(j, Stock(p))
           sales == See(j, Sold(j))
           was == Progress(j)
           more == [sales EXCEPT !.stocked[p] = @ + 1]
           loose == [sales EXCEPT !.loose = @ + 1]
<1>1. At(j, "row") /\ ~Done(j) /\ p # Invalid /\ Free(j, {Stock(p)}) /\ AfterRow(j)
  BY DEF SellRow
<1>2. p \in Products
  BY <1>1, AtRow
<1>3. /\ level \in Nat /\ sales.stocked = Inserted(j)
      /\ sales \in SalesRow /\ was \in JobRow
      /\ was.processed = was.successful + was.failed
      /\ was.successful = SumFunction(sales.stocked)
  <2>1. JobInv(j)
    BY DEF UploadInv
  <2>2. QED
    BY <2>1, <1>2, LevelSeen DEF JobInv, Counted, Inserted
<1>4. sales.stocked \in [Products -> Nat] /\ sales.loose \in Nat
  BY <1>3 DEF SalesRow
<1>5. was.processed \in Nat /\ was.successful \in Nat /\ was.failed \in Nat
  BY <1>3 DEF JobRow
<1>6. CASE Available(level) /\ Write(j, RowWritten(j, p, level - 1, more, Successful(was)))
  <2>1. level - 1 \in Nat
    BY <1>3, <1>6 DEF Available
  <2>2. /\ more \in SalesRow /\ more.stocked[p] = sales.stocked[p] + 1
        /\ \A q \in Products : q # p => more.stocked[q] = sales.stocked[q]
        /\ more.stocked \in [Products -> Int] /\ sales.stocked \in [Products -> Int]
    BY <1>2, <1>3, <1>4 DEF SalesRow
  <2>3. SumFunction(more.stocked) = SumFunction(sales.stocked) + 1
    <3> DEFINE f == sales.stocked
               g == more.stocked
    <3>0. /\ f \in [Products -> Int] /\ g \in [Products -> Int] /\ f[p] \in Nat
          /\ g[p] = f[p] + 1 /\ \A q \in Products : q # p => g[q] = f[q]
      BY <2>2, <1>2, <1>4
    <3> HIDE DEF f, g, p
    <3>1. IsFiniteSet(Products)
      BY FilesAssumption
    <3>2. SumFunction(g) = SumFunction(f) - f[p] + g[p] /\ SumFunction(f) \in Int
      BY <1>2, <3>0, <3>1, FunctionChanged
    <3>3. SumFunction(g) = SumFunction(f) + 1
      BY <3>0, <3>2
    <3>4. QED
      BY <3>3 DEF f, g
  <2> HIDE DEF more, level, sales, was, p
  <2>4. /\ Successful(was) \in JobRow /\ Successful(was).status = was.status
        /\ Successful(was).processed = was.processed + 1
        /\ Successful(was).successful = was.successful + 1
        /\ Successful(was).failed = was.failed
    BY <1>3, CounterSteps
  <2>5. /\ Successful(was).processed = Successful(was).successful + Successful(was).failed
        /\ Successful(was).successful = SumFunction(more.stocked)
    BY <2>3, <2>4, <1>3, <1>5
  <2>6. /\ (level - 1) + more.stocked[p] = level + Inserted(j)[p]
        /\ \A q \in Products : q # p => more.stocked[q] = Inserted(j)[q]
    BY <2>2, <1>2, <1>3, <1>4
  <2>7. QED
    BY <1>1, <1>2, <1>6, <2>1, <2>2, <2>4, <2>5, <2>6, RowSold DEF was, level
<1>7. CASE Write(j, RowWritten(j, p, level, loose, Short(was)))
  <2>1. loose \in SalesRow /\ loose.stocked = sales.stocked
    BY <1>3, <1>4 DEF SalesRow
  <2> HIDE DEF loose, level, sales, was, p
  <2>2. /\ Short(was) \in JobRow /\ Short(was).status = was.status
        /\ Short(was).processed = was.processed + 1
        /\ Short(was).successful = was.successful
        /\ Short(was).failed = was.failed + 1
    BY <1>3, CounterSteps
  <2>3. /\ Short(was).processed = Short(was).successful + Short(was).failed
        /\ Short(was).successful = SumFunction(loose.stocked)
    BY <2>1, <2>2, <1>3, <1>5
  <2>4. /\ level + loose.stocked[p] = level + Inserted(j)[p]
        /\ \A q \in Products : q # p => loose.stocked[q] = Inserted(j)[q]
    BY <2>1, <1>3
  <2>5. QED
    BY <1>1, <1>2, <1>3, <1>7, <2>1, <2>2, <2>3, <2>4, RowSold DEF was, level
<1>8. QED
  BY <1>6, <1>7 DEF SellRow

\* A job publishes what it wrote, with these counters, and holds nothing more.
Commits(j, row) ==
    /\ DOMAIN db' = UploadRows /\ db'[Job(j)] = row /\ db'[Sold(j)] = See(j, Sold(j))
    /\ \A p \in Products : db'[Stock(p)] = See(j, Stock(p))
    /\ \A k \in Jobs : k # j => db'[Job(k)] = db[Job(k)] /\ db'[Sold(k)] = db[Sold(k)]
    /\ own' = [own EXCEPT ![j] = <<>>]
    /\ UNCHANGED <<file, waiting>>

LEMMA NothingHeld ==
    ASSUME NEW j \in Jobs, DOMAIN own = Jobs, own' = [own EXCEPT ![j] = <<>>]
    PROVE  /\ DOMAIN own' = Jobs /\ Locked(j)' = {}
           /\ \A k \in Jobs : k # j => own'[k] = own[k]
           /\ \A i : See(j, i)' = db'[i]
BY DEF Locked, See

LEMMA CommitsInv ==
    ASSUME UploadInv, NEW j \in Jobs, NEW STATE row, Commits(j, row), ~Idle(j),
           DOMAIN todo' = Jobs, todo'[j] \in {<<>>, <<"row">>},
           \A k \in Jobs : k # j => todo'[k] = todo[k],
           Counted(file[j], row, See(j, Sold(j))),
           row.status \in {"NEW"} \cup Ended => Idle(j)',
           row.status = "COMPLETED" => SumFunction(Inserted(j)) = Len(file[j]),
           row.status = "PARTIAL" => SumFunction(Inserted(j)) \in 1..(Len(file[j]) - 1)
    PROVE  UploadInv'
<1>1. JobInv(j) /\ DOMAIN own = Jobs /\ j \notin waiting
  BY DEF UploadInv, UploadTables, JobInv, Stage
<1>2. /\ DOMAIN own' = Jobs /\ Locked(j)' = {} /\ \A k \in Jobs : k # j => own'[k] = own[k]
      /\ \A i : See(j, i)' = db'[i]
  BY <1>1, NothingHeld DEF Commits
<1>3. UploadTables'
  <2>1. \A p \in Products : db'[Stock(p)] \in Nat
    BY LevelSeen DEF Commits
  <2>2. UploadRows' = UploadRows
    BY DEF UploadRows
  <2>3. QED
    BY <1>2, <2>1, <2>2 DEF UploadInv, UploadTables, Commits
<1>4. /\ Progress(j)' = row /\ Inserted(j)' = Inserted(j) /\ Committed(j)' = Inserted(j)
      /\ See(j, Sold(j))' = See(j, Sold(j))
      /\ db'[Job(j)] = row /\ db'[Sold(j)] = See(j, Sold(j)) /\ file' = file
  BY <1>2 DEF Commits, Progress, Inserted, Committed
<1>5. JobInv(j)'
  <2>1. Counted(file[j], db[Job(j)], db[Sold(j)])' /\ Counted(file[j], Progress(j), See(j, Sold(j)))'
    BY <1>4 DEF Counted
  <2>2. Moving(j)'
    BY <1>2, <1>4 DEF Moving, Holds
  <2>3. Stage(j)'
    <3>1. j \notin waiting'
      BY <1>1 DEF Commits
    <3>2. QED
      BY <1>2, <1>4, <3>1 DEF Stage
  <2>4. Outcome(j)'
    BY <1>4 DEF Outcome
  <2>5. QED
    BY <2>1, <2>2, <2>3, <2>4 DEF JobInv
<1>6. ASSUME NEW k \in Jobs, k # j PROVE JobInv(k)'
  <2>1. ASSUME NEW p \in Products, Holds(k, p) PROVE db'[Stock(p)] = db[Stock(p)]
    BY <1>6, <2>1 DEF UploadInv, Apart, Commits, Holds, See, Locked
  <2>2. QED
    BY <1>2, <1>6, <2>1, OthersStay DEF Commits
<1>7. Apart'
  BY <1>2 DEF UploadInv, Apart, Holds, Locked
<1>8. QED
  BY <1>3, <1>5, <1>6, <1>7 DEF UploadInv

\* What CommitProgress() and Finish() write.
LEMMA Published ==
    ASSUME UploadInv, NEW j \in Jobs, own' = [own EXCEPT ![j] = <<>>], UNCHANGED <<file, waiting>>,
           NEW STATE row,
           \/ row = Progress(j) /\ db' = Over(own[j], db)
           \/ db' = Over(Only(Job(j), row), Over(own[j], db))
    PROVE  Commits(j, row)
<1>1. Moving(j) /\ DOMAIN db = UploadRows
  BY DEF UploadInv, UploadTables, JobInv
<1>2. Locked(j) \subseteq UploadRows /\ Job(j) \in UploadRows
  BY <1>1 DEF Moving, UploadRows
<1>3. DOMAIN Over(own[j], db) = UploadRows
      /\ \A i \in UploadRows : Over(own[j], db)[i] = See(j, i)
  BY <1>1, <1>2 DEF Over, See, Locked
<1>4. DOMAIN db' = UploadRows
      /\ \A i \in UploadRows : db'[i] = IF i = Job(j) THEN row ELSE See(j, i)
  <2>1. CASE row = Progress(j) /\ db' = Over(own[j], db)
    BY <1>3, <2>1 DEF Progress
  <2>2. CASE db' = Over(Only(Job(j), row), Over(own[j], db))
    <3> DEFINE merged == Over(own[j], db)
    <3>1. db' = Over(Only(Job(j), row), merged)
      BY <2>2
    <3>2. DOMAIN merged = UploadRows /\ \A i \in UploadRows : merged[i] = See(j, i)
      BY <1>3
    <3> HIDE DEF merged
    <3>3. QED
      BY <1>2, <3>1, <3>2 DEF Over, Only
  <2>3. QED
    BY <2>1, <2>2
<1>5. \A p : Stock(p) # Job(j) /\ Stock(p) # Sold(j)
  BY DEF Stock, Job, Sold
<1>6. \A k : (Job(k) = Job(j) => k = j) /\ (Sold(k) = Sold(j) => k = j) /\ Sold(k) # Job(j) /\ Job(k) # Sold(j)
  BY DEF Job, Sold
<1>7. ASSUME NEW k \in Jobs, k # j
      PROVE  See(j, Job(k)) = db[Job(k)] /\ See(j, Sold(k)) = db[Sold(k)]
  <2>1. Job(k) \notin Locked(j) /\ Sold(k) \notin Locked(j)
    <3>1. \A p : Stock(p) # Job(k) /\ Stock(p) # Sold(k)
      BY DEF Stock, Job, Sold
    <3>2. QED
      BY <1>1, <1>6, <1>7, <3>1 DEF Moving
  <2>2. QED
    BY <2>1 DEF See, Locked
<1>8. \A k \in Jobs : Job(k) \in UploadRows /\ Sold(k) \in UploadRows
  BY DEF UploadRows
<1>9. \A p \in Products : Stock(p) \in UploadRows
  BY DEF UploadRows
<1>10. QED
  BY <1>4, <1>5, <1>6, <1>7, <1>8, <1>9 DEF Commits

LEMMA CommitProgressInv ==
    ASSUME UploadInv, NEW j \in Jobs, CommitProgress(j)
    PROVE  UploadInv' /\ Commits(j, Progress(j))
<1>1. /\ todo[j] = <<"progress", "row">> /\ ~Idle(j)
  BY DEF UploadInv, JobInv, Stage, CommitProgress, At, Idle
<1>2. /\ DOMAIN todo' = Jobs /\ todo'[j] = <<"row">>
      /\ \A k \in Jobs : k # j => todo'[k] = todo[k]
  BY <1>1 DEF CommitProgress, Advance, UploadInv, UploadTables
<1>3. Commits(j, Progress(j))
  <2> DEFINE row == Progress(j)
  <2>1. row = Progress(j) /\ db' = Over(own[j], db)
        /\ own' = [own EXCEPT ![j] = <<>>] /\ UNCHANGED <<file, waiting>>
    BY DEF CommitProgress, Publish
  <2> HIDE DEF row
  <2>2. Commits(j, row)
    BY <2>1, Published
  <2>3. QED
    BY <2>1, <2>2
<1>4. JobInv(j)
  BY DEF UploadInv
<1>5. Progress(j).status \notin {"NEW"} \cup Ended
  BY <1>1, <1>4 DEF JobInv, Stage
<1>6. Counted(file[j], Progress(j), See(j, Sold(j)))
  BY <1>4 DEF JobInv
<1>7. QED
  <2> DEFINE row == Progress(j)
  <2>1. /\ Commits(j, row) /\ Counted(file[j], row, See(j, Sold(j)))
        /\ row.status \notin {"NEW"} \cup Ended
    BY <1>3, <1>5, <1>6
  <2>2. row.status # "COMPLETED" /\ row.status # "PARTIAL"
    BY <2>1 DEF Ended
  <2> HIDE DEF row
  <2>3. UploadInv'
    BY <1>1, <1>2, <2>1, <2>2, CommitsInv
  <2>4. QED
    BY <1>3, <2>3

LEMMA FinishInv ==
    ASSUME UploadInv, NEW j \in Jobs, Finish(j)
    PROVE  UploadInv' /\ \E row : Commits(j, row)
<1> DEFINE was == Progress(j)
           row == [was EXCEPT !.status = FinalStatus(was)]
<1>1. /\ At(j, "row") /\ Done(j) /\ UNCHANGED <<file, waiting>>
      /\ db' = Over(Only(Job(j), row), Over(own[j], db))
      /\ own' = [own EXCEPT ![j] = <<>>] /\ todo' = [todo EXCEPT ![j] = <<>>]
  BY DEF Finish, Release
<1>2. JobInv(j) /\ DOMAIN todo = Jobs /\ ~Idle(j)
  BY <1>1 DEF UploadInv, UploadTables, At
<1>3. DOMAIN todo' = Jobs /\ todo'[j] = <<>> /\ \A k \in Jobs : k # j => todo'[k] = todo[k]
  BY <1>1, <1>2
<1>4. Counted(file[j], was, See(j, Sold(j))) /\ was.processed = Len(file[j])
  BY <1>1, <1>2 DEF JobInv, Done
<1>5. was \in JobRow
  BY <1>4 DEF Counted
<1>6. /\ FinalStatus(was) \in Ended
      /\ FinalStatus(was) = "COMPLETED" => was.failed = 0
      /\ FinalStatus(was) = "PARTIAL" => was.failed # 0 /\ was.successful # 0
  BY DEF FinalStatus, Ended
<1>7. /\ row \in JobRow /\ row.status = FinalStatus(was) /\ row.processed = was.processed
      /\ row.successful = was.successful /\ row.failed = was.failed
  <2> HIDE DEF was
  <2>1. QED
    BY <1>5, <1>6 DEF JobRow
<1> HIDE DEF row
<1>8. Commits(j, row)
  <2>1. db' = Over(Only(Job(j), row), Over(own[j], db))
    BY <1>1
  <2>2. QED
    BY <1>1, <2>1, Published
<1>9. Counted(file[j], row, See(j, Sold(j)))
  BY <1>4, <1>7 DEF Counted
<1>10. /\ row.status = "COMPLETED" => SumFunction(Inserted(j)) = Len(file[j])
       /\ row.status = "PARTIAL" => SumFunction(Inserted(j)) \in 1..(Len(file[j]) - 1)
  <2>1. /\ was.successful = SumFunction(Inserted(j)) /\ Len(file[j]) = was.successful + was.failed
        /\ was.successful \in Nat /\ was.failed \in Nat
    BY <1>4, <1>5 DEF Counted, Inserted, JobRow
  <2> HIDE DEF was
  <2>2. QED
    BY <2>1, <1>6, <1>7
<1>11. UploadInv'
  <2>1. Idle(j)'
    BY <1>3 DEF Idle
  <2>2. QED
    BY <1>2, <1>3, <1>8, <1>9, <1>10, <2>1, CommitsInv
<1>12. QED
  BY <1>8, <1>11

LEMMA CloseFailedInv ==
    ASSUME UploadInv, NEW j \in Jobs, CloseFailed(j)
    PROVE  UploadInv' /\ \E row : Commits(j, row)
<1> DEFINE was == db[Job(j)]
           row == Closed(was)
<1>1. /\ At(j, "except") /\ UNCHANGED <<file, waiting>>
      /\ db' = [db EXCEPT ![Job(j)] = row]
      /\ own' = [own EXCEPT ![j] = <<>>] /\ todo' = [todo EXCEPT ![j] = <<>>]
  BY DEF CloseFailed, Release
<1>2. JobInv(j) /\ DOMAIN todo = Jobs /\ DOMAIN db = UploadRows /\ ~Idle(j)
  BY <1>1 DEF UploadInv, UploadTables, At
<1>3. DOMAIN todo' = Jobs /\ todo'[j] = <<>> /\ \A k \in Jobs : k # j => todo'[k] = todo[k]
  BY <1>1, <1>2
<1>4. Locked(j) = {}
  <2>1. todo[j] \in {<<>>, <<"row">>, <<"progress", "row">>, <<"except">>} /\ Head(todo[j]) = "except"
    BY <1>1, <1>2 DEF At, JobInv, Stage
  <2>2. todo[j] = <<"except">>
    BY <2>1, <1>2 DEF Idle
  <2>3. QED
    BY <2>2, <1>2 DEF JobInv, Stage
<1>5. \A i : See(j, i) = db[i]
  BY <1>4 DEF See, Locked
<1>6. Counted(file[j], was, db[Sold(j)])
  BY <1>2 DEF JobInv
<1>7. was \in JobRow
  BY <1>6 DEF Counted
<1>8. /\ row \in JobRow /\ row.status = "FAILED" /\ row.processed = was.processed
      /\ row.successful = was.successful /\ row.failed = was.failed
  <2> HIDE DEF was
  <2>1. QED
    BY <1>7 DEF Closed, JobRow, Ended
<1> HIDE DEF row
<1>9. Commits(j, row)
  <2>1. /\ \A p : Stock(p) # Job(j)
        /\ \A k : Sold(k) # Job(j) /\ (Job(k) = Job(j) => k = j)
    BY DEF Job, Sold, Stock
  <2>2. Job(j) \in UploadRows
    BY DEF UploadRows
  <2>3. /\ DOMAIN db' = UploadRows /\ db'[Job(j)] = row
        /\ \A i : i # Job(j) => db'[i] = db[i]
    BY <1>1, <1>2, <2>2
  <2>4. QED
    BY <1>1, <1>5, <2>1, <2>3 DEF Commits
<1>10. Counted(file[j], row, See(j, Sold(j)))
  BY <1>5, <1>6, <1>8 DEF Counted
<1>11. UploadInv'
  <2>1. Idle(j)' /\ row.status # "COMPLETED" /\ row.status # "PARTIAL"
    BY <1>3, <1>8 DEF Idle
  <2>2. QED
    BY <1>2, <1>3, <1>9, <1>10, <2>1, CommitsInv
<1>12. QED
  BY <1>9, <1>11

\* A job that holds nothing sees what is committed.
LEMMA EmptyHanded ==
    ASSUME NEW j \in Jobs, Locked(j) = {}
    PROVE  /\ Moving(j) /\ Progress(j) = db[Job(j)] /\ See(j, Sold(j)) = db[Sold(j)]
           /\ Inserted(j) = Committed(j)
BY DEF Moving, Locked, Holds, Progress, See, Inserted, Committed

LEMMA SubmitInv ==
    ASSUME UploadInv, NEW j \in Jobs, Submit(j)
    PROVE  /\ UploadInv'
           /\ \A p \in Products : db'[Stock(p)] = db[Stock(p)]
           /\ \A k \in Jobs : db'[Sold(k)] = db[Sold(k)]
<1> DEFINE row == [NoJob EXCEPT !.status = "PENDING"]
<1>1. /\ db[Job(j)] = NoJob /\ waiting' = waiting \cup {j} /\ UNCHANGED <<own, todo, file>>
      /\ db' = [db EXCEPT ![Job(j)] = row]
  BY DEF Submit
<1>2. JobInv(j) /\ DOMAIN db = UploadRows
  BY DEF UploadInv, UploadTables
<1>3. Idle(j) /\ Locked(j) = {}
  BY <1>1, <1>2 DEF JobInv, Stage, NoJob, Idle
<1>4. /\ row \in JobRow /\ row.status = "PENDING" /\ row.processed = NoJob.processed
      /\ row.successful = NoJob.successful /\ row.failed = NoJob.failed
  BY DEF NoJob, JobRow
<1> HIDE DEF row
<1>5. /\ DOMAIN db' = UploadRows /\ db'[Job(j)] = row
      /\ \A i : i # Job(j) => db'[i] = db[i]
  <2>1. Job(j) \in UploadRows
    BY DEF UploadRows
  <2>2. QED
    BY <1>1, <1>2, <2>1
<1>6. /\ \A p \in Products : db'[Stock(p)] = db[Stock(p)]
      /\ \A k \in Jobs : db'[Sold(k)] = db[Sold(k)]
      /\ \A k \in Jobs : k # j => db'[Job(k)] = db[Job(k)]
  <2>1. /\ \A p : Stock(p) # Job(j)
        /\ \A k : Sold(k) # Job(j) /\ (Job(k) = Job(j) => k = j)
    BY DEF Job, Sold, Stock
  <2>2. QED
    BY <1>5, <2>1
<1>7. JobInv(j)'
  <2>1. Locked(j)' = {} /\ Idle(j)'
    BY <1>1, <1>3 DEF Locked, Idle
  <2>2. /\ Moving(j)' /\ Progress(j)' = row /\ See(j, Sold(j))' = db[Sold(j)]
        /\ Committed(j)' = Committed(j)
    BY <2>1, <1>5, <1>6, EmptyHanded DEF Moving, Locked, Holds, Progress, See, Inserted, Committed
  <2>3. Counted(file[j], NoJob, db[Sold(j)])
    BY <1>1, <1>2 DEF JobInv
  <2>4. Counted(file[j], row, db[Sold(j)])
    BY <2>3, <1>4 DEF Counted
  <2>5. Counted(file[j], db[Job(j)], db[Sold(j)])' /\ Counted(file[j], Progress(j), See(j, Sold(j)))'
    BY <1>1, <1>5, <1>6, <2>2, <2>4 DEF Counted
  <2>6. Stage(j)'
    BY <1>1, <1>2, <1>4, <1>5, <2>1 DEF Stage, JobInv
  <2>7. Outcome(j)'
    BY <1>4, <1>5 DEF Outcome
  <2>8. QED
    BY <2>2, <2>5, <2>6, <2>7 DEF JobInv
<1>8. ASSUME NEW k \in Jobs PROVE JobInv(k)'
  <2>1. CASE k = j
    BY <2>1, <1>7
  <2>2. CASE k # j
    BY <1>1, <1>6, <2>2, OthersStay
  <2>3. QED
    BY <2>1, <2>2
<1>9. UploadTables'
  <2>1. UploadRows' = UploadRows
    BY DEF UploadRows
  <2>2. QED
    BY <2>1, <1>1, <1>5, <1>6 DEF UploadInv, UploadTables
<1>10. Apart'
  BY <1>1 DEF UploadInv, Apart, Holds, Locked
<1>11. QED
  BY <1>6, <1>8, <1>9, <1>10 DEF UploadInv

LEMMA StartInv ==
    ASSUME UploadInv, NEW j \in Jobs, Start(j)
    PROVE  UploadInv'
<1> DEFINE was == db[Job(j)]
           row == [was EXCEPT !.status = "PROCESSING"]
<1>1. /\ j \in waiting /\ waiting' = waiting \ {j} /\ UNCHANGED <<db, file>>
      /\ Write(j, Only(Job(j), row)) /\ todo' = [todo EXCEPT ![j] = <<"row">>]
  BY DEF Start
<1>2. JobInv(j) /\ DOMAIN own = Jobs /\ DOMAIN todo = Jobs
  BY DEF UploadInv, UploadTables
<1>3. /\ DOMAIN todo' = Jobs /\ todo'[j] = <<"row">> /\ ~Idle(j)' /\ todo'[j] # <<"except">>
      /\ \A k \in Jobs : k # j => todo'[k] = todo[k]
  BY <1>1, <1>2, Stages DEF Idle
<1>4. Idle(j) /\ db[Job(j)].status = "PENDING" /\ Locked(j) = {}
  BY <1>1, <1>2 DEF JobInv, Stage, Idle
<1>5. Counted(file[j], was, db[Sold(j)])
  BY <1>2 DEF JobInv
<1>6. was \in JobRow
  BY <1>5 DEF Counted
<1>7. /\ row \in JobRow /\ row.status = "PROCESSING" /\ row.processed = was.processed
      /\ row.successful = was.successful /\ row.failed = was.failed
  <2> HIDE DEF was
  <2>1. QED
    BY <1>6 DEF JobRow
<1> HIDE DEF row
<1> DEFINE values == Only(Job(j), row)
<1>8. DOMAIN values = {Job(j)} /\ values[Job(j)] = row
  BY OnlyRow
<1>9. /\ DOMAIN own' = Jobs
      /\ \A k \in Jobs : k # j => own'[k] = own[k]
      /\ Locked(j)' = {Job(j)}
      /\ \A i : See(j, i)' = IF i = Job(j) THEN row ELSE db[i]
  <2> HIDE DEF values
  <2>1. Write(j, values)
    BY <1>1 DEF values
  <2>2. \A i : See(j, i) = db[i]
    BY <1>4 DEF See, Locked
  <2>3. QED
    BY <1>1, <1>2, <1>4, <1>8, <2>1, <2>2, WriteSeen
<1>10. /\ \A p : Stock(p) # Job(j)
       /\ Sold(j) # Job(j)
  BY DEF Job, Sold, Stock
<1>11. \A p : ~Holds(j, p)'
  BY <1>9, <1>10 DEF Holds
<1>12. JobInv(j)'
  <2>1. /\ Progress(j)' = row /\ See(j, Sold(j))' = db[Sold(j)]
        /\ Inserted(j)' = Committed(j)' /\ Committed(j)' = Committed(j)
    BY <1>1, <1>9, <1>10 DEF Progress, Inserted, Committed
  <2>2. Counted(file[j], row, db[Sold(j)])
    BY <1>5, <1>7 DEF Counted
  <2>3. Counted(file[j], db[Job(j)], db[Sold(j)])' /\ Counted(file[j], Progress(j), See(j, Sold(j)))'
    BY <1>1, <1>5, <2>1, <2>2 DEF Counted
  <2>4. Moving(j)'
    BY <1>9, <1>11, <2>1 DEF Moving
  <2>5. Stage(j)'
    BY <1>1, <1>3, <1>4, <1>7, <2>1 DEF Stage, Ended
  <2>6. Outcome(j)'
    BY <1>1, <1>4 DEF Outcome
  <2>7. QED
    BY <2>3, <2>4, <2>5, <2>6 DEF JobInv
<1>13. QED
  BY <1>1, <1>3, <1>9, <1>11, <1>12, QuietStep

LEMMA AbortInv ==
    ASSUME UploadInv, NEW j \in Jobs, Abort(j)
    PROVE  UploadInv'
<1>1. /\ ~Idle(j) /\ UNCHANGED <<db, file, waiting>>
      /\ own' = [own EXCEPT ![j] = <<>>] /\ todo' = [todo EXCEPT ![j] = <<"except">>]
  BY DEF Abort, At
<1>2. JobInv(j) /\ DOMAIN own = Jobs /\ DOMAIN todo = Jobs
  BY DEF UploadInv, UploadTables
<1>3. DOMAIN todo' = Jobs /\ todo'[j] = <<"except">> /\ \A k \in Jobs : k # j => todo'[k] = todo[k]
  BY <1>1, <1>2
<1>4. /\ DOMAIN own' = Jobs /\ Locked(j)' = {}
      /\ \A k \in Jobs : k # j => own'[k] = own[k]
      /\ \A i : See(j, i)' = db'[i]
  BY <1>1, <1>2, NothingHeld
<1>5. db[Job(j)].status \notin {"NEW"} \cup Ended /\ j \notin waiting
  BY <1>1, <1>2 DEF JobInv, Stage
<1>6. JobInv(j)'
  <2>1. /\ Progress(j)' = db[Job(j)] /\ See(j, Sold(j))' = db[Sold(j)]
        /\ Inserted(j)' = Committed(j)' /\ Committed(j)' = Committed(j)
    BY <1>1, <1>4 DEF Progress, Inserted, Committed
  <2>2. Moving(j)'
    BY <1>4, <2>1 DEF Moving, Holds
  <2>3. Counted(file[j], db[Job(j)], db[Sold(j)])' /\ Counted(file[j], Progress(j), See(j, Sold(j)))'
    BY <1>1, <1>2, <2>1 DEF JobInv, Counted
  <2>4. Stage(j)'
    BY <1>1, <1>3, <1>4, <1>5, <2>1 DEF Stage
  <2>5. Outcome(j)'
    BY <1>1, <1>2, <2>1 DEF JobInv, Outcome
  <2>6. QED
    BY <2>2, <2>3, <2>4, <2>5 DEF JobInv
<1>7. \A p \in Products : ~Holds(j, p)'
  BY <1>4 DEF Holds
<1>8. QED
  BY <1>1, <1>3, <1>4, <1>6, <1>7, QuietStep

\* With every session gone, what is committed is what there is.
LEMMA CrashInv == ASSUME UploadInv, Crash PROVE UploadInv'
<1>1. /\ own' = [j \in Jobs |-> <<>>] /\ todo' = [j \in Jobs |-> <<>>]
      /\ waiting' = {} /\ UNCHANGED <<db, file>>
  BY DEF Crash
<1>2. \A j \in Jobs : Locked(j)' = {} /\ Idle(j)' /\ todo'[j] = <<>> /\ \A i : See(j, i)' = db[i]
  BY <1>1 DEF Locked, Idle, See
<1>3. ASSUME NEW j \in Jobs PROVE JobInv(j)'
  <2>1. JobInv(j)
    BY DEF UploadInv
  <2>2. /\ Progress(j)' = db[Job(j)] /\ See(j, Sold(j))' = db[Sold(j)]
        /\ Inserted(j)' = Committed(j)' /\ Committed(j)' = Committed(j)
    BY <1>1, <1>2 DEF Progress, Inserted, Committed
  <2>3. Moving(j)'
    BY <1>2, <2>2 DEF Moving, Holds
  <2>4. Counted(file[j], db[Job(j)], db[Sold(j)])' /\ Counted(file[j], Progress(j), See(j, Sold(j)))'
    BY <1>1, <2>1, <2>2 DEF JobInv, Counted
  <2>5. Stage(j)'
    BY <1>1, <1>2 DEF Stage
  <2>6. Outcome(j)'
    BY <1>1, <2>1, <2>2 DEF JobInv, Outcome
  <2>7. QED
    BY <2>3, <2>4, <2>5, <2>6 DEF JobInv
<1>4. UploadTables'
  <2>1. UploadRows' = UploadRows
    BY DEF UploadRows
  <2>2. QED
    BY <1>1, <2>1 DEF UploadInv, UploadTables
<1>5. Apart'
  BY <1>2 DEF Apart, Holds
<1>6. QED
  BY <1>3, <1>4, <1>5 DEF UploadInv

LEMMA UploadInitRows ==
    ASSUME UploadInit
    PROVE  /\ DOMAIN db = UploadRows
           /\ \A p \in Products : db[Stock(p)] = InitialStock[p]
           /\ \A j \in Jobs : db[Job(j)] = NoJob /\ db[Sold(j)] = NoSales
<1> DEFINE stocks == [i \in {Stock(p) : p \in Products} |-> InitialStock[i[2]]]
           jobs == [i \in {Job(j) : j \in Jobs} |-> NoJob]
           sales == [i \in {Sold(j) : j \in Jobs} |-> NoSales]
           rest == Over(jobs, sales)
<1>1. /\ DOMAIN stocks = {Stock(p) : p \in Products} /\ DOMAIN jobs = {Job(j) : j \in Jobs}
      /\ DOMAIN sales = {Sold(j) : j \in Jobs}
  OBVIOUS
<1>2. \A p \in Products : stocks[Stock(p)] = InitialStock[p]
  BY DEF Stock
<1>3. \A j \in Jobs : jobs[Job(j)] = NoJob /\ sales[Sold(j)] = NoSales
  OBVIOUS
<1>4. \A p, j, k : Stock(p) # Job(j) /\ Stock(p) # Sold(j) /\ Job(k) # Sold(j)
  BY DEF Stock, Job, Sold
<1>5. db = Over(stocks, rest)
  BY DEF UploadInit
<1> HIDE DEF stocks, jobs, sales
<1>6. /\ DOMAIN rest = DOMAIN jobs \cup DOMAIN sales
      /\ \A i \in DOMAIN rest : rest[i] = IF i \in DOMAIN jobs THEN jobs[i] ELSE sales[i]
  BY DEF Over
<1> HIDE DEF rest
<1>7. /\ DOMAIN db = DOMAIN stocks \cup DOMAIN rest
      /\ \A i \in DOMAIN db : db[i] = IF i \in DOMAIN stocks THEN stocks[i] ELSE rest[i]
  BY <1>5 DEF Over
<1>8. DOMAIN db = UploadRows
  BY <1>1, <1>6, <1>7 DEF UploadRows
<1>9. \A p \in Products : db[Stock(p)] = InitialStock[p]
  BY <1>1, <1>2, <1>7
<1>10. ASSUME NEW j \in Jobs PROVE db[Job(j)] = NoJob /\ db[Sold(j)] = NoSales
  <2>1. Job(j) \in DOMAIN jobs /\ Sold(j) \in DOMAIN sales
    BY <1>1
  <2>2. Job(j) \notin DOMAIN stocks /\ Sold(j) \notin DOMAIN stocks /\ Sold(j) \notin DOMAIN jobs
    BY <1>1, <1>4
  <2>3. QED
    BY <2>1, <2>2, <1>3, <1>6, <1>7
<1>11. QED
  BY <1>8, <1>9, <1>10

LEMMA NoSalesCounted ==
    /\ NoSales.stocked \in [Products -> Nat] /\ NoSales.stocked \in [Products -> Int]
    /\ \A p \in Products : NoSales.stocked[p] = 0
    /\ SumFunction(NoSales.stocked) = 0
<1> DEFINE zero == [p \in Products |-> 0]
<1>1. NoSales.stocked = zero
  BY DEF NoSales
<1>2. zero \in [Products -> Nat] /\ zero \in [Products -> Int] /\ \A p \in Products : zero[p] = 0
  OBVIOUS
<1> HIDE DEF zero
<1>3. SumFunction(zero) = 0
  BY <1>2, FilesAssumption, FunctionZero
<1>4. QED
  BY <1>1, <1>2, <1>3

LEMMA UploadInitInv == UploadInit => UploadInv
<1> SUFFICES ASSUME UploadInit PROVE UploadInv
  OBVIOUS
<1>1. /\ DOMAIN db = UploadRows
      /\ \A p \in Products : db[Stock(p)] = InitialStock[p]
      /\ \A j \in Jobs : db[Job(j)] = NoJob /\ db[Sold(j)] = NoSales
  BY UploadInitRows
<1>2. /\ own = [t \in Jobs |-> <<>>] /\ todo = [t \in Jobs |-> <<>>]
      /\ waiting = {} /\ file \in [Jobs -> Files]
  BY DEF UploadInit, InitSessions, Jobs
<1>3. UploadTables
  BY <1>1, <1>2, FilesAssumption DEF UploadTables
<1>4. ASSUME NEW j \in Jobs PROVE JobInv(j)
  <2>1. Locked(j) = {} /\ Idle(j) /\ todo[j] = <<>>
    BY <1>2 DEF Locked, Idle
  <2>2. Moving(j) /\ Progress(j) = NoJob /\ See(j, Sold(j)) = NoSales
    BY <1>1, <2>1, EmptyHanded
  <2>3. Counted(file[j], NoJob, NoSales)
    <3>1. /\ NoJob \in JobRow /\ NoJob.processed = 0 /\ NoJob.successful = 0 /\ NoJob.failed = 0
      BY DEF NoJob, JobRow
    <3>2. NoSales \in SalesRow
      BY NoSalesCounted DEF NoSales, SalesRow
    <3>3. Len(file[j]) \in Nat
      BY <1>2, FilesAssumption
    <3>4. QED
      BY <3>1, <3>2, <3>3, NoSalesCounted DEF Counted
  <2>4. Stage(j)
    BY <1>2, <2>1 DEF Stage
  <2>5. Outcome(j)
    BY <1>1 DEF Outcome, NoJob
  <2>6. QED
    BY <1>1, <2>2, <2>3, <2>4, <2>5 DEF JobInv
<1>5. Apart
  BY <1>2 DEF Apart, Holds, Locked
<1>6. QED
  BY <1>3, <1>4, <1>5 DEF UploadInv

LEMMA UploadStepInv == UploadInv /\ [UploadNext]_uploadVars => UploadInv'
<1> SUFFICES ASSUME UploadInv, [UploadNext]_uploadVars PROVE UploadInv'
  OBVIOUS
<1>1. CASE UNCHANGED uploadVars
  <2>1. UNCHANGED <<db, own, todo, file, waiting>>
    BY <1>1 DEF uploadVars
  <2>2. \A k \in Jobs : JobInv(k)'
    BY <2>1, OthersStay
  <2>3. UploadTables'
    BY <2>1 DEF UploadInv, UploadTables, UploadRows
  <2>4. Apart'
    BY <2>1 DEF UploadInv, Apart, Holds, Locked
  <2>5. QED
    BY <2>2, <2>3, <2>4 DEF UploadInv
<1>2. ASSUME NEW j \in Jobs,
             \/ Submit(j) \/ Start(j)
             \/ RefuseRow(j) \/ SellRow(j) \/ CommitProgress(j) \/ Finish(j)
             \/ Abort(j) \/ CloseFailed(j)
      PROVE  UploadInv'
  BY <1>2, SubmitInv, StartInv, RefuseRowInv, SellRowInv, CommitProgressInv, FinishInv, AbortInv,
     CloseFailedInv
<1>3. CASE Crash
  BY <1>3, CrashInv
<1>4. QED
  BY <1>1, <1>2, <1>3 DEF UploadNext

\* The inductive invariant of the uploads holds in every reachable state.
THEOREM UploadInvHolds == UploadSpec => []UploadInv
  BY UploadInitInv, UploadStepInv, PTL DEF UploadSpec

\* A job counts as successful exactly the sales that took their unit, for any
\* number of jobs and workers, any files and any commit interval.
THEOREM CountsMatchSalesHolds == UploadSpec => []CountsMatchSales
<1>1. UploadInv => CountsMatchSales
  BY DEF UploadInv, JobInv, Counted, CountsMatchSales
<1>2. QED
  BY <1>1, UploadInvHolds, PTL

\* The status run_bulk_upload_job_in_background() leaves a job with tells its
\* outcome: all of the file recorded, or some of it.
THEOREM StatusTellsOutcomeHolds == UploadSpec => []StatusTellsOutcome
<1>1. UploadInv => StatusTellsOutcome
  BY DEF UploadInv, JobInv, Outcome, Committed, StatusTellsOutcome
<1>2. QED
  BY <1>1, UploadInvHolds, PTL

------------------------------------------------------------------------------
(* The refinement: commits of jobs are bookings on the account.            *)

Units(p) == [j \in Jobs |-> db[Sold(j)].stocked[p]]
Level    == [p \in Products |-> db[Stock(p)]]
BookedUp == [p \in Products |-> InitialStock[p] - SumFunction(Units(p))]

LEMMA UnitsTyped == ASSUME UploadInv, NEW p \in Products PROVE Units(p) \in [Jobs -> Int]
BY DEF UploadInv, JobInv, Counted, SalesRow, Units

LEMMA CommitsBook ==
    ASSUME UploadInv, NEW j \in Jobs, NEW row, Commits(j, row), UploadInv', NEW p \in Products
    PROVE  Level'[p] - Level[p] = BookedUp'[p] - BookedUp[p] /\ Level'[p] \in Nat
<1> DEFINE f == Units(p)
           g == Units(p)'
<1>0. g \in [Jobs -> Int]
  BY DEF UploadInv, JobInv, Counted, SalesRow, Units
<1>1. /\ f \in [Jobs -> Int] /\ g \in [Jobs -> Int]
      /\ \A k \in Jobs : k # j => g[k] = f[k]
      /\ f[j] = Committed(j)[p] /\ g[j] = Inserted(j)[p]
  BY <1>0, UnitsTyped DEF Units, Commits, Committed, Inserted
<1>2. /\ Level[p] = db[Stock(p)] /\ Level'[p] = See(j, Stock(p))
      /\ BookedUp[p] = InitialStock[p] - SumFunction(f)
      /\ BookedUp'[p] = InitialStock[p] - SumFunction(g)
  BY DEF Level, BookedUp, Commits
<1> HIDE DEF f, g
<1>3. SumFunction(g) = SumFunction(f) - f[j] + g[j] /\ SumFunction(f) \in Int /\ f[j] \in Int /\ g[j] \in Int
  BY <1>1, FilesAssumption, FunctionChanged
<1>4. /\ See(j, Stock(p)) \in Nat /\ db[Stock(p)] \in Nat /\ InitialStock[p] \in Nat
      /\ See(j, Stock(p)) + g[j] = db[Stock(p)] + f[j]
  BY <1>1, LevelSeen, FilesAssumption
<1>5. QED
  BY <1>2, <1>3, <1>4

\* A step of an upload books on the account, or leaves it.
LEMMA UploadStepBooks ==
    ASSUME UploadInv, UploadInv', [UploadNext]_uploadVars
    PROVE  [Account!Book]_(Account!vars)
<1>1. ASSUME \A p \in Products : db'[Stock(p)] = db[Stock(p)],
             \A k \in Jobs : db'[Sold(k)] = db[Sold(k)]
      PROVE  UNCHANGED Account!vars
  BY <1>1 DEF Account!vars
<1>2. ASSUME NEW j \in Jobs, NEW row, Commits(j, row)
      PROVE  Account!Book
  <2>1. \A p \in Products : Level'[p] - Level[p] = BookedUp'[p] - BookedUp[p] /\ Level'[p] \in Nat
    BY <1>2, CommitsBook
  <2>2. Level' = [p \in Products |-> Level'[p]] /\ BookedUp' = [p \in Products |-> BookedUp'[p]]
    BY DEF Level, BookedUp
  <2>3. QED
    BY <2>1, <2>2 DEF Account!Book, Level, BookedUp, Units
<1>3. CASE UNCHANGED db
  BY <1>1, <1>3
<1>4. CASE ~UNCHANGED db
  <2>1. PICK j \in Jobs : Submit(j) \/ CommitProgress(j) \/ Finish(j) \/ CloseFailed(j)
    BY <1>4 DEF UploadNext, uploadVars, Start, RefuseRow, SellRow, AfterRow, Abort, Crash
  <2>2. CASE Submit(j)
    BY <2>2, <1>1, SubmitInv
  <2>3. CASE CommitProgress(j) \/ Finish(j) \/ CloseFailed(j)
    BY <2>3, <1>2, CommitProgressInv, FinishInv, CloseFailedInv
  <2>4. QED
    BY <2>1, <2>2, <2>3
<1>5. QED
  BY <1>3, <1>4

\* However uploads overlap, are aborted or die with their worker, their commits
\* are those of one booking at a time on the stock rows.
THEOREM UploadImplementsAccount == UploadSpec => ImplementsAccount
<1>1. UploadInit => Account!Init
  <2> SUFFICES ASSUME UploadInit PROVE Account!Init
    OBVIOUS
  <2>1. \A p \in Products : Level[p] = InitialStock[p] /\ InitialStock[p] \in Nat
    BY UploadInitRows, FilesAssumption DEF Level
  <2>2. ASSUME NEW p \in Products PROVE BookedUp[p] = InitialStock[p]
    <3> DEFINE f == Units(p)
    <3>1. f \in [Jobs -> Int] /\ \A j \in Jobs : f[j] = 0
      BY UploadInitRows, NoSalesCounted DEF Units
    <3>2. BookedUp[p] = InitialStock[p] - SumFunction(f)
      BY DEF BookedUp
    <3> HIDE DEF f
    <3>3. SumFunction(f) = 0
      BY <3>1, FilesAssumption, FunctionZero
    <3>4. QED
      BY <2>1, <3>2, <3>3
  <2>3. Level \in [Products -> Nat] /\ BookedUp = Level
    BY <2>1, <2>2 DEF Level, BookedUp
  <2>4. QED
    BY <2>3 DEF Account!Init, Level, BookedUp, Units
<1>2. UploadInv /\ UploadInv' /\ [UploadNext]_uploadVars => [Account!Book]_(Account!vars)
  BY UploadStepBooks
<1>3. QED
  BY <1>1, <1>2, UploadInvHolds, PTL DEF UploadSpec, ImplementsAccount, Account!Spec

==============================================================================
