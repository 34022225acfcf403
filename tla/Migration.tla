----------------------------- MODULE Migration -----------------------------
(***************************************************************************)
(* What a migration carries from an UltimatePOS shop into this one:        *)
(* ultimatepos_api.py extracts it (or files are uploaded), transformer.py  *)
(* translates it against the shop as it stands, at validation and again at *)
(* confirmation, validator.py checks it and loader.py writes it.           *)
(*                                                                         *)
(* ImportJob has the states of a job and the races for them; here jobs     *)
(* come one after the other, while shop and POS change between their steps.*)
(* Quantities count half units; dates and amounts are in order.  The       *)
(* definitions named ...Bug are plausible mistakes in the definition that  *)
(* follows.                                                                *)
(***************************************************************************)
EXTENDS Integers, Sequences, FiniteSets, FiniteSetsExt, Functions

CONSTANTS
    Products,      \* products of the POS: the id, which is also sku and barcode
    NameOf,        \* product -> its name
    Sold,          \* sell -> its lines, a sequence of [product, quantity, numbered]
    Bought,        \* purchase -> [ref, lines: a sequence of [product, quantity, cost]]
    Adjusted,      \* stock adjustment, numbered as the POS lists them
                   \*   -> [opening, product, quantity]
    Returned,      \* sells returned
    SentBack,      \* purchases returned
    MaxJobs,       \* bound on the jobs
    MaxLost,       \* bound on the requests to the POS that fail
    MaxByHand      \* bound on the changes made in the shop by hand

ASSUME MigrationAssumption ==
    /\ Products \subseteq Nat \ {0}
    /\ IsFiniteSet(DOMAIN Bought) /\ \A b \in DOMAIN Bought :
          Bought[b].lines \in Seq([product : Nat, quantity : Nat \ {0}, cost : Int])
    /\ IsFiniteSet(DOMAIN Adjusted) /\ DOMAIN Adjusted \subseteq Nat
    /\ \A a \in DOMAIN Adjusted : Adjusted[a].quantity \in Nat \ {0}
    /\ Returned \subseteq DOMAIN Sold /\ SentBack \subseteq DOMAIN Bought

VARIABLES
    source,        \* the POS: its active products, and how often it failed
    job,           \* the latest job
    shop           \* the rows of the shop

migrationVars == <<source, job, shop>>

Sells == DOMAIN Sold
Purchases == DOMAIN Bought
Adjustments == DOMAIN Adjusted

NothingExtracted ==
    [products |-> {}, reference |-> {}, sales |-> {}, purchases |-> {}, adjustments |-> {},
     returns |-> {}, sentBack |-> {}]

NoJob == [n |-> 0, mode |-> "API", status |-> "NONE", step |-> "none", known |-> {},
          data |-> NothingExtracted]
JobEnded == {"NONE", "DONE", "FAILED", "CANCELLED"}

\* Products of the shop: [id, sku, barcode, slug]; sales: [job, sell, product,
\* quantity, transaction, voided]; orders: [job, ref, pos, lines]; levels:
\* product -> stock.  reference: the categories, locations and suppliers it has.
EmptyShop ==
    [products |-> {}, reference |-> {}, sales |-> {}, orders |-> {}, returns |-> {},
     sentBack |-> {}, levels |-> [p \in {} |-> 0], byHand |-> 0]

MigrationInit ==
    /\ \E active \in SUBSET Products : source = [active |-> active, lost |-> 0]
    /\ job = NoJob
    /\ shop = EmptyShop

------------------------------------------------------------------------------
(* Extraction.  A list that cannot be fetched is empty; a record whose     *)
(* detail is not there before the deadline is left out, after one more     *)
(* login where the session had expired.                                    *)

Extracting(step) == job.status = "EXTRACTING" /\ job.step = step

Failures(rows, got) == IF got = {} /\ rows # {} THEN 1 ELSE Cardinality(rows \ got)

Answers(rows) == {got \in SUBSET rows : source.lost + Failures(rows, got) <= MaxLost}

Extracts(step, rows, got, data) ==
    /\ source' = [source EXCEPT !.lost = @ + Failures(rows, got)]
    /\ job' = [job EXCEPT !.step = step, !.data = data]
    /\ UNCHANGED shop

\* The job is created once the credentials are accepted.
BeginExtraction ==
    /\ job.status \in JobEnded /\ job.n < MaxJobs
    /\ job' = [NoJob EXCEPT !.n = job.n + 1, !.status = "EXTRACTING", !.step = "reference"]
    /\ UNCHANGED <<source, shop>>

\* _fetch_reference_data(): categories are those of all products, products the
\* active ones; locations and suppliers are as good as one more list.
FetchReference ==
    /\ Extracting("reference")
    /\ \E products \in Answers(Products) \cap {{}, Products}, others \in Answers({"others"}) :
          LET failures == Failures(Products, products) + Failures({"others"}, others)
          IN  /\ source.lost + failures <= MaxLost
              /\ source' = [source EXCEPT !.lost = @ + failures]
              /\ job' = [job EXCEPT
                    !.step = "sells",
                    !.known = products,
                    !.data.products = products \cap source.active,
                    !.data.reference = others \cup (IF products = {} THEN {} ELSE {"categories"})]
    /\ UNCHANGED shop

\* The product of a receipt line: by its number, if that is an active product's,
\* else the last active product of its name.
LineProduct(line) ==
    IF line.numbered /\ line.product \in job.data.products THEN {line.product}
    ELSE LET named == {p \in job.data.products : NameOf[p] = NameOf[line.product]}
         IN  {p \in named : \A q \in named : q <= p}

RoundedUp(quantity) == 2 * ((quantity + 1) \div 2)

SaleLine(s, n, product, quantity) ==
    [sell |-> s, no |-> n, product |-> product, quantity |-> quantity]

\* _map_sales(): a line of an unknown product, and a sell without any other, is
\* left out.
MapSales ==
    /\ Extracting("sells")
    /\ \E got \in Answers(Sells) :
          Extracts("purchases", Sells, got, [job.data EXCEPT !.sales =
              UNION {UNION {{SaleLine(s, n, p, RoundedUp(Sold[s][n].quantity)) :
                             p \in LineProduct(Sold[s][n])} : n \in DOMAIN Sold[s]} : s \in got}])

OrderLine(b, n) ==
    LET line == Bought[b].lines[n]
    IN  [ref |-> Bought[b].ref, pos |-> b, no |-> n, product |-> line.product,
         quantity |-> RoundedUp(line.quantity), cost |-> line.cost]

\* The lines of a purchase whose products are among some.
LinesAmong(products, b) == {n \in DOMAIN Bought[b].lines : Bought[b].lines[n].product \in products}

\* _map_purchase_orders(): a line's product is found by sku among all products.
MapPurchases ==
    /\ Extracting("purchases")
    /\ \E got \in Answers(Purchases) :
          Extracts("adjustments", Purchases, got, [job.data EXCEPT !.purchases =
              UNION {{OrderLine(b, n) : n \in LinesAmong(job.known, b)} : b \in got}])

ChangeBugUnsigned(a) == RoundedUp(Adjusted[a].quantity)

\* Everything but opening stock is a loss.
Change(a) ==
    IF Adjusted[a].opening THEN RoundedUp(Adjusted[a].quantity)
    ELSE -RoundedUp(Adjusted[a].quantity)

Adjustment(a) == [id |-> a, product |-> Adjusted[a].product, change |-> Change(a)]

MapAdjustments ==
    /\ Extracting("adjustments")
    /\ \E got \in Answers(Adjustments) :
          Extracts("returns", Adjustments, got, [job.data EXCEPT !.adjustments =
              {Adjustment(a) : a \in {b \in got : Adjusted[b].product \in job.data.products}}])

\* _map_sell_returns() and _map_purchase_returns(), and the end of create_job().
MapReturns ==
    /\ Extracting("returns")
    /\ \E lists \in Answers({"returns", "sentBack"}) :
          /\ source' = [source EXCEPT !.lost = @ + Cardinality({"returns", "sentBack"} \ lists)]
          /\ job' = [job EXCEPT
                !.status = "PENDING", !.step = "none", !.known = {},
                !.data.returns = IF "returns" \in lists THEN Returned ELSE {},
                !.data.sentBack = IF "sentBack" \in lists THEN SentBack ELSE {}]
    /\ UNCHANGED shop

\* Files, exported from the POS with the products active then: every line names
\* its product, quantities are as sold, an order's returns name its reference.
UploadFiles ==
    /\ job.status \in JobEnded /\ job.n < MaxJobs
    /\ job' = [NoJob EXCEPT
          !.n = job.n + 1, !.mode = "CSV", !.status = "PENDING",
          !.data = [NothingExtracted EXCEPT
              !.products = source.active,
              !.sales = UNION {{SaleLine(s, n, Sold[s][n].product, Sold[s][n].quantity) :
                                n \in DOMAIN Sold[s]} : s \in Sells},
              !.returns = Returned]]
    /\ UNCHANGED <<source, shop>>

------------------------------------------------------------------------------
(* Transformation, against the rows of the shop.                           *)

\* detect_ghost_products(): sales of products that are not in the upload.
Ghosts == {line.product : line \in job.data.sales} \ job.data.products

\* dedup_product(): two products with the barcode are an error.
WithBarcode(p) == {row \in shop.products : row.barcode = p}
WithSku(p) == {row \in shop.products : row.sku = p}
Existing(p) == IF WithBarcode(p) # {} THEN WithBarcode(p) ELSE WithSku(p)
Ambiguous ==
    \E p \in job.data.products : \E row, other \in WithBarcode(p) : row # other

ResolvedBugNewOnly(p) ==
    IF p \in Ghosts THEN {<<job.n, p>>}
    ELSE IF p \notin job.data.products \/ Existing(p) # {} THEN {}
    ELSE {<<job.n, p>>}

\* What the id_map has for a product: the one of the shop, or a new one.
Resolved(p) ==
    IF p \in Ghosts THEN {<<job.n, p>>}
    ELSE IF p \notin job.data.products THEN {}
    ELSE IF Existing(p) # {} THEN {row.id : row \in Existing(p)}
    ELSE {<<job.n, p>>}
Internal(p) == CHOOSE id \in Resolved(p) : TRUE

NewProducts == {p \in job.data.products : Existing(p) = {}}

\* Slugs, told apart within the upload but not from those of the shop.
Slug(p) == <<NameOf[p], Cardinality({q \in NewProducts : NameOf[q] = NameOf[p] /\ q <= p})>>

ProductRows ==
    {[id |-> <<job.n, p>>, sku |-> p, barcode |-> p, slug |-> Slug(p)] : p \in NewProducts}
        \cup {[id |-> <<job.n, p>>, sku |-> 0, barcode |-> 0, slug |-> <<"deleted", p>>] : p \in Ghosts}

\* The lines of a sell are one transaction.
Transaction(line) == <<job.n, line.sell>>

SaleRows ==
    UNION {{[job |-> job.n, sell |-> line.sell, no |-> line.no, product |-> id,
             quantity |-> line.quantity \div 2, transaction |-> Transaction(line),
             voided |-> FALSE] : id \in Resolved(line.product)} : line \in job.data.sales}

Refs == {line.ref : line \in job.data.purchases}
LinesOf(ref) == {line \in job.data.purchases : line.ref = ref /\ Resolved(line.product) # {}}

\* transform_purchase_orders(): the purchases of a reference are one order, which
\* keeps the number of the first.
Item(line) ==
    [pos |-> line.pos, no |-> line.no, product |-> Internal(line.product),
     quantity |-> line.quantity \div 2]

OrderRows ==
    {[job |-> job.n, ref |-> ref, pos |-> Min({line.pos : line \in LinesOf(ref)}),
      lines |-> {Item(line) : line \in LinesOf(ref)}] :
     ref \in {r \in Refs : LinesOf(r) # {}}}

AdjustmentRows == {a \in job.data.adjustments : Resolved(a.product) # {}}

\* Errors of the transformer and of validate_extracted_data().
Errors ==
    \/ \E line \in job.data.purchases :
          Resolved(line.product) = {} \/ line.cost <= 0 \/ line.quantity % 2 # 0
    \/ \E a \in job.data.adjustments : Resolved(a.product) = {} \/ a.change % 2 # 0

\* validate_job(); a job with errors stays as it is until it is cancelled.
Validate ==
    /\ job.status = "PENDING" /\ ~Ambiguous
    /\ job' = [job EXCEPT !.status = IF Errors THEN "TRANSFORMING" ELSE "AWAITING_CONFIRMATION"]
    /\ UNCHANGED <<source, shop>>

------------------------------------------------------------------------------
(* Confirmation: transformed once more, and loaded in one transaction.     *)

LevelOf(id) == IF id \in DOMAIN shop.levels THEN shop.levels[id] ELSE 0

\* load_purchase_orders(): each order is delivered.
Delivered == UNION {o.lines : o \in OrderRows}
LevelDelivered(id) ==
    LevelOf(id) + SumFunctionOnSet([item \in Delivered |-> item.quantity],
                                   {item \in Delivered : item.product = id})

\* load_stock_adjustments(): one row after the other.
AdjustmentsOf(id) == {a \in AdjustmentRows : Internal(a.product) = id}
LevelAfter(id, rows) ==
    LevelDelivered(id) + SumFunctionOnSet([a \in rows |-> a.change \div 2], rows)
BelowZero ==
    \E a \in AdjustmentRows :
        LET id == Internal(a.product)
        IN  LevelAfter(id, {b \in AdjustmentsOf(id) : b.id <= a.id}) < 0

\* Every product created has a stock row, and every one these rows name.
Stocked ==
    DOMAIN shop.levels \cup {row.id : row \in ProductRows}
        \cup {item.product : item \in Delivered} \cup {Internal(a.product) : a \in AdjustmentRows}
LevelsLoaded == [id \in Stocked |-> LevelAfter(id, AdjustmentsOf(id))]

\* load_sell_returns(): the oldest sale of the sell, of this import or of an
\* earlier one; a return of a sell that is not there is skipped.
Oldest(s) ==
    LET sales == {row \in shop.sales \cup SaleRows : row.sell = s}
    IN  {row \in sales : \A other \in sales : row.job <= other.job}

ReturnRows ==
    {[job |-> job.n, sell |-> s, sale |-> (CHOOSE row \in Oldest(s) : TRUE)] :
        s \in {r \in job.data.returns : Oldest(r) # {}}}

\* load_purchase_returns(): the oldest order with the number.
OrderOf(b) ==
    LET orders == {o \in shop.orders \cup OrderRows : o.pos = b}
    IN  {o \in orders : \A other \in orders : o.job <= other.job}

SentBackRows ==
    {[job |-> job.n, pos |-> b, order |-> (CHOOSE o \in OrderOf(b) : TRUE).ref] :
        b \in {r \in job.data.sentBack : OrderOf(r) # {}}}

\* What makes the transaction fail: categories and locations the shop has, a
\* slug it has, a loss of more than the stock, a return of a voided sale.
LoadFails ==
    \/ Ambiguous
    \/ job.data.reference \cap shop.reference # {}
    \/ {row.slug : row \in ProductRows} \cap {row.slug : row \in shop.products} # {}
    \/ BelowZero
    \/ \E row \in ReturnRows : row.sale.voided

Confirm ==
    /\ job.status = "AWAITING_CONFIRMATION"
    /\ \/ LoadFails /\ job' = [job EXCEPT !.status = "FAILED"] /\ UNCHANGED shop
       \/ /\ ~LoadFails
          /\ job' = [job EXCEPT !.status = "DONE"]
          /\ shop' = [shop EXCEPT
                !.products = @ \cup ProductRows,
                !.reference = @ \cup job.data.reference,
                !.sales = @ \cup SaleRows,
                !.orders = @ \cup OrderRows,
                !.returns = @ \cup ReturnRows,
                !.sentBack = @ \cup SentBackRows,
                !.levels = LevelsLoaded]
    /\ UNCHANGED source

Cancel ==
    /\ job.status \in {"PENDING", "TRANSFORMING", "AWAITING_CONFIRMATION"}
    /\ job' = [job EXCEPT !.status = "CANCELLED"]
    /\ UNCHANGED <<source, shop>>

------------------------------------------------------------------------------
Discontinue(p) ==
    /\ p \in source.active
    /\ source' = [source EXCEPT !.active = @ \ {p}]
    /\ UNCHANGED <<job, shop>>

\* A product entered by hand, perhaps one the POS has too.
CreateProduct(p, sku, barcode, name) ==
    LET slugs == {row.slug : row \in shop.products}
        new   == <<0, shop.byHand>>
    IN  /\ shop.byHand < MaxByHand
        /\ sku # 0 => WithSku(sku) = {}
        /\ <<name, 1>> \notin slugs
        /\ shop' = [shop EXCEPT
              !.byHand = @ + 1,
              !.products = @ \cup {[id |-> new, sku |-> sku, barcode |-> barcode,
                                    slug |-> <<name, 1>>]},
              !.levels = [id \in DOMAIN @ \cup {new} |-> IF id = new THEN 0 ELSE @[id]]]
        /\ UNCHANGED <<source, job>>

VoidSale(row) ==
    /\ shop.byHand < MaxByHand /\ ~row.voided
    /\ shop' = [shop EXCEPT !.byHand = @ + 1,
                            !.sales = (@ \ {row}) \cup {[row EXCEPT !.voided = TRUE]}]
    /\ UNCHANGED <<source, job>>

MigrationNext ==
    \/ BeginExtraction \/ FetchReference \/ MapSales \/ MapPurchases \/ MapAdjustments \/ MapReturns
    \/ UploadFiles \/ Validate \/ Confirm \/ Cancel
    \/ \E p \in Products : Discontinue(p)
    \/ \E p \in Products, barcode \in Products \cup {0}, name \in {NameOf[q] : q \in Products} \cup {"mine"} :
          CreateProduct(p, 0, barcode, name) \/ CreateProduct(p, p, barcode, name)
    \/ \E row \in shop.sales : VoidSale(row)

MigrationSpec == MigrationInit /\ [][MigrationNext]_migrationVars

------------------------------------------------------------------------------
\* Whether a row of the shop is what a source product became: the one with its
\* barcode, or else its SKU, or what stands for a deleted product.
Is(id, p) ==
    \E row \in shop.products :
        row.id = id /\ IF p \in Ghosts THEN row.slug = <<"deleted", p>> /\ row.barcode = 0
                       ELSE row \in Existing(p)

SalesOfJob == {row \in shop.sales : row.job = job.n}

\* Each sale line of the job is on its product and in the transaction of its sell,
\* each purchase line in the order of its reference.
Carried ==
    /\ \A line \in job.data.sales :
          \E row \in SalesOfJob :
              row.sell = line.sell /\ row.no = line.no /\ Is(row.product, line.product)
    /\ \A row, other \in SalesOfJob :
          row.transaction = other.transaction <=> row.sell = other.sell
    /\ \A line \in job.data.purchases :
          \E o \in shop.orders :
              /\ o.job = job.n /\ o.ref = line.ref
              /\ \E item \in o.lines :
                    item.pos = line.pos /\ item.no = line.no /\ Is(item.product, line.product)

\* An import that completes has carried every row that was validated, whatever
\* happened in the shop since.
ValidatedWhole ==
    [][job'.status = "DONE" /\ job.status # "DONE" => Carried']_migrationVars

\* The lines of the purchases that were fetched, as the POS has them.
LinesBought ==
    UNION {{<<b, n>> : n \in LinesAmong(Products, b)} : b \in {line.pos : line \in job.data.purchases}}
LineBought(x) == Bought[x[1]].lines[x[2]]
BoughtOf(id) ==
    SumFunctionOnSet([x \in LinesBought |-> RoundedUp(LineBought(x).quantity) \div 2],
                     {x \in LinesBought : Is(id, LineBought(x).product)'})

Units(a) ==
    IF Adjusted[a].opening THEN RoundedUp(Adjusted[a].quantity) \div 2
    ELSE -(RoundedUp(Adjusted[a].quantity) \div 2)
AdjustedOf(id) ==
    LET mine == {a \in {b.id : b \in job.data.adjustments} : Is(id, Adjusted[a].product)'}
    IN  SumFunctionOnSet([a \in mine |-> Units(a)], mine)

\* An import moves the stock of each product by what the POS bought and seeded
\* less what it wrote off: breakage and theft never count as stock gained.
StockAsSource ==
    [][job'.status = "DONE" /\ job.status # "DONE" =>
          \A id \in DOMAIN shop'.levels :
              shop'.levels[id] = LevelOf(id) + BoughtOf(id) + AdjustedOf(id)]_migrationVars

(* What the code's comments say and these steps do not keep.               *)

\* "a historical purchase can reference a since-discontinued product, and that
\* line must still resolve".  The transformer knows active products only, so the
\* line is an error, and the job can never be confirmed.
DiscontinuedResolve == \A line \in job.data.purchases : Resolved(line.product) # {}

=============================================================================
