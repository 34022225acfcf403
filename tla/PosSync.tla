------------------------------ MODULE PosSync ------------------------------
(***************************************************************************)
(* pos_sync/service.py, the background loop of main.py that runs it in     *)
(* every server process, and what else writes the same rows: an API import *)
(* with its rollback (data_import), and scripts/pos_migrate.py, which      *)
(* wipes the shop.                                                         *)
(*                                                                         *)
(* A cycle is one database session: it reads a watermark, fetches a        *)
(* listing of one page, inserts what is above the watermark and saves the  *)
(* new one, for sells and then for purchases, and commits once.  What it   *)
(* wrote is its own until then.  Ids are what the POS numbers its rows     *)
(* with.  The definitions named ...Bug are plausible mistakes in the       *)
(* definition that follows.                                                *)
(***************************************************************************)
EXTENDS Naturals, FiniteSets, FiniteSetsExt

CONSTANTS
    Workers,       \* server processes: each runs the loop
    MaxSell,       \* bound on the ids of sells
    MaxPurchase,   \* and of purchases
    Goods,      \* the product names a sell may have
    Numbers,       \* reference numbers of purchases
    PageSizes,     \* how many rows a page of a listing may have
    MaxIncidents,  \* bound on outages, garbled sells, imports, wipes, new products and
                   \* numbers taken
    Absent         \* no row

ASSUME PosAssumption ==
    /\ MaxSell \in Nat /\ MaxPurchase \in Nat /\ MaxIncidents \in Nat
    /\ PageSizes \subseteq Nat \ {0}

VARIABLES
    pos,           \* what the POS has: sells and purchases by id, the sells whose
                   \* amounts no conversion takes, and the size of its pages
    books,         \* the committed rows of the shop
    cycle,         \* worker -> its cycle
    lapses         \* history: sells with a reason to be missing; and incidents

posVars == <<pos, books, cycle, lapses>>

SellIds == 1..MaxSell
PurchaseIds == 1..MaxPurchase
Listings == {"sells", "purchases"}

Asleep == [at |-> "asleep", kind |-> "sells", mark |-> 0, top |-> 0,
           save |-> "nothing", listing |-> {}, rows |-> {}, unknown |-> {}, orders |-> {},
           saved |-> [k \in Listings |-> Absent]]

PosInit ==
    /\ \E size \in PageSizes :
          pos = [sells |-> [s \in SellIds |-> Absent],
                 purchases |-> [p \in PurchaseIds |-> Absent], garbled |-> {}, page |-> size]
    /\ \E names \in SUBSET Goods :
          books = [names |-> names, users |-> TRUE, jobs |-> FALSE,
                   rows |-> [s \in SellIds |-> 0], imported |-> {}, orders |-> {},
                   mark |-> [k \in Listings |-> Absent]]
    /\ cycle = [w \in Workers |-> Asleep]
    /\ lapses = [late |-> {}, unknown |-> {}, undone |-> {}, incidents |-> 0]

PosRows(kind) ==
    IF kind = "sells" THEN {s \in SellIds : pos.sells[s] # Absent}
    ELSE {p \in PurchaseIds : pos.purchases[p] # Absent}

------------------------------------------------------------------------------
\* Something unusual, after which some sells are missing with a reason.
Incident(undone) ==
    /\ lapses.incidents < MaxIncidents
    /\ lapses' = [lapses EXCEPT !.incidents = @ + 1, !.undone = @ \cup undone]

Stands(w, stage) == cycle[w].at = stage
Goes(w, stage) == cycle' = [cycle EXCEPT ![w] = stage]

\* per_page=2000, and no second page is asked for.  The order is the POS's.
Pages(kind) == kSubset(Min({pos.page, Cardinality(PosRows(kind))}), PosRows(kind))

\* Sells the shop lacks and a page leaves out below one that it lists.
Overtaken(kind, page) ==
    {s \in PosRows(kind) \ page :
        kind = "sells" /\ books.rows[s] = 0 /\ \E t \in page : t > s}

Receives(w, kind, listing) ==
    Goes(w, [cycle[w] EXCEPT
               !.at = "store", !.kind = kind, !.listing = listing,
               !.mark = IF books.mark[kind] = Absent THEN 0 ELSE books.mark[kind]])

\* _get_watermark(), then fetch_sells() or fetch_purchases() in a thread: a row
\* committed between the two is found by the check of its pos_id.  The sells come
\* after a sleep and a login; a failed login changes nothing.  An error of the
\* fetch reads as an empty listing.
Fetch(w) ==
    /\ \E kind \in Listings :
          /\ \/ kind = "sells" /\ Stands(w, "asleep")
             \/ kind = "purchases" /\ Stands(w, "sells saved")
          /\ \/ Receives(w, kind, {}) /\ Incident({})
             \/ \E page \in Pages(kind) :
                   /\ Receives(w, kind, page)
                   /\ lapses' = [lapses EXCEPT !.late = @ \cup Overtaken(kind, page)]
    /\ UNCHANGED <<pos, books>>

\* The rows of the listing above the watermark.
New(w) == {i \in cycle[w].listing : i > cycle[w].mark}

\* The new watermark, which is saved if it differs.
Stored(w) ==
    [cycle[w] EXCEPT
        !.at = "save", !.listing = {}, !.mark = 0, !.top = Max(New(w) \cup {cycle[w].mark}),
        !.save = IF New(w) = {} THEN "nothing" ELSE "row"]

DroppedBugEnds(w) == cycle' = [cycle EXCEPT ![w] = [Asleep EXCEPT !.at = "ended"]]
Dropped(w) == cycle' = [cycle EXCEPT ![w] = Asleep]

CycleFailsBugKeepsMark(w) ==
    /\ Dropped(w)
    /\ books' = [books EXCEPT !.mark = [k \in Listings |->
                    IF cycle[w].saved[k] = Absent THEN @[k] ELSE cycle[w].saved[k]]]
    /\ UNCHANGED pos

\* An exception: the session is rolled back, and the next cycle tries again.
CycleFails(w) == Dropped(w) /\ UNCHANGED <<pos, books>>

\* A sell whose pos_id is stored is skipped, and so are lines whose product has an
\* unknown name; the watermark passes both.
Unstored(w) == {s \in New(w) : books.rows[s] = 0}
Sellable(w) == {s \in Unstored(w) : pos.sells[s] \in books.names}

\* sync_sells(); amounts that do not convert raise.
StoreSells(w) ==
    /\ Stands(w, "store") /\ cycle[w].kind = "sells"
    /\ UNCHANGED lapses
    /\ \/ Sellable(w) \cap pos.garbled # {} /\ CycleFails(w)
       \/ /\ Sellable(w) \cap pos.garbled = {}
          /\ Goes(w, [Stored(w) EXCEPT !.rows = Sellable(w),
                                       !.unknown = Unstored(w) \ Sellable(w)])
          /\ UNCHANGED <<pos, books>>

InsertedOrders(w) ==
    {[pos |-> p, number |-> pos.purchases[p]] :
        p \in {q \in New(w) : \A o \in books.orders : o.pos # q}}

NumbersOf(orders) == {o.number : o \in orders}
OwnedByOthers(w) == NumbersOf(UNION {cycle[v].orders : v \in Workers \ {w}})

\* An order number is unique, over all shops; and an order needs a user.
Refused(w) ==
    \/ NumbersOf(InsertedOrders(w)) \cap NumbersOf(books.orders) # {}
    \/ Cardinality(NumbersOf(InsertedOrders(w))) < Cardinality(InsertedOrders(w))
    \/ InsertedOrders(w) # {} /\ ~books.users

\* sync_purchases(); the insert waits for a transaction that inserts the same
\* number.
StorePurchases(w) ==
    /\ Stands(w, "store") /\ cycle[w].kind = "purchases"
    /\ NumbersOf(InsertedOrders(w)) \cap OwnedByOthers(w) = {}
    /\ \/ Refused(w) /\ CycleFails(w) /\ UNCHANGED lapses
       \/ /\ ~Refused(w)
          /\ Goes(w, [Stored(w) EXCEPT !.orders = InsertedOrders(w)])
          /\ UNCHANGED <<pos, books, lapses>>

\* _save_watermark() looks for the row: one that it finds is updated, none is
\* inserted.
ReadMark(w) ==
    /\ Stands(w, "save") /\ cycle[w].save = "row"
    /\ Goes(w, [cycle[w] EXCEPT
                  !.save = IF books.mark[cycle[w].kind] = Absent THEN "insert" ELSE "update"])
    /\ UNCHANGED <<pos, books, lapses>>

\* The flush waits for another session that has written the row; an insert fails
\* if that one has committed.
MarkWritten(w) ==
    \/ cycle[w].save = "nothing"
    \/ /\ cycle[w].save # "row"
       /\ \A v \in Workers \ {w} : cycle[v].saved[cycle[w].kind] = Absent
       /\ cycle[w].save = "update" \/ books.mark[cycle[w].kind] = Absent

Marks(w) ==
    IF cycle[w].save = "nothing" THEN cycle[w].saved
    ELSE [cycle[w].saved EXCEPT ![cycle[w].kind] = cycle[w].top]

SaveMark(w) ==
    /\ Stands(w, "save") /\ cycle[w].kind = "sells" /\ MarkWritten(w)
    /\ Goes(w, [cycle[w] EXCEPT !.at = "sells saved", !.top = 0, !.save = "nothing",
                                !.saved = Marks(w)])
    /\ UNCHANGED <<pos, books, lapses>>

\* The row was inserted by another worker's first cycle.
SaveFails(w) ==
    /\ Stands(w, "save") /\ cycle[w].save = "insert" /\ books.mark[cycle[w].kind] # Absent
    /\ CycleFails(w)
    /\ UNCHANGED lapses

\* The watermark of the purchases, and the one commit of the cycle.
EndCycle(w) ==
    /\ Stands(w, "save") /\ cycle[w].kind = "purchases" /\ MarkWritten(w)
    /\ books' = [books EXCEPT
          !.rows = [s \in SellIds |-> IF s \in cycle[w].rows THEN @[s] + 1 ELSE @[s]],
          !.orders = @ \cup cycle[w].orders,
          !.mark = [k \in Listings |-> IF Marks(w)[k] = Absent THEN @[k] ELSE Marks(w)[k]]]
    /\ lapses' = [lapses EXCEPT !.unknown = @ \cup cycle[w].unknown]
    /\ Dropped(w)
    /\ UNCHANGED pos

\* The connection drops, or the process is killed and started again.
Outage(w) ==
    /\ cycle[w].at \notin {"asleep", "ended"}
    /\ CycleFails(w) /\ Incident({})

LoopStep(w) ==
    \/ Fetch(w) \/ StoreSells(w) \/ StorePurchases(w)
    \/ ReadMark(w) \/ SaveMark(w) \/ SaveFails(w) \/ EndCycle(w)

------------------------------------------------------------------------------
\* The POS: a sell keeps the id of the draft it was, and may be finalised after
\* later ones.  An amount such as 1,000 does not convert.
Finalise(s, product, garbled) ==
    /\ pos.sells[s] = Absent
    /\ garbled => lapses.incidents < MaxIncidents
    /\ pos' = [pos EXCEPT !.sells[s] = product,
                          !.garbled = IF garbled THEN @ \cup {s} ELSE @]
    /\ lapses' = [lapses EXCEPT
          !.late = IF \E t \in PosRows("sells") : t > s THEN @ \cup {s} ELSE @,
          !.incidents = IF garbled THEN @ + 1 ELSE @]
    /\ UNCHANGED <<books, cycle>>

Buy(p, number) ==
    /\ p = Cardinality(PosRows("purchases")) + 1
    /\ pos' = [pos EXCEPT !.purchases[p] = number]
    /\ UNCHANGED <<books, cycle, lapses>>

NameProduct(name) ==
    /\ books.users /\ name \notin books.names
    /\ books' = [books EXCEPT !.names = @ \cup {name}]
    /\ Incident({})
    /\ UNCHANGED <<pos, cycle>>

\* An order of any shop, entered or imported from a file, has the number.
TakeNumber(number) ==
    /\ number \notin NumbersOf(books.orders) /\ \A w \in Workers : cycle[w].orders = {}
    /\ books' = [books EXCEPT !.orders = @ \cup {[pos |-> Absent, number |-> number]}]
    /\ Incident({})
    /\ UNCHANGED <<pos, cycle>>

\* An API import stores sells with their pos_id, and skips none of those the
\* sync has stored already.
ImportSells ==
    /\ books.users /\ ~books.jobs /\ PosRows("sells") # {}
    /\ books' = [books EXCEPT
          !.jobs = TRUE, !.imported = PosRows("sells"),
          !.rows = [s \in SellIds |-> IF s \in PosRows("sells") THEN @[s] + 1 ELSE @[s]]]
    /\ Incident({})
    /\ UNCHANGED <<pos, cycle>>

\* rollback_job() deletes the rows the job tagged.
RollBackImport ==
    /\ books.imported # {}
    /\ books' = [books EXCEPT
          !.imported = {},
          !.rows = [s \in SellIds |-> IF s \in books.imported THEN @[s] - 1 ELSE @[s]]]
    /\ lapses' = [lapses EXCEPT !.undone = @ \cup books.imported]
    /\ UNCHANGED <<pos, cycle>>

\* pos_migrate.py: the wipe takes products, sales, orders and users, and leaves
\* the watermarks; a migration job, or a row a running cycle has inserted, still
\* names a user or a product, and the wipe is rolled back.  (step_migrate()
\* fails on its second insert every time: nothing comes back.)
Wipe ==
    /\ books.users /\ ~books.jobs
    /\ \A w \in Workers : cycle[w].rows = {} /\ cycle[w].orders = {}
    /\ books' = [books EXCEPT !.names = {}, !.users = FALSE, !.orders = {},
                              !.rows = [s \in SellIds |-> 0]]
    /\ Incident({s \in SellIds : books.rows[s] > 0})
    /\ UNCHANGED <<pos, cycle>>

World ==
    \/ \E s \in SellIds, product \in Goods, garbled \in BOOLEAN : Finalise(s, product, garbled)
    \/ \E p \in PurchaseIds, number \in Numbers : Buy(p, number)
    \/ \E name \in Goods : NameProduct(name)
    \/ \E number \in Numbers : TakeNumber(number)
    \/ ImportSells \/ RollBackImport \/ Wipe

PosNext ==
    \/ \E w \in Workers : LoopStep(w) \/ Outage(w)
    \/ World

\* The loop runs for as long as its process does; the POS need not be used.
PosFairness == \A w \in Workers : WF_posVars(LoopStep(w))

PosSpec == PosInit /\ [][PosNext]_posVars /\ PosFairness

------------------------------------------------------------------------------
Excused == lapses.late \cup lapses.unknown \cup lapses.undone

\* A purchase the shop cannot take: its number is taken, or nobody is there to
\* have created it.
PurchaseRefused ==
    \E p \in PosRows("purchases") :
        /\ \A o \in books.orders : o.pos # p
        /\ \/ pos.purchases[p] \in NumbersOf(books.orders)
           \/ \E q \in PosRows("purchases") \ {p} : pos.purchases[q] = pos.purchases[p]
           \/ ~books.users

\* A sell above the watermark that the shop cannot take.
SellRefused ==
    \E s \in PosRows("sells") \cap pos.garbled :
        /\ pos.sells[s] \in books.names /\ books.rows[s] = 0
        /\ books.mark["sells"] # Absent => s > books.mark["sells"]

\* Either fails every cycle that lists it.
Poisoned == PurchaseRefused \/ SellRefused

Crowded == Cardinality(PosRows("sells")) > pos.page

\* "On any unhandled exception the watermark is NOT advanced, so the next run
\* will retry the same window": a sell the watermark has passed is in the shop,
\* whatever cycles overlapped or failed, unless it was finalised after a later
\* one, a full page left it out below a later one, its product was unknown, or an
\* undone import or a wipe took it away.
WatermarkCovered ==
    \A s \in PosRows("sells") :
        (books.mark["sells"] # Absent /\ s <= books.mark["sells"])
            => s \in Excused \/ books.rows[s] > 0

\* Every sell reaches the shop, however many cycles failed before, unless a sell
\* or a purchase the shop cannot take fails every cycle, or the sells do not fit
\* on the one page a cycle asks for.
SellsReachTheShop ==
    \A s \in SellIds :
        pos.sells[s] # Absent ~> (s \in Excused \/ books.rows[s] > 0 \/ Poisoned \/ Crowded)

(* What the module's documentation says and these steps do not keep.       *)

\* "if a record with that pos_id already exists we skip it": no sell is in the
\* shop twice.  The cycles of two workers, or a sync and an import, insert it
\* both.
StoredOnce == \A s \in SellIds : books.rows[s] <= 1

=============================================================================
