--------------------------- MODULE Office_proofs ---------------------------
(***************************************************************************)
(* Five parts of the office, for any number of workers, clerks and rows:   *)
(*   Directory: however requests on the reference data overlap, categories *)
(*     keep their two levels, parents and products' categories exist, and  *)
(*     names and codes stay unique;                                        *)
(*   PosSync: a sell the watermark has passed is in the shop, or there is  *)
(*     a reason that it is not;                                            *)
(*   Migration: an import that completes has carried all that was          *)
(*     validated, and moved the stock by what the POS bought and adjusted; *)
(*   Billing: however many sessions deliver however many events, an event  *)
(*     takes effect once, and the grace clock counts from the first failed *)
(*     charge;                                                             *)
(*   OrderPayments: a request on an order's payments that overlapped no    *)
(*     other leaves it with the status they give, never overpaid.          *)
(***************************************************************************)
EXTENDS PosSync, Migration, Directory, Billing, OrderPayments, SumTheorems, TLAPS

(* Categories and locations (Directory).                                   *)

Tables == {"categories", "products", "customers", "sales", "suppliers", "orders",
           "payments", "locations", "expenses", "profile", "secrets"}

CategoryRow == [name : Names, parent : Categories \cup {Gone}]

Typed ==
    /\ DOMAIN files = Tables
    /\ files.categories \in [Categories -> CategoryRow \cup {Gone}]
    /\ files.products \in [Items -> Categories \cup {Gone}]
    /\ DOMAIN files.locations = Parties

Root(i) == files.categories[i].parent = Gone

\* What a request still relies on when it writes: the parent it read, if it is
\* there, has no parent.
Relied(r) ==
    /\ r.does = "create" =>
          /\ r.name \in Names /\ r.parent \in Categories \cup {Gone}
          /\ r.parent \in Present("categories") => Root(r.parent)
    /\ r.does = "delete" => r.category \in Categories
    /\ r.does = "file" => r.item \in Items /\ r.category \in Categories

Desks == DOMAIN desk = Clerks /\ \A c \in Clerks : Relied(desk[c])

FilesInv == Typed /\ Desks /\ FilesSound

------------------------------------------------------------------------------
(* Rows that are there, and steps that leave them alone.                   *)

LEMMA NotGone ==
    /\ Gone \notin Categories /\ Gone \notin CategoryRow
BY DirectoryAssumption DEF CategoryRow

LEMMA RowsThere ==
    ASSUME Typed, NEW i
    PROVE  i \in Present("categories") <=>
              i \in Categories /\ files.categories[i] \in CategoryRow
BY NotGone DEF Typed, Present

LEMMA TableChanges ==
    ASSUME Typed, NEW table \in Tables, NEW rows, files' = [files EXCEPT ![table] = rows]
    PROVE  /\ DOMAIN files' = Tables /\ files'[table] = rows
           /\ \A other \in Tables \ {table} : files'[other] = files[other]
BY DEF Typed

LEMMA SameRows ==
    ASSUME FilesInv, DOMAIN files' = Tables, files'.categories = files.categories,
           files'.products = files.products, files'.locations = files.locations
    PROVE  /\ Typed' /\ FilesSound'
           /\ \A r : Relied(r) => Relied(r)'
<1>1. Typed'
  BY DEF FilesInv, Typed
<1>2. /\ Present("categories")' = Present("categories")
      /\ Present("products")' = Present("products")
      /\ Present("locations")' = Present("locations")
  BY DEF Present
<1>3. FilesSound'
  BY <1>2 DEF FilesInv, FilesSound
<1>4. ASSUME NEW r, Relied(r)
      PROVE  Relied(r)'
  BY <1>2, <1>4 DEF Relied, Root
<1>5. QED
  BY <1>1, <1>3, <1>4

\* One request begins, ends or is lost.  (A value q is compared with what a desk
\* holds, as priming Relied(desk[d]) would prime the desk too.)
LEMMA DeskStep ==
    ASSUME FilesInv, NEW c \in Clerks, NEW r, desk' = [desk EXCEPT ![c] = r],
           Typed', FilesSound', Relied(r)',
           \A d \in Clerks \ {c} : \A q : q = desk[d] => Relied(q)'
    PROVE  FilesInv'
<1>1. DOMAIN desk' = Clerks /\ desk'[c] = r /\ \A d \in Clerks \ {c} : desk'[d] = desk[d]
  BY DEF FilesInv, Desks
<1>2. ASSUME NEW d \in Clerks
      PROVE  Relied(desk[d])'
  BY <1>1
<1>3. QED
  BY <1>1, <1>2 DEF FilesInv, Desks

LEMMA NothingRelied == Relied(Nothing) /\ Relied(Nothing)'
BY DEF Relied, Nothing

LEMMA ReadInv ==
    ASSUME FilesInv, NEW c \in Clerks, NEW r, Read(c, r), Relied(r)
    PROVE  FilesInv'
<1>1. UNCHANGED files /\ desk' = [desk EXCEPT ![c] = r]
  BY DEF Read
<1>2. /\ Typed' /\ FilesSound'
      /\ \A q : Relied(q) => Relied(q)'
  BY <1>1, SameRows DEF FilesInv, Typed
<1>3. QED
  BY <1>1, <1>2, DeskStep DEF FilesInv, Desks

LEMMA RollBackInv ==
    ASSUME FilesInv, NEW c \in Clerks, RollBack(c)
    PROVE  FilesInv'
<1>1. UNCHANGED files /\ desk' = [desk EXCEPT ![c] = Nothing]
  BY DEF RollBack, Finished
<1>2. /\ Typed' /\ FilesSound'
      /\ \A q : Relied(q) => Relied(q)'
  BY <1>1, SameRows DEF FilesInv, Typed
<1>3. QED
  BY <1>1, <1>2, DeskStep, NothingRelied DEF FilesInv, Desks

Unruled == Tables \ {"categories", "products", "locations"}

LEMMA OtherTableInv ==
    ASSUME FilesInv, NEW table \in Unruled, NEW rows, Rows(table, rows),
           desk' = desk \/ \E c \in Clerks : Finished(c)
    PROVE  FilesInv'
<1>1. files' = [files EXCEPT ![table] = rows] /\ table \in Tables
  BY DEF Rows, Unruled
<1>2. /\ DOMAIN files' = Tables /\ files'.categories = files.categories
      /\ files'.products = files.products /\ files'.locations = files.locations
  BY <1>1, TableChanges DEF FilesInv, Unruled, Tables
<1>3. /\ Typed' /\ FilesSound'
      /\ \A q : Relied(q) => Relied(q)'
  BY <1>2, SameRows
<1>4. CASE desk' = desk
  BY <1>3, <1>4 DEF FilesInv, Desks
<1>5. ASSUME NEW c \in Clerks, Finished(c)
      PROVE  FilesInv'
  BY <1>3, <1>5, DeskStep, NothingRelied DEF FilesInv, Desks, Finished
<1>6. QED
  BY <1>4, <1>5

------------------------------------------------------------------------------
(* Categories.                                                             *)

LEMMA ReadParentInv ==
    ASSUME FilesInv, NEW c \in Clerks, NEW name \in Names, NEW parent \in Categories \cup {Gone},
           ReadParent(c, name, parent)
    PROVE  FilesInv'
<1> DEFINE r == [does |-> "create", name |-> name, parent |-> parent]
<1>1. Read(c, r)
  BY DEF ReadParent
<1>2. Gone \notin Present("categories")
  BY RowsThere, NotGone DEF FilesInv
<1>3. Relied(r)
  BY <1>2 DEF ReadParent, Relied, Root
<1>4. QED
  BY <1>1, <1>3, ReadInv

LEMMA ReadDeletionInv ==
    ASSUME FilesInv, NEW c \in Clerks, NEW i \in Categories, ReadDeletion(c, i)
    PROVE  FilesInv'
<1> DEFINE r == [does |-> "delete", category |-> i]
<1>1. Read(c, r)
  BY DEF ReadDeletion
<1>2. Relied(r)
  BY DEF Relied
<1>3. QED
  BY <1>1, <1>2, ReadInv

LEMMA ReadCategoryInv ==
    ASSUME FilesInv, NEW c \in Clerks, NEW item \in Items, NEW i \in Categories,
           ReadCategory(c, item, i)
    PROVE  FilesInv'
<1> DEFINE r == [does |-> "file", item |-> item, category |-> i]
<1>1. Read(c, r)
  BY DEF ReadCategory
<1>2. Relied(r)
  BY DEF Relied
<1>3. QED
  BY <1>1, <1>2, ReadInv

\* A category gets another name, nobody's.
LEMMA RenameInv ==
    ASSUME FilesInv, NEW i \in Categories, NEW name \in Names, RenameCategory(i, name)
    PROVE  FilesInv'
<1> DEFINE rows == [files.categories EXCEPT ![i].name = name]
<1>1. /\ i \in Present("categories") /\ ~Taken(name) /\ desk' = desk
      /\ files' = [files EXCEPT !["categories"] = rows]
  BY DEF RenameCategory, Save, Rows
<1>2. /\ DOMAIN files' = Tables /\ files'.categories = rows
      /\ files'.products = files.products /\ files'.locations = files.locations
  BY <1>1, TableChanges DEF FilesInv, Tables
<1>3. files.categories[i] \in CategoryRow
  BY <1>1, RowsThere DEF FilesInv
<1>4. /\ rows[i] \in CategoryRow /\ rows[i].name = name
      /\ rows[i].parent = files.categories[i].parent
      /\ \A j \in Categories \ {i} : rows[j] = files.categories[j]
  BY <1>3 DEF FilesInv, Typed, CategoryRow
<1>5. Typed'
  BY <1>2, <1>4 DEF FilesInv, Typed
<1>6. Present("categories")' = Present("categories")
  <2>1. ASSUME NEW j
        PROVE  j \in Present("categories")' <=> j \in Categories /\ rows[j] # Gone
    BY <1>2, <1>5 DEF Present, Typed
  <2>2. QED
    BY <2>1, <1>3, <1>4, NotGone DEF FilesInv, Typed, Present
<1>7. /\ Present("products")' = Present("products")
      /\ Present("locations")' = Present("locations")
  BY <1>2 DEF Present
<1>8. \A j \in Categories : rows[j].parent = files.categories[j].parent
  BY <1>4
<1>9. Present("categories") \subseteq Categories
  BY DEF FilesInv, Typed, Present
<1>10. FilesSound'
  <2>1. ASSUME NEW j \in Present("categories"), NEW k \in Present("categories"),
               rows[j].name = rows[k].name
        PROVE  j = k
    BY <2>1, <1>1, <1>4, <1>9 DEF Taken, FilesInv, FilesSound
  <2>2. QED
    BY <2>1, <1>2, <1>6, <1>7, <1>8, <1>9, NotGone DEF FilesInv, FilesSound
<1>11. \A q : Relied(q) => Relied(q)'
  BY <1>2, <1>6, <1>8, <1>9 DEF Relied, Root
<1>12. QED
  BY <1>1, <1>5, <1>10, <1>11 DEF FilesInv, Desks

\* A new category: its parent is there, and had no parent when it was read.
LEMMA InsertInv ==
    ASSUME FilesInv, NEW c \in Clerks, InsertCategory(c)
    PROVE  FilesInv'
<1> DEFINE i == CHOOSE j \in Unused : TRUE
           new == [name |-> desk[c].name, parent |-> desk[c].parent]
           rows == [files.categories EXCEPT ![i] = new]
<1>1. /\ Does(c, "create") /\ There(new.parent) /\ ~Taken(new.name)
      /\ i \in Categories \ Present("categories") /\ ~Named(i)
  BY DEF InsertCategory, Unused
<1>2. files' = [files EXCEPT !["categories"] = rows] /\ desk' = [desk EXCEPT ![c] = Nothing]
  BY DEF InsertCategory, Store, Rows, Finished
<1>3. /\ DOMAIN files' = Tables /\ files'.categories = rows
      /\ files'.products = files.products /\ files'.locations = files.locations
  BY <1>2, TableChanges DEF FilesInv, Tables
<1>4. /\ new \in CategoryRow
      /\ new.parent \in Present("categories") => Root(new.parent)
  BY <1>1 DEF FilesInv, Desks, Relied, Does, CategoryRow
<1>5. rows[i] = new /\ \A j \in Categories \ {i} : rows[j] = files.categories[j]
  BY <1>1 DEF FilesInv, Typed
<1>6. Typed'
  BY <1>3, <1>4, <1>5 DEF FilesInv, Typed
<1>7. Present("categories")' = Present("categories") \cup {i}
  <2>1. ASSUME NEW j
        PROVE  j \in Present("categories")' <=> j \in Categories /\ rows[j] # Gone
    BY <1>3, <1>6 DEF Present, Typed
  <2>2. ASSUME NEW j
        PROVE  j \in Present("categories") <=> j \in Categories /\ files.categories[j] # Gone
    BY DEF Present, FilesInv, Typed
  <2>3. rows[i] # Gone
    BY <1>4, <1>5, NotGone
  <2>4. ASSUME NEW j
        PROVE  j \in Present("categories")' <=> j \in Present("categories") \/ j = i
    BY <2>1, <2>2, <2>3, <1>1, <1>5
  <2>5. QED
    BY <2>4
<1>8. /\ Present("products")' = Present("products")
      /\ Present("locations")' = Present("locations")
  BY <1>3 DEF Present
<1>9. Present("categories") \subseteq Categories \ {i} /\ Gone \notin Present("categories")
  BY <1>1, NotGone DEF FilesInv, Typed, Present
<1>10. \A j \in Present("categories") : rows[j] = files.categories[j]
  BY <1>5, <1>9
<1>11. FilesSound'
  <2>1. ASSUME NEW j \in Present("categories")', rows[j].parent # Gone
        PROVE  /\ rows[j].parent \in Present("categories")'
               /\ rows[rows[j].parent].parent = Gone
    <3>1. CASE j = i
      BY <2>1, <3>1, <1>1, <1>4, <1>5, <1>7, <1>10 DEF There, Root
    <3>2. CASE j # i
      BY <2>1, <3>2, <1>7, <1>10 DEF FilesInv, FilesSound
    <3>3. QED
      BY <3>1, <3>2
  <2>2. ASSUME NEW j \in Present("categories")', NEW k \in Present("categories")',
               rows[j].name = rows[k].name
        PROVE  j = k
    BY <2>2, <1>1, <1>5, <1>7, <1>10 DEF Taken, FilesInv, FilesSound
  <2>3. \A p \in Present("products") : files.products[p] \in Present("categories")'
    BY <1>7 DEF FilesInv, FilesSound
  <2>4. QED
    BY <2>1, <2>2, <2>3, <1>3, <1>8 DEF FilesInv, FilesSound
<1>12. ASSUME NEW d \in Clerks, NEW q, q = desk[d]
       PROVE  Relied(q)'
  <2>1. Relied(q) /\ (q.does = "create" => q.parent # i)
    BY <1>1, <1>12 DEF FilesInv, Desks, Named, Does
  <2>2. QED
    BY <2>1, <1>3, <1>7, <1>10 DEF Relied, Root
<1>13. QED
  BY <1>2, <1>6, <1>11, <1>12, NothingRelied, DeskStep

\* A product is filed under a category that is still there.
LEMMA FileInv ==
    ASSUME FilesInv, NEW c \in Clerks, FileProduct(c)
    PROVE  FilesInv'
<1> DEFINE rows == [files.products EXCEPT ![desk[c].item] = desk[c].category]
<1>1. /\ Does(c, "file") /\ There(desk[c].category)
      /\ files' = [files EXCEPT !["products"] = rows] /\ desk' = [desk EXCEPT ![c] = Nothing]
  BY DEF FileProduct, Store, Rows, Finished
<1>2. /\ DOMAIN files' = Tables /\ files'.products = rows
      /\ files'.categories = files.categories /\ files'.locations = files.locations
  BY <1>1, TableChanges DEF FilesInv, Tables
<1>3. desk[c].item \in Items /\ desk[c].category \in Categories
  BY <1>1 DEF FilesInv, Desks, Relied, Does
<1>4. desk[c].category \in Present("categories")
  BY <1>1, <1>3, NotGone DEF There
<1>5. Typed'
  BY <1>2, <1>3 DEF FilesInv, Typed
<1>6. /\ Present("categories")' = Present("categories")
      /\ Present("locations")' = Present("locations")
  BY <1>2 DEF Present
<1>7. \A p \in Present("products")' : rows[p] \in Present("categories")
  BY <1>2, <1>3, <1>4 DEF FilesInv, Typed, FilesSound, Present
<1>8. FilesSound'
  BY <1>2, <1>6, <1>7 DEF FilesInv, FilesSound
<1>9. \A q : Relied(q) => Relied(q)'
  BY <1>2, <1>6 DEF Relied, Root
<1>10. QED
  BY <1>1, <1>5, <1>8, <1>9, NothingRelied, DeskStep DEF FilesInv, Desks

\* A category goes, and with it its place in the rows that name it by then.
LEMMA DeleteInv ==
    ASSUME FilesInv, NEW c \in Clerks, DeleteCategory(c)
    PROVE  FilesInv'
<1> DEFINE i == desk[c].category
           rows == [j \in Categories |->
                       IF j = i THEN Gone
                       ELSE IF j \in Children(i) THEN [files.categories[j] EXCEPT !.parent = Gone]
                       ELSE files.categories[j]]
           filed == [p \in Items |-> IF p \in Filed(i) THEN Gone ELSE files.products[p]]
<1>1. /\ i \in Present("categories") /\ desk' = [desk EXCEPT ![c] = Nothing]
      /\ files' = [files EXCEPT !.categories = rows, !.products = filed]
  BY DEF DeleteCategory, Finished
<1>2. /\ DOMAIN files' = Tables /\ files'.categories = rows
      /\ files'.products = filed /\ files'.locations = files.locations
  BY <1>1 DEF FilesInv, Typed, Tables
<1>3. \A j : j \in Present("categories") <=>
                j \in Categories /\ files.categories[j] \in CategoryRow
  BY RowsThere DEF FilesInv
<1>4. Children(i) \subseteq Present("categories") /\ i \in Categories
  BY <1>1, <1>3 DEF Children
<1>5. ASSUME NEW j \in Present("categories"), j # i
      PROVE  /\ rows[j] \in CategoryRow /\ rows[j].name = files.categories[j].name
             /\ rows[j].parent = IF files.categories[j].parent = i THEN Gone
                                 ELSE files.categories[j].parent
  BY <1>3, <1>5 DEF Children, CategoryRow
<1>6. \A j \in Categories : rows[j] \in CategoryRow \cup {Gone}
  <2>1. ASSUME NEW j \in Categories
        PROVE  rows[j] \in CategoryRow \cup {Gone}
    <3>1. CASE j \in Present("categories") /\ j # i
      BY <1>5, <3>1
    <3>2. CASE j = i
      BY <3>2
    <3>3. CASE j \notin Present("categories") /\ j # i
      BY <3>3, <1>4 DEF FilesInv, Typed
    <3>4. QED
      BY <3>1, <3>2, <3>3
  <2>2. QED
    BY <2>1
<1>7. Typed'
  BY <1>2, <1>6 DEF FilesInv, Typed
<1>8. Present("categories")' = Present("categories") \ {i}
  <2>1. ASSUME NEW j
        PROVE  j \in Present("categories")' <=> j \in Categories /\ rows[j] # Gone
    BY <1>2, <1>7 DEF Present, Typed
  <2>2. ASSUME NEW j
        PROVE  j \in Present("categories") <=> j \in Categories /\ files.categories[j] # Gone
    BY DEF Present, FilesInv, Typed
  <2>3. ASSUME NEW j
        PROVE  j \in Present("categories")' <=> j \in Present("categories") /\ j # i
    <3>1. CASE j \in Present("categories") /\ j # i
      BY <3>1, <2>1, <1>3, <1>5, NotGone
    <3>2. CASE j = i
      BY <3>2, <2>1
    <3>3. CASE j \notin Present("categories") /\ j # i
      BY <3>3, <2>1, <2>2, <1>4
    <3>4. QED
      BY <3>1, <3>2, <3>3
  <2>4. QED
    BY <2>3
<1>9. Present("locations")' = Present("locations")
  BY <1>2 DEF Present
<1>10. Gone \notin Present("categories") /\ i # Gone
  BY <1>1, <1>3, NotGone
<1>11. FilesSound'
  <2>1. ASSUME NEW j \in Present("categories")', rows[j].parent # Gone
        PROVE  /\ rows[j].parent \in Present("categories")'
               /\ rows[rows[j].parent].parent = Gone
    <3> DEFINE parent == files.categories[j].parent
    <3>1. j \in Present("categories") /\ j # i /\ rows[j].parent = parent /\ parent # i
      BY <2>1, <1>5, <1>8
    <3>2. parent \in Present("categories") /\ files.categories[parent].parent = Gone
      BY <2>1, <3>1 DEF FilesInv, FilesSound
    <3>3. rows[parent].parent = Gone
      BY <3>1, <3>2, <1>5
    <3>4. QED
      BY <3>1, <3>2, <3>3, <1>8
  <2>2. ASSUME NEW j \in Present("categories")', NEW k \in Present("categories")',
               rows[j].name = rows[k].name
        PROVE  j = k
    BY <2>2, <1>5, <1>8 DEF FilesInv, FilesSound
  <2>3. \A p \in Present("products")' : filed[p] \in Present("categories")'
    <3>1. ASSUME NEW p \in Present("products")'
          PROVE  filed[p] \in Present("categories")'
      <4>1. p \in Items /\ filed[p] # Gone
        BY <1>2, <3>1 DEF Present
      <4>2. filed[p] = files.products[p] /\ filed[p] # i
        BY <4>1 DEF Filed
      <4>3. p \in Present("products")
        BY <4>1, <4>2 DEF Present, FilesInv, Typed
      <4>4. QED
        BY <4>2, <4>3, <1>8 DEF FilesInv, FilesSound
    <3>2. QED
      BY <3>1
  <2>4. \A p, q \in Present("locations")' :
           files'.locations[p] = files'.locations[q] => p = q
    BY <1>2, <1>9 DEF FilesInv, FilesSound
  <2> HIDE DEF rows, filed
  <2>5. QED
    BY <2>1, <2>2, <2>3, <2>4, <1>2 DEF FilesSound
<1>12. \A q : Relied(q) => Relied(q)'
  <2>1. ASSUME NEW j \in Present("categories")', Root(j)
        PROVE  rows[j].parent = Gone
    BY <2>1, <1>5, <1>8 DEF Root
  <2>2. QED
    BY <2>1, <1>2, <1>8 DEF Relied, Root
<1>13. QED
  BY <1>1, <1>7, <1>11, <1>12, NothingRelied, DeskStep DEF FilesInv, Desks

------------------------------------------------------------------------------
(* Locations.                                                              *)

\* A location gets a code nobody has.
LEMMA LocationsStep ==
    ASSUME FilesInv, NEW p \in Parties, NEW code, ~CodeTaken(code),
           files' = [files EXCEPT !["locations"] = [files.locations EXCEPT ![p] = code]]
    PROVE  /\ Typed' /\ FilesSound'
           /\ \A q : Relied(q) => Relied(q)'
<1> DEFINE rows == [files.locations EXCEPT ![p] = code]
<1>1. /\ DOMAIN files' = Tables /\ files'.locations = rows
      /\ files'.categories = files.categories /\ files'.products = files.products
  BY TableChanges DEF FilesInv, Tables
<1>2. DOMAIN rows = Parties /\ rows[p] = code
      /\ \A q \in Parties \ {p} : rows[q] = files.locations[q]
  BY DEF FilesInv, Typed
<1>3. Typed'
  BY <1>1, <1>2 DEF FilesInv, Typed
<1>4. /\ Present("categories")' = Present("categories")
      /\ Present("products")' = Present("products")
  BY <1>1 DEF Present
<1>5. ASSUME NEW q \in Present("locations")', NEW r \in Present("locations")', rows[q] = rows[r]
      PROVE  q = r
  <2>1. q \in Parties /\ r \in Parties /\ rows[q] # Gone
    BY <1>1, <1>2 DEF Present
  <2>2. \A u \in Parties : files.locations[u] # code
    BY DEF CodeTaken
  <2>3. CASE q # p /\ r # p
    <3>1. /\ q \in Present("locations") /\ r \in Present("locations")
          /\ files.locations[q] = files.locations[r]
      BY <2>1, <2>3, <1>2, <1>5 DEF Present, FilesInv, Typed
    <3>2. QED
      BY <3>1 DEF FilesInv, FilesSound
  <2>4. CASE q = p \/ r = p
    BY <2>1, <2>2, <2>4, <1>2, <1>5
  <2>5. QED
    BY <2>3, <2>4
<1>6. FilesSound'
  BY <1>1, <1>4, <1>5 DEF FilesInv, FilesSound
<1>7. \A q : Relied(q) => Relied(q)'
  BY <1>1, <1>4 DEF Relied, Root
<1>8. QED
  BY <1>3, <1>6, <1>7

LEMMA LocationsInv ==
    ASSUME FilesInv,
           \/ \E c \in Clerks : InsertLocation(c) \/ \E code \in Names : ReadCode(c, code)
           \/ \E p \in Parties, code \in Names : RecodeLocation(p, code)
    PROVE  FilesInv'
<1>1. ASSUME NEW c \in Clerks, InsertLocation(c)
      PROVE  FilesInv'
  <2>1. PICK p \in Parties :
           Store(c, "locations", [files.locations EXCEPT ![p] = desk[c].code])
    BY <1>1 DEF InsertLocation
  <2>2. /\ ~CodeTaken(desk[c].code) /\ desk' = [desk EXCEPT ![c] = Nothing]
        /\ files' = [files EXCEPT !["locations"] = [files.locations EXCEPT ![p] = desk[c].code]]
    BY <1>1, <2>1 DEF InsertLocation, Store, Rows, Finished
  <2>3. QED
    BY <2>2, LocationsStep, NothingRelied, DeskStep DEF FilesInv, Desks
<1>2. ASSUME NEW c \in Clerks, NEW code \in Names, ReadCode(c, code)
      PROVE  FilesInv'
  <2> DEFINE r == [does |-> "locate", code |-> code]
  <2>1. Read(c, r)
    BY <1>2 DEF ReadCode
  <2>2. Relied(r)
    BY DEF Relied
  <2>3. QED
    BY <2>1, <2>2, ReadInv
<1>3. ASSUME NEW p \in Parties, NEW code \in Names, RecodeLocation(p, code)
      PROVE  FilesInv'
  <2>1. /\ ~CodeTaken(code) /\ desk' = desk
        /\ files' = [files EXCEPT !["locations"] = [files.locations EXCEPT ![p] = code]]
    BY <1>3 DEF RecodeLocation, Save, Rows
  <2>2. QED
    BY <2>1, LocationsStep DEF FilesInv, Desks
<1>4. QED
  BY <1>1, <1>2, <1>3

------------------------------------------------------------------------------
(* Requests on tables FilesSound does not name, and the theorem.           *)

LEMMA SaveInv ==
    ASSUME FilesInv, NEW table \in Unruled, NEW rows,
           Save(table, rows) \/ \E c \in Clerks : Store(c, table, rows)
    PROVE  FilesInv'
BY OtherTableInv DEF Save, Store

LEMMA SameDesksInv ==
    ASSUME FilesInv, UNCHANGED <<files, desk>>
    PROVE  FilesInv'
<1>1. /\ Typed' /\ FilesSound'
      /\ \A q : Relied(q) => Relied(q)'
  BY SameRows DEF FilesInv, Typed
<1>2. QED
  BY <1>1 DEF FilesInv, Desks

LEMMA CustomersInv ==
    ASSUME FilesInv, CustomersNext
    PROVE  FilesInv'
<1> USE DEF Unruled, Tables
<1>1. CASE \E p \in Parties, amount \in 1..MaxMoney :
              SellTo(p, amount) \/ \E active \in BOOLEAN : UpdateCustomer(p, active, amount)
  BY <1>1, SaveInv DEF SellTo, UpdateCustomer
<1>2. CASE \E i \in DOMAIN files.sales : VoidSaleTo(i)
  BY <1>2, SaveInv DEF VoidSaleTo
<1>3. CASE \E c \in Clerks : Deactivate(c)
  BY <1>3, SaveInv DEF Deactivate
<1>4. ASSUME NEW c \in Clerks, NEW p \in Parties, ReadSales(c, p)
      PROVE  FilesInv'
  <2> DEFINE r == [does |-> "deactivate", customer |-> p]
  <2>1. Read(c, r) /\ Relied(r)
    BY <1>4 DEF ReadSales, Relied
  <2>2. QED
    BY <2>1, ReadInv
<1>5. QED
  BY <1>1, <1>2, <1>3, <1>4 DEF CustomersNext

LEMMA SuppliersInv ==
    ASSUME FilesInv, SuppliersNext
    PROVE  FilesInv'
<1> USE DEF Unruled, Tables
<1>1. CASE \E p \in Parties, amount \in 1..MaxMoney :
              UpdateSupplier(p, amount) \/ OrderFrom(p, amount)
  BY <1>1, SaveInv DEF UpdateSupplier, OrderFrom
<1>2. CASE \E i \in DOMAIN files.orders :
              CancelOrder(i) \/ \E amount \in 1..MaxMoney : PayOrder(i, amount)
  BY <1>2, SaveInv DEF CancelOrder, PayOrder
<1>3. CASE \E i \in DOMAIN files.payments : VoidPayment(i)
  BY <1>3, SaveInv DEF VoidPayment
<1>4. QED
  BY <1>1, <1>2, <1>3 DEF SuppliersNext

LEMMA RecordsInv ==
    ASSUME FilesInv, RecordsNext
    PROVE  FilesInv'
<1>1. CASE \/ \E c \in Clerks : InsertLocation(c) \/ \E code \in Names : ReadCode(c, code)
           \/ \E p \in Parties, code \in Names : RecodeLocation(p, code)
  BY <1>1, LocationsInv
<1>2. CASE \E p \in Parties, amount \in 1..MaxMoney : SaveExpense(p, amount)
  BY <1>2, SaveInv DEF SaveExpense, Unruled, Tables
<1>3. CASE \E p \in Parties : DeleteExpense(p)
  BY <1>3, SameDesksInv DEF DeleteExpense
<1>4. QED
  BY <1>1, <1>2, <1>3 DEF RecordsNext

LEMMA SettingsInv ==
    ASSUME FilesInv, SettingsNext
    PROVE  FilesInv'
<1> USE DEF Unruled, Tables
<1>1. CASE \E c \in Clerks : WriteSecret(c)
  BY <1>1, SaveInv DEF WriteSecret
<1>2. ASSUME NEW c \in Clerks, NEW value \in Names, ReadSecret(c, value)
      PROVE  FilesInv'
  <2>1. PICK r : r = [does |-> "secret", value |-> value, row |-> Len(files.secrets)]
    OBVIOUS
  <2>2. Read(c, r) /\ Relied(r)
    BY <1>2, <2>1 DEF ReadSecret, Relied
  <2>3. QED
    BY <2>2, ReadInv
<1>3. CASE \E value \in Names : UpdateProfile([name |-> value]) \/ UpdateProfile([phone |-> value])
  BY <1>3, SaveInv DEF UpdateProfile
<1>4. CASE Restart
  <2>1. UNCHANGED files /\ desk' = [c \in Clerks |-> Nothing]
    BY <1>4 DEF Restart
  <2>2. Typed' /\ FilesSound'
    BY <2>1, SameRows DEF FilesInv, Typed
  <2>3. QED
    BY <2>1, <2>2, NothingRelied DEF FilesInv, Desks
<1>5. QED
  BY <1>1, <1>2, <1>3, <1>4 DEF SettingsNext

LEMMA CategoriesInv ==
    ASSUME FilesInv, CategoriesNext
    PROVE  FilesInv'
BY ReadParentInv, ReadDeletionInv, ReadCategoryInv, InsertInv, DeleteInv, FileInv, RenameInv
   DEF CategoriesNext

LEMMA NextFilesInv ==
    ASSUME FilesInv, [DirectoryNext]_directoryVars
    PROVE  FilesInv'
<1>1. CASE DirectoryNext
  BY <1>1, CategoriesInv, CustomersInv, SuppliersInv, RecordsInv, SettingsInv, RollBackInv
     DEF DirectoryNext
<1>2. CASE UNCHANGED directoryVars
  BY <1>2, SameDesksInv DEF directoryVars
<1>3. QED
  BY <1>1, <1>2

LEMMA InitFilesInv ==
    ASSUME DirectoryInit
    PROVE  FilesInv
<1>1. Typed
  BY DEF DirectoryInit, Typed, Tables
<1>2. /\ Present("categories") = {} /\ Present("products") = {} /\ Present("locations") = {}
  BY DEF DirectoryInit, Present
<1>3. Desks
  BY NothingRelied DEF DirectoryInit, Desks
<1>4. QED
  BY <1>1, <1>2, <1>3 DEF FilesInv, FilesSound

\* However creations, filings and deletions overlap, categories have at most two
\* levels, every parent and every product's category exists, and no name is on
\* two categories nor a code on two locations, for any number of each.
THEOREM FilesSoundHolds == DirectorySpec => []FilesSound
<1>1. FilesInv => FilesSound
  BY DEF FilesInv
<1>2. QED
  BY <1>1, InitFilesInv, NextFilesInv, PTL DEF DirectorySpec

------------------------------------------------------------------------------
(* The watermark of the sells (PosSync).                                   *)

Stages == {"asleep", "store", "save", "sells saved"}
Bookings == [pos : PurchaseIds \cup {Absent}, number : Numbers \cup {Absent}]
Marked == Nat \cup {Absent}
Cycles ==
    [at : Stages, kind : Listings, mark : Nat, top : Nat, save : {"nothing", "row", "insert", "update"},
     listing : SUBSET (SellIds \cup PurchaseIds), rows : SUBSET SellIds,
     unknown : SUBSET SellIds, orders : SUBSET Bookings, saved : [Listings -> Marked]]
Books ==
    [names : SUBSET Goods, users : BOOLEAN, jobs : BOOLEAN, rows : [SellIds -> Nat],
     imported : SUBSET SellIds, orders : SUBSET Bookings, mark : [Listings -> Marked]]
Lapses ==
    [late : SUBSET SellIds, unknown : SUBSET SellIds, undone : SUBSET SellIds, incidents : Nat]

Tills ==
    [sells : [SellIds -> Goods \cup {Absent}], purchases : [PurchaseIds -> Numbers \cup {Absent}],
     garbled : SUBSET SellIds, page : PageSizes]

PosTyped ==
    /\ pos \in Tills
    /\ books \in Books
    /\ cycle \in [Workers -> Cycles]
    /\ lapses \in Lapses

Listed == PosRows("sells")
Passed(s) == s \in Excused \/ books.rows[s] > 0

\* What an import stored is there, and keeps the shop from being wiped.
ImportStands ==
    /\ books.imported # {} => books.jobs
    /\ \A s \in books.imported : books.rows[s] > 0

\* A watermark is the id of a listed sell, and those up to it have been passed.
MarkStands ==
    books.mark["sells"] # Absent =>
        /\ books.mark["sells"] \in Listed
        /\ \A s \in Listed : s <= books.mark["sells"] => Passed(s)

\* A watermark a cycle is about to write: so are those up to it, once the cycle
\* has committed its rows.
Reaches(w, mark) ==
    /\ mark \in Listed
    /\ \A s \in Listed : s <= mark => Passed(s) \/ s \in cycle[w].rows \cup cycle[w].unknown

\* What a cycle has read of the sells is what it still may rely on.
CycleStands(w) ==
    /\ cycle[w].saved["sells"] # Absent =>
          cycle[w].at # "asleep" /\ Reaches(w, cycle[w].saved["sells"])
    /\ cycle[w].at = "store" /\ cycle[w].kind = "sells" =>
          /\ cycle[w].saved["sells"] = Absent
          /\ cycle[w].listing \subseteq Listed
          /\ cycle[w].mark = 0 \/ cycle[w].mark \in Listed
          /\ \A s \in Listed : s <= cycle[w].mark => Passed(s)
          /\ \A s \in Listed \ cycle[w].listing : \A t \in cycle[w].listing :
                s < t => Passed(s)
    /\ cycle[w].at = "store" /\ cycle[w].kind = "purchases" => cycle[w].listing \subseteq PurchaseIds
    /\ cycle[w].at = "save" /\ cycle[w].kind = "sells" =>
          /\ cycle[w].saved["sells"] = Absent
          /\ cycle[w].save # "nothing" => Reaches(w, cycle[w].top)

PosInv ==
    /\ PosTyped /\ ImportStands /\ MarkStands
    /\ \A w \in Workers : CycleStands(w)

\* What every step keeps: listed and passed sells stay so, and a sell listed
\* below another one is late.
Grows ==
    /\ Listed \subseteq Listed'
    /\ \A s \in Listed : Passed(s) => Passed(s)'
    /\ lapses.late \subseteq lapses'.late
    /\ \A s \in Listed' \ Listed : \A t \in Listed : s < t => s \in lapses'.late

LEMMA ListedAreIds == Listed \subseteq SellIds /\ SellIds \subseteq Nat \ {0}
BY DEF Listed, PosRows, SellIds

LEMMA LatePassed == \A s : s \in lapses'.late => Passed(s)'
BY DEF Passed, Excused

\* A mark that is listed, and had only passed sells below it, still does.
LEMMA ReachStays ==
    ASSUME PosInv, Grows, NEW v \in Workers, cycle'[v] = cycle[v], NEW m, Reaches(v, m)
    PROVE  Reaches(v, m)'
<1>1. m \in Listed /\ m \in Listed'
  BY DEF Reaches, Grows
<1>2. ASSUME NEW s \in Listed', s <= m PROVE Passed(s)' \/ s \in cycle[v].rows \cup cycle[v].unknown
  <2>1. CASE s \in Listed
    BY <1>2, <2>1 DEF Reaches, Grows
  <2>2. CASE s \notin Listed
    <3>1. s \in Nat /\ m \in Nat /\ s # m
      BY <1>1, <2>2, ListedAreIds DEF Listed, PosRows
    <3>2. s < m
      BY <1>2, <3>1
    <3>3. s \in lapses'.late
      BY <1>1, <1>2, <2>2, <3>2 DEF Grows
    <3>4. QED
      BY <3>3, LatePassed
  <2>3. QED
    BY <2>1, <2>2
<1>3. QED
  BY <1>1, <1>2 DEF Reaches

LEMMA CycleStays ==
    ASSUME PosInv, Grows, NEW v \in Workers, cycle'[v] = cycle[v]
    PROVE  CycleStands(v)'
<1> DEFINE c == cycle[v]
<1>1. CycleStands(v) /\ c \in Cycles
  BY DEF PosInv, PosTyped
<1>2. c.saved["sells"] # Absent => c.at # "asleep" /\ Reaches(v, c.saved["sells"])'
  BY <1>1, ReachStays DEF CycleStands
<1>3. c.at = "save" /\ c.kind = "sells" =>
          c.saved["sells"] = Absent /\ (c.save # "nothing" => Reaches(v, c.top)')
  BY <1>1, ReachStays DEF CycleStands
<1>4. ASSUME c.at = "store", c.kind = "sells"
      PROVE  /\ c.saved["sells"] = Absent
             /\ c.listing \subseteq Listed'
             /\ c.mark = 0 \/ c.mark \in Listed'
             /\ \A s \in Listed' : s <= c.mark => Passed(s)'
             /\ \A s \in Listed' \ c.listing : \A t \in c.listing : s < t => Passed(s)'
  <2>1. /\ c.saved["sells"] = Absent /\ c.listing \subseteq Listed
        /\ c.mark = 0 \/ c.mark \in Listed
        /\ \A s \in Listed : s <= c.mark => Passed(s)
        /\ \A s \in Listed \ c.listing : \A t \in c.listing : s < t => Passed(s)
    BY <1>1, <1>4 DEF CycleStands
  <2>2. c.listing \subseteq Listed' /\ (c.mark = 0 \/ c.mark \in Listed')
    BY <2>1 DEF Grows
  <2>3. ASSUME NEW s \in Listed', s <= c.mark PROVE Passed(s)'
    <3>1. CASE s \in Listed
      BY <2>1, <2>3, <3>1 DEF Grows
    <3>2. CASE s \notin Listed
      <4>1. s \in Nat \ {0}
        BY <2>3 DEF Listed, PosRows, SellIds
      <4>2. c.mark \in Listed /\ c.mark \in Nat /\ s # c.mark
        <5>1. c.mark \in Nat
          BY <1>1 DEF Cycles
        <5>2. c.mark # 0
          BY <2>3, <4>1, <5>1
        <5>3. QED
          BY <2>1, <3>2, <5>1, <5>2
      <4>3. s < c.mark
        BY <2>3, <4>1, <4>2
      <4>4. s \in lapses'.late
        BY <2>3, <3>2, <4>2, <4>3 DEF Grows
      <4>5. QED
        BY <4>4, LatePassed
    <3>3. QED
      BY <3>1, <3>2
  <2>4. ASSUME NEW s \in Listed' \ c.listing, NEW t \in c.listing, s < t PROVE Passed(s)'
    <3>1. CASE s \in Listed
      BY <2>1, <2>4, <3>1 DEF Grows
    <3>2. CASE s \notin Listed
      <4>1. s \in lapses'.late
        BY <2>1, <2>4, <3>2 DEF Grows
      <4>2. QED
        BY <4>1, LatePassed
    <3>3. QED
      BY <3>1, <3>2
  <2>5. QED
    BY <2>1, <2>2, <2>3, <2>4
<1>5. c.at = "store" /\ c.kind = "purchases" => c.listing \subseteq PurchaseIds
  BY <1>1 DEF CycleStands
<1>6. QED
  BY <1>2, <1>3, <1>4, <1>5 DEF CycleStands

LEMMA MarkStays ==
    ASSUME PosInv, Grows, books'.mark["sells"] = books.mark["sells"]
    PROVE  MarkStands'
<1> DEFINE m == books.mark["sells"]
<1>1. CASE m = Absent
  BY <1>1 DEF MarkStands
<1>2. CASE m # Absent
  <2>1. m \in Listed /\ \A s \in Listed : s <= m => Passed(s)
    BY <1>2 DEF PosInv, MarkStands
  <2> HIDE DEF m
  <2>2. m \in Listed'
    BY <2>1 DEF Grows
  <2>3. ASSUME NEW s \in Listed', s <= m PROVE Passed(s)'
    <3>1. CASE s \in Listed
      BY <2>1, <2>3, <3>1 DEF Grows
    <3>2. CASE s \notin Listed
      <4>1. s \in Nat /\ m \in Nat /\ s # m
        BY <2>1, <2>3, <3>2, ListedAreIds DEF Listed, PosRows
      <4>2. s < m
        BY <2>3, <4>1
      <4>3. s \in lapses'.late
        BY <2>1, <2>3, <3>2, <4>2 DEF Grows
      <4>4. QED
        BY <4>3, LatePassed
    <3>3. QED
      BY <3>1, <3>2
  <2>4. QED
    BY <2>2, <2>3 DEF MarkStands, m
<1>3. QED
  BY <1>1, <1>2

\* An outage, an import, a wipe: one more incident, and what it undid.
LEMMA IncidentCounts ==
    ASSUME PosInv, NEW undone \in SUBSET SellIds, Incident(undone)
    PROVE  /\ lapses' \in Lapses /\ lapses'.late = lapses.late /\ lapses'.unknown = lapses.unknown
           /\ lapses'.undone = lapses.undone \cup undone
<1>1. lapses \in Lapses
  BY DEF PosInv, PosTyped
<1>2. lapses' = [lapses EXCEPT !.incidents = lapses.incidents + 1, !.undone = lapses.undone \cup undone]
  BY DEF Incident
<1>3. lapses.incidents + 1 \in Nat /\ lapses.undone \cup undone \in SUBSET SellIds
  BY <1>1 DEF Lapses
<1>4. QED
  BY <1>1, <1>2, <1>3 DEF Lapses

\* A step of one worker that leaves the shop and the POS as they are; it may be an
\* incident, or find that sells are late.
LEMMA WorkerGoes ==
    ASSUME PosInv, NEW w \in Workers, NEW c \in Cycles, Goes(w, c), UNCHANGED <<pos, books>>,
           \/ lapses' = lapses
           \/ Incident({})
           \/ \E late \in SUBSET SellIds : lapses' = [lapses EXCEPT !.late = @ \cup late]
    PROVE  /\ PosTyped' /\ ImportStands' /\ MarkStands' /\ Grows
           /\ Listed' = Listed /\ \A s : Passed(s) => Passed(s)'
           /\ cycle'[w] = c /\ \A v \in Workers : v # w => CycleStands(v)'
<1>1. /\ cycle'[w] = c /\ cycle' \in [Workers -> Cycles]
      /\ \A v \in Workers : v # w => cycle'[v] = cycle[v]
  BY DEF Goes, PosInv, PosTyped
<1>2. /\ lapses' \in Lapses /\ lapses.late \subseteq lapses'.late
      /\ lapses'.unknown = lapses.unknown /\ lapses'.undone = lapses.undone
  <2>1. lapses \in Lapses
    BY DEF PosInv, PosTyped
  <2>2. CASE lapses' = lapses
    BY <2>1, <2>2
  <2>3. CASE Incident({})
    <3>1. lapses' \in Lapses /\ lapses'.late = lapses.late /\ lapses'.unknown = lapses.unknown
          /\ lapses'.undone = lapses.undone \cup {}
      BY <2>3, IncidentCounts
    <3>2. lapses.undone \cup {} = lapses.undone
      OBVIOUS
    <3>3. QED
      BY <3>1, <3>2
  <2>4. ASSUME NEW late \in SUBSET SellIds, lapses' = [lapses EXCEPT !.late = @ \cup late]
        PROVE  /\ lapses' \in Lapses /\ lapses.late \subseteq lapses'.late
               /\ lapses'.unknown = lapses.unknown /\ lapses'.undone = lapses.undone
    BY <2>1, <2>4 DEF Lapses
  <2>5. QED
    BY <2>2, <2>3, <2>4
<1>3. PosTyped'
  BY <1>1, <1>2 DEF PosInv, PosTyped
<1>4. Listed' = Listed
  BY DEF Listed, PosRows
<1>5. \A s : Passed(s) => Passed(s)'
  BY <1>2 DEF Passed, Excused
<1>6. Grows
  BY <1>2, <1>4, <1>5 DEF Grows
<1>7. ImportStands'
  BY DEF PosInv, ImportStands
<1>8. MarkStands'
  BY <1>6, MarkStays
<1>9. \A v \in Workers : v # w => CycleStands(v)'
  BY <1>1, <1>6, CycleStays
<1>10. QED
  BY <1>1, <1>2, <1>3, <1>4, <1>5, <1>6, <1>7, <1>8, <1>9

LEMMA AsleepStands ==
    ASSUME NEW w \in Workers, cycle'[w] = Asleep
    PROVE  CycleStands(w)'
<1>1. cycle'[w].at = "asleep" /\ cycle'[w].saved["sells"] = Absent
  BY DEF Asleep, Listings
<1>2. QED
  BY <1>1 DEF CycleStands

LEMMA AsleepIsCycle == Asleep \in Cycles
BY DEF Asleep, Cycles, Stages, Listings, Marked

\* A cycle that fails has read and written nothing.
LEMMA FailureKeeps ==
    ASSUME PosInv, NEW w \in Workers, CycleFails(w), lapses' = lapses \/ Incident({})
    PROVE  PosInv'
<1>1. Goes(w, Asleep) /\ UNCHANGED <<pos, books>>
  BY DEF CycleFails, Dropped, Goes
<1>2. /\ PosTyped' /\ ImportStands' /\ MarkStands' /\ cycle'[w] = Asleep
      /\ \A v \in Workers : v # w => CycleStands(v)'
  BY <1>1, AsleepIsCycle, WorkerGoes
<1>3. CycleStands(w)'
  BY <1>2, AsleepStands
<1>4. QED
  BY <1>2, <1>3 DEF PosInv

\* The watermark a cycle has read, and the listing it fetches.
LEMMA FetchKeeps ==
    ASSUME PosInv, NEW w \in Workers, Fetch(w)
    PROVE  PosInv'
<1>1. PICK which \in Listings :
         /\ \/ which = "sells" /\ Stands(w, "asleep")
            \/ which = "purchases" /\ Stands(w, "sells saved")
         /\ \/ Receives(w, which, {}) /\ Incident({})
            \/ \E page \in Pages(which) :
                  /\ Receives(w, which, page)
                  /\ lapses' = [lapses EXCEPT !.late = @ \cup Overtaken(which, page)]
  BY DEF Fetch
<1>0. PICK listing \in SUBSET PosRows(which) :
         /\ Receives(w, which, listing)
         /\ \/ listing = {} /\ Incident({})
            \/ lapses' = [lapses EXCEPT !.late = lapses.late \cup Overtaken(which, listing)]
  BY <1>1 DEF Pages, kSubset
<1> DEFINE mark == IF books.mark[which] = Absent THEN 0 ELSE books.mark[which]
           c == [cycle[w] EXCEPT !.at = "store", !.kind = which, !.listing = listing, !.mark = mark]
<1>2. cycle[w] \in Cycles /\ CycleStands(w) /\ MarkStands
  BY DEF PosInv, PosTyped
<1>3. mark \in Nat /\ listing \subseteq SellIds \cup PurchaseIds
  BY <1>2 DEF PosInv, PosTyped, Books, Marked, PosRows
<1>4. which = "sells" => listing \subseteq Listed
  BY DEF Listed
<1>5. which = "sells" => \/ mark = 0
                         \/ mark \in Listed /\ \A s \in Listed : s <= mark => Passed(s)
  BY <1>2 DEF MarkStands
<1> HIDE DEF mark
<1>6. c \in Cycles
  BY <1>2, <1>3 DEF Cycles, Stages
<1>7. /\ c.at = "store" /\ c.kind = which /\ c.mark = mark /\ c.listing = listing
      /\ c.rows = cycle[w].rows /\ c.unknown = cycle[w].unknown /\ c.saved = cycle[w].saved
  BY <1>2 DEF Cycles
<1>8. Goes(w, c)
  BY <1>0 DEF mark, Receives
<1> HIDE DEF c
<1>9. UNCHANGED <<pos, books>>
  BY DEF Fetch
<1>10. /\ PosTyped' /\ ImportStands' /\ MarkStands' /\ Grows
       /\ Listed' = Listed /\ \A s : Passed(s) => Passed(s)'
       /\ cycle'[w] = c /\ \A v \in Workers : v # w => CycleStands(v)'
  <2>1. Overtaken(which, listing) \subseteq SellIds
    BY DEF Overtaken, PosRows
  <2>2. \/ Incident({})
        \/ \E late \in SUBSET SellIds : lapses' = [lapses EXCEPT !.late = @ \cup late]
    BY <1>0, <2>1
  <2>3. QED
    BY <1>6, <1>8, <1>9, <2>2, WorkerGoes
<1>11. CycleStands(w)'
  <2>1. CASE which = "sells"
    <3>1. cycle[w].saved["sells"] = Absent
      BY <1>1, <1>2, <2>1 DEF Stands, CycleStands
    <3>2. \A s \in Listed : s <= mark => Passed(s)
      <4>1. \A s \in Listed : ~(s <= 0)
        BY ListedAreIds
      <4>2. QED
        BY <1>5, <2>1, <4>1
    <3>3. ASSUME NEW s \in Listed \ listing, NEW t \in listing, s < t PROVE Passed(s)'
      <4>1. CASE books.rows[s] = 0
        <5>1. lapses' = [lapses EXCEPT !.late = lapses.late \cup Overtaken(which, listing)]
          BY <1>0
        <5>2. s \in Overtaken(which, listing)
          <6>1. s \in Nat /\ t \in Nat
            BY <1>4, <2>1, ListedAreIds
          <6>2. t > s
            BY <3>3, <6>1
          <6>3. QED
            BY <2>1, <4>1, <6>2 DEF Overtaken, Listed
        <5>3. lapses \in Lapses
          BY DEF PosInv, PosTyped
        <5>4. s \in lapses'.late
          BY <5>1, <5>2, <5>3 DEF Lapses
        <5>5. QED
          BY <5>4, LatePassed
      <4>2. CASE books.rows[s] # 0
        <5>1. books.rows[s] \in Nat
          BY ListedAreIds DEF PosInv, PosTyped, Books
        <5>2. Passed(s)
          BY <4>2, <5>1 DEF Passed
        <5>3. QED
          BY <1>10, <5>2
      <4>3. QED
        BY <4>1, <4>2
    <3>4. QED
      BY <1>4, <1>5, <1>7, <1>10, <2>1, <3>1, <3>2, <3>3 DEF CycleStands
  <2>2. CASE which = "purchases"
    <3>1. \A m : Reaches(w, m) => Reaches(w, m)'
      BY <1>7, <1>10 DEF Reaches
    <3>2. listing \subseteq PurchaseIds
      BY <2>2 DEF PosRows
    <3>3. QED
      <4>1. cycle'[w].saved["sells"] # Absent => Reaches(w, cycle[w].saved["sells"])'
        BY <1>2, <1>7, <1>10, <3>1 DEF CycleStands
      <4>2. QED
        BY <1>7, <1>10, <2>2, <3>2, <4>1 DEF CycleStands
  <2>3. QED
    BY <1>1, <2>1, <2>2
<1>12. QED
  BY <1>10, <1>11 DEF PosInv

\* The mark after the rows of a listing that lie above the one that was read.
LEMMA TopOfNew ==
    ASSUME PosInv, NEW w \in Workers
    PROVE  /\ Stored(w) \in Cycles
           /\ Stored(w).at = "save" /\ Stored(w).kind = cycle[w].kind
           /\ Stored(w).rows = cycle[w].rows /\ Stored(w).unknown = cycle[w].unknown
           /\ Stored(w).saved = cycle[w].saved
           /\ Stored(w).save # "nothing" => Stored(w).top \in New(w)
           /\ \A i \in New(w) : i <= Stored(w).top
<1> DEFINE c == cycle[w]
           seen == New(w) \cup {c.mark}
<1>1. c \in Cycles
  BY DEF PosInv, PosTyped
<1>2. /\ c.mark \in Nat /\ New(w) \subseteq SellIds \cup PurchaseIds
      /\ \A i \in New(w) : i > c.mark
  BY <1>1 DEF Cycles, New
<1>3. SellIds \subseteq Nat /\ PurchaseIds \subseteq Nat
  BY DEF SellIds, PurchaseIds
<1>4. IsFiniteSet(New(w)) /\ IsFiniteSet(seen)
  <2>1. IsFiniteSet(SellIds) /\ IsFiniteSet(PurchaseIds)
    BY PosAssumption, FS_Interval DEF SellIds, PurchaseIds
  <2>2. IsFiniteSet(SellIds \cup PurchaseIds)
    BY <2>1, FS_Union
  <2>3. IsFiniteSet(New(w))
    BY <1>2, <2>2, FS_Subset
  <2>4. QED
    BY <2>3, FS_AddElement
<1>5. seen # {} /\ \A i \in seen : i \in Nat
  BY <1>2, <1>3
<1>6. Max(seen) \in seen /\ \A i \in seen : i <= Max(seen)
  <2>1. \A i \in seen : i \in Int
    BY <1>5
  <2> HIDE DEF seen
  <2>2. \E x \in seen : \A y \in seen : y <= x
    BY <1>4, <1>5, <2>1, GreatestIn
  <2>3. \E x \in seen : \A y \in seen : x >= y
    BY <1>5, <2>2
  <2>4. Max(seen) \in seen /\ \A y \in seen : Max(seen) >= y
    BY <2>3 DEF Max
  <2>5. QED
    BY <1>5, <2>4
<1> DEFINE top == Max(seen)
           save == IF New(w) = {} THEN "nothing" ELSE "row"
<1>7. top \in Nat /\ (New(w) # {} => top \in New(w)) /\ \A i \in New(w) : i <= top
  <2>1. top \in Nat /\ \A i \in New(w) : i <= top
    BY <1>5, <1>6
  <2>2. ASSUME NEW i \in New(w) PROVE top # c.mark
    <3>1. i \in Nat /\ c.mark \in Nat /\ top \in Nat
      BY <1>2, <1>3, <2>1
    <3>2. i > c.mark /\ i <= top
      BY <1>2, <2>1
    <3> HIDE DEF top, c
    <3>3. QED
      BY <3>1, <3>2
  <2>3. QED
    BY <1>6, <2>1, <2>2
<1>8. save \in {"nothing", "row"} /\ (save # "nothing" => New(w) # {})
  OBVIOUS
<1>9. Stored(w) = [c EXCEPT !.at = "save", !.listing = {}, !.mark = 0, !.top = top, !.save = save]
  BY DEF Stored
<1> HIDE DEF c, seen, top, save
<1>10. Stored(w) \in Cycles
  <2>1. top \in Nat /\ save \in {"nothing", "row", "insert", "update"} /\ "save" \in Stages
        /\ {} \subseteq SellIds \cup PurchaseIds /\ 0 \in Nat
    BY <1>7, <1>8 DEF Stages
  <2>2. QED
    BY <1>1, <1>9, <2>1 DEF Cycles
<1>11. /\ Stored(w).at = "save" /\ Stored(w).top = top /\ Stored(w).save = save
       /\ Stored(w).kind = c.kind /\ Stored(w).rows = c.rows
       /\ Stored(w).unknown = c.unknown /\ Stored(w).saved = c.saved
  BY <1>1, <1>9 DEF Cycles
<1>12. QED
  BY <1>7, <1>8, <1>10, <1>11 DEF c

LEMMA StoreSellsKeeps ==
    ASSUME PosInv, NEW w \in Workers, StoreSells(w)
    PROVE  PosInv'
<1> DEFINE inserted == Unstored(w)
           known == Sellable(w)
           unknown == inserted \ known
           c == [Stored(w) EXCEPT !.rows = known, !.unknown = unknown]
<1>0. CASE CycleFails(w) /\ UNCHANGED lapses
  BY <1>0, FailureKeeps
<1> SUFFICES ASSUME Goes(w, c), UNCHANGED <<pos, books, lapses>> PROVE PosInv'
  BY <1>0 DEF StoreSells
<1>1. /\ cycle[w].at = "store" /\ cycle[w].kind = "sells"
      /\ Goes(w, c) /\ UNCHANGED <<pos, books, lapses>>
  BY DEF StoreSells, Stands
<1>2. /\ cycle[w].saved["sells"] = Absent
      /\ cycle[w].listing \subseteq Listed
      /\ \A s \in Listed : s <= cycle[w].mark => Passed(s)
      /\ \A s \in Listed \ cycle[w].listing : \A t \in cycle[w].listing : s < t => Passed(s)
  BY <1>1 DEF PosInv, CycleStands
<1>3. New(w) \subseteq Listed /\ New(w) \subseteq cycle[w].listing
  BY <1>2 DEF New
<1>4. known \subseteq SellIds /\ unknown \subseteq SellIds /\ known \cup unknown = inserted
  BY <1>3, ListedAreIds DEF Unstored, Sellable
<1>5. \A s \in Listed : s \notin inserted /\ s \in New(w) => books.rows[s] > 0
  BY ListedAreIds DEF PosInv, PosTyped, Books, Unstored
<1> HIDE DEF known, unknown, inserted
<1>6. /\ c \in Cycles /\ c.at = "save" /\ c.kind = "sells" /\ c.rows = known /\ c.unknown = unknown
      /\ c.saved = cycle[w].saved /\ c.top = Stored(w).top /\ c.save = Stored(w).save
  BY <1>1, <1>4, TopOfNew DEF Cycles
<1> HIDE DEF c
<1>7. /\ PosTyped' /\ ImportStands' /\ MarkStands' /\ Grows
      /\ Listed' = Listed /\ \A s : Passed(s) => Passed(s)'
      /\ cycle'[w] = c /\ \A v \in Workers : v # w => CycleStands(v)'
  BY <1>1, <1>6, WorkerGoes
<1>8. ASSUME c.save # "nothing" PROVE Reaches(w, cycle[w].top)'
  <2>1. c.top \in New(w) /\ c.top \in Listed
    BY <1>3, <1>6, <1>8, TopOfNew
  <2>2. ASSUME NEW s \in Listed, s <= c.top PROVE Passed(s) \/ s \in inserted
    <3>1. CASE s \in cycle[w].listing
      <4>1. s <= cycle[w].mark \/ s \in New(w)
        <5>1. s \in Nat /\ cycle[w].mark \in Nat
          BY ListedAreIds DEF PosInv, PosTyped, Cycles
        <5>2. QED
          BY <3>1, <5>1 DEF New
      <4>2. QED
        BY <1>2, <1>5, <2>2, <4>1 DEF Passed
    <3>2. CASE s \notin cycle[w].listing
      <4>1. c.top \in cycle[w].listing /\ s # c.top
        BY <1>3, <2>1, <3>2
      <4>2. s \in Nat /\ c.top \in Nat
        BY <2>1, <2>2, ListedAreIds
      <4>3. s < c.top
        BY <2>2, <4>1, <4>2
      <4>4. QED
        BY <1>2, <2>2, <3>2, <4>1, <4>3
    <3>3. QED
      BY <3>1, <3>2
  <2>3. cycle'[w].rows \cup cycle'[w].unknown = inserted
    BY <1>4, <1>6, <1>7
  <2>4. \A s \in Listed' : s <= c.top => Passed(s)' \/ s \in cycle'[w].rows \cup cycle'[w].unknown
    BY <1>7, <2>2, <2>3
  <2>5. c.top \in Listed'
    BY <1>7, <2>1
  <2>6. QED
    BY <1>7, <2>4, <2>5 DEF Reaches
<1>9. CycleStands(w)'
  <2>1. /\ cycle'[w].at = "save" /\ cycle'[w].kind = "sells" /\ cycle'[w].saved["sells"] = Absent
        /\ cycle'[w].save # "nothing" => Reaches(w, cycle[w].top)'
    BY <1>2, <1>6, <1>7, <1>8
  <2>2. QED
    BY <2>1 DEF CycleStands
<1>10. QED
  BY <1>7, <1>9 DEF PosInv

LEMMA StorePurchasesKeeps ==
    ASSUME PosInv, NEW w \in Workers, StorePurchases(w)
    PROVE  PosInv'
<1>0. CASE CycleFails(w) /\ UNCHANGED lapses
  BY <1>0, FailureKeeps
<1> DEFINE c == [Stored(w) EXCEPT !.orders = InsertedOrders(w)]
<1>1. SUFFICES ASSUME Goes(w, c), UNCHANGED <<pos, books, lapses>> PROVE PosInv'
  BY <1>0 DEF StorePurchases
<1>2. cycle[w].at = "store" /\ cycle[w].kind = "purchases" /\ cycle[w] \in Cycles /\ CycleStands(w)
  BY DEF StorePurchases, Stands, PosInv, PosTyped
<1>3. New(w) \subseteq PurchaseIds
  BY <1>2 DEF CycleStands, New
<1>4. InsertedOrders(w) \subseteq Bookings
  <2>1. \A p \in New(w) : pos.purchases[p] \in Numbers \cup {Absent}
    BY <1>3 DEF PosInv, PosTyped, Tills
  <2>2. QED
    BY <1>3, <2>1 DEF InsertedOrders, Bookings
<1> HIDE DEF c
<1>5. c = [Stored(w) EXCEPT !.orders = InsertedOrders(w)]
  BY DEF c
<1>6. c \in Cycles
  BY <1>4, <1>5, TopOfNew DEF Cycles
<1>7. /\ c.at = "save" /\ c.kind = "purchases" /\ c.rows = cycle[w].rows
      /\ c.unknown = cycle[w].unknown /\ c.saved = cycle[w].saved
  BY <1>2, <1>5, TopOfNew DEF Cycles
<1>8. /\ PosTyped' /\ ImportStands' /\ MarkStands' /\ Grows
      /\ Listed' = Listed /\ \A s : Passed(s) => Passed(s)'
      /\ cycle'[w] = c /\ \A v \in Workers : v # w => CycleStands(v)'
  BY <1>1, <1>6, WorkerGoes
<1>9. \A m : Reaches(w, m) => Reaches(w, m)'
  BY <1>7, <1>8 DEF Reaches
<1>10. CycleStands(w)'
  <2>1. cycle'[w].saved["sells"] # Absent => Reaches(w, cycle[w].saved["sells"])'
    BY <1>2, <1>7, <1>8, <1>9 DEF CycleStands
  <2>2. QED
    BY <1>7, <1>8, <2>1 DEF CycleStands
<1>11. QED
  BY <1>8, <1>10 DEF PosInv

\* What is found of the watermark's row decides how it is written, not what.
LEMMA ReadMarkKeeps ==
    ASSUME PosInv, NEW w \in Workers, ReadMark(w)
    PROVE  PosInv'
<1> DEFINE save == IF books.mark[cycle[w].kind] = Absent THEN "insert" ELSE "update"
           c == [cycle[w] EXCEPT !.save = save]
<1>1. /\ cycle[w].at = "save" /\ cycle[w].save = "row" /\ cycle[w] \in Cycles /\ CycleStands(w)
      /\ Goes(w, c) /\ UNCHANGED <<pos, books, lapses>>
  BY DEF ReadMark, Stands, PosInv, PosTyped
<1>2. save \in {"insert", "update"}
  OBVIOUS
<1> HIDE DEF save
<1>3. /\ c \in Cycles /\ c.at = "save" /\ c.kind = cycle[w].kind /\ c.top = cycle[w].top
      /\ c.rows = cycle[w].rows /\ c.unknown = cycle[w].unknown /\ c.saved = cycle[w].saved
  BY <1>1, <1>2 DEF Cycles
<1> HIDE DEF c
<1>4. /\ PosTyped' /\ ImportStands' /\ MarkStands' /\ Grows
      /\ Listed' = Listed /\ \A s : Passed(s) => Passed(s)'
      /\ cycle'[w] = c /\ \A v \in Workers : v # w => CycleStands(v)'
  BY <1>1, <1>3, WorkerGoes
<1>5. \A m : Reaches(w, m) => Reaches(w, m)'
  BY <1>3, <1>4 DEF Reaches
<1>6. CycleStands(w)'
  <2>1. cycle'[w].saved["sells"] # Absent => Reaches(w, cycle[w].saved["sells"])'
    BY <1>1, <1>3, <1>4, <1>5 DEF CycleStands
  <2>2. cycle[w].kind = "sells" => cycle[w].saved["sells"] = Absent /\ Reaches(w, cycle[w].top)'
    BY <1>1, <1>3, <1>4, <1>5 DEF CycleStands
  <2>3. QED
    BY <1>3, <1>4, <2>1, <2>2 DEF CycleStands
<1>7. QED
  BY <1>4, <1>6 DEF PosInv

\* The watermark of the sells becomes one the cycle is going to save.
LEMMA SaveMarkKeeps ==
    ASSUME PosInv, NEW w \in Workers, SaveMark(w)
    PROVE  PosInv'
<1> DEFINE c == [cycle[w] EXCEPT !.at = "sells saved", !.top = 0, !.save = "nothing",
                                 !.saved = Marks(w)]
<1>1. /\ cycle[w].at = "save" /\ cycle[w].kind = "sells" /\ cycle[w] \in Cycles
      /\ Goes(w, c) /\ UNCHANGED <<pos, books, lapses>>
  BY DEF SaveMark, Stands, PosInv, PosTyped
<1>2. /\ cycle[w].saved["sells"] = Absent
      /\ cycle[w].save # "nothing" => Reaches(w, cycle[w].top)
  BY <1>1 DEF PosInv, CycleStands
<1>3. Marks(w) \in [Listings -> Marked]
  BY <1>1 DEF Marks, Cycles, Marked
<1>4. Marks(w)["sells"] # Absent => Reaches(w, Marks(w)["sells"])
  BY <1>1, <1>2 DEF Marks, Cycles, Listings
<1> HIDE DEF c
<1>5. c = [cycle[w] EXCEPT !.at = "sells saved", !.top = 0, !.save = "nothing", !.saved = Marks(w)]
  BY DEF c
<1>6. c \in Cycles
  BY <1>1, <1>3, <1>5 DEF Cycles, Stages
<1>7. /\ c.at = "sells saved" /\ c.rows = cycle[w].rows /\ c.unknown = cycle[w].unknown
      /\ c.saved = Marks(w)
  BY <1>1, <1>5 DEF Cycles
<1>8. /\ PosTyped' /\ ImportStands' /\ MarkStands' /\ Grows
      /\ Listed' = Listed /\ \A s : Passed(s) => Passed(s)'
      /\ cycle'[w] = c /\ \A v \in Workers : v # w => CycleStands(v)'
  BY <1>1, <1>6, WorkerGoes
<1>9. cycle'[w].saved["sells"] # Absent => Reaches(w, cycle[w].saved["sells"])'
  BY <1>4, <1>7, <1>8 DEF Reaches
<1>10. CycleStands(w)'
  BY <1>7, <1>8, <1>9 DEF CycleStands
<1>11. QED
  BY <1>8, <1>10 DEF PosInv

\* A step that changes the rows of the shop and the lapses, and no cycle but w's.
LEMMA GrowthKeeps ==
    ASSUME PosInv, Grows, PosTyped', ImportStands', UNCHANGED cycle,
           books'.mark["sells"] = books.mark["sells"]
    PROVE  PosInv'
<1>1. MarkStands'
  BY MarkStays
<1>2. \A v \in Workers : CycleStands(v)'
  BY CycleStays
<1>3. QED
  BY <1>1, <1>2 DEF PosInv

\* The one commit of a cycle.
LEMMA EndCycleKeeps ==
    ASSUME PosInv, NEW w \in Workers, EndCycle(w)
    PROVE  PosInv'
<1> DEFINE rows == [s \in SellIds |-> IF s \in cycle[w].rows THEN books.rows[s] + 1 ELSE books.rows[s]]
           orders == books.orders \cup cycle[w].orders
           mark == [k \in Listings |-> IF Marks(w)[k] = Absent THEN books.mark[k] ELSE Marks(w)[k]]
<1>1. /\ cycle[w].at = "save" /\ cycle[w].kind = "purchases"
      /\ books' = [books EXCEPT !.rows = rows, !.orders = orders, !.mark = mark]
      /\ lapses' = [lapses EXCEPT !.unknown = @ \cup cycle[w].unknown]
      /\ cycle' = [cycle EXCEPT ![w] = Asleep] /\ pos' = pos
  BY DEF EndCycle, Stands, Dropped
<1>2. /\ books \in Books /\ lapses \in Lapses /\ cycle[w] \in Cycles /\ cycle \in [Workers -> Cycles]
      /\ CycleStands(w)
  BY DEF PosInv, PosTyped
<1>3. rows \in [SellIds -> Nat] /\ \A s \in SellIds : rows[s] >= books.rows[s]
  BY <1>2 DEF Books
<1>4. \A s \in cycle[w].rows : s \in SellIds /\ rows[s] > 0
  BY <1>2 DEF Books, Cycles
<1>5. Marks(w) \in [Listings -> Marked] /\ Marks(w)["sells"] = cycle[w].saved["sells"]
  BY <1>1, <1>2 DEF Marks, Cycles, Marked, Listings
<1>6. /\ mark \in [Listings -> Marked]
      /\ mark["sells"] = IF cycle[w].saved["sells"] = Absent THEN books.mark["sells"]
                         ELSE cycle[w].saved["sells"]
  BY <1>2, <1>5 DEF Books, Listings
<1>7. orders \subseteq Bookings
  BY <1>2 DEF Books, Cycles
<1> HIDE DEF rows, orders, mark
<1>8. /\ books' \in Books /\ books'.rows = rows /\ books'.mark = mark
      /\ books'.imported = books.imported /\ books'.jobs = books.jobs
  BY <1>1, <1>2, <1>3, <1>6, <1>7 DEF Books
<1>9. /\ lapses' \in Lapses /\ lapses'.late = lapses.late /\ lapses'.undone = lapses.undone
      /\ lapses'.unknown = lapses.unknown \cup cycle[w].unknown
  BY <1>1, <1>2 DEF Lapses, Cycles
<1>10. /\ cycle' \in [Workers -> Cycles] /\ cycle'[w] = Asleep
       /\ \A v \in Workers : v # w => cycle'[v] = cycle[v]
  BY <1>1, <1>2, AsleepIsCycle
<1>11. PosTyped'
  BY <1>1, <1>8, <1>9, <1>10 DEF PosInv, PosTyped
<1>12. Listed' = Listed
  BY <1>1 DEF Listed, PosRows
<1>13. /\ \A s \in Listed : Passed(s) => Passed(s)'
       /\ \A s \in cycle[w].rows \cup cycle[w].unknown : Passed(s)'
  <2>1. \A s \in SellIds : books.rows[s] \in Nat /\ rows[s] \in Nat
    BY <1>2, <1>3 DEF Books
  <2>2. \A s \in Listed : books.rows[s] > 0 => rows[s] > 0
    BY <1>3, <2>1, ListedAreIds
  <2>3. Excused \subseteq Excused' /\ cycle[w].unknown \subseteq Excused'
    BY <1>9 DEF Excused
  <2>4. QED
    BY <1>4, <1>8, <2>2, <2>3 DEF Passed
<1>14. Grows
  BY <1>9, <1>12, <1>13 DEF Grows
<1>15. ImportStands'
  <2>1. \A s \in books.imported : s \in SellIds /\ books.rows[s] \in Nat /\ rows[s] \in Nat
    BY <1>2, <1>3 DEF Books
  <2>2. \A s \in books.imported : rows[s] > 0
    BY <1>3, <2>1 DEF PosInv, ImportStands
  <2>3. QED
    BY <1>8, <2>2 DEF PosInv, ImportStands
<1>16. MarkStands'
  <2>1. CASE cycle[w].saved["sells"] = Absent
    <3>1. books'.mark["sells"] = books.mark["sells"]
      BY <1>6, <1>8, <2>1
    <3>2. QED
      BY <1>14, <3>1, MarkStays
  <2>2. CASE cycle[w].saved["sells"] # Absent
    <3>1. Reaches(w, cycle[w].saved["sells"]) /\ books'.mark["sells"] = cycle[w].saved["sells"]
      BY <1>2, <1>6, <1>8, <2>2 DEF CycleStands
    <3> DEFINE m == cycle[w].saved["sells"]
    <3> HIDE DEF m
    <3>2. /\ m \in Listed
          /\ \A s \in Listed : s <= m => Passed(s) \/ s \in cycle[w].rows \cup cycle[w].unknown
      BY <3>1 DEF Reaches, m
    <3>3. m \in Listed' /\ \A s \in Listed' : s <= m => Passed(s)'
      BY <1>12, <1>13, <3>2
    <3>4. QED
      BY <3>1, <3>3 DEF MarkStands, m
  <2>3. QED
    BY <2>1, <2>2
<1>17. \A v \in Workers : CycleStands(v)'
  <2>1. CycleStands(w)'
    BY <1>10, AsleepStands
  <2>2. ASSUME NEW v \in Workers, v # w PROVE CycleStands(v)'
    BY <1>10, <1>14, <2>2, CycleStays
  <2>3. QED
    BY <2>1, <2>2
<1>18. QED
  BY <1>11, <1>15, <1>16, <1>17 DEF PosInv

LEMMA FinaliseKeeps ==
    ASSUME PosInv, NEW s \in SellIds, NEW product \in Goods, NEW bad \in BOOLEAN,
           Finalise(s, product, bad)
    PROVE  PosInv'
<1> DEFINE sells == [pos.sells EXCEPT ![s] = product]
           garbled == IF bad THEN pos.garbled \cup {s} ELSE pos.garbled
           late == IF \E t \in Listed : t > s THEN lapses.late \cup {s} ELSE lapses.late
           incidents == IF bad THEN lapses.incidents + 1 ELSE lapses.incidents
<1>1. /\ pos.sells[s] = Absent /\ pos' = [pos EXCEPT !.sells = sells, !.garbled = garbled]
      /\ lapses' = [lapses EXCEPT !.late = late, !.incidents = incidents]
      /\ UNCHANGED <<books, cycle>>
  BY DEF Finalise, Listed
<1>2. pos \in Tills /\ lapses \in Lapses
  BY DEF PosInv, PosTyped
<1>3. /\ sells \in [SellIds -> Goods \cup {Absent}]
      /\ \A t \in SellIds : t # s => sells[t] = pos.sells[t]
      /\ garbled \subseteq SellIds
  BY <1>2 DEF Tills
<1>4. pos' \in Tills /\ pos'.sells = sells
  <2> HIDE DEF sells, garbled
  <2>1. QED
    BY <1>1, <1>2, <1>3 DEF Tills
<1>5. Listed \subseteq Listed' /\ Listed' \subseteq Listed \cup {s}
  <2> HIDE DEF sells
  <2>1. QED
    BY <1>1, <1>3, <1>4 DEF Listed, PosRows
<1>6. /\ lapses' \in Lapses /\ lapses.late \subseteq lapses'.late
      /\ lapses'.unknown = lapses.unknown /\ lapses'.undone = lapses.undone
      /\ (\E t \in Listed : t > s) => s \in lapses'.late
  <2>1. /\ late \in SUBSET SellIds /\ lapses.late \subseteq late
        /\ (\E t \in Listed : t > s) => s \in late
        /\ incidents \in Nat
    BY <1>2 DEF Lapses
  <2> HIDE DEF late, incidents
  <2>2. QED
    BY <1>1, <1>2, <2>1 DEF Lapses
<1> HIDE DEF sells, garbled, late, incidents
<1>7. \A t \in Listed : Passed(t) => Passed(t)'
  BY <1>1, <1>6 DEF Passed, Excused
<1>8. \A r \in Listed' \ Listed : \A t \in Listed : r < t => r \in lapses'.late
  <2>1. ASSUME NEW r \in Listed' \ Listed, NEW t \in Listed, r < t PROVE r \in lapses'.late
    <3>1. r = s /\ s \in Nat /\ t \in Nat
      BY <1>5, ListedAreIds
    <3>2. t > s
      BY <2>1, <3>1
    <3>3. QED
      BY <1>6, <3>1, <3>2
  <2>2. QED
    BY <2>1
<1>9. Grows
  BY <1>5, <1>6, <1>7, <1>8 DEF Grows
<1>10. PosTyped'
  BY <1>1, <1>4, <1>6 DEF PosInv, PosTyped
<1>11. ImportStands' /\ books'.mark["sells"] = books.mark["sells"]
  BY <1>1 DEF PosInv, ImportStands
<1>12. QED
  BY <1>1, <1>9, <1>10, <1>11, GrowthKeeps

\* A step that takes no sell away, lists none and leaves the lapses but for their
\* count.
LEMMA ShopKeeps ==
    ASSUME PosInv, PosTyped', Listed' = Listed, ImportStands', UNCHANGED cycle,
           lapses'.late = lapses.late, books'.mark = books.mark,
           \A s \in Listed : Passed(s) => Passed(s)'
    PROVE  PosInv'
<1>1. Grows
  BY DEF Grows
<1>2. QED
  BY <1>1, GrowthKeeps

LEMMA WorldKeeps ==
    ASSUME PosInv, World
    PROVE  PosInv'
<1> DEFINE S == books.rows
<1>0. /\ pos \in Tills
      /\ books \in Books /\ cycle \in [Workers -> Cycles] /\ lapses \in Lapses
      /\ ImportStands
  BY DEF PosInv, PosTyped
<1>1. ASSUME NEW s \in SellIds, NEW product \in Goods, NEW garbled \in BOOLEAN,
             Finalise(s, product, garbled)
      PROVE  PosInv'
  BY <1>1, FinaliseKeeps
<1>2. ASSUME NEW p \in PurchaseIds, NEW number \in Numbers, Buy(p, number)
      PROVE  PosInv'
  <2>1. /\ pos' = [pos EXCEPT !.purchases = [pos.purchases EXCEPT ![p] = number]]
        /\ UNCHANGED <<books, cycle, lapses>>
    BY <1>2 DEF Buy
  <2>2. pos'.sells = pos.sells /\ pos' \in Tills
    BY <1>0, <2>1 DEF Tills
  <2>3. Listed' = Listed
    BY <2>2 DEF Listed, PosRows
  <2>4. PosTyped' /\ ImportStands' /\ \A s : Passed(s) => Passed(s)'
    BY <1>0, <2>1, <2>2 DEF PosTyped, ImportStands, Passed, Excused
  <2>5. QED
    BY <2>1, <2>3, <2>4, ShopKeeps
<1>3. ASSUME NEW name \in Goods, NameProduct(name)
      PROVE  PosInv'
  <2>1. /\ books' = [books EXCEPT !.names = @ \cup {name}] /\ Incident({})
        /\ UNCHANGED <<pos, cycle>>
    BY <1>3 DEF NameProduct
  <2>2. /\ books' \in Books /\ books'.rows = S /\ books'.imported = books.imported
        /\ books'.jobs = books.jobs /\ books'.mark = books.mark
    BY <1>0, <2>1 DEF Books
  <2>3. /\ lapses' \in Lapses /\ lapses'.late = lapses.late /\ lapses'.unknown = lapses.unknown
        /\ lapses'.undone = lapses.undone
    BY <2>1, IncidentCounts
  <2>4. PosTyped' /\ ImportStands' /\ \A s : Passed(s) => Passed(s)'
    BY <1>0, <2>1, <2>2, <2>3 DEF PosTyped, ImportStands, Passed, Excused
  <2>5. Listed' = Listed
    BY <2>1 DEF Listed, PosRows
  <2>6. QED
    BY <2>1, <2>2, <2>3, <2>4, <2>5, ShopKeeps
<1>4. ASSUME NEW number \in Numbers, TakeNumber(number)
      PROVE  PosInv'
  <2>1. /\ books' = [books EXCEPT !.orders = @ \cup {[pos |-> Absent, number |-> number]}]
        /\ Incident({}) /\ UNCHANGED <<pos, cycle>>
    BY <1>4 DEF TakeNumber
  <2>2. [pos |-> Absent, number |-> number] \in Bookings
    BY DEF Bookings
  <2>3. /\ books' \in Books /\ books'.rows = S /\ books'.imported = books.imported
        /\ books'.jobs = books.jobs /\ books'.mark = books.mark
    BY <1>0, <2>1, <2>2 DEF Books
  <2>4. /\ lapses' \in Lapses /\ lapses'.late = lapses.late /\ lapses'.unknown = lapses.unknown
        /\ lapses'.undone = lapses.undone
    BY <2>1, IncidentCounts
  <2>5. PosTyped' /\ ImportStands' /\ \A s : Passed(s) => Passed(s)'
    BY <1>0, <2>1, <2>3, <2>4 DEF PosTyped, ImportStands, Passed, Excused
  <2>6. Listed' = Listed
    BY <2>1 DEF Listed, PosRows
  <2>7. QED
    BY <2>1, <2>3, <2>4, <2>5, <2>6, ShopKeeps
<1>5. ASSUME ImportSells
      PROVE  PosInv'
  <2> DEFINE rows == [s \in SellIds |-> IF s \in Listed THEN S[s] + 1 ELSE S[s]]
  <2>1. /\ books' = [books EXCEPT !.jobs = TRUE, !.imported = Listed, !.rows = rows]
        /\ Incident({}) /\ UNCHANGED <<pos, cycle>>
    BY <1>5 DEF ImportSells, Listed
  <2>2. /\ rows \in [SellIds -> Nat] /\ \A s \in Listed : rows[s] > 0
    BY <1>0, ListedAreIds DEF Books
  <2> HIDE DEF rows
  <2>3. /\ books' \in Books /\ books'.rows = rows /\ books'.imported = Listed
        /\ books'.jobs /\ books'.mark = books.mark
    BY <1>0, <2>1, <2>2, ListedAreIds DEF Books
  <2>4. /\ lapses' \in Lapses /\ lapses'.late = lapses.late /\ lapses'.unknown = lapses.unknown
        /\ lapses'.undone = lapses.undone
    BY <2>1, IncidentCounts
  <2>5. PosTyped'
    BY <1>0, <2>1, <2>3, <2>4 DEF PosTyped
  <2>6. ImportStands' /\ \A s \in Listed : Passed(s)'
    BY <2>2, <2>3 DEF ImportStands, Passed
  <2>7. Listed' = Listed
    BY <2>1 DEF Listed, PosRows
  <2>8. QED
    BY <2>1, <2>3, <2>4, <2>5, <2>6, <2>7, ShopKeeps
<1>6. ASSUME RollBackImport
      PROVE  PosInv'
  <2> DEFINE rows == [s \in SellIds |-> IF s \in books.imported THEN S[s] - 1 ELSE S[s]]
  <2>1. /\ books' = [books EXCEPT !.imported = {}, !.rows = rows]
        /\ lapses' = [lapses EXCEPT !.undone = lapses.undone \cup books.imported]
        /\ UNCHANGED <<pos, cycle>>
    BY <1>6 DEF RollBackImport
  <2>2. /\ S \in [SellIds -> Nat] /\ books.imported \subseteq SellIds
        /\ \A s \in books.imported : S[s] > 0
    BY <1>0 DEF ImportStands, Books
  <2>3. rows \in [SellIds -> Nat] /\ \A s \in SellIds \ books.imported : rows[s] = S[s]
    BY <2>2
  <2> HIDE DEF rows
  <2>4. /\ books' \in Books /\ books'.rows = rows /\ books'.imported = {}
        /\ books'.mark = books.mark
    BY <1>0, <2>1, <2>3 DEF Books
  <2>5. /\ lapses' \in Lapses /\ lapses'.late = lapses.late /\ lapses'.unknown = lapses.unknown
        /\ lapses'.undone = lapses.undone \cup books.imported
    BY <1>0, <2>1, <2>2 DEF Lapses
  <2>6. PosTyped' /\ ImportStands'
    BY <1>0, <2>1, <2>4, <2>5 DEF PosTyped, ImportStands
  <2>7. \A s \in Listed : Passed(s) => Passed(s)'
    <3>1. \A s \in Listed : s \in books.imported \/ rows[s] = S[s]
      BY <2>3, ListedAreIds
    <3>2. QED
      BY <2>4, <2>5, <3>1 DEF Passed, Excused
  <2>8. Listed' = Listed
    BY <2>1 DEF Listed, PosRows
  <2>9. QED
    BY <2>1, <2>4, <2>5, <2>6, <2>7, <2>8, ShopKeeps
<1>7. ASSUME Wipe
      PROVE  PosInv'
  <2> DEFINE rows == [s \in SellIds |-> 0]
             taken == {s \in SellIds : S[s] > 0}
  <2>1. /\ books' = [books EXCEPT !.names = {}, !.users = FALSE, !.orders = {}, !.rows = rows]
        /\ Incident(taken) /\ UNCHANGED <<pos, cycle>> /\ ~books.jobs
    BY <1>7 DEF Wipe
  <2>2. rows \in [SellIds -> Nat] /\ taken \in SUBSET SellIds
    OBVIOUS
  <2>3. \A s \in Listed : S[s] > 0 => s \in taken
    BY ListedAreIds
  <2> HIDE DEF rows, taken
  <2>4. /\ books' \in Books /\ books'.rows = rows /\ books'.imported = books.imported
        /\ books'.mark = books.mark /\ books'.jobs = books.jobs
    BY <1>0, <2>1, <2>2 DEF Books
  <2>5. /\ lapses' \in Lapses /\ lapses'.late = lapses.late /\ lapses'.unknown = lapses.unknown
        /\ lapses'.undone = lapses.undone \cup taken
    BY <2>1, <2>2, IncidentCounts
  <2>6. PosTyped'
    BY <1>0, <2>1, <2>4, <2>5 DEF PosTyped
  <2>7. ImportStands'
    BY <1>0, <2>1, <2>4 DEF ImportStands
  <2>8. \A s \in Listed : Passed(s) => Passed(s)'
    BY <2>3, <2>4, <2>5 DEF Passed, Excused
  <2>9. Listed' = Listed
    BY <2>1 DEF Listed, PosRows
  <2>10. QED
    BY <2>1, <2>4, <2>5, <2>6, <2>7, <2>8, <2>9, ShopKeeps
<1>8. QED
  BY <1>1, <1>2, <1>3, <1>4, <1>5, <1>6, <1>7 DEF World

LEMMA PosInitInv == PosInit => PosInv
<1> SUFFICES ASSUME PosInit PROVE PosInv
  OBVIOUS
<1>0. PICK size \in PageSizes :
        pos = [sells |-> [s \in SellIds |-> Absent],
               purchases |-> [p \in PurchaseIds |-> Absent], garbled |-> {}, page |-> size]
  BY DEF PosInit
<1>1. /\ pos \in Tills
      /\ cycle = [w \in Workers |-> Asleep]
      /\ lapses = [late |-> {}, unknown |-> {}, undone |-> {}, incidents |-> 0]
  BY <1>0 DEF PosInit, Tills
<1>2. PICK names \in SUBSET Goods :
        books = [names |-> names, users |-> TRUE, jobs |-> FALSE,
                 rows |-> [s \in SellIds |-> 0], imported |-> {}, orders |-> {},
                 mark |-> [k \in Listings |-> Absent]]
  BY DEF PosInit
<1>3. PosTyped
  <2>1. cycle \in [Workers -> Cycles]
    BY <1>1, AsleepIsCycle
  <2>2. books \in Books
    BY <1>2 DEF Books, Marked
  <2>3. lapses \in Lapses
    BY <1>1 DEF Lapses
  <2>4. QED
    BY <1>1, <2>1, <2>2, <2>3 DEF PosTyped
<1>4. ImportStands /\ MarkStands
  BY <1>2 DEF ImportStands, MarkStands, Listings
<1>5. ASSUME NEW w \in Workers PROVE CycleStands(w)
  <2>1. cycle[w].at = "asleep" /\ cycle[w].saved["sells"] = Absent
    BY <1>1 DEF Asleep, Listings
  <2>2. QED
    BY <2>1 DEF CycleStands
<1>6. QED
  BY <1>3, <1>4, <1>5 DEF PosInv

LEMMA PosStepInv == PosInv /\ [PosNext]_posVars => PosInv'
<1> SUFFICES ASSUME PosInv, [PosNext]_posVars PROVE PosInv'
  OBVIOUS
<1>1. ASSUME NEW w \in Workers, Fetch(w) PROVE PosInv'
  BY <1>1, FetchKeeps
<1>2. ASSUME NEW w \in Workers, StoreSells(w) PROVE PosInv'
  BY <1>2, StoreSellsKeeps
<1>3. ASSUME NEW w \in Workers, StorePurchases(w) PROVE PosInv'
  BY <1>3, StorePurchasesKeeps
<1>4. ASSUME NEW w \in Workers, ReadMark(w) \/ SaveMark(w) PROVE PosInv'
  BY <1>4, ReadMarkKeeps, SaveMarkKeeps
<1>5. ASSUME NEW w \in Workers, SaveFails(w) PROVE PosInv'
  BY <1>5, FailureKeeps DEF SaveFails
<1>6. ASSUME NEW w \in Workers, EndCycle(w) PROVE PosInv'
  BY <1>6, EndCycleKeeps
<1>7. ASSUME NEW w \in Workers, Outage(w) PROVE PosInv'
  BY <1>7, FailureKeeps DEF Outage
<1>8. ASSUME World PROVE PosInv'
  BY <1>8, WorldKeeps
<1>9. CASE UNCHANGED posVars
  <2>1. Listed' = Listed /\ PosTyped' /\ ImportStands' /\ \A s : Passed(s)' <=> Passed(s)
    BY <1>9 DEF posVars, Listed, PosRows, PosInv, PosTyped, ImportStands, Passed, Excused
  <2>2. QED
    BY <1>9, <2>1, ShopKeeps DEF posVars
<1>10. QED
  BY <1>1, <1>2, <1>3, <1>4, <1>5, <1>6, <1>7, <1>8, <1>9 DEF PosNext, LoopStep

\* What the watermark rests on: what every cycle under way has read still stands.
THEOREM PosInvariant == PosSpec => []PosInv
<1>1. PosInit => PosInv
  BY PosInitInv
<1>2. PosInv /\ [PosNext]_posVars => PosInv'
  BY PosStepInv
<1>3. QED
  BY <1>1, <1>2, PTL DEF PosSpec

\* A sell the watermark has passed is in the shop, or there is a reason that it is
\* not (_save_watermark(), sync_sells(), run_sync_cycle()).
THEOREM WatermarkCoveredHolds == PosSpec => []WatermarkCovered
<1>1. PosInv => WatermarkCovered
  BY DEF PosInv, MarkStands, WatermarkCovered, Listed, Passed
<1>2. QED
  BY <1>1, PosInvariant, PTL

------------------------------------------------------------------------------
(* What an import carries (Migration).                                     *)

JobRecord ==
    job = [n |-> job.n, mode |-> job.mode, status |-> job.status, step |-> job.step,
           known |-> job.known, data |-> job.data]
DataRecord ==
    job.data = [products |-> job.data.products, reference |-> job.data.reference,
                sales |-> job.data.sales, purchases |-> job.data.purchases,
                adjustments |-> job.data.adjustments, returns |-> job.data.returns,
                sentBack |-> job.data.sentBack]
ShopRecord ==
    shop = [products |-> shop.products, reference |-> shop.reference, sales |-> shop.sales,
            orders |-> shop.orders, returns |-> shop.returns, sentBack |-> shop.sentBack,
            levels |-> shop.levels, byHand |-> shop.byHand]

\* The POS has products of its own, and a job those that were active.
SourceStands ==
    /\ source = [active |-> source.active, lost |-> source.lost]
    /\ source.active \subseteq Products /\ job.data.products \subseteq Products

\* What was validated can be resolved whatever the shop has by now: a product is
\* in the upload, or it is made up for the sales that need it.
ValidatedStands ==
    job.status = "AWAITING_CONFIRMATION" =>
        /\ \A line \in job.data.purchases : line.product \in Ghosts \cup job.data.products
        /\ \A a \in job.data.adjustments : a.product \in Ghosts \cup job.data.products

\* The purchases of a job are all lines, of products the POS lists, of some purchases.
FetchedLines(got) == UNION {{OrderLine(b, n) : n \in LinesAmong(Products, b)} : b \in got}
Fetched(lines) == \E got \in SUBSET Purchases : lines = FetchedLines(got)
AllAdjustments == {Adjustment(a) : a \in Adjustments}

DataStands ==
    /\ job.known \in {{}, Products}
    /\ Fetched(job.data.purchases) /\ job.data.adjustments \subseteq AllAdjustments

\* A SKU is one product's.
SkusUnique ==
    \A row, other \in shop.products : row.sku = other.sku /\ row.sku # 0 => row = other

TransactionsStand == \A row \in shop.sales : row.transaction = <<row.job, row.sell>>

MigrationInv ==
    /\ JobRecord /\ DataRecord /\ ShopRecord
    /\ SourceStands /\ DataStands /\ ValidatedStands /\ TransactionsStand /\ SkusUnique

LEMMA NothingFetched == Fetched({})
<1>1. {} \in SUBSET Purchases /\ {} = FetchedLines({})
  BY DEF FetchedLines
<1>2. QED
  BY <1>1 DEF Fetched

LEMMA ResolvedIffKnown ==
    ASSUME NEW p
    PROVE  Resolved(p) # {} <=> p \in Ghosts \cup job.data.products
BY DEF Resolved

\* A step of the extraction, or one that ends a job: the shop stays as it is.
LEMMA JobStepKeeps ==
    ASSUME MigrationInv, JobRecord', DataRecord', SourceStands', DataStands', UNCHANGED shop,
           job'.status # "AWAITING_CONFIRMATION"
    PROVE  MigrationInv'
BY DEF MigrationInv, ShopRecord, ValidatedStands, TransactionsStand, SkusUnique

LEMMA ExtractsKeeps ==
    ASSUME MigrationInv, NEW step, NEW rows, NEW got, NEW data, Extracts(step, rows, got, data),
           job.status = "EXTRACTING", data.products = job.data.products,
           Fetched(data.purchases), data.adjustments \subseteq AllAdjustments,
           data = [products |-> data.products, reference |-> data.reference,
                   sales |-> data.sales, purchases |-> data.purchases,
                   adjustments |-> data.adjustments, returns |-> data.returns,
                   sentBack |-> data.sentBack]
    PROVE  MigrationInv' /\ job'.status = "EXTRACTING"
<1>1. /\ source' = [source EXCEPT !.lost = @ + Failures(rows, got)]
      /\ job' = [job EXCEPT !.step = step, !.data = data]
      /\ UNCHANGED shop
  BY DEF Extracts
<1>2. job' = [n |-> job.n, mode |-> job.mode, status |-> job.status, step |-> step,
              known |-> job.known, data |-> data]
  BY <1>1 DEF MigrationInv, JobRecord
<1>3. JobRecord' /\ DataRecord' /\ job'.status = "EXTRACTING"
  BY <1>2 DEF JobRecord, DataRecord
<1>4. source' = [active |-> source.active, lost |-> source.lost + Failures(rows, got)]
  BY <1>1 DEF MigrationInv, SourceStands
<1>5. SourceStands'
  BY <1>2, <1>4 DEF MigrationInv, SourceStands
<1>6. DataStands'
  BY <1>2 DEF MigrationInv, DataStands, Fetched, FetchedLines
<1>7. QED
  BY <1>1, <1>3, <1>5, <1>6, JobStepKeeps

\* What the steps of the extraction write about one kind of rows.
Puts(data, new) ==
    \/ data = [job.data EXCEPT !.sales = new]
    \/ data = [job.data EXCEPT !.purchases = new] /\ Fetched(new)
    \/ data = [job.data EXCEPT !.adjustments = new] /\ new \subseteq AllAdjustments

LEMMA DataKeeps ==
    ASSUME DataRecord, DataStands, NEW new, NEW data, Puts(data, new)
    PROVE  /\ data.products = job.data.products
           /\ Fetched(data.purchases) /\ data.adjustments \subseteq AllAdjustments
           /\ data = [products |-> data.products, reference |-> data.reference,
                      sales |-> data.sales, purchases |-> data.purchases,
                      adjustments |-> data.adjustments, returns |-> data.returns,
                      sentBack |-> data.sentBack]
<1>1. \/ data = [products |-> job.data.products, reference |-> job.data.reference,
                 sales |-> new, purchases |-> job.data.purchases,
                 adjustments |-> job.data.adjustments, returns |-> job.data.returns,
                 sentBack |-> job.data.sentBack]
      \/ /\ data = [products |-> job.data.products, reference |-> job.data.reference,
                    sales |-> job.data.sales, purchases |-> new,
                    adjustments |-> job.data.adjustments, returns |-> job.data.returns,
                    sentBack |-> job.data.sentBack]
         /\ Fetched(new)
      \/ /\ data = [products |-> job.data.products, reference |-> job.data.reference,
                    sales |-> job.data.sales, purchases |-> job.data.purchases,
                    adjustments |-> new, returns |-> job.data.returns,
                    sentBack |-> job.data.sentBack]
         /\ new \subseteq AllAdjustments
  BY DEF DataRecord, Puts
<1>2. QED
  BY <1>1 DEF DataStands

LEMMA MappingKeeps ==
    ASSUME MigrationInv, MapSales \/ MapPurchases \/ MapAdjustments
    PROVE  MigrationInv' /\ job'.status = "EXTRACTING"
<1>1. \E step, rows, got, new, data :
         job.status = "EXTRACTING" /\ Extracts(step, rows, got, data) /\ Puts(data, new)
  <2>1. CASE MapSales
    BY <2>1 DEF MapSales, Extracting, Puts
  <2>2. CASE MapPurchases
    <3> DEFINE FoundLines(got) == UNION {{OrderLine(b, n) : n \in LinesAmong(job.known, b)} : b \in got}
    <3>1. PICK got \in Answers(Purchases) :
            Extracts("adjustments", Purchases, got, [job.data EXCEPT !.purchases = FoundLines(got)])
      BY <2>2 DEF MapPurchases
    <3>2. Fetched(FoundLines(got))
      <4>1. CASE job.known = {}
        <5>1. FoundLines(got) = {}
          BY <4>1 DEF LinesAmong
        <5> HIDE DEF FoundLines
        <5>2. QED
          BY <5>1, NothingFetched
      <4>2. CASE job.known = Products
        <5>1. got \in SUBSET Purchases
          BY DEF Answers
        <5>2. FoundLines(got) = FetchedLines(got)
          BY <4>2 DEF FetchedLines
        <5> HIDE DEF FoundLines
        <5>3. QED
          BY <5>1, <5>2 DEF Fetched
      <4>3. QED
        BY <4>1, <4>2 DEF MigrationInv, DataStands
    <3> HIDE DEF FoundLines
    <3>3. job.status = "EXTRACTING" /\ Puts([job.data EXCEPT !.purchases = FoundLines(got)], FoundLines(got))
      BY <2>2, <3>2 DEF MapPurchases, Extracting, Puts
    <3>4. QED
      BY <3>1, <3>3
  <2>3. CASE MapAdjustments
    <3>1. PICK got, new :
            /\ got \in Answers(Adjustments)
            /\ Extracts("returns", Adjustments, got, [job.data EXCEPT !.adjustments = new])
            /\ new = {Adjustment(a) : a \in {b \in got : Adjusted[b].product \in job.data.products}}
      BY <2>3 DEF MapAdjustments
    <3>2. got \in SUBSET Adjustments
      BY <3>1 DEF Answers
    <3>3. new \subseteq AllAdjustments
      BY <3>1, <3>2 DEF AllAdjustments
    <3>4. job.status = "EXTRACTING"
      BY <2>3 DEF MapAdjustments, Extracting
    <3>5. QED
      BY <3>1, <3>3, <3>4 DEF Puts
  <2>4. QED
    BY <2>1, <2>2, <2>3
<1>2. PICK step, rows, got, new, data :
         job.status = "EXTRACTING" /\ Extracts(step, rows, got, data) /\ Puts(data, new)
  BY <1>1
<1>3. /\ data.products = job.data.products
      /\ Fetched(data.purchases) /\ data.adjustments \subseteq AllAdjustments
      /\ data = [products |-> data.products, reference |-> data.reference,
                 sales |-> data.sales, purchases |-> data.purchases,
                 adjustments |-> data.adjustments, returns |-> data.returns,
                 sentBack |-> data.sentBack]
  BY <1>2, DataKeeps DEF MigrationInv
<1>4. QED
  BY <1>2, <1>3, ExtractsKeeps

LEMMA FetchReferenceKeeps ==
    ASSUME MigrationInv, FetchReference
    PROVE  MigrationInv' /\ job'.status = "EXTRACTING"
<1>0. UNCHANGED shop /\ job.status = "EXTRACTING"
  BY DEF FetchReference, Extracting
<1>1. PICK products \in {{}, Products} : \E others, failures :
         /\ source' = [source EXCEPT !.lost = @ + failures]
         /\ job' = [job EXCEPT
               !.step = "sells",
               !.known = products,
               !.data.products = products \cap source.active,
               !.data.reference = others \cup (IF products = {} THEN {} ELSE {"categories"})]
  BY DEF FetchReference
<1>2. PICK others, failures :
         /\ source' = [source EXCEPT !.lost = @ + failures]
         /\ job' = [job EXCEPT
               !.step = "sells",
               !.known = products,
               !.data.products = products \cap source.active,
               !.data.reference = others \cup (IF products = {} THEN {} ELSE {"categories"})]
  BY <1>1
<1> DEFINE reference == others \cup (IF products = {} THEN {} ELSE {"categories"})
           carried == products \cap source.active
<1>3. job' = [job EXCEPT !.step = "sells", !.known = products, !.data.products = carried,
                         !.data.reference = reference]
  BY <1>2
<1>4. carried \subseteq Products
  BY DEF MigrationInv, SourceStands
<1> HIDE DEF reference, carried
<1>5. job' = [n |-> job.n, mode |-> job.mode, status |-> job.status, step |-> "sells",
              known |-> products,
              data |-> [products |-> carried, reference |-> reference,
                        sales |-> job.data.sales, purchases |-> job.data.purchases,
                        adjustments |-> job.data.adjustments, returns |-> job.data.returns,
                        sentBack |-> job.data.sentBack]]
  BY <1>3 DEF MigrationInv, JobRecord, DataRecord
<1>6. JobRecord' /\ DataRecord' /\ job'.status = "EXTRACTING"
  BY <1>0, <1>5 DEF JobRecord, DataRecord
<1>7. source' = [active |-> source.active, lost |-> source.lost + failures]
  BY <1>2 DEF MigrationInv, SourceStands
<1>8. SourceStands'
  BY <1>4, <1>5, <1>7 DEF MigrationInv, SourceStands
<1>9. DataStands'
  BY <1>5 DEF MigrationInv, DataStands, Fetched, FetchedLines
<1>10. QED
  BY <1>0, <1>6, <1>8, <1>9, JobStepKeeps

LEMMA MapReturnsKeeps ==
    ASSUME MigrationInv, MapReturns
    PROVE  MigrationInv' /\ job'.status = "PENDING"
<1>1. PICK lists \in Answers({"returns", "sentBack"}) :
         /\ source' = [source EXCEPT !.lost = @ + Cardinality({"returns", "sentBack"} \ lists)]
         /\ job' = [job EXCEPT
               !.status = "PENDING", !.step = "none", !.known = {},
               !.data.returns = IF "returns" \in lists THEN Returned ELSE {},
               !.data.sentBack = IF "sentBack" \in lists THEN SentBack ELSE {}]
  BY DEF MapReturns
<1> DEFINE returns == IF "returns" \in lists THEN Returned ELSE {}
           sentBack == IF "sentBack" \in lists THEN SentBack ELSE {}
<1>2. job' = [job EXCEPT !.status = "PENDING", !.step = "none", !.known = {},
                         !.data.returns = returns, !.data.sentBack = sentBack]
  BY <1>1
<1> HIDE DEF returns, sentBack
<1>3. job' = [n |-> job.n, mode |-> job.mode, status |-> "PENDING", step |-> "none",
              known |-> {},
              data |-> [products |-> job.data.products, reference |-> job.data.reference,
                        sales |-> job.data.sales, purchases |-> job.data.purchases,
                        adjustments |-> job.data.adjustments, returns |-> returns,
                        sentBack |-> sentBack]]
  BY <1>2 DEF MigrationInv, JobRecord, DataRecord
<1>4. JobRecord' /\ DataRecord' /\ job'.status = "PENDING"
  BY <1>3 DEF JobRecord, DataRecord
<1>5. source'.active = source.active /\ source' = [active |-> source'.active, lost |-> source'.lost]
  BY <1>1 DEF MigrationInv, SourceStands
<1>6. SourceStands'
  BY <1>3, <1>5 DEF MigrationInv, SourceStands
<1>7. DataStands'
  BY <1>3 DEF MigrationInv, DataStands, Fetched, FetchedLines
<1>8. QED
  BY <1>4, <1>6, <1>7, JobStepKeeps DEF MapReturns

LEMMA NewJobKeeps ==
    ASSUME MigrationInv, BeginExtraction \/ UploadFiles
    PROVE  MigrationInv' /\ job'.status \in {"EXTRACTING", "PENDING"}
<1>1. CASE BeginExtraction
  <2>1. job' = [NoJob EXCEPT !.n = job.n + 1, !.status = "EXTRACTING", !.step = "reference"]
        /\ UNCHANGED <<source, shop>>
    BY <1>1 DEF BeginExtraction
  <2>2. job' = [n |-> job.n + 1, mode |-> "API", status |-> "EXTRACTING", step |-> "reference",
                known |-> {}, data |-> NothingExtracted]
    BY <2>1 DEF NoJob
  <2>3. JobRecord' /\ DataRecord' /\ job'.status = "EXTRACTING"
    BY <2>2 DEF JobRecord, DataRecord, NothingExtracted
  <2>4. SourceStands'
    <3>1. NothingExtracted.products = {}
      BY DEF NothingExtracted
    <3>2. job'.data = NothingExtracted
      BY <2>2
    <3>3. source' = source
      BY <2>1
    <3>4. QED
      BY <3>1, <3>2, <3>3 DEF MigrationInv, SourceStands
  <2>5. DataStands'
    <3>1. NothingExtracted.purchases = {} /\ NothingExtracted.adjustments = {}
      BY DEF NothingExtracted
    <3>2. job'.data.purchases = {} /\ job'.data.adjustments = {} /\ job'.known = {}
      BY <2>2, <3>1
    <3>3. QED
      BY <3>2, NothingFetched DEF DataStands, Fetched, FetchedLines
  <2>6. QED
    BY <2>1, <2>3, <2>4, <2>5, JobStepKeeps
<1>2. CASE UploadFiles
  <2>1. PICK sales :
          job' = [NoJob EXCEPT
            !.n = job.n + 1, !.mode = "CSV", !.status = "PENDING",
            !.data = [NothingExtracted EXCEPT
                !.products = source.active, !.sales = sales, !.returns = Returned]]
    BY <1>2 DEF UploadFiles
  <2>2. UNCHANGED <<source, shop>>
    BY <1>2 DEF UploadFiles
  <2>3. job' = [n |-> job.n + 1, mode |-> "CSV", status |-> "PENDING", step |-> "none",
                known |-> {},
                data |-> [products |-> source.active, reference |-> {}, sales |-> sales,
                          purchases |-> {}, adjustments |-> {}, returns |-> Returned,
                          sentBack |-> {}]]
    BY <2>1 DEF NoJob, NothingExtracted
  <2>4. JobRecord' /\ DataRecord' /\ job'.status = "PENDING"
    BY <2>3 DEF JobRecord, DataRecord
  <2>5. SourceStands'
    BY <2>2, <2>3 DEF MigrationInv, SourceStands
  <2>6. DataStands'
    BY <2>3, NothingFetched DEF DataStands, Fetched, FetchedLines
  <2>7. QED
    BY <2>2, <2>4, <2>5, <2>6, JobStepKeeps
<1>3. QED
  BY <1>1, <1>2

LEMMA DiscontinueKeeps ==
    ASSUME MigrationInv, NEW p \in Products, Discontinue(p)
    PROVE  MigrationInv'
<1>1. source' = [source EXCEPT !.active = @ \ {p}] /\ UNCHANGED <<job, shop>>
  BY DEF Discontinue
<1>2. source' = [active |-> source.active \ {p}, lost |-> source.lost]
  BY <1>1 DEF MigrationInv, SourceStands
<1>3. SourceStands'
  BY <1>1, <1>2 DEF MigrationInv, SourceStands
<1>4. /\ JobRecord' /\ DataRecord' /\ DataStands' /\ ShopRecord'
      /\ TransactionsStand' /\ SkusUnique'
  BY <1>1 DEF MigrationInv, JobRecord, DataRecord, ShopRecord, TransactionsStand, DataStands,
              Fetched, FetchedLines, SkusUnique
<1>5. ValidatedStands'
  BY <1>1 DEF MigrationInv, ValidatedStands, Ghosts
<1>6. QED
  BY <1>3, <1>4, <1>5 DEF MigrationInv

\* A step of the shop that enters no sale but under its own transaction, and no
\* product under another's SKU.
LEMMA ShopStepKeeps ==
    ASSUME MigrationInv, ShopRecord', TransactionsStand', SkusUnique', UNCHANGED <<source, job>>
    PROVE  MigrationInv'
BY DEF MigrationInv, JobRecord, DataRecord, SourceStands, DataStands, Fetched, FetchedLines,
       ValidatedStands, Ghosts

LEMMA ByHandKeeps ==
    ASSUME MigrationInv,
           \/ \E p, sku, barcode, name : CreateProduct(p, sku, barcode, name)
           \/ \E row \in shop.sales : VoidSale(row)
    PROVE  MigrationInv'
<1>1. ASSUME NEW p, NEW sku, NEW barcode, NEW name, CreateProduct(p, sku, barcode, name)
      PROVE  MigrationInv'
  <2> DEFINE new == <<0, shop.byHand>>
             row == [id |-> new, sku |-> sku, barcode |-> barcode, slug |-> <<name, 1>>]
             levels == [id \in DOMAIN shop.levels \cup {new} |->
                           IF id = new THEN 0 ELSE shop.levels[id]]
  <2>1. /\ shop' = [shop EXCEPT !.byHand = @ + 1, !.products = @ \cup {row}, !.levels = levels]
        /\ row.sku # 0 => \A other \in shop.products : other.sku # row.sku
    BY <1>1 DEF CreateProduct, WithSku
  <2> HIDE DEF row, levels
  <2>2. shop' = [products |-> shop.products \cup {row}, reference |-> shop.reference,
                 sales |-> shop.sales, orders |-> shop.orders, returns |-> shop.returns,
                 sentBack |-> shop.sentBack, levels |-> levels, byHand |-> shop.byHand + 1]
    BY <2>1 DEF MigrationInv, ShopRecord
  <2>3. ShopRecord' /\ TransactionsStand'
    BY <2>2 DEF MigrationInv, ShopRecord, TransactionsStand
  <2>4. SkusUnique'
    BY <2>1, <2>2 DEF MigrationInv, SkusUnique
  <2>5. QED
    BY <1>1, <2>3, <2>4, ShopStepKeeps DEF CreateProduct
<1>2. ASSUME NEW row \in shop.sales, VoidSale(row)
      PROVE  MigrationInv'
  <2> DEFINE voided == [row EXCEPT !.voided = TRUE]
  <2>1. shop' = [shop EXCEPT !.byHand = @ + 1, !.sales = (@ \ {row}) \cup {voided}]
    BY <1>2 DEF VoidSale
  <2>2. voided.transaction = <<voided.job, voided.sell>>
    BY DEF MigrationInv, TransactionsStand
  <2> HIDE DEF voided
  <2>3. shop' = [products |-> shop.products, reference |-> shop.reference,
                 sales |-> (shop.sales \ {row}) \cup {voided}, orders |-> shop.orders,
                 returns |-> shop.returns, sentBack |-> shop.sentBack,
                 levels |-> shop.levels, byHand |-> shop.byHand + 1]
    BY <2>1 DEF MigrationInv, ShopRecord
  <2>4. ShopRecord' /\ TransactionsStand' /\ SkusUnique'
    BY <2>2, <2>3 DEF MigrationInv, ShopRecord, TransactionsStand, SkusUnique
  <2>5. QED
    BY <1>2, <2>4, ShopStepKeeps DEF VoidSale
<1>3. QED
  BY <1>1, <1>2

\* The status of a job, all that the last steps of it change.
LEMMA StatusStep ==
    ASSUME MigrationInv, NEW status, job' = [job EXCEPT !.status = status], UNCHANGED source
    PROVE  /\ JobRecord' /\ DataRecord' /\ SourceStands' /\ DataStands'
           /\ job'.status = status /\ job'.data = job.data /\ job'.n = job.n
<1>1. job' = [n |-> job.n, mode |-> job.mode, status |-> status, step |-> job.step,
              known |-> job.known, data |-> job.data]
  BY DEF MigrationInv, JobRecord
<1>2. /\ JobRecord' /\ job'.status = status /\ job'.data = job.data /\ job'.n = job.n
      /\ job'.known = job.known
  BY <1>1 DEF JobRecord
<1>3. DataRecord' /\ SourceStands' /\ DataStands'
  BY <1>2 DEF MigrationInv, DataRecord, SourceStands, DataStands, Fetched, FetchedLines
<1>4. QED
  BY <1>2, <1>3

LEMMA ValidateKeeps ==
    ASSUME MigrationInv, Validate
    PROVE  MigrationInv' /\ job'.status # "DONE"
<1> DEFINE status == IF Errors THEN "TRANSFORMING" ELSE "AWAITING_CONFIRMATION"
<1>1. job' = [job EXCEPT !.status = status] /\ UNCHANGED <<source, shop>>
  BY DEF Validate
<1>2. ~Errors =>
        /\ \A line \in job.data.purchases : line.product \in Ghosts \cup job.data.products
        /\ \A a \in job.data.adjustments : a.product \in Ghosts \cup job.data.products
  BY ResolvedIffKnown DEF Errors
<1>3. status \in {"TRANSFORMING", "AWAITING_CONFIRMATION"} /\ (Errors => status = "TRANSFORMING")
  OBVIOUS
<1> HIDE DEF status
<1>4. /\ JobRecord' /\ DataRecord' /\ SourceStands' /\ DataStands'
      /\ job'.status = status /\ job'.data = job.data
  BY <1>1, StatusStep
<1>5. ValidatedStands'
  BY <1>2, <1>3, <1>4 DEF ValidatedStands, Ghosts
<1>6. ShopRecord' /\ TransactionsStand' /\ SkusUnique'
  BY <1>1 DEF MigrationInv, ShopRecord, TransactionsStand, SkusUnique
<1>7. QED
  BY <1>3, <1>4, <1>5, <1>6 DEF MigrationInv

LEMMA CancelKeeps ==
    ASSUME MigrationInv, Cancel
    PROVE  MigrationInv' /\ job'.status # "DONE"
<1>1. job' = [job EXCEPT !.status = "CANCELLED"] /\ UNCHANGED <<source, shop>>
  BY DEF Cancel
<1>2. JobRecord' /\ DataRecord' /\ SourceStands' /\ DataStands' /\ job'.status = "CANCELLED"
  BY <1>1, StatusStep
<1>3. QED
  BY <1>1, <1>2, JobStepKeeps

\* What a product of the import became is a row of the shop with its id.
LEMMA ResolvedIs ==
    ASSUME MigrationInv, NEW p, NEW id \in Resolved(p), job'.data = job.data,
           shop'.products = shop.products \cup ProductRows
    PROVE  Is(id, p)'
<1>1. Ghosts' = Ghosts
  BY DEF Ghosts
<1>2. CASE p \in Ghosts
  <2>1. id = <<job.n, p>>
    BY <1>2 DEF Resolved
  <2> DEFINE row == [id |-> <<job.n, p>>, sku |-> 0, barcode |-> 0, slug |-> <<"deleted", p>>]
  <2>2. row \in ProductRows /\ row.id = id /\ row.slug = <<"deleted", p>> /\ row.barcode = 0
    BY <1>2, <2>1 DEF ProductRows
  <2>3. QED
    BY <1>1, <1>2, <2>2 DEF Is
<1>3. CASE p \notin Ghosts /\ p \in job.data.products /\ Existing(p) # {}
  <2>1. PICK row \in Existing(p) : row.id = id
    BY <1>3 DEF Resolved
  <2>2. row \in shop.products
    BY <2>1 DEF Existing, WithBarcode, WithSku
  <2>3. \A new \in ProductRows : new.barcode # p
    <3>1. p # 0
      BY <1>3, MigrationAssumption DEF MigrationInv, SourceStands
    <3>2. \A q \in NewProducts : q # p
      BY <1>3 DEF NewProducts
    <3>3. QED
      BY <3>1, <3>2 DEF ProductRows
  <2>4. row \in Existing(p)'
    BY <2>1, <2>3 DEF Existing, WithBarcode, WithSku
  <2>5. QED
    BY <1>1, <1>3, <2>1, <2>2, <2>4 DEF Is
<1>4. CASE p \notin Ghosts /\ p \in job.data.products /\ Existing(p) = {}
  <2>1. id = <<job.n, p>> /\ p \in NewProducts
    BY <1>4 DEF Resolved, NewProducts
  <2> DEFINE row == [id |-> <<job.n, p>>, sku |-> p, barcode |-> p, slug |-> Slug(p)]
  <2>2. row \in ProductRows /\ row.id = id /\ row.barcode = p
    BY <2>1 DEF ProductRows
  <2> HIDE DEF row
  <2>3. row \in Existing(p)'
    BY <2>2 DEF Existing, WithBarcode
  <2>4. QED
    BY <1>1, <1>4, <2>2, <2>3 DEF Is
<1>5. QED
  BY <1>2, <1>3, <1>4 DEF Resolved

\* What a completed job leaves of the job and of the shop.
LEMMA LoadSteps ==
    ASSUME MigrationInv, Confirm, job'.status = "DONE"
    PROVE  /\ job.status = "AWAITING_CONFIRMATION" /\ ~LoadFails
           /\ job'.data = job.data /\ job'.n = job.n
           /\ JobRecord' /\ DataRecord' /\ SourceStands' /\ DataStands' /\ ShopRecord'
           /\ shop'.products = shop.products \cup ProductRows
           /\ shop'.sales = shop.sales \cup SaleRows
           /\ shop'.orders = shop.orders \cup OrderRows
           /\ shop'.levels = LevelsLoaded
<1>1. /\ job.status = "AWAITING_CONFIRMATION" /\ UNCHANGED source
      /\ \/ job' = [job EXCEPT !.status = "DONE"] /\ ~LoadFails
         \/ job' = [job EXCEPT !.status = "FAILED"]
  BY DEF Confirm
<1>2. job' # [job EXCEPT !.status = "FAILED"]
  BY StatusStep, <1>1
<1> DEFINE returns == shop.returns \cup ReturnRows
           sentBack == shop.sentBack \cup SentBackRows
           reference == shop.reference \cup job.data.reference
<1>3. /\ job' = [job EXCEPT !.status = "DONE"] /\ ~LoadFails
      /\ shop' = [shop EXCEPT
                !.products = @ \cup ProductRows,
                !.reference = reference,
                !.sales = @ \cup SaleRows,
                !.orders = @ \cup OrderRows,
                !.returns = returns,
                !.sentBack = sentBack,
                !.levels = LevelsLoaded]
  BY <1>2 DEF Confirm
<1> HIDE DEF returns, sentBack, reference
<1>4. shop' = [products |-> shop.products \cup ProductRows, reference |-> reference,
               sales |-> shop.sales \cup SaleRows, orders |-> shop.orders \cup OrderRows,
               returns |-> returns, sentBack |-> sentBack, levels |-> LevelsLoaded,
               byHand |-> shop.byHand]
  BY <1>3 DEF MigrationInv, ShopRecord
<1>5. /\ ShopRecord' /\ shop'.products = shop.products \cup ProductRows
      /\ shop'.sales = shop.sales \cup SaleRows /\ shop'.orders = shop.orders \cup OrderRows
      /\ shop'.levels = LevelsLoaded
  BY <1>4 DEF ShopRecord
<1>6. /\ JobRecord' /\ DataRecord' /\ SourceStands' /\ DataStands'
      /\ job'.data = job.data /\ job'.n = job.n
  BY <1>1, <1>3, StatusStep
<1>7. QED
  BY <1>1, <1>3, <1>5, <1>6

\* The products of an import: those made for deleted ones have no SKU, the others
\* one that the shop does not have.
LEMMA ProductRowsAre ==
    ASSUME MigrationInv, NEW row \in ProductRows
    PROVE  \/ \E p \in NewProducts :
                 /\ row = [id |-> <<job.n, p>>, sku |-> p, barcode |-> p, slug |-> Slug(p)]
                 /\ p # 0 /\ WithSku(p) = {} /\ WithBarcode(p) = {}
           \/ \E p \in Ghosts :
                 row = [id |-> <<job.n, p>>, sku |-> 0, barcode |-> 0, slug |-> <<"deleted", p>>]
<1>1. \A p \in NewProducts : p # 0 /\ WithSku(p) = {} /\ WithBarcode(p) = {}
  BY MigrationAssumption DEF MigrationInv, SourceStands, NewProducts, Existing
<1>2. QED
  BY <1>1 DEF ProductRows

LEMMA LoadKeeps ==
    ASSUME MigrationInv, Confirm, job'.status = "DONE"
    PROVE  MigrationInv'
<1>1. /\ JobRecord' /\ DataRecord' /\ SourceStands' /\ DataStands' /\ ShopRecord'
      /\ shop'.products = shop.products \cup ProductRows
      /\ shop'.sales = shop.sales \cup SaleRows
  BY LoadSteps
<1>2. \A row \in SaleRows : row.transaction = <<row.job, row.sell>>
  BY DEF SaleRows, Transaction
<1>3. TransactionsStand'
  BY <1>1, <1>2 DEF MigrationInv, TransactionsStand
<1>4. SkusUnique'
  <2>1. SUFFICES ASSUME NEW row \in shop.products \cup ProductRows,
                        NEW other \in shop.products \cup ProductRows,
                        row.sku = other.sku, row.sku # 0
                 PROVE  row = other
    BY <1>1 DEF SkusUnique
  <2>2. \A x \in ProductRows : x.sku # 0 =>
          \E p \in NewProducts :
              /\ x = [id |-> <<job.n, p>>, sku |-> p, barcode |-> p, slug |-> Slug(p)]
              /\ x.sku = p /\ WithSku(p) = {}
    BY ProductRowsAre
  <2>3. \A x \in ProductRows, y \in shop.products : x.sku # 0 => x.sku # y.sku
    BY <2>2 DEF WithSku
  <2>4. CASE row \in ProductRows /\ other \in ProductRows
    BY <2>1, <2>2, <2>4
  <2>5. CASE row \in shop.products /\ other \in shop.products
    BY <2>1, <2>5 DEF MigrationInv, SkusUnique
  <2>6. QED
    BY <2>1, <2>3, <2>4, <2>5
<1>5. ValidatedStands'
  BY DEF ValidatedStands
<1>6. QED
  BY <1>1, <1>3, <1>4, <1>5 DEF MigrationInv

\* The job that completes.
LEMMA LoadCarries ==
    ASSUME MigrationInv, Confirm, job'.status = "DONE"
    PROVE  Carried'
<1>1. /\ job.status = "AWAITING_CONFIRMATION" /\ job'.data = job.data /\ job'.n = job.n
      /\ shop'.products = shop.products \cup ProductRows
      /\ shop'.sales = shop.sales \cup SaleRows
      /\ shop'.orders = shop.orders \cup OrderRows
  BY LoadSteps
<1>2. TransactionsStand'
  BY LoadKeeps DEF MigrationInv
<1>3. ASSUME NEW line \in job.data.sales
      PROVE  \E row \in SalesOfJob' :
                row.sell = line.sell /\ row.no = line.no /\ Is(row.product, line.product)'
  <2>1. PICK id : id \in Resolved(line.product)
    BY ResolvedIffKnown DEF Ghosts
  <2> DEFINE Row(l, i) == [job |-> job.n, sell |-> l.sell, no |-> l.no, product |-> i,
                           quantity |-> l.quantity \div 2, transaction |-> Transaction(l),
                           voided |-> FALSE]
             row == Row(line, id)
  <2>2. row \in SaleRows
    <3>1. SaleRows = UNION {{Row(l, i) : i \in Resolved(l.product)} : l \in job.data.sales}
      BY DEF SaleRows
    <3>2. row \in {Row(line, i) : i \in Resolved(line.product)}
      BY <2>1
    <3> HIDE DEF Row, row
    <3>3. QED
      BY <3>1, <3>2
  <2>3. row.job = job.n /\ row.sell = line.sell /\ row.no = line.no /\ row.product = id
    OBVIOUS
  <2> HIDE DEF row
  <2>4. Is(id, line.product)'
    BY <1>1, <2>1, ResolvedIs
  <2>5. QED
    BY <1>1, <2>2, <2>3, <2>4 DEF SalesOfJob
<1>4. ASSUME NEW row \in SalesOfJob', NEW other \in SalesOfJob'
      PROVE  row.transaction = other.transaction <=> row.sell = other.sell
  <2>1. /\ row.transaction = <<row.job, row.sell>> /\ other.transaction = <<other.job, other.sell>>
        /\ row.job = other.job
    BY <1>2 DEF SalesOfJob, TransactionsStand
  <2>2. QED
    BY <2>1
<1>5. ASSUME NEW line \in job.data.purchases
      PROVE  \E o \in shop'.orders :
                /\ o.job = job'.n /\ o.ref = line.ref
                /\ \E item \in o.lines :
                      /\ item.pos = line.pos /\ item.no = line.no
                      /\ Is(item.product, line.product)'
  <2> DEFINE o == [job |-> job.n, ref |-> line.ref,
                   pos |-> Min({l.pos : l \in LinesOf(line.ref)}),
                   lines |-> {Item(l) : l \in LinesOf(line.ref)}]
  <2>1. Resolved(line.product) # {}
    BY <1>1, ResolvedIffKnown DEF MigrationInv, ValidatedStands
  <2>2. line \in LinesOf(line.ref) /\ line.ref \in {r \in Refs : LinesOf(r) # {}}
    BY <2>1 DEF LinesOf, Refs
  <2>3. o \in OrderRows
    BY <2>2 DEF OrderRows
  <2>4. PICK id \in Resolved(line.product) : id = Internal(line.product)
    BY <2>1 DEF Internal
  <2>5. /\ Item(line).pos = line.pos /\ Item(line).no = line.no
        /\ Item(line).product = id
    BY <2>4 DEF Item
  <2>6. o.job = job.n /\ o.ref = line.ref /\ Item(line) \in o.lines
    BY <2>2
  <2> HIDE DEF o
  <2>7. Is(id, line.product)'
    BY <1>1, <2>4, ResolvedIs
  <2>8. o \in shop'.orders /\ o.job = job'.n
    BY <1>1, <2>3, <2>6
  <2>9. PICK item \in o.lines : item.pos = line.pos /\ item.no = line.no /\ item.product = id
    BY <2>5, <2>6
  <2>10. \E x \in o.lines : x.pos = line.pos /\ x.no = line.no /\ Is(x.product, line.product)'
    BY <2>7, <2>9
  <2>11. QED
    BY <2>6, <2>8, <2>10
<1>6. QED
  BY <1>1, <1>3, <1>4, <1>5 DEF Carried

LEMMA ConfirmKeeps ==
    ASSUME MigrationInv, Confirm
    PROVE  MigrationInv' /\ (job'.status = "DONE" => Carried')
<1>1. CASE job'.status = "DONE"
  BY <1>1, LoadKeeps, LoadCarries
<1>2. CASE job'.status # "DONE"
  <2>1. /\ UNCHANGED source
        /\ \/ job' = [job EXCEPT !.status = "FAILED"] /\ UNCHANGED shop
           \/ job' = [job EXCEPT !.status = "DONE"]
    BY DEF Confirm
  <2>2. job' # [job EXCEPT !.status = "DONE"]
    BY <1>2, <2>1, StatusStep
  <2>3. /\ JobRecord' /\ DataRecord' /\ SourceStands' /\ DataStands'
        /\ job'.status = "FAILED"
    BY <2>1, <2>2, StatusStep
  <2>4. QED
    BY <1>2, <2>1, <2>2, <2>3, JobStepKeeps
<1>3. QED
  BY <1>1, <1>2

LEMMA MigrationInitInv == MigrationInit => MigrationInv
<1> SUFFICES ASSUME MigrationInit PROVE MigrationInv
  OBVIOUS
<1>1. PICK active \in SUBSET Products : source = [active |-> active, lost |-> 0]
  BY DEF MigrationInit
<1>2. job = NoJob /\ shop = EmptyShop
  BY DEF MigrationInit
<1>3. JobRecord /\ DataRecord /\ job.status = "NONE" /\ job.data.products = {}
  BY <1>2 DEF JobRecord, DataRecord, NoJob, NothingExtracted
<1>4. ShopRecord /\ TransactionsStand /\ SkusUnique
  BY <1>2 DEF ShopRecord, TransactionsStand, SkusUnique, EmptyShop
<1>5. SourceStands
  BY <1>1, <1>3 DEF SourceStands
<1>6. DataStands
  <2>1. job.known = {} /\ job.data.purchases = {} /\ job.data.adjustments = {}
    BY <1>2 DEF NoJob, NothingExtracted
  <2>2. QED
    BY <2>1, NothingFetched DEF DataStands
<1>7. QED
  BY <1>3, <1>4, <1>5, <1>6 DEF MigrationInv, ValidatedStands

LEMMA MigrationStepInv ==
    ASSUME MigrationInv, [MigrationNext]_migrationVars
    PROVE  MigrationInv' /\ (job'.status = "DONE" /\ job.status # "DONE" => Carried')
<1>1. CASE BeginExtraction \/ UploadFiles
  BY <1>1, NewJobKeeps
<1>2. CASE FetchReference
  BY <1>2, FetchReferenceKeeps
<1>3. CASE MapSales \/ MapPurchases \/ MapAdjustments
  BY <1>3, MappingKeeps
<1>4. CASE MapReturns
  BY <1>4, MapReturnsKeeps
<1>5. CASE Validate
  BY <1>5, ValidateKeeps
<1>6. CASE Confirm
  BY <1>6, ConfirmKeeps
<1>7. CASE Cancel
  BY <1>7, CancelKeeps
<1>8. ASSUME NEW p \in Products, Discontinue(p) PROVE MigrationInv' /\ job' = job
  BY <1>8, DiscontinueKeeps DEF Discontinue
<1>9. ASSUME \/ \E p, sku, barcode, name : CreateProduct(p, sku, barcode, name)
             \/ \E row \in shop.sales : VoidSale(row)
      PROVE  MigrationInv' /\ job' = job
  BY <1>9, ByHandKeeps DEF CreateProduct, VoidSale
<1>10. CASE UNCHANGED migrationVars
  BY <1>10 DEF migrationVars, MigrationInv, JobRecord, DataRecord, ShopRecord, SourceStands,
               ValidatedStands, Ghosts, TransactionsStand, DataStands, Fetched, FetchedLines,
               SkusUnique
<1>11. QED
  BY <1>1, <1>2, <1>3, <1>4, <1>5, <1>6, <1>7, <1>8, <1>9, <1>10 DEF MigrationNext

\* What was validated can be resolved at confirmation, whatever changed meanwhile.
THEOREM MigrationInvariant == MigrationSpec => []MigrationInv
<1>1. MigrationInit => MigrationInv
  BY MigrationInitInv
<1>2. MigrationInv /\ [MigrationNext]_migrationVars => MigrationInv'
  BY MigrationStepInv
<1>3. QED
  BY <1>1, <1>2, PTL DEF MigrationSpec

\* The job that completes has carried every row that was validated (confirm_job(),
\* transformer.py, loader.py).
THEOREM ValidatedWholeHolds == MigrationSpec => ValidatedWhole
<1>1. MigrationInv /\ [MigrationNext]_migrationVars
        => [job'.status = "DONE" /\ job.status # "DONE" => Carried']_migrationVars
  BY MigrationStepInv
<1>2. QED
  BY <1>1, MigrationInvariant, PTL DEF MigrationSpec, ValidatedWhole

\* A product of the import has one counterpart: no two products have its barcode,
\* and no two its SKU.
LEMMA ResolvedOne ==
    ASSUME MigrationInv, ~Ambiguous, NEW p, NEW id \in Resolved(p)
    PROVE  Internal(p) = id
<1>1. \A other \in Resolved(p) : other = id
  <2>1. CASE p \in job.data.products /\ p \notin Ghosts /\ Existing(p) # {}
    <3>1. \A row, other \in Existing(p) : row = other
      <4>1. \A row, other \in WithBarcode(p) : row = other
        BY <2>1 DEF Ambiguous
      <4>2. p # 0
        BY <2>1, MigrationAssumption DEF MigrationInv, SourceStands
      <4>3. \A row, other \in WithSku(p) : row = other
        BY <4>2 DEF WithSku, MigrationInv, SkusUnique
      <4>4. QED
        BY <4>1, <4>3 DEF Existing
    <3>2. Resolved(p) = {row.id : row \in Existing(p)}
      BY <2>1 DEF Resolved
    <3>3. PICK row \in Existing(p) : row.id = id
      BY <3>2
    <3>4. QED
      BY <3>1, <3>2, <3>3
  <2>2. QED
    BY <2>1 DEF Resolved
<1>2. QED
  BY <1>1 DEF Internal

\* And once the import is loaded, no other product is that one.
LEMMA OnlyResolvedIs ==
    ASSUME MigrationInv, ~LoadFails, job'.data = job.data,
           shop'.products = shop.products \cup ProductRows,
           NEW p \in Ghosts \cup job.data.products, NEW id, Is(id, p)'
    PROVE  id \in Resolved(p)
<1>1. Ghosts' = Ghosts
  BY DEF Ghosts
<1>2. CASE p \in Ghosts
  <2>1. PICK row \in shop.products \cup ProductRows :
          row.id = id /\ row.slug = <<"deleted", p>> /\ row.barcode = 0
    BY <1>1, <1>2 DEF Is
  <2> DEFINE ghost == [id |-> <<job.n, p>>, sku |-> 0, barcode |-> 0, slug |-> <<"deleted", p>>]
  <2>2. ghost \in ProductRows /\ ghost.slug = row.slug
    BY <1>2, <2>1 DEF ProductRows
  <2> HIDE DEF ghost
  <2>3. row \in ProductRows
    BY <2>1, <2>2 DEF LoadFails
  <2>4. PICK q \in Ghosts :
          row = [id |-> <<job.n, q>>, sku |-> 0, barcode |-> 0, slug |-> <<"deleted", q>>]
    BY <2>1, <2>3, ProductRowsAre
  <2>5. row.id = <<job.n, q>> /\ row.slug = <<"deleted", q>>
    BY <2>4
  <2>6. q = p
    BY <2>1, <2>5
  <2>7. QED
    BY <1>2, <2>1, <2>5, <2>6 DEF Resolved
<1>3. CASE p \notin Ghosts
  <2>1. p \in job.data.products /\ p # 0
    BY <1>3, MigrationAssumption DEF MigrationInv, SourceStands
  <2>2. PICK row \in Existing(p)' : row.id = id
    BY <1>1, <1>3 DEF Is
  <2>3. \A new \in ProductRows : new.barcode = p \/ new.sku = p =>
          p \in NewProducts /\ new.id = <<job.n, p>>
    BY <2>1, ProductRowsAre
  <2>4. CASE Existing(p) # {}
    <3>1. p \notin NewProducts
      BY <2>4 DEF NewProducts
    <3>2. WithBarcode(p)' = WithBarcode(p) /\ WithSku(p)' = WithSku(p)
      BY <2>3, <3>1 DEF WithBarcode, WithSku
    <3>3. row \in Existing(p)
      BY <2>2, <3>2 DEF Existing
    <3>4. QED
      BY <1>3, <2>1, <2>2, <2>4, <3>3 DEF Resolved
  <2>5. CASE Existing(p) = {}
    <3>1. WithBarcode(p) = {} /\ WithSku(p) = {}
      BY <2>5 DEF Existing
    <3>2. row \in ProductRows /\ (row.barcode = p \/ row.sku = p)
      BY <2>2, <3>1 DEF Existing, WithBarcode, WithSku
    <3>3. id = <<job.n, p>>
      BY <2>2, <2>3, <3>2
    <3>4. QED
      BY <1>3, <2>1, <2>5, <3>3 DEF Resolved
  <2>6. QED
    BY <2>4, <2>5
<1>4. QED
  BY <1>2, <1>3

\* So a product is a row's exactly when the import resolved it to that row.
LEMMA IsInternal ==
    ASSUME MigrationInv, ~LoadFails, job'.data = job.data,
           shop'.products = shop.products \cup ProductRows,
           NEW p \in Ghosts \cup job.data.products, NEW id
    PROVE  Is(id, p)' <=> Internal(p) = id
<1>1. Resolved(p) # {}
  BY ResolvedIffKnown
<1>2. \A other \in Resolved(p) : Internal(p) = other
  BY ResolvedOne DEF LoadFails
<1>3. ASSUME Is(id, p)' PROVE Internal(p) = id
  BY <1>2, <1>3, OnlyResolvedIs
<1>4. ASSUME Internal(p) = id PROVE Is(id, p)'
  <2>1. id \in Resolved(p)
    BY <1>1, <1>2, <1>4
  <2>2. QED
    BY <2>1, ResolvedIs
<1>5. QED
  BY <1>3, <1>4

LEMMA Halved ==
    ASSUME NEW quantity \in Nat
    PROVE  /\ RoundedUp(quantity) \div 2 \in Int
           /\ (-RoundedUp(quantity)) \div 2 = -(RoundedUp(quantity) \div 2)
<1> DEFINE k == (quantity + 1) \div 2
<1>1. k \in Int
  OBVIOUS
<1> HIDE DEF k
<1>2. (2 * k) \div 2 = k /\ (-(2 * k)) \div 2 = -k
  BY <1>1
<1>3. RoundedUp(quantity) = 2 * k
  BY DEF RoundedUp, k
<1>4. QED
  BY <1>1, <1>2, <1>3

\* A line bought, as load_purchase_orders() receives it.
ItemOf(x) == Item(OrderLine(x[1], x[2]))

\* The lines bought are finitely many, and those that were fetched.
LEMMA LinesOfPurchases ==
    ASSUME DataStands
    PROVE  /\ IsFiniteSet(LinesBought)
           /\ job.data.purchases = {OrderLine(x[1], x[2]) : x \in LinesBought}
           /\ \A x \in LinesBought :
                 /\ x = <<x[1], x[2]>> /\ x[1] \in Purchases /\ x[2] \in LinesAmong(Products, x[1])
                 /\ LineBought(x).quantity \in Nat
<1>1. PICK got \in SUBSET Purchases : job.data.purchases = FetchedLines(got)
  BY DEF DataStands, Fetched
<1> DEFINE with == {line.pos : line \in job.data.purchases}
           Lines(b) == {<<b, n>> : n \in LinesAmong(Products, b)}
<1>2. \A b, n : OrderLine(b, n).pos = b
  BY DEF OrderLine
<1>3. with = {b \in got : LinesAmong(Products, b) # {}}
  <2>1. ASSUME NEW line \in job.data.purchases
        PROVE  line.pos \in got /\ LinesAmong(Products, line.pos) # {}
    <3>1. PICK b \in got : \E n \in LinesAmong(Products, b) : line = OrderLine(b, n)
      BY <1>1 DEF FetchedLines
    <3>2. QED
      BY <1>2, <3>1
  <2>2. ASSUME NEW b \in got, LinesAmong(Products, b) # {}
        PROVE  b \in with
    <3>1. PICK n \in LinesAmong(Products, b) : TRUE
      BY <2>2
    <3>2. OrderLine(b, n) \in job.data.purchases
      BY <1>1 DEF FetchedLines
    <3>3. QED
      BY <1>2, <3>2
  <2>3. QED
    BY <2>1, <2>2
<1>4. LinesBought = UNION {Lines(b) : b \in with}
  BY DEF LinesBought
<1>5. ASSUME NEW x \in LinesBought
      PROVE  /\ x = <<x[1], x[2]>> /\ x[1] \in with /\ x[2] \in LinesAmong(Products, x[1])
  <2>1. PICK b \in with : x \in Lines(b)
    BY <1>4
  <2>2. PICK n \in LinesAmong(Products, b) : x = <<b, n>>
    BY <2>1
  <2>3. QED
    BY <2>1, <2>2
<1>6. \A b \in with : \A n \in LinesAmong(Products, b) : <<b, n>> \in LinesBought
  BY <1>4
<1> HIDE DEF with
<1>7. job.data.purchases = {OrderLine(x[1], x[2]) : x \in LinesBought}
  <2>1. ASSUME NEW line \in job.data.purchases
        PROVE  \E x \in LinesBought : line = OrderLine(x[1], x[2])
    <3>1. PICK b \in got : \E n \in LinesAmong(Products, b) : line = OrderLine(b, n)
      BY <1>1 DEF FetchedLines
    <3>2. PICK n \in LinesAmong(Products, b) : line = OrderLine(b, n)
      BY <3>1
    <3>3. <<b, n>> \in LinesBought
      BY <1>3, <1>6
    <3>4. line = OrderLine(<<b, n>>[1], <<b, n>>[2])
      BY <3>2
    <3>5. QED
      BY <3>3, <3>4
  <2>2. ASSUME NEW x \in LinesBought PROVE OrderLine(x[1], x[2]) \in job.data.purchases
    BY <1>1, <1>3, <1>5 DEF FetchedLines
  <2>3. QED
    BY <2>1, <2>2
<1>8. ASSUME NEW b \in with
      PROVE  IsFiniteSet(Lines(b))
  <2>1. Bought[b].lines \in Seq([product : Nat, quantity : Nat \ {0}, cost : Int])
    BY <1>3, MigrationAssumption DEF Purchases
  <2>2. /\ DOMAIN Bought[b].lines = 1 .. Len(Bought[b].lines)
        /\ 1 \in Int /\ Len(Bought[b].lines) \in Int
    BY <2>1
  <2>3. LinesAmong(Products, b) \subseteq 1 .. Len(Bought[b].lines)
    BY <2>2 DEF LinesAmong
  <2>4. IsFiniteSet(1 .. Len(Bought[b].lines))
    BY <2>2, FS_Interval
  <2>5. IsFiniteSet(LinesAmong(Products, b))
    BY <2>3, <2>4, FS_Subset
  <2> DEFINE pair == [n \in LinesAmong(Products, b) |-> <<b, n>>]
  <2>6. Lines(b) = {pair[n] : n \in LinesAmong(Products, b)}
    OBVIOUS
  <2> HIDE DEF pair, Lines
  <2>7. QED
    BY <2>5, <2>6, ImageFinite
<1>9. IsFiniteSet(LinesBought)
  <2>1. IsFiniteSet(with)
    BY <1>3, MigrationAssumption, FS_Subset DEF Purchases
  <2> DEFINE lines == [b \in with |-> Lines(b)]
  <2>2. {Lines(b) : b \in with} = {lines[b] : b \in with}
    OBVIOUS
  <2> HIDE DEF Lines, lines
  <2>3. /\ IsFiniteSet({Lines(b) : b \in with})
        /\ \A S \in {Lines(b) : b \in with} : IsFiniteSet(S)
    BY <1>8, <2>1, <2>2, ImageFinite
  <2>4. QED
    BY <1>4, <2>3, FS_UNION
<1>10. ASSUME NEW x \in LinesBought PROVE LineBought(x).quantity \in Nat /\ x[1] \in Purchases
  <2> DEFINE lines == Bought[x[1]].lines
             Line == [product : Nat, quantity : Nat \ {0}, cost : Int]
  <2>1. x[1] \in Purchases
    BY <1>3, <1>5
  <2>2. lines \in Seq(Line) /\ x[2] \in DOMAIN lines
    BY <1>5, <2>1, MigrationAssumption DEF LinesAmong, Purchases
  <2>3. LineBought(x) = lines[x[2]]
    BY DEF LineBought
  <2> HIDE DEF lines, Line
  <2>4. lines[x[2]] \in Line
    BY <2>2
  <2>5. lines[x[2]].quantity \in Nat
    BY <2>4 DEF Line
  <2>6. QED
    BY <2>1, <2>3, <2>5
<1>11. QED
  BY <1>5, <1>7, <1>9, <1>10

\* What an import delivers: the items of all the lines that were validated.
LEMMA DeliveredIs ==
    ASSUME MigrationInv, job.status = "AWAITING_CONFIRMATION"
    PROVE  Delivered = {ItemOf(x) : x \in LinesBought}
<1>1. job.data.purchases = {OrderLine(x[1], x[2]) : x \in LinesBought}
  BY LinesOfPurchases DEF MigrationInv
<1>2. ASSUME NEW line \in job.data.purchases PROVE Item(line) \in Delivered
  <2> DEFINE o == [job |-> job.n, ref |-> line.ref,
                   pos |-> Min({l.pos : l \in LinesOf(line.ref)}),
                   lines |-> {Item(l) : l \in LinesOf(line.ref)}]
  <2>1. Resolved(line.product) # {}
    BY ResolvedIffKnown DEF MigrationInv, ValidatedStands
  <2>2. line \in LinesOf(line.ref) /\ line.ref \in {r \in Refs : LinesOf(r) # {}}
    BY <2>1 DEF LinesOf, Refs
  <2>3. o \in OrderRows
    BY <2>2 DEF OrderRows
  <2>4. Item(line) \in o.lines
    BY <2>2
  <2> HIDE DEF o
  <2>5. QED
    BY <2>3, <2>4 DEF Delivered
<1>3. ASSUME NEW item \in Delivered PROVE \E line \in job.data.purchases : item = Item(line)
  <2>1. PICK o \in OrderRows : item \in o.lines
    BY DEF Delivered
  <2> DEFINE first(r) == Min({l.pos : l \in LinesOf(r)})
             lines(r) == {Item(l) : l \in LinesOf(r)}
  <2>2. PICK ref : o = [job |-> job.n, ref |-> ref, pos |-> first(ref), lines |-> lines(ref)]
    BY DEF OrderRows
  <2>3. PICK line \in LinesOf(ref) : item = Item(line)
    <3> HIDE DEF first
    <3>1. QED
      BY <2>1, <2>2
  <2>4. QED
    BY <2>3 DEF LinesOf
<1>4. Delivered = {Item(line) : line \in job.data.purchases}
  BY <1>2, <1>3
<1>5. QED
  BY <1>1, <1>4 DEF ItemOf

LEMMA StockDelivered ==
    ASSUME MigrationInv, Confirm, job'.status = "DONE", NEW id
    PROVE  LevelDelivered(id) = LevelOf(id) + BoughtOf(id)
<1>1. /\ job.status = "AWAITING_CONFIRMATION" /\ ~LoadFails /\ job'.data = job.data
      /\ shop'.products = shop.products \cup ProductRows
  BY LoadSteps
<1> DEFINE mine == {x \in LinesBought : Is(id, LineBought(x).product)'}
           f == [item \in Delivered |-> item.quantity]
           g == [x \in LinesBought |-> RoundedUp(LineBought(x).quantity) \div 2]
           h == [x \in LinesBought |-> ItemOf(x)]
<1>2. /\ IsFiniteSet(LinesBought)
      /\ job.data.purchases = {OrderLine(x[1], x[2]) : x \in LinesBought}
      /\ \A x \in LinesBought : x = <<x[1], x[2]>> /\ LineBought(x).quantity \in Nat
  BY LinesOfPurchases DEF MigrationInv
<1>3. \A x \in LinesBought :
         /\ ItemOf(x).pos = x[1] /\ ItemOf(x).no = x[2]
         /\ ItemOf(x).product = Internal(LineBought(x).product)
         /\ ItemOf(x).quantity = RoundedUp(LineBought(x).quantity) \div 2
  BY DEF ItemOf, Item, OrderLine, LineBought
<1>4. \A x \in LinesBought : LineBought(x).product \in Ghosts \cup job.data.products
  <2>1. \A line \in job.data.purchases : line.product \in Ghosts \cup job.data.products
    BY <1>1 DEF MigrationInv, ValidatedStands
  <2>2. \A x \in LinesBought : OrderLine(x[1], x[2]).product = LineBought(x).product
    BY DEF OrderLine, LineBought
  <2>3. QED
    BY <1>2, <2>1, <2>2
<1>5. \A x \in LinesBought : Is(id, LineBought(x).product)' <=> ItemOf(x).product = id
  BY <1>1, <1>3, <1>4, IsInternal
<1>6. Delivered = {ItemOf(x) : x \in LinesBought}
  BY <1>1, DeliveredIs
<1>7. {item \in Delivered : item.product = id} = {h[x] : x \in mine}
  <2>1. \A x \in LinesBought : h[x] = ItemOf(x)
    OBVIOUS
  <2>2. \A x : x \in mine <=> x \in LinesBought /\ ItemOf(x).product = id
    BY <1>5
  <2> HIDE DEF h, mine
  <2>3. mine \subseteq LinesBought
    BY <2>2
  <2>4. QED
    BY <1>6, <2>1, <2>2, <2>3
<1>8. IsFiniteSet(mine)
  BY <1>2, FS_Subset
<1>9. \A x \in mine : g[x] \in Int /\ f[h[x]] = g[x]
  BY <1>2, <1>3, <1>6, Halved
<1>10. \A x, y \in mine : h[x] = h[y] => x = y
  BY <1>2, <1>3
<1>11. SumFunctionOnSet(f, {h[x] : x \in mine}) = SumFunctionOnSet(g, mine)
  <2> HIDE DEF f, g, h, mine
  <2>1. QED
    BY <1>8, <1>9, <1>10, SumMapped
<1>12. QED
  BY <1>7, <1>11 DEF LevelDelivered, BoughtOf

LEMMA StockAdjusted ==
    ASSUME MigrationInv, Confirm, job'.status = "DONE", NEW id
    PROVE  LevelAfter(id, AdjustmentsOf(id)) = LevelDelivered(id) + AdjustedOf(id)
<1>1. /\ job.status = "AWAITING_CONFIRMATION" /\ ~LoadFails /\ job'.data = job.data
      /\ shop'.products = shop.products \cup ProductRows
  BY LoadSteps
<1> DEFINE listed == {b.id : b \in job.data.adjustments}
           mine == {a \in listed : Is(id, Adjusted[a].product)'}
           f == [a \in AdjustmentsOf(id) |-> a.change \div 2]
           g == [a \in mine |-> Units(a)]
           h == [a \in Adjustments |-> Adjustment(a)]
<1>2. \A b \in job.data.adjustments : b.id \in Adjustments /\ b = Adjustment(b.id)
  BY DEF MigrationInv, DataStands, AllAdjustments, Adjustment
<1>3. \A a \in Adjustments :
         /\ Adjustment(a).id = a /\ Adjustment(a).product = Adjusted[a].product
         /\ Adjustment(a).change = Change(a)
  BY DEF Adjustment
<1>4. \A a \in listed : a \in Adjustments /\ Adjustment(a) \in job.data.adjustments
  BY <1>2
<1>5. \A b \in job.data.adjustments : b.id \in listed
  OBVIOUS
<1> HIDE DEF listed
<1>6. \A a \in listed : Adjusted[a].product \in Ghosts \cup job.data.products
  BY <1>1, <1>3, <1>4 DEF MigrationInv, ValidatedStands
<1>7. \A a \in listed : Is(id, Adjusted[a].product)' <=> Internal(Adjusted[a].product) = id
  BY <1>1, <1>6, IsInternal
<1>8. AdjustmentsOf(id) = {h[a] : a \in mine}
  <2>1. AdjustmentsOf(id) = {b \in job.data.adjustments : Internal(b.product) = id}
    BY <1>1, ResolvedIffKnown DEF AdjustmentsOf, AdjustmentRows, MigrationInv, ValidatedStands
  <2>2. ASSUME NEW b \in AdjustmentsOf(id) PROVE b.id \in mine /\ b = h[b.id]
    BY <1>2, <1>3, <1>5, <1>7, <2>1
  <2>3. ASSUME NEW a \in mine PROVE h[a] \in AdjustmentsOf(id)
    BY <1>3, <1>4, <1>7, <2>1
  <2> HIDE DEF mine, h
  <2>4. QED
    BY <2>2, <2>3
<1>9. IsFiniteSet(mine)
  BY <1>4, MigrationAssumption, FS_Subset DEF Adjustments
<1>10. \A a \in mine : g[a] \in Int /\ f[h[a]] = g[a]
  <2>1. \A a \in mine : h[a] \in AdjustmentsOf(id) /\ h[a].change = Change(a) /\ a \in Adjustments
    BY <1>3, <1>4, <1>8
  <2>2. \A a \in Adjustments : Adjusted[a].quantity \in Nat
    BY MigrationAssumption DEF Adjustments
  <2>3. \A a \in Adjustments : Change(a) \div 2 = Units(a) /\ Units(a) \in Int
    BY <2>2, Halved DEF Change, Units
  <2> HIDE DEF h
  <2>4. QED
    BY <2>1, <2>3
<1>11. \A a, b \in mine : h[a] = h[b] => a = b
  BY <1>3, <1>4
<1>12. SumFunctionOnSet(f, {h[a] : a \in mine}) = SumFunctionOnSet(g, mine)
  <2> HIDE DEF f, g, h, mine
  <2>1. QED
    BY <1>9, <1>10, <1>11, SumMapped
<1>13. QED
  BY <1>8, <1>12 DEF LevelAfter, AdjustedOf, listed

LEMMA LoadedStock ==
    ASSUME MigrationInv, Confirm, job'.status = "DONE"
    PROVE  \A id \in DOMAIN shop'.levels :
              shop'.levels[id] = LevelOf(id) + BoughtOf(id) + AdjustedOf(id)
<1>1. shop'.levels = LevelsLoaded
  BY LoadSteps
<1>2. \A id \in DOMAIN shop'.levels : shop'.levels[id] = LevelAfter(id, AdjustmentsOf(id))
  BY <1>1 DEF LevelsLoaded
<1>3. QED
  BY <1>2, StockDelivered, StockAdjusted

\* Only a confirmation completes a job.
LEMMA DoneByConfirm ==
    ASSUME MigrationInv, [MigrationNext]_migrationVars, job'.status = "DONE", job.status # "DONE"
    PROVE  Confirm
<1>1. CASE BeginExtraction \/ UploadFiles
  BY <1>1, NewJobKeeps
<1>2. CASE FetchReference
  BY <1>2, FetchReferenceKeeps
<1>3. CASE MapSales \/ MapPurchases \/ MapAdjustments
  BY <1>3, MappingKeeps
<1>4. CASE MapReturns
  BY <1>4, MapReturnsKeeps
<1>5. CASE Validate
  BY <1>5, ValidateKeeps
<1>6. CASE Cancel
  BY <1>6, CancelKeeps
<1>7. ASSUME job' = job PROVE FALSE
  BY <1>7
<1>8. QED
  BY <1>1, <1>2, <1>3, <1>4, <1>5, <1>6, <1>7
  DEF MigrationNext, migrationVars, Discontinue, CreateProduct, VoidSale

\* The stock an import leaves is the stock before it, plus what the POS bought and
\* seeded, less what it wrote off, line by line (loader.py).
THEOREM StockAsSourceHolds == MigrationSpec => StockAsSource
<1>1. MigrationInv /\ [MigrationNext]_migrationVars
        => [job'.status = "DONE" /\ job.status # "DONE" =>
              \A id \in DOMAIN shop'.levels :
                  shop'.levels[id] = LevelOf(id) + BoughtOf(id) + AdjustedOf(id)]_migrationVars
  BY DoneByConfirm, LoadedStock
<1>2. QED
  BY <1>1, MigrationInvariant, PTL DEF MigrationSpec, StockAsSource

------------------------------------------------------------------------------
(* The events of a subscription (Billing).                                 *)

\* What the rows of two transactions laid over each other hold.
LEMMA Overlay ==
    ASSUME NEW STATE f, NEW STATE g
    PROVE  /\ DOMAIN Over(f, g) = DOMAIN f \cup DOMAIN g
           /\ \A x \in DOMAIN f : Over(f, g)[x] = f[x]
           /\ \A x \in DOMAIN g : x \notin DOMAIN f => Over(f, g)[x] = g[x]
BY DEF Over

\* The rows of different events, and of the business, are different rows.
LEMMA RowsDiffer ==
    /\ \A e \in Events : Event(e) # Business
    /\ \A d, e \in Events : Event(d) = Event(e) => d = e
BY DEF Event, Business

\* An ended transaction has locked nothing.
LEMMA NothingLocked == DOMAIN <<>> = {}
OBVIOUS

------------------------------------------------------------------------------
(* The statements a request has left.                                      *)

Loading    == <<"load", "flush", "commit">>
Flushing   == <<"flush", "commit">>
Committing == <<"commit">>
Steps      == {<<>>, Loading, Flushing, Committing}

\* No statement is taken for another, and each leads to the next.
LEMMA Statements ==
    /\ Head(Loading) = "load" /\ Head(Flushing) = "flush"
    /\ Head(Committing) = "commit"
    /\ Tail(Loading) = Flushing /\ Tail(Flushing) = Committing
    /\ Loading # <<>> /\ Flushing # <<>> /\ Committing # <<>>
    /\ Loading # Flushing /\ Flushing # Committing /\ Loading # Committing
<1>1. /\ Head(Loading) = "load" /\ Head(Flushing) = "flush"
      /\ Head(Committing) = "commit"
  BY DEF Loading, Flushing, Committing
<1>2. Tail(Loading) = Flushing
  BY DEF Loading, Flushing
<1>3. Tail(Flushing) = Committing
  BY DEF Flushing, Committing
<1>4. Loading # <<>>
  BY DEF Loading
<1>5. Flushing # <<>>
  BY DEF Flushing
<1>6. Committing # <<>>
  BY DEF Committing
<1>7. QED
  BY <1>1, <1>2, <1>3, <1>4, <1>5, <1>6

\* What a request is about to do, by what it has left.
LEMMA Where ==
    ASSUME NEW t \in Txs, todo[t] \in Steps
    PROVE  /\ Idle(t) <=> todo[t] = <<>>
           /\ At(t, "load") <=> todo[t] = Loading
           /\ At(t, "flush") <=> todo[t] = Flushing
           /\ At(t, "commit") <=> todo[t] = Committing
  BY Statements DEF Steps, Idle, At

------------------------------------------------------------------------------
(* The types: of the rows, of what is left of a request, of what it read.  *)

Statuses == {"TRIALING", "ACTIVE", "PAST_DUE", "READ_ONLY", "CANCELED"}
Row      == [status : Statuses, since : Nat \cup {None}]
Request  == [by : Events \cup {"grace job", None}, loaded : Row, target : Row]

Shapes ==
    /\ DOMAIN own = Txs
    /\ todo \in [Txs -> Steps]
    /\ request \in [Txs -> Request]
    /\ applied \in [Events -> Nat]
    /\ kind \in [Events -> Kinds]
    /\ DOMAIN db = {Business} \cup {Event(e) : e \in Events}
    /\ db[Business] \in Row
    /\ \A e \in Events : db[Event(e)] \in BOOLEAN
    /\ \A t \in Txs : Business \in Locked(t) => own[t][Business] \in Row
    /\ today \in Nat
    /\ failedOn \in Nat \cup {None}

\* A successful charge, and a failed one, in the columns.
LEMMA HandledRow ==
    ASSUME NEW k \in Kinds, NEW STATE row, row \in Row, today \in Nat
    PROVE  /\ Handled(k, row) \in Row
           /\ k = "charge.success" => Handled(k, row).since = None
           /\ k = "invoice.payment_failed" =>
                 Handled(k, row).since = IF row.since = None THEN today ELSE row.since
           /\ k \notin {"charge.success", "invoice.payment_failed"} =>
                 Handled(k, row).since = row.since
<1>1. CASE k = "charge.success"
  <2>1. Handled(k, row) = [status |-> "ACTIVE", since |-> None]
    BY <1>1 DEF Handled
  <2>2. QED
    BY <1>1, <2>1 DEF Row, Statuses
<1>2. CASE k = "subscription.create"
  <2>1. Handled(k, row) = [row EXCEPT !.status = "ACTIVE"]
    BY <1>2 DEF Handled
  <2>2. QED
    BY <1>2, <2>1 DEF Row, Statuses
<1>3. CASE k = "invoice.payment_failed"
  <2>1. Handled(k, row) = PastDue(row)
    BY <1>3 DEF Handled
  <2>2. QED
    BY <1>3, <2>1 DEF PastDue, Row, Statuses
<1>4. CASE k = "subscription.disable"
  <2>1. Handled(k, row) = [row EXCEPT !.status = "CANCELED"]
    BY <1>4 DEF Handled
  <2>2. QED
    BY <1>4, <2>1 DEF Row, Statuses
<1>5. CASE k = "other"
  <2>1. Handled(k, row) = row
    BY <1>5 DEF Handled
  <2>2. QED
    BY <1>5, <2>1
<1>6. QED
  BY <1>1, <1>2, <1>3, <1>4, <1>5 DEF Kinds

\* An UPDATE of some columns leaves a row, and the wanted one when nobody
\* else has written since it was loaded.
LEMMA UpdatedRow ==
    ASSUME NEW t \in Txs, request[t] \in Request, NEW STATE row, row \in Row
    PROVE  /\ Updated(t, row) \in Row
           /\ row = request[t].loaded => Updated(t, row) = request[t].target
<1> DEFINE r == request[t]
           updated == [status |-> IF r.target.status # r.loaded.status
                                  THEN r.target.status ELSE row.status,
                       since  |-> IF r.target.since # r.loaded.since
                                  THEN r.target.since ELSE row.since]
<1>1. DOMAIN row = {"status", "since"} /\ r.target \in Row /\ r.loaded \in Row
  BY DEF Row, Request
<1>2. Updated(t, row) = updated
  BY <1>1 DEF Updated
<1>3. updated \in Row
  BY <1>1 DEF Row
<1>4. row = r.loaded => updated = r.target
  BY <1>1 DEF Row
<1>5. QED
  BY <1>2, <1>3, <1>4

------------------------------------------------------------------------------
(* An event takes effect once.                                             *)

\* A request holds row locks at its commit only, exactly those it wrote; no
\* two requests hold the same; the row of an event is held by a request that
\* inserted it, and is not in the table yet.
Holding ==
    /\ \A t \in Txs : Locked(t) = IF todo[t] = Committing THEN Written(t) ELSE {}
    /\ \A t, u \in Txs : t # u => Locked(t) \cap Locked(u) = {}
    /\ \A t \in Txs, e \in Events :
          Event(e) \in Locked(t) => own[t][Event(e)] = TRUE /\ ~db[Event(e)]

\* An event has taken effect when its row is in the table, and no more often.
Counted == \A e \in Events : applied[e] = IF db[Event(e)] THEN 1 ELSE 0

EventInv == Shapes /\ Holding /\ Counted

LEMMA InitEvent == Init => EventInv
<1> SUFFICES ASSUME Init PROVE EventInv
  OBVIOUS
<1>1. /\ db[Business] = NoRow
      /\ \A e \in Events : Event(e) # Business /\ db[Event(e)] = FALSE
      /\ DOMAIN db = {Business} \cup {Event(e) : e \in Events}
  BY RowsDiffer DEF Init
<1>2. /\ DOMAIN own = Txs /\ \A t \in Txs : Locked(t) = {}
      /\ todo \in [Txs -> Steps] /\ \A t \in Txs : todo[t] = <<>>
  BY NothingLocked DEF Init, InitSessions, Locked, Steps
<1>3. NoRow \in Row
  BY DEF NoRow, Row, Statuses
<1>4. request \in [Txs -> Request]
  BY <1>3 DEF Init, NoRequest, Request
<1>5. Shapes
  BY <1>1, <1>2, <1>3, <1>4 DEF Init, Shapes
<1>6. Holding
  BY <1>2, Statements DEF Holding
<1>7. Counted
  BY <1>1 DEF Init, Counted
<1>8. QED
  BY <1>5, <1>6, <1>7 DEF EventInv

\* A request that begins, loads the business or waits holds nothing.
LEMMA SameEvents ==
    ASSUME EventInv, UNCHANGED <<db, own, applied, kind, failedOn>>, today' \in Nat,
           todo' \in [Txs -> Steps], request' \in [Txs -> Request],
           \A t \in Txs : /\ todo[t] = Committing <=> todo'[t] = Committing
                          /\ todo[t] = Committing => request'[t] = request[t]
    PROVE  EventInv'
<1>1. Shapes'
  BY DEF EventInv, Shapes, Locked
<1>2. \A t \in Txs : Locked(t)' = Locked(t)
  BY DEF Locked
<1>3. \A t \in Txs : todo[t] = Committing => Written(t)' = Written(t)
  BY DEF Written, ByEvent
<1>4. Holding'
  BY <1>2, <1>3 DEF EventInv, Holding
<1>5. Counted'
  BY DEF EventInv, Counted
<1>6. QED
  BY <1>1, <1>4, <1>5 DEF EventInv

\* A request that begins.
LEMMA BeginEvent ==
    ASSUME EventInv, NEW t \in Txs, NEW steps \in {Loading, Flushing},
           NEW by \in Events \cup {"grace job"}, NEW STATE loaded, loaded \in Row,
           NEW STATE target, target \in Row, Begin(t, steps, by, loaded, target)
    PROVE  EventInv'
<1> DEFINE new == [by |-> by, loaded |-> loaded, target |-> target]
<1>1. new \in Request
  BY DEF Request
<1>2. /\ todo[t] = <<>> /\ todo' = [todo EXCEPT ![t] = steps]
      /\ request' = [request EXCEPT ![t] = new]
      /\ UNCHANGED <<db, own, applied, kind, failedOn, today>>
  BY DEF Begin, Idle
<1> HIDE DEF new
<1>3. todo' \in [Txs -> Steps] /\ request' \in [Txs -> Request]
  BY <1>1, <1>2 DEF EventInv, Shapes, Steps
<1>4. today' \in Nat
  BY <1>2 DEF EventInv, Shapes
<1>5. ASSUME NEW u \in Txs
      PROVE  /\ todo[u] = Committing <=> todo'[u] = Committing
             /\ todo[u] = Committing => request'[u] = request[u]
  BY <1>2, Statements DEF EventInv, Shapes
<1>6. QED
  BY <1>2, <1>3, <1>4, <1>5, SameEvents

LEMMA LoadEvent ==
    ASSUME EventInv, NEW t \in Txs, LoadBusiness(t), request[t].by \in Events
    PROVE  EventInv'
<1> DEFINE target == Handled(kind[request[t].by], db[Business])
<1>1. target \in Row
  BY HandledRow DEF EventInv, Shapes
<1>2. todo[t] = Loading /\ todo' = [todo EXCEPT ![t] = Flushing]
  BY Where, Statements DEF EventInv, Shapes, LoadBusiness, Advance
<1>3. /\ request' = [request EXCEPT ![t].loaded = db[Business], ![t].target = target]
      /\ UNCHANGED <<db, own, applied, kind, failedOn, today>>
  BY DEF LoadBusiness
<1> HIDE DEF target
<1>4. todo' \in [Txs -> Steps] /\ request' \in [Txs -> Request] /\ today' \in Nat
  <2>1. [request[t] EXCEPT !.loaded = db[Business], !.target = target] \in Request
    BY <1>1 DEF EventInv, Shapes, Request
  <2>2. request' = [request EXCEPT ![t] = [request[t] EXCEPT !.loaded = db[Business],
                                                             !.target = target]]
    BY <1>3 DEF EventInv, Shapes
  <2>3. request' \in [Txs -> Request]
    BY <2>1, <2>2 DEF EventInv, Shapes
  <2>4. QED
    BY <1>2, <1>3, <2>3 DEF EventInv, Shapes, Steps
<1>5. ASSUME NEW u \in Txs
      PROVE  /\ todo[u] = Committing <=> todo'[u] = Committing
             /\ todo[u] = Committing => request'[u] = request[u]
  BY <1>2, <1>3, Statements DEF EventInv, Shapes
<1>6. QED
  BY <1>3, <1>4, <1>5, SameEvents

\* A request that ends without a commit.
LEMMA RollbackEvent ==
    ASSUME EventInv, NEW t \in Txs, Rollback(t)
    PROVE  EventInv'
<1>1. /\ own' = [own EXCEPT ![t] = <<>>] /\ todo' = [todo EXCEPT ![t] = <<>>]
      /\ request' = [request EXCEPT ![t] = NoRequest]
      /\ UNCHANGED <<db, applied, kind, failedOn, today>>
  BY DEF Rollback, Release
<1>2. /\ Locked(t)' = {}
      /\ \A u \in Txs \ {t} : /\ own'[u] = own[u] /\ Locked(u)' = Locked(u)
                              /\ todo'[u] = todo[u] /\ request'[u] = request[u]
      /\ todo'[t] = <<>>
  BY <1>1, NothingLocked DEF EventInv, Shapes, Locked
<1>3. NoRequest \in Request
  BY DEF NoRequest, NoRow, Request, Row, Statuses
<1>4. Shapes'
  BY <1>1, <1>2, <1>3 DEF EventInv, Shapes, Steps
<1>5. \A u \in Txs \ {t} : Written(u)' = Written(u)
  BY <1>2 DEF Written, ByEvent
<1>6. Holding'
  BY <1>1, <1>2, <1>5, Statements DEF EventInv, Holding
<1>7. Counted'
  BY <1>1 DEF EventInv, Counted
<1>8. QED
  BY <1>4, <1>6, <1>7 DEF EventInv

\* What the flush of a request locks and writes.
LEMMA FlushWrites ==
    ASSUME EventInv, NEW t \in Txs, Flush(t), Unrecorded(t)
    PROVE  /\ todo[t] = Flushing /\ todo' = [todo EXCEPT ![t] = Committing]
           /\ UNCHANGED <<db, today, kind, request, applied, failedOn, overlapped>>
           /\ DOMAIN own' = Txs /\ \A u \in Txs \ {t} : own'[u] = own[u]
           /\ Locked(t)' = Written(t)
           /\ Business \in Written(t) => own'[t][Business] = Updated(t, db[Business])
           /\ \A e \in Events : Event(e) \in Written(t) => own'[t][Event(e)] = TRUE
<1> DEFINE values == [i \in Written(t) |->
                        IF i = Business THEN Updated(t, db[Business]) ELSE TRUE]
<1>1. todo[t] = Flushing /\ todo[t] # Committing
  BY Where, Statements DEF EventInv, Shapes, Flush
<1>2. /\ Write(t, values) /\ Advance(t)
      /\ UNCHANGED <<db, today, kind, request, applied, failedOn, overlapped>>
  BY DEF Flush
<1>3. DOMAIN own[t] = {}
  BY <1>1 DEF EventInv, Holding, Locked
<1>4. own' = [own EXCEPT ![t] = Over(values, own[t])]
  BY <1>2 DEF Write
<1> HIDE DEF values
<1>5. /\ DOMAIN own' = Txs /\ \A u \in Txs \ {t} : own'[u] = own[u]
      /\ own'[t] = Over(values, own[t])
  BY <1>4 DEF EventInv, Shapes
<1>6. /\ DOMAIN own'[t] = DOMAIN values
      /\ \A x \in DOMAIN values : own'[t][x] = values[x]
  BY <1>3, <1>5 DEF Over
<1>7. /\ DOMAIN values = Written(t)
      /\ Business \in Written(t) => values[Business] = Updated(t, db[Business])
      /\ \A e \in Events : Event(e) \in Written(t) => values[Event(e)] = TRUE
  BY RowsDiffer DEF values
<1>8. Locked(t)' = Written(t)
  BY <1>6, <1>7 DEF Locked
<1>9. todo' = [todo EXCEPT ![t] = Committing]
  BY <1>1, <1>2, Statements DEF Advance
<1>10. QED
  BY <1>1, <1>2, <1>5, <1>6, <1>7, <1>8, <1>9

LEMMA FlushEvent ==
    ASSUME EventInv, NEW t \in Txs, Flush(t), Unrecorded(t)
    PROVE  EventInv'
<1>1. /\ todo[t] = Flushing /\ todo' = [todo EXCEPT ![t] = Committing]
      /\ UNCHANGED <<db, today, kind, request, applied, failedOn, overlapped>>
      /\ DOMAIN own' = Txs /\ \A u \in Txs \ {t} : own'[u] = own[u]
      /\ Locked(t)' = Written(t)
      /\ Business \in Written(t) => own'[t][Business] = Updated(t, db[Business])
      /\ \A e \in Events : Event(e) \in Written(t) => own'[t][Event(e)] = TRUE
  BY FlushWrites
<1>2. \A u \in Txs \ {t} : Locked(u)' = Locked(u)
  BY <1>1 DEF Locked
<1>3. \A u \in Txs : Written(u)' = Written(u)
  BY <1>1 DEF Written, ByEvent
<1>4. Updated(t, db[Business]) \in Row
  BY UpdatedRow DEF EventInv, Shapes
<1>5. Shapes'
  <2>1. todo' \in [Txs -> Steps]
    BY <1>1 DEF EventInv, Shapes, Steps
  <2>2. \A u \in Txs : Business \in Locked(u)' => own'[u][Business] \in Row
    BY <1>1, <1>2, <1>4 DEF EventInv, Shapes
  <2>3. QED
    BY <1>1, <2>1, <2>2 DEF EventInv, Shapes
<1>6. Holding'
  <2>1. \A u \in Txs : Locked(u)' = IF todo'[u] = Committing THEN Written(u)' ELSE {}
    BY <1>1, <1>2, <1>3 DEF EventInv, Shapes, Holding
  <2>2. \A u \in Txs \ {t} : Locked(u) \cap Written(t) = {}
    BY DEF Flush, Free, HeldByOthers
  <2>3. \A u, v \in Txs : u # v => Locked(u)' \cap Locked(v)' = {}
    BY <1>1, <1>2, <2>2 DEF EventInv, Holding
  <2>4. \A e \in Events : Event(e) \in Written(t) => ~db[Event(e)]
    BY RowsDiffer DEF Written, Unrecorded, ByEvent
  <2>5. ASSUME NEW u \in Txs, NEW e \in Events, Event(e) \in Locked(u)'
        PROVE  own'[u][Event(e)] = TRUE /\ ~db'[Event(e)]
    BY <1>1, <1>2, <2>4, <2>5 DEF EventInv, Holding
  <2>6. QED
    BY <2>1, <2>3, <2>5 DEF Holding
<1>7. Counted'
  BY <1>1 DEF EventInv, Counted
<1>8. QED
  BY <1>5, <1>6, <1>7 DEF EventInv

\* What a commit makes of the rows: its own values in place of the others'.
LEMMA CommitPublishes ==
    ASSUME EventInv, NEW t \in Txs, Commit(t)
    PROVE  /\ todo[t] = Committing /\ Locked(t) = Written(t)
           /\ own' = [own EXCEPT ![t] = <<>>] /\ todo' = [todo EXCEPT ![t] = <<>>]
           /\ request' = [request EXCEPT ![t] = NoRequest]
           /\ DOMAIN db' = DOMAIN db
           /\ db'[Business] = See(t, Business)
           /\ \A e \in Events : db'[Event(e)] =
                 IF Event(e) \in Locked(t) THEN TRUE ELSE db[Event(e)]
           /\ \A e \in Events : Event(e) \in Locked(t) <=> request[t].by = e
<1>1. todo[t] = Committing /\ Locked(t) = Written(t)
  BY Where DEF EventInv, Shapes, Holding, Commit
<1>2. /\ db' = Over(own[t], db) /\ own' = [own EXCEPT ![t] = <<>>]
      /\ todo' = [todo EXCEPT ![t] = <<>>]
      /\ request' = [request EXCEPT ![t] = NoRequest]
  BY DEF Commit, Publish, Release
<1>3. /\ DOMAIN db' = DOMAIN own[t] \cup DOMAIN db
      /\ \A x \in DOMAIN own[t] : db'[x] = own[t][x]
      /\ \A x \in DOMAIN db : x \notin DOMAIN own[t] => db'[x] = db[x]
  BY <1>2 DEF Over
<1>4. Written(t) \subseteq DOMAIN db
  BY DEF EventInv, Shapes, Written, ByEvent
<1>5. \A e \in Events : Event(e) \in Locked(t) <=> request[t].by = e
  BY <1>1, RowsDiffer DEF Written, ByEvent
<1>6. DOMAIN db' = DOMAIN db
  BY <1>1, <1>3, <1>4 DEF Locked
<1>7. db'[Business] = See(t, Business)
  BY <1>3 DEF EventInv, Shapes, Locked, See
<1>8. ASSUME NEW e \in Events
      PROVE  db'[Event(e)] = IF Event(e) \in Locked(t) THEN TRUE ELSE db[Event(e)]
  <2>1. Event(e) \in DOMAIN db
    BY DEF EventInv, Shapes
  <2>2. Event(e) \in Locked(t) => own[t][Event(e)] = TRUE
    BY DEF EventInv, Holding
  <2>3. QED
    BY <1>3, <2>1, <2>2 DEF Locked
<1>9. QED
  BY <1>1, <1>2, <1>5, <1>6, <1>7, <1>8

LEMMA CommitEvent ==
    ASSUME EventInv, NEW t \in Txs, Commit(t)
    PROVE  EventInv'
<1>1. /\ todo[t] = Committing /\ Locked(t) = Written(t)
      /\ own' = [own EXCEPT ![t] = <<>>] /\ todo' = [todo EXCEPT ![t] = <<>>]
      /\ request' = [request EXCEPT ![t] = NoRequest]
      /\ DOMAIN db' = DOMAIN db
      /\ db'[Business] = See(t, Business)
      /\ \A e \in Events : db'[Event(e)] =
            IF Event(e) \in Locked(t) THEN TRUE ELSE db[Event(e)]
      /\ \A e \in Events : Event(e) \in Locked(t) <=> request[t].by = e
  BY CommitPublishes
<1>2. /\ Locked(t)' = {}
      /\ \A u \in Txs \ {t} : /\ own'[u] = own[u] /\ Locked(u)' = Locked(u)
                              /\ todo'[u] = todo[u] /\ request'[u] = request[u]
      /\ todo'[t] = <<>>
  BY <1>1, NothingLocked DEF EventInv, Shapes, Locked
<1>3. applied' = IF ByEvent(t)
                 THEN [applied EXCEPT ![request[t].by] = @ + 1] ELSE applied
  BY DEF Commit
<1>4. Counted'
  <2>1. ASSUME NEW e \in Events
        PROVE  applied'[e] = IF request[t].by = e THEN applied[e] + 1 ELSE applied[e]
    BY <1>3 DEF ByEvent, EventInv, Shapes
  <2>2. \A e \in Events : request[t].by = e => applied[e] = 0
    BY <1>1 DEF EventInv, Holding, Counted
  <2>3. ASSUME NEW e \in Events
        PROVE  applied'[e] = IF db'[Event(e)] THEN 1 ELSE 0
    <3>1. CASE request[t].by = e
      <4>1. applied'[e] = 0 + 1
        BY <2>1, <2>2, <3>1
      <4>2. db'[Event(e)] = TRUE
        BY <1>1, <3>1
      <4>3. QED
        BY <4>1, <4>2
    <3>2. CASE request[t].by # e
      <4>1. applied'[e] = applied[e] /\ db'[Event(e)] = db[Event(e)]
        BY <1>1, <2>1, <3>2
      <4>2. applied[e] = IF db[Event(e)] THEN 1 ELSE 0
        BY DEF EventInv, Counted
      <4>3. QED
        BY <4>1, <4>2
    <3>3. QED
      BY <3>1, <3>2
  <2>4. QED
    BY <2>3 DEF Counted
<1>5. Shapes'
  <2>1. NoRequest \in Request
    BY DEF NoRequest, NoRow, Request, Row, Statuses
  <2>2. db'[Business] \in Row
    BY <1>1 DEF EventInv, Shapes, See, Locked
  <2>3. applied' \in [Events -> Nat]
    BY <1>3 DEF ByEvent, EventInv, Shapes
  <2>4. \A e \in Events : db'[Event(e)] \in BOOLEAN
    BY <1>1 DEF EventInv, Shapes
  <2>5. failedOn' \in Nat \cup {None} /\ today' \in Nat /\ kind' = kind
    <3>1. failedOn' \in {None, today, failedOn} /\ today' = today /\ kind' = kind
      BY DEF Commit
    <3>2. QED
      BY <3>1 DEF EventInv, Shapes
  <2>6. todo' \in [Txs -> Steps] /\ request' \in [Txs -> Request] /\ DOMAIN own' = Txs
    BY <1>1, <2>1 DEF EventInv, Shapes, Steps
  <2>7. \A u \in Txs : Business \in Locked(u)' => own'[u][Business] \in Row
    BY <1>2 DEF EventInv, Shapes
  <2>8. QED
    BY <1>1, <2>2, <2>3, <2>4, <2>5, <2>6, <2>7 DEF EventInv, Shapes
<1>6. Holding'
  <2>1. \A u \in Txs \ {t} : Written(u)' = Written(u)
    BY <1>2 DEF Written, ByEvent
  <2>2. \A u \in Txs : Locked(u)' = IF todo'[u] = Committing THEN Written(u)' ELSE {}
    BY <1>2, <2>1, Statements DEF EventInv, Holding
  <2>3. \A u, v \in Txs : u # v => Locked(u)' \cap Locked(v)' = {}
    BY <1>2 DEF EventInv, Holding
  <2>4. ASSUME NEW u \in Txs, NEW e \in Events, Event(e) \in Locked(u)'
        PROVE  own'[u][Event(e)] = TRUE /\ ~db'[Event(e)]
    <3>1. u # t /\ Event(e) \in Locked(u)
      BY <1>2, <2>4
    <3>2. Event(e) \notin Locked(t)
      BY <3>1 DEF EventInv, Holding
    <3>3. QED
      BY <1>1, <1>2, <3>1, <3>2 DEF EventInv, Holding
  <2>5. QED
    BY <2>2, <2>3, <2>4 DEF Holding
<1>7. QED
  BY <1>4, <1>5, <1>6 DEF EventInv

\* A request under way for an event handles one of the gateway's.
Loads == \A t \in Txs : todo[t] = Loading => ByEvent(t)

LEMMA StepEvent ==
    ASSUME EventInv, Loads, [Next]_vars
    PROVE  EventInv' /\ Loads'
<1>1. ASSUME NEW t \in Txs, NEW e \in Events, Deliver(t, e)
      PROVE  EventInv' /\ Loads'
  <2>1. NoRow \in Row
    BY DEF NoRow, Row, Statuses
  <2>2. Begin(t, Loading, e, NoRow, NoRow)
    BY <1>1 DEF Deliver, Loading
  <2>3. EventInv'
    BY <2>1, <2>2, BeginEvent
  <2>4. Loads'
    BY <2>2, <1>1 DEF Begin, Loads, ByEvent, EventInv, Shapes
  <2>5. QED
    BY <2>3, <2>4
<1>2. ASSUME NEW t \in Txs, LoadBusiness(t)
      PROVE  EventInv' /\ Loads'
  <2>1. todo[t] = Loading /\ todo' = [todo EXCEPT ![t] = Flushing]
    BY <1>2, Where, Statements DEF EventInv, Shapes, LoadBusiness, Advance
  <2>2. request[t].by \in Events
    BY <2>1 DEF Loads, ByEvent
  <2>3. EventInv'
    BY <1>2, <2>2, LoadEvent
  <2>4. \A u \in Txs \ {t} : request'[u] = request[u] /\ todo'[u] = todo[u]
    BY <1>2, <2>1 DEF LoadBusiness, EventInv, Shapes
  <2>5. Loads'
    BY <2>1, <2>4, Statements DEF Loads, ByEvent, EventInv, Shapes
  <2>6. QED
    BY <2>3, <2>5
<1>3. ASSUME NEW t \in Txs, BeginGraceJob(t)
      PROVE  EventInv' /\ Loads'
  <2> DEFINE target == [db[Business] EXCEPT !.status = "READ_ONLY"]
  <2>1. db[Business] \in Row /\ target \in Row
    BY DEF EventInv, Shapes, Row, Statuses
  <2>2. Begin(t, Flushing, "grace job", db[Business], target)
    BY <1>3 DEF BeginGraceJob, Flushing
  <2> HIDE DEF target
  <2>3. EventInv'
    BY <2>1, <2>2, BeginEvent
  <2>4. Loads'
    BY <2>2, Statements DEF Begin, Loads, ByEvent, EventInv, Shapes
  <2>5. QED
    BY <2>3, <2>4
<1>4. ASSUME NEW t \in Txs, Rollback(t)
      PROVE  EventInv' /\ Loads'
  <2>1. EventInv'
    BY <1>4, RollbackEvent
  <2>2. Loads'
    BY <1>4, Statements DEF Rollback, Release, Loads, ByEvent, EventInv, Shapes
  <2>3. QED
    BY <2>1, <2>2
<1>5. ASSUME NEW t \in Txs, Flush(t)
      PROVE  EventInv' /\ Loads'
  <2>1. CASE Unrecorded(t)
    <3>1. EventInv'
      BY <1>5, <2>1, FlushEvent
    <3>2. todo' = [todo EXCEPT ![t] = Committing] /\ UNCHANGED request
      BY <1>5, <2>1, FlushWrites
    <3>3. Loads'
      BY <3>2, Statements DEF Loads, ByEvent, EventInv, Shapes
    <3>4. QED
      BY <3>1, <3>3
  <2>2. CASE ~Unrecorded(t)
    BY <1>5, <2>2, <1>4 DEF Flush
  <2>3. QED
    BY <2>1, <2>2
<1>6. ASSUME NEW t \in Txs, Commit(t)
      PROVE  EventInv' /\ Loads'
  <2>1. EventInv'
    BY <1>6, CommitEvent
  <2>2. Loads'
    BY <1>6, Statements DEF Commit, Release, Loads, ByEvent, EventInv, Shapes
  <2>3. QED
    BY <2>1, <2>2
<1>7. ASSUME UNCHANGED <<db, own, todo, kind, request, applied, failedOn>>,
             today' \in Nat
      PROVE  EventInv' /\ Loads'
  <2>1. EventInv'
    BY <1>7, SameEvents DEF EventInv, Shapes
  <2>2. Loads'
    BY <1>7 DEF Loads, ByEvent
  <2>3. QED
    BY <2>1, <2>2
<1>8. CASE Tick
  <2>1. today' \in Nat
    BY <1>8 DEF Tick, EventInv, Shapes
  <2>2. QED
    BY <1>7, <1>8, <2>1 DEF Tick
<1>9. CASE UNCHANGED vars
  <2>1. today' \in Nat
    BY <1>9 DEF vars, EventInv, Shapes
  <2>2. QED
    BY <1>7, <1>9, <2>1 DEF vars
<1>10. QED
  BY <1>1, <1>2, <1>3, <1>4, <1>5, <1>6, <1>8, <1>9 DEF Next, Fail

\* An event takes effect at most once: process_webhook_event() under any
\* number of overlapping, repeated and failing deliveries.
THEOREM AppliedOnceHolds == Spec => []AppliedOnce
<1>1. Init => EventInv /\ Loads
  <2>1. Init => EventInv
    BY InitEvent
  <2>2. Init => Loads
    BY Statements DEF Init, InitSessions, Loads
  <2>3. QED
    BY <2>1, <2>2
<1>2. EventInv /\ Loads /\ [Next]_vars => (EventInv /\ Loads)'
  BY StepEvent
<1>3. EventInv => AppliedOnce
  BY DEF EventInv, Counted, AppliedOnce
<1>4. QED
  BY <1>1, <1>2, <1>3, PTL DEF Spec

------------------------------------------------------------------------------
(* The grace clock, while requests come one after another.                 *)

Lone == \A t, u \in Txs : t # u => Idle(t) \/ Idle(u)

\* What the request of t made of the business as it is in the table: a
\* handler's columns, or the job's.
FromTable(t) ==
    /\ request[t].loaded = db[Business]
    /\ ByEvent(t) => request[t].target = Handled(kind[request[t].by], db[Business])
    /\ ~ByEvent(t) => request[t].target = [db[Business] EXCEPT !.status = "READ_ONLY"]

Clock ==
    /\ Lone
    /\ \A t \in Txs : todo[t] \in {Flushing, Committing} => FromTable(t)
    /\ \A t \in Txs : todo[t] = Committing => See(t, Business) = request[t].target
    /\ db[Business].since = failedOn

ClockInv == ~overlapped => Clock

\* While t is under way alone, all others are idle.
LEMMA Others ==
    ASSUME EventInv, Lone, NEW t \in Txs, ~Idle(t)
    PROVE  \A u \in Txs \ {t} : todo[u] = <<>>
  BY DEF Lone, Idle

\* A request begins with no other under way, or requests overlap from now on.
LEMMA BeginClock ==
    ASSUME EventInv, ClockInv, NEW t \in Txs, NEW steps \in {Loading, Flushing},
           NEW by \in Events \cup {"grace job"}, NEW STATE loaded, loaded \in Row,
           NEW STATE target, target \in Row, Begin(t, steps, by, loaded, target),
           steps = Flushing =>
              /\ by \notin Events /\ loaded = db[Business]
              /\ target = [db[Business] EXCEPT !.status = "READ_ONLY"]
    PROVE  ClockInv'
<1> SUFFICES ASSUME ~overlapped' PROVE Clock'
  BY DEF ClockInv
<1> DEFINE new == [by |-> by, loaded |-> loaded, target |-> target]
<1>1. /\ ~overlapped /\ Alone(t) /\ Clock
      /\ todo' = [todo EXCEPT ![t] = steps] /\ request' = [request EXCEPT ![t] = new]
      /\ UNCHANGED <<db, own, applied, kind, failedOn, today>>
  BY DEF Begin, ClockInv
<1>2. new.by = by /\ new.loaded = loaded /\ new.target = target
  OBVIOUS
<1> HIDE DEF new
<1>3. \A u \in Txs \ {t} : todo'[u] = <<>>
  BY <1>1 DEF Alone, Idle, EventInv, Shapes
<1>4. todo'[t] = steps /\ request'[t] = new
  BY <1>1 DEF EventInv, Shapes
<1>5. Lone'
  BY <1>3 DEF Lone, Idle
<1>6. ASSUME NEW u \in Txs, todo'[u] \in {Flushing, Committing}
      PROVE  FromTable(u)'
  <2>1. u = t /\ steps = Flushing
    BY <1>3, <1>4, <1>6, Statements
  <2>2. QED
    BY <1>1, <1>2, <1>4, <2>1 DEF FromTable, ByEvent
<1>7. \A u \in Txs : todo'[u] # Committing
  BY <1>3, <1>4, Statements
<1>8. db'[Business].since = failedOn'
  BY <1>1 DEF Clock
<1>9. QED
  BY <1>5, <1>6, <1>7, <1>8 DEF Clock

LEMMA LoadClock ==
    ASSUME EventInv, Loads, ClockInv, NEW t \in Txs, LoadBusiness(t)
    PROVE  ClockInv'
<1> SUFFICES ASSUME ~overlapped' PROVE Clock'
  BY DEF ClockInv
<1>1. /\ ~overlapped /\ Clock
      /\ UNCHANGED <<db, own, today, kind, applied, failedOn, overlapped>>
  BY DEF LoadBusiness, ClockInv
<1>2. ~Idle(t) /\ todo[t] = Loading /\ todo' = [todo EXCEPT ![t] = Flushing]
  BY Where, Statements DEF EventInv, Shapes, LoadBusiness, Advance, At
<1>3. \A u \in Txs \ {t} : todo[u] = <<>>
  BY <1>1, <1>2, Others DEF Clock
<1>4. todo'[t] = Flushing /\ \A u \in Txs \ {t} : todo'[u] = <<>>
  BY <1>2, <1>3 DEF EventInv, Shapes
<1>5. /\ request'[t].by = request[t].by
      /\ request'[t].loaded = db[Business]
      /\ request'[t].target = Handled(kind[request[t].by], db[Business])
  BY DEF LoadBusiness, EventInv, Shapes, Request
<1>6. ByEvent(t)' /\ ByEvent(t)
  BY <1>2, <1>5 DEF Loads, ByEvent
<1>7. FromTable(t)'
  <2>1. \A k, row : Handled(k, row)' = Handled(k, row)
    BY <1>1 DEF Handled, PastDue
  <2>2. QED
    BY <1>1, <1>5, <1>6, <2>1 DEF FromTable
<1>8. Lone'
  BY <1>4 DEF Lone, Idle
<1>9. QED
  BY <1>1, <1>4, <1>7, <1>8, Statements DEF Clock

LEMMA RollbackClock ==
    ASSUME EventInv, ClockInv, NEW t \in Txs, ~Idle(t), Rollback(t)
    PROVE  ClockInv'
<1> SUFFICES ASSUME ~overlapped' PROVE Clock'
  BY DEF ClockInv
<1>1. /\ ~overlapped /\ Clock /\ todo' = [todo EXCEPT ![t] = <<>>]
      /\ UNCHANGED <<db, failedOn>>
  BY DEF Rollback, Release, ClockInv
<1>2. \A u \in Txs \ {t} : todo[u] = <<>>
  BY <1>1, Others DEF Clock
<1>3. \A u \in Txs : todo'[u] = <<>>
  BY <1>1, <1>2 DEF EventInv, Shapes
<1>4. QED
  BY <1>1, <1>3, Statements DEF Clock, Lone, Idle

LEMMA FlushClock ==
    ASSUME EventInv, ClockInv, NEW t \in Txs, Flush(t), Unrecorded(t)
    PROVE  ClockInv'
<1> SUFFICES ASSUME ~overlapped' PROVE Clock'
  BY DEF ClockInv
<1>1. /\ todo[t] = Flushing /\ todo' = [todo EXCEPT ![t] = Committing]
      /\ UNCHANGED <<db, today, kind, request, applied, failedOn, overlapped>>
      /\ Locked(t)' = Written(t)
      /\ Business \in Written(t) => own'[t][Business] = Updated(t, db[Business])
  BY FlushWrites
<1>2. Clock /\ FromTable(t) /\ ~Idle(t)
  BY <1>1, Statements DEF ClockInv, Clock, Idle
<1>3. todo'[t] = Committing /\ \A u \in Txs \ {t} : todo'[u] = <<>>
  BY <1>1, <1>2, Others DEF Clock, EventInv, Shapes
<1>4. Lone'
  BY <1>3 DEF Lone, Idle
<1>5. FromTable(t)'
  <2>1. \A k, row : Handled(k, row)' = Handled(k, row)
    BY <1>1 DEF Handled, PastDue
  <2>2. QED
    BY <1>1, <1>2, <2>1 DEF FromTable, ByEvent
<1>6. See(t, Business)' = request[t].target
  <2>1. Business \in Written(t) <=> request[t].target # request[t].loaded
    BY RowsDiffer DEF Written, ByEvent
  <2>2. Updated(t, db[Business]) = request[t].target
    BY <1>2, UpdatedRow DEF FromTable, EventInv, Shapes
  <2>3. QED
    BY <1>1, <1>2, <2>1, <2>2 DEF See, Locked, FromTable
<1>7. QED
  BY <1>1, <1>2, <1>3, <1>4, <1>5, <1>6, Statements DEF Clock

LEMMA CommitClock ==
    ASSUME EventInv, ClockInv, NEW t \in Txs, Commit(t)
    PROVE  ClockInv'
<1> SUFFICES ASSUME ~overlapped' PROVE Clock'
  BY DEF ClockInv
<1>1. /\ todo[t] = Committing /\ todo' = [todo EXCEPT ![t] = <<>>]
      /\ db'[Business] = See(t, Business)
  BY CommitPublishes
<1>2. Clock /\ FromTable(t) /\ ~Idle(t) /\ db'[Business] = request[t].target
  BY <1>1, Statements DEF Commit, ClockInv, Clock, Idle
<1>3. \A u \in Txs : todo'[u] = <<>>
  BY <1>1, <1>2, Others DEF Clock, EventInv, Shapes
<1>4. db'[Business].since = failedOn'
  <2>1. CASE ByEvent(t)
    <3> DEFINE k == kind[request[t].by]
    <3>1. failedOn' = CASE k = "charge.success" -> None
                        [] k = "invoice.payment_failed" /\ failedOn = None -> today
                        [] OTHER -> failedOn
      BY <2>1 DEF Commit
    <3>2. k \in Kinds /\ db[Business] \in Row /\ today \in Nat
      BY <2>1 DEF ByEvent, EventInv, Shapes
    <3>3. db'[Business] = Handled(k, db[Business]) /\ db[Business].since = failedOn
      BY <1>2, <2>1 DEF FromTable, Clock
    <3> HIDE DEF k
    <3>4. CASE k = "charge.success"
      BY <3>1, <3>2, <3>3, <3>4, HandledRow
    <3>5. CASE k = "invoice.payment_failed"
      BY <3>1, <3>2, <3>3, <3>5, HandledRow
    <3>6. CASE k \notin {"charge.success", "invoice.payment_failed"}
      <4>1. failedOn' = failedOn
        BY <3>1, <3>6
      <4>2. Handled(k, db[Business]).since = db[Business].since
        BY <3>2, <3>6, HandledRow
      <4>3. QED
        BY <3>3, <4>1, <4>2
    <3>7. QED
      BY <3>4, <3>5, <3>6
  <2>2. CASE ~ByEvent(t)
    <3>1. failedOn' = failedOn
      BY <2>2 DEF Commit
    <3>2. db'[Business] = [db[Business] EXCEPT !.status = "READ_ONLY"]
      BY <1>2, <2>2 DEF FromTable
    <3>3. db'[Business].since = db[Business].since
      BY <3>2 DEF EventInv, Shapes, Row
    <3>4. QED
      BY <1>2, <3>1, <3>3 DEF Clock
  <2>3. QED
    BY <2>1, <2>2
<1>5. QED
  BY <1>3, <1>4, Statements DEF Clock, Lone, Idle

LEMMA StepClock ==
    ASSUME EventInv, Loads, ClockInv, [Next]_vars
    PROVE  ClockInv'
<1>1. ASSUME NEW t \in Txs, NEW e \in Events, Deliver(t, e)
      PROVE  ClockInv'
  <2>1. NoRow \in Row
    BY DEF NoRow, Row, Statuses
  <2>2. Begin(t, Loading, e, NoRow, NoRow)
    BY <1>1 DEF Deliver, Loading
  <2>3. QED
    BY <2>1, <2>2, BeginClock, Statements
<1>2. ASSUME NEW t \in Txs, BeginGraceJob(t)
      PROVE  ClockInv'
  <2> DEFINE target == [db[Business] EXCEPT !.status = "READ_ONLY"]
  <2>1. db[Business] \in Row /\ target \in Row
    BY DEF EventInv, Shapes, Row, Statuses
  <2>2. Begin(t, Flushing, "grace job", db[Business], target)
    BY <1>2 DEF BeginGraceJob, Flushing
  <2>3. QED
    BY <2>1, <2>2, BeginClock, EventsAssumption
<1>3. ASSUME NEW t \in Txs, ~Idle(t), Rollback(t)
      PROVE  ClockInv'
  BY <1>3, RollbackClock
<1>4. ASSUME NEW t \in Txs, Flush(t)
      PROVE  ClockInv'
  <2>1. CASE Unrecorded(t)
    BY <1>4, <2>1, FlushClock
  <2>2. CASE ~Unrecorded(t)
    BY <1>3, <1>4, <2>2 DEF Flush, At
  <2>3. QED
    BY <2>1, <2>2
<1>5. CASE Tick
  <2>1. \A t \in Txs : todo'[t] = <<>>
    BY <1>5 DEF Tick, Idle
  <2>2. UNCHANGED <<db, failedOn, overlapped>>
    BY <1>5 DEF Tick
  <2>3. QED
    BY <2>1, <2>2, Statements DEF ClockInv, Clock, Lone, Idle
<1>6. CASE UNCHANGED vars
  <2>1. \A k, row : Handled(k, row)' = Handled(k, row)
    BY <1>6 DEF vars, Handled, PastDue
  <2>2. UNCHANGED <<db, own, todo, kind, request, failedOn, overlapped>>
    BY <1>6 DEF vars
  <2>3. \A t \in Txs : FromTable(t)' = FromTable(t)
    BY <2>1, <2>2 DEF FromTable, ByEvent
  <2>4. \A t \in Txs : See(t, Business)' = See(t, Business) /\ Idle(t)' = Idle(t)
    BY <2>2 DEF See, Idle
  <2>5. QED
    BY <2>2, <2>3, <2>4 DEF ClockInv, Clock, Lone
<1>7. QED
  BY <1>1, <1>2, <1>3, <1>4, <1>5, <1>6, LoadClock, CommitClock DEF Next, Fail

\* While requests come one after another, the grace clock of a past-due
\* business counts from its first failed charge since it last paid.
THEOREM ClockHolds == Spec => []ClockFromFirstFailure
<1>1. Init => EventInv /\ Loads /\ ClockInv
  <2>1. Init => EventInv
    BY InitEvent
  <2>2. Init => Loads
    BY Statements DEF Init, InitSessions, Loads
  <2>3. ASSUME Init PROVE ClockInv
    <3>1. \A t \in Txs : todo[t] = <<>>
      BY <2>3 DEF Init, InitSessions
    <3>2. db[Business].since = failedOn
      BY <2>3 DEF Init, NoRow
    <3>3. QED
      BY <3>1, <3>2, Statements DEF ClockInv, Clock, Lone, Idle
  <2>4. QED
    BY <2>1, <2>2, <2>3
<1>2. EventInv /\ Loads /\ ClockInv /\ [Next]_vars => (EventInv /\ Loads /\ ClockInv)'
  BY StepEvent, StepClock
<1>3. ClockInv => ClockFromFirstFailure
  BY DEF ClockInv, Clock, ClockFromFirstFailure, Subscription
<1>4. QED
  BY <1>1, <1>2, <1>3, PTL DEF Spec

------------------------------------------------------------------------------
(* The payments of an order (OrderPayments).                               *)

\* The rows of different payments, and of the order, are different rows.
LEMMA PaymentRowsDiffer ==
    /\ \A p \in Payments : Payment(p) # Order
    /\ \A p, q \in Payments : Payment(p) = Payment(q) => p = q
BY DEF Payment, Order

\* The statements left of a request that records, edits or voids a payment, and
\* of one that changes the order's total.
Inserts   == <<"insert", "sync", "commit">>
Updates   == <<"update", "sync", "commit">>
Voids     == <<"void", "sync", "commit">>
Syncs     == <<"sync", "commit">>
SetsTotal == <<"total", "commit">>
Commits   == <<"commit">>
Writing   == {Inserts, Updates, Voids}

LEMMA PaymentSteps ==
    /\ Head(Inserts) = "insert" /\ Head(Updates) = "update" /\ Head(Voids) = "void"
    /\ Head(Syncs) = "sync" /\ Head(SetsTotal) = "total" /\ Head(Commits) = "commit"
    /\ \A w \in Writing : Tail(w) = Syncs
    /\ Tail(Syncs) = Commits /\ Tail(SetsTotal) = Commits
    /\ <<>> \notin Writing \cup {Syncs, SetsTotal, Commits}
<1>1. /\ Head(Inserts) = "insert" /\ Head(Updates) = "update" /\ Head(Voids) = "void"
  BY DEF Inserts, Updates, Voids
<1>2. /\ Head(Syncs) = "sync" /\ Head(SetsTotal) = "total" /\ Head(Commits) = "commit"
  BY DEF Syncs, SetsTotal, Commits
<1>3. /\ Tail(Inserts) = Syncs
  BY DEF Inserts, Syncs
<1>4. /\ Tail(Updates) = Syncs
  BY DEF Updates, Syncs
<1>5. /\ Tail(Voids) = Syncs
  BY DEF Voids, Syncs
<1>6. Tail(Syncs) = Commits
  BY DEF Syncs, Commits
<1>7. Tail(SetsTotal) = Commits
  BY DEF SetsTotal, Commits
<1>8. <<>> \notin Writing
  BY DEF Writing, Inserts, Updates, Voids
<1>9. <<>> # Syncs /\ <<>> # SetsTotal /\ <<>> # Commits
  BY DEF Syncs, SetsTotal, Commits
<1>10. QED
  BY <1>1, <1>2, <1>3, <1>4, <1>5, <1>6, <1>7, <1>8, <1>9 DEF Writing

\* What a request is about to do, by what it has left.
PaymentStage(t) == todo[t] \in Writing \cup {<<>>, Syncs, SetsTotal, Commits}

LEMMA PaymentWhere ==
    ASSUME NEW t, PaymentStage(t)
    PROVE  /\ Idle(t) <=> todo[t] = <<>>
           /\ At(t, "insert") <=> todo[t] = Inserts
           /\ At(t, "update") <=> todo[t] = Updates
           /\ At(t, "void") <=> todo[t] = Voids
           /\ At(t, "sync") <=> todo[t] = Syncs
           /\ At(t, "total") <=> todo[t] = SetsTotal
           /\ At(t, "commit") <=> todo[t] = Commits
BY PaymentSteps DEF PaymentStage, Writing, Idle, At

------------------------------------------------------------------------------
(* The rows, and what is paid.                                             *)

PaymentRow ==
    [status : {"NEW", "COMPLETED", "VOIDED"}, amount : Nat,
     rate : (Nat \ {0}) \cup {Null}, original : Nat \cup {Null},
     originalCurrency : Currencies \cup {Null}]
OrderStatuses == {"UNPAID", "PARTIAL", "PAID"}
OrderRow == [total : Nat, status : OrderStatuses]

\* The rows of the order and its payments.
AreRows(rows) ==
    /\ DOMAIN rows = {Order} \cup {Payment(p) : p \in Payments}
    /\ rows[Order] \in OrderRow
    /\ \A p \in Payments : rows[Payment(p)] \in PaymentRow

\* What a payment counts for.
Counts(row) == IF row.status = "COMPLETED" THEN row.amount ELSE 0

LEMMA CountsNat == ASSUME NEW row \in PaymentRow PROVE Counts(row) \in Nat
BY DEF Counts, PaymentRow

LEMMA PaidNat ==
    ASSUME NEW STATE rows, \A p \in Payments : rows[Payment(p)] \in PaymentRow
    PROVE  PaidIn(rows) \in Nat
<1> DEFINE f == [p \in Payments |-> IF rows[Payment(p)].status = "COMPLETED"
                                    THEN rows[Payment(p)].amount ELSE 0]
<1>1. f \in [Payments -> Nat]
  BY DEF PaymentRow
<1> HIDE DEF f
<1>2. SumFunction(f) \in Nat
  BY <1>1, FunctionNat, PaymentsAssumption
<1>3. QED
  BY <1>2 DEF PaidIn, f

\* One payment changes.
LEMMA PaidChanges ==
    ASSUME NEW STATE rows, \A p \in Payments : rows[Payment(p)] \in PaymentRow,
           NEW STATE others, \A p \in Payments : others[Payment(p)] \in PaymentRow,
           NEW STATE id, id \in Payments,
           \A p \in Payments : p # id => others[Payment(p)] = rows[Payment(p)]
    PROVE  PaidIn(others)
             = PaidIn(rows) - Counts(rows[Payment(id)]) + Counts(others[Payment(id)])
<1> DEFINE f == [p \in Payments |-> IF rows[Payment(p)].status = "COMPLETED"
                                    THEN rows[Payment(p)].amount ELSE 0]
           g == [p \in Payments |-> IF others[Payment(p)].status = "COMPLETED"
                                    THEN others[Payment(p)].amount ELSE 0]
<1>1. f \in [Payments -> Int] /\ g \in [Payments -> Int]
  BY DEF PaymentRow
<1>2. /\ \A p \in Payments : p # id => g[p] = f[p]
      /\ f[id] = Counts(rows[Payment(id)]) /\ g[id] = Counts(others[Payment(id)])
  BY DEF Counts
<1>3. PaidIn(rows) = SumFunction(f) /\ PaidIn(others) = SumFunction(g)
  BY DEF PaidIn
<1> HIDE DEF f, g
<1>4. SumFunction(g) = SumFunction(f) - f[id] + g[id]
  BY <1>1, <1>2, FunctionChanged, PaymentsAssumption
<1>5. QED
  BY <1>2, <1>3, <1>4

\* No payment changes.
LEMMA PaidStays ==
    ASSUME NEW STATE rows, NEW STATE others,
           \A p \in Payments : others[Payment(p)] = rows[Payment(p)]
    PROVE  PaidIn(others) = PaidIn(rows)
<1>1. [p \in Payments |-> IF rows[Payment(p)].status = "COMPLETED"
                          THEN rows[Payment(p)].amount ELSE 0]
        = [p \in Payments |-> IF others[Payment(p)].status = "COMPLETED"
                              THEN others[Payment(p)].amount ELSE 0]
  OBVIOUS
<1>2. QED
  BY <1>1 DEF PaidIn

------------------------------------------------------------------------------
(* What a request wants to write, and what an UPDATE makes of it.          *)

Intent == [id : Payments \cup {Null}, was : PaymentRow, row : PaymentRow]

LEMMA ChangedRow ==
    ASSUME NEW t \in Txs, intent[t] \in Intent, NEW STATE row, row \in PaymentRow
    PROVE  /\ Changed(t, row) \in PaymentRow
           /\ row = intent[t].was => Changed(t, row) = intent[t].row
<1> DEFINE new(c) == IF intent[t].row[c] # intent[t].was[c]
                     THEN intent[t].row[c] ELSE row[c]
           changed == [status |-> new("status"), amount |-> new("amount"),
                       rate |-> new("rate"), original |-> new("original"),
                       originalCurrency |-> new("originalCurrency")]
<1>1. /\ DOMAIN row = {"status", "amount", "rate", "original", "originalCurrency"}
      /\ intent[t].row \in PaymentRow /\ intent[t].was \in PaymentRow
  BY DEF PaymentRow, Intent
<1>2. Changed(t, row) = changed
  BY <1>1 DEF Changed
<1>3. changed \in PaymentRow
  BY <1>1 DEF PaymentRow
<1>4. row = intent[t].was => changed = intent[t].row
  BY <1>1 DEF PaymentRow
<1>5. QED
  BY <1>2, <1>3, <1>4

LEMMA ConvertNat ==
    ASSUME NEW amount \in Nat, NEW currency, NEW rate \in Nat \ {0}
    PROVE  Convert(amount, currency, rate) \in Nat
<1>1. /\ 2 * amount + rate \in Nat /\ 2 * rate \in Nat \ {0}
      /\ amount * rate \in Nat
  OBVIOUS
<1>2. (2 * amount + rate) \div (2 * rate) \in Nat
  BY <1>1
<1>3. QED
  BY <1>1, <1>2 DEF Convert

------------------------------------------------------------------------------
(* What a request has written and read.                                    *)

\* A request writes the row it is about, once it has taken its first statement.
RowWanted(t) == IF intent[t].id = Null THEN Order ELSE Payment(intent[t].id)

Writes(t) ==
    /\ todo[t] \in Writing \cup {<<>>, SetsTotal} => Locked(t) = {}
    /\ todo[t] \in Writing \cup {Syncs} => intent[t].id \in Payments
    /\ todo[t] = SetsTotal => intent[t].id = Null
    /\ Locked(t) \subseteq {RowWanted(t)}
    /\ Order \in Locked(t) => own[t][Order] \in OrderRow
    /\ \A p \in Payments : Payment(p) \in Locked(t) => own[t][Payment(p)] \in PaymentRow

PaymentShapes ==
    /\ AreRows(db)
    /\ DOMAIN own = Txs /\ DOMAIN todo = Txs /\ DOMAIN orderLoaded = Txs
    /\ synced \in [Txs -> OrderStatuses]
    /\ intent \in [Txs -> Intent]
    /\ \A t \in Txs : PaymentStage(t) /\ Writes(t)

\* A request that overlaps no other: what it has loaded is what is committed; with
\* its payment the total is not exceeded by more than it was; and the status it
\* will write is derived from the payments it sees.
Running(t) ==
    /\ orderLoaded[t] = db[Order]
    /\ todo[t] \in Writing => db[Payment(intent[t].id)] = intent[t].was
    /\ todo[t] = Inserts => intent[t].was = NoPayment
    /\ todo[t] = Updates => intent[t].was.status = "COMPLETED"
    /\ todo[t] = Voids => intent[t].row.status = "VOIDED"
    /\ todo[t] \in {Syncs, Commits} /\ intent[t].id # Null =>
          (PaidSeen(t) > Paid => PaidSeen(t) <= db[Order].total)
    /\ todo[t] = Commits /\ intent[t].id # Null =>
          synced[t] = PaymentStatus(PaidSeen(t), Balance(t))

OneByOne ==
    ~crossed => \A t \in Txs : ~Idle(t) => Alone(t) /\ Running(t)

PaymentsInv == PaymentShapes /\ OneByOne

\* What a request sees of the payments are payments; one that has written nothing
\* sees what is committed.
LEMMA PaymentsSeen ==
    ASSUME PaymentShapes, NEW t \in Txs
    PROVE  /\ \A p \in Payments : See(t, Payment(p)) \in PaymentRow
           /\ Locked(t) = {} => PaidSeen(t) = Paid
           /\ PaidSeen(t) \in Nat /\ Paid \in Nat
<1> DEFINE seen == [i \in DOMAIN db |-> See(t, i)]
<1>1. \A p \in Payments : See(t, Payment(p)) \in PaymentRow
  BY DEF PaymentShapes, AreRows, Writes, See, Locked
<1>2. \A p \in Payments : seen[Payment(p)] = See(t, Payment(p))
  BY DEF PaymentShapes, AreRows
<1>3. PaidSeen(t) = PaidIn(seen)
  BY DEF PaidSeen
<1> HIDE DEF seen
<1>4. PaidIn(seen) \in Nat
  BY <1>1, <1>2, PaidNat
<1>5. PaidIn(db) \in Nat
  BY PaidNat DEF PaymentShapes, AreRows
<1>6. ASSUME Locked(t) = {}
      PROVE  PaidIn(seen) = PaidIn(db)
  <2>1. \A p \in Payments : seen[Payment(p)] = db[Payment(p)]
    BY <1>2, <1>6 DEF See, Locked
  <2>2. QED
    BY <2>1, PaidStays
<1>7. QED
  BY <1>1, <1>3, <1>4, <1>5, <1>6 DEF Paid

\* What is paid as a request sees it depends on the rows it has locked only.
LEMMA SamePaid ==
    ASSUME NEW t \in Txs, db' = db, own'[t] = own[t]
    PROVE  PaidSeen(t)' = PaidSeen(t) /\ Paid' = Paid
<1>1. \A i : See(t, i)' = See(t, i)
  BY DEF See
<1>2. PaidSeen(t)' = PaidIn([i \in DOMAIN db |-> See(t, i)'])
  <2>1. [i \in DOMAIN db |-> See(t, i)]' = [i \in DOMAIN db |-> See(t, i)']
    OBVIOUS
  <2>2. QED
    BY <2>1 DEF PaidSeen, PaidIn
<1>3. PaidSeen(t)' = PaidSeen(t)
  <2>1. [i \in DOMAIN db |-> See(t, i)'] = [i \in DOMAIN db |-> See(t, i)]
    BY <1>1
  <2>2. QED
    BY <1>2, <2>1 DEF PaidSeen
<1>4. Paid' = Paid
  BY DEF Paid, PaidIn
<1>5. QED
  BY <1>3, <1>4

\* A step of one request leaves the others as they are.
LEMMA OthersWrite ==
    ASSUME PaymentShapes, NEW u \in Txs, own'[u] = own[u], todo'[u] = todo[u],
           intent'[u] = intent[u]
    PROVE  PaymentStage(u)' /\ Writes(u)'
BY DEF PaymentShapes, PaymentStage, Writes, RowWanted, Locked

\* ... and if requests come one by one there are no others.
LEMMA LoneStep ==
    ASSUME PaymentsInv, NEW t \in Txs, ~Idle(t), crossed' = crossed, NEW left,
           todo' = [todo EXCEPT ![t] = left],
           left = <<>> \/ (~crossed => Running(t)')
    PROVE  OneByOne'
<1> SUFFICES ASSUME ~crossed PROVE \A u \in Txs : ~Idle(u)' => Alone(u)' /\ Running(u)'
  BY DEF OneByOne
<1>1. \A u \in Txs \ {t} : todo[u] = <<>> /\ todo'[u] = <<>>
  BY DEF PaymentsInv, PaymentShapes, OneByOne, Alone, Idle
<1>2. todo'[t] = left
  BY DEF PaymentsInv, PaymentShapes
<1>3. QED
  BY <1>1, <1>2 DEF Idle, Alone

------------------------------------------------------------------------------
(* The requests begin and end.                                             *)

LEMMA NoPaymentRow == NoPayment \in PaymentRow
BY DEF NoPayment, PaymentRow

LEMMA BeginPayments ==
    ASSUME PaymentsInv, NEW t \in Txs, NEW steps \in Writing \cup {SetsTotal}, NEW p,
           p \in Payments <=> steps \in Writing, p = Null <=> steps = SetsTotal,
           NEW STATE was, was \in PaymentRow, NEW STATE row, row \in PaymentRow,
           BeginRequest(t, steps, p, was, row),
           steps \in Writing => db[Payment(p)] = was,
           steps = Inserts => was = NoPayment,
           steps = Updates => was.status = "COMPLETED",
           steps = Voids => row.status = "VOIDED"
    PROVE  PaymentsInv'
<1> DEFINE new == [id |-> p, was |-> was, row |-> row]
<1>1. /\ Idle(t) /\ todo' = [todo EXCEPT ![t] = steps]
      /\ orderLoaded' = [orderLoaded EXCEPT ![t] = db[Order]]
      /\ intent' = [intent EXCEPT ![t] = new]
      /\ crossed' = ~Alone(t) /\ UNCHANGED <<db, own, synced>>
  BY DEF BeginRequest
<1>2. new \in Intent /\ new.id = p /\ new.was = was /\ new.row = row
  BY DEF Intent
<1> HIDE DEF new
<1>3. /\ todo'[t] = steps /\ orderLoaded'[t] = db[Order] /\ intent'[t] = new
      /\ \A u \in Txs \ {t} : todo'[u] = todo[u] /\ intent'[u] = intent[u]
  BY <1>1 DEF PaymentsInv, PaymentShapes
<1>4. Locked(t) = {} /\ Locked(t)' = {}
  BY <1>1, PaymentSteps DEF PaymentsInv, PaymentShapes, Writes, Idle, Locked
<1>5. steps \notin {<<>>, Syncs, Commits} /\ (steps \in Writing => steps # SetsTotal)
  <2>1. \A w \in Writing : Head(w) \in {"insert", "update", "void"}
    BY PaymentSteps DEF Writing
  <2>2. QED
    BY <2>1, PaymentSteps
<1>6. PaymentShapes'
  <2>1. AreRows(db)'
    BY <1>1 DEF PaymentsInv, PaymentShapes, AreRows
  <2>2. intent' \in [Txs -> Intent]
    BY <1>1, <1>2 DEF PaymentsInv, PaymentShapes
  <2>3. PaymentStage(t)' /\ Writes(t)'
    BY <1>2, <1>3, <1>4, <1>5 DEF PaymentStage, Writes
  <2>4. \A u \in Txs \ {t} : PaymentStage(u)' /\ Writes(u)'
    BY <1>1, <1>3, OthersWrite DEF PaymentsInv
  <2>5. QED
    BY <1>1, <2>1, <2>2, <2>3, <2>4 DEF PaymentsInv, PaymentShapes
<1>7. OneByOne'
  <2>1. SUFFICES ASSUME Alone(t) PROVE \A u \in Txs : ~Idle(u)' => Alone(u)' /\ Running(u)'
    BY <1>1 DEF OneByOne
  <2>2. \A u \in Txs \ {t} : Idle(u)'
    BY <1>3, <2>1 DEF Alone, Idle
  <2>3. Running(t)'
    BY <1>1, <1>2, <1>3, <1>5 DEF Running
  <2>4. QED
    BY <2>2, <2>3 DEF Alone
<1>8. QED
  BY <1>6, <1>7 DEF PaymentsInv

LEMMA FinishPayments ==
    ASSUME PaymentsInv, NEW t \in Txs, ~Idle(t), Finish(t), crossed' = crossed, AreRows(db)'
    PROVE  PaymentsInv'
<1>1. /\ own' = [own EXCEPT ![t] = <<>>] /\ todo' = [todo EXCEPT ![t] = <<>>]
      /\ orderLoaded' = [orderLoaded EXCEPT ![t] = NotLoaded]
      /\ intent' = [intent EXCEPT ![t] = NoIntent]
      /\ synced' = [synced EXCEPT ![t] = "UNPAID"]
  BY DEF Finish, Release
<1>2. /\ todo'[t] = <<>> /\ intent'[t] = NoIntent /\ Locked(t)' = {}
      /\ \A u \in Txs \ {t} : /\ todo'[u] = todo[u] /\ intent'[u] = intent[u]
                              /\ own'[u] = own[u]
  BY <1>1, NothingLocked DEF PaymentsInv, PaymentShapes, Locked
<1>3. intent' \in [Txs -> Intent]
  <2>1. NoIntent \in Intent
    BY NoPaymentRow DEF NoIntent, Intent
  <2>2. QED
    BY <1>1, <2>1 DEF PaymentsInv, PaymentShapes
<1>4. PaymentStage(t)' /\ Writes(t)'
  <2>1. <<>> \notin Writing \cup {Syncs, SetsTotal}
    BY PaymentSteps
  <2>2. QED
    BY <1>2, <2>1 DEF PaymentStage, Writes
<1>5. \A u \in Txs \ {t} : PaymentStage(u)' /\ Writes(u)'
  BY <1>2, OthersWrite DEF PaymentsInv
<1>6. PaymentShapes'
  BY <1>1, <1>3, <1>4, <1>5 DEF PaymentsInv, PaymentShapes, OrderStatuses
<1>7. OneByOne'
  BY <1>1, LoneStep
<1>8. QED
  BY <1>6, <1>7 DEF PaymentsInv

LEMMA RollBackPayments ==
    ASSUME PaymentsInv, NEW t \in Txs, ~Idle(t), RollBackRequest(t)
    PROVE  PaymentsInv'
BY FinishPayments DEF RollBackRequest, PaymentsInv, PaymentShapes, AreRows

------------------------------------------------------------------------------
(* The statements.                                                         *)

\* The payment is written: what is paid changes as the request wants.
LEMMA WritePayments ==
    ASSUME PaymentsInv, NEW t \in Txs, todo[t] \in Writing, WritePayment(t),
           todo[t] # Voids => Fits(t)
    PROVE  PaymentsInv'
<1>0. PICK id \in Payments : id = intent[t].id
  BY DEF PaymentsInv, PaymentShapes, Writes
<1> DEFINE new == Changed(t, db[Payment(id)])
<1>1. /\ id = intent[t].id /\ Locked(t) = {} /\ intent[t] \in Intent
      /\ db[Payment(id)] \in PaymentRow
  BY <1>0 DEF PaymentsInv, PaymentShapes, Writes, AreRows
<1>2. /\ todo' = [todo EXCEPT ![t] = Syncs]
      /\ UNCHANGED <<db, orderLoaded, intent, synced, crossed>>
  BY PaymentSteps DEF WritePayment, Advance, PaymentsInv, PaymentShapes
<1>3. /\ todo'[t] = Syncs /\ \A u \in Txs \ {t} : todo'[u] = todo[u]
      /\ ~Idle(t)
  BY <1>2, PaymentSteps DEF PaymentsInv, PaymentShapes, Idle
<1>4. /\ DOMAIN own' = Txs /\ \A u \in Txs \ {t} : own'[u] = own[u]
      /\ \/ intent[t].row = intent[t].was /\ own'[t] = own[t]
         \/ own'[t] = Over(Only(Payment(id), new), own[t])
  BY <1>0 DEF WritePayment, Write, PaymentsInv, PaymentShapes
<1>5. /\ new \in PaymentRow
      /\ db[Payment(id)] = intent[t].was => new = intent[t].row
  BY <1>1, ChangedRow
<1> HIDE DEF new
<1>6. \/ intent[t].row = intent[t].was /\ Locked(t)' = {}
      \/ Locked(t)' = {Payment(id)} /\ own'[t][Payment(id)] = new
  <2>1. DOMAIN Only(Payment(id), new) = {Payment(id)} /\ Only(Payment(id), new)[Payment(id)] = new
    BY DEF Only
  <2>2. DOMAIN own[t] = {}
    BY <1>1 DEF Locked
  <2>3. /\ DOMAIN Over(Only(Payment(id), new), own[t]) = {Payment(id)}
        /\ Over(Only(Payment(id), new), own[t])[Payment(id)] = new
    BY <2>1, <2>2 DEF Over
  <2>4. CASE own'[t] = own[t] /\ intent[t].row = intent[t].was
    BY <2>2, <2>4 DEF Locked
  <2>5. CASE own'[t] = Over(Only(Payment(id), new), own[t])
    BY <2>3, <2>5 DEF Locked
  <2>6. QED
    BY <1>4, <2>4, <2>5
<1>7. PaymentShapes'
  <2>1. PaymentStage(t)'
    BY <1>3 DEF PaymentStage
  <2>2. Syncs # <<>> /\ Syncs # SetsTotal /\ Syncs \notin Writing
    <3>1. \A w \in Writing : Head(w) \in {"insert", "update", "void"}
      BY PaymentSteps DEF Writing
    <3>2. QED
      BY <3>1, PaymentSteps
  <2>3. Writes(t)'
    <3>1. \A p \in Payments : Payment(p) # Order
      BY PaymentRowsDiffer
    <3>2. id # Null
      BY <1>1, PaymentsAssumption
    <3>3. Locked(t)' \subseteq {Payment(id)}
      BY <1>6
    <3>4. \A p \in Payments : Payment(p) \in Locked(t)' => own'[t][Payment(p)] \in PaymentRow
      BY <1>1, <1>5, <1>6, PaymentRowsDiffer
    <3>5. QED
      BY <1>1, <1>2, <1>3, <2>2, <3>1, <3>2, <3>3, <3>4 DEF Writes, RowWanted
  <2>4. \A u \in Txs \ {t} : PaymentStage(u)' /\ Writes(u)'
    BY <1>2, <1>3, <1>4, OthersWrite DEF PaymentsInv
  <2>5. QED
    BY <1>2, <1>4, <2>1, <2>3, <2>4 DEF PaymentsInv, PaymentShapes, AreRows
<1>8. ASSUME ~crossed
      PROVE  Running(t)'
  <2>1. Running(t)
    BY <1>3, <1>8 DEF PaymentsInv, OneByOne
  <2>2. PaidSeen(t)' = Paid - Counts(intent[t].was) + Counts(intent[t].row)
    <3> DEFINE seen == [i \in DOMAIN db |-> See(t, i)']
    <3>1. PaidSeen(t)' = PaidIn(seen)
      <4>1. [i \in DOMAIN db |-> See(t, i)]' = seen
        BY <1>2
      <4>2. QED
        BY <4>1 DEF PaidSeen, PaidIn
    <3>2. /\ db[Payment(id)] = intent[t].was
          /\ See(t, Payment(id))' = intent[t].row
          /\ \A p \in Payments : p # id => See(t, Payment(p))' = db[Payment(p)]
      BY <1>1, <1>2, <1>5, <1>6, <2>1, PaymentRowsDiffer DEF Running, See, Locked
    <3>3. /\ \A p \in Payments : seen[Payment(p)] = See(t, Payment(p))'
          /\ \A p \in Payments : db[Payment(p)] \in PaymentRow
      BY DEF PaymentsInv, PaymentShapes, AreRows
    <3> HIDE DEF seen
    <3>4. \A p \in Payments : seen[Payment(p)] \in PaymentRow
      <4>1. intent[t].row \in PaymentRow
        BY <1>1 DEF Intent
      <4>2. ASSUME NEW p \in Payments
            PROVE  seen[Payment(p)] \in PaymentRow
        <5>1. CASE p = id
          BY <3>2, <3>3, <4>1, <5>1
        <5>2. CASE p # id
          BY <3>2, <3>3, <5>2
        <5>3. QED
          BY <5>1, <5>2
      <4>3. QED
        BY <4>2
    <3>5. PaidIn(seen) = PaidIn(db) - Counts(db[Payment(id)]) + Counts(seen[Payment(id)])
      <4>1. \A p \in Payments : p # id => seen[Payment(p)] = db[Payment(p)]
        BY <3>2, <3>3
      <4>2. QED
        BY <1>1, <3>3, <3>4, <4>1, PaidChanges
    <3>6. seen[Payment(id)] = intent[t].row
      BY <1>1, <3>2, <3>3
    <3>7. PaidIn(seen) = Paid - Counts(intent[t].was) + Counts(intent[t].row)
      BY <3>2, <3>5, <3>6 DEF Paid
    <3>8. QED
      BY <3>1, <3>7
  <2>3. /\ Counts(intent[t].was) \in Nat /\ Counts(intent[t].row) \in Nat
        /\ intent[t].was.amount \in Nat /\ intent[t].row.amount \in Nat
        /\ Counts(intent[t].row) <= intent[t].row.amount
    BY <1>1, CountsNat DEF Intent, PaymentRow, Counts
  <2>4. Paid \in Nat /\ PaidSeen(t) = Paid /\ Paid' = Paid /\ db[Order].total \in Nat
    BY <1>1, <1>2, PaymentsSeen DEF PaymentsInv, PaymentShapes, AreRows, OrderRow, Paid
  <2>5. PaidSeen(t)' > Paid => PaidSeen(t)' <= db[Order].total
    <3>1. CASE todo[t] = Voids
      <4>1. Counts(intent[t].row) = 0
        BY <2>1, <3>1 DEF Running, Counts
      <4>2. QED
        BY <2>2, <2>3, <2>4, <4>1
    <3>2. CASE todo[t] \in {Inserts, Updates}
      <4>1. Counts(intent[t].was) = intent[t].was.amount
        BY <2>1, <3>2 DEF Running, Counts, NoPayment
      <4>2. Fits(t)
        <5>1. Inserts # Voids /\ Updates # Voids
          BY PaymentSteps
        <5>2. QED
          BY <3>2, <5>1
      <4>3. intent[t].row.amount <= db[Order].total - Paid + intent[t].was.amount
        BY <2>1, <2>4, <4>2 DEF Fits, Balance, Running
      <4>4. QED
        BY <2>2, <2>3, <2>4, <4>1, <4>3
    <3>3. QED
      BY <3>1, <3>2 DEF Writing
  <2>6. Syncs # Commits /\ Syncs \notin Writing
    <3>1. \A w \in Writing : Head(w) \in {"insert", "update", "void"}
      BY PaymentSteps DEF Writing
    <3>2. QED
      BY <3>1, PaymentSteps
  <2>7. QED
    BY <1>2, <1>3, <2>1, <2>4, <2>5, <2>6 DEF Running, Writing
<1>9. OneByOne'
  BY <1>2, <1>3, <1>8, LoneStep
<1>10. QED
  BY <1>7, <1>9 DEF PaymentsInv

\* The status is derived from what the request sees.
LEMMA SyncPayments ==
    ASSUME PaymentsInv, NEW t \in Txs, Sync(t)
    PROVE  PaymentsInv'
<1>0. PaymentStatus(PaidSeen(t), Balance(t)) \in OrderStatuses
  BY DEF PaymentStatus, OrderStatuses
<1>1. /\ todo[t] = Syncs /\ todo' = [todo EXCEPT ![t] = Commits]
      /\ synced' = [synced EXCEPT ![t] = PaymentStatus(PaidSeen(t), Balance(t))]
      /\ UNCHANGED <<db, own, orderLoaded, intent, crossed>>
  <2>1. At(t, "sync") /\ PaymentStage(t)
    BY DEF Sync, PaymentsInv, PaymentShapes
  <2>2. todo[t] = Syncs
    BY <2>1, PaymentWhere
  <2>3. QED
    BY <2>2, PaymentSteps DEF Sync, Advance
<1>2. /\ todo'[t] = Commits /\ synced'[t] = PaymentStatus(PaidSeen(t), Balance(t))
      /\ \A u \in Txs \ {t} : todo'[u] = todo[u]
      /\ ~Idle(t)
  BY <1>1, PaymentSteps DEF PaymentsInv, PaymentShapes, Idle
<1>3. Commits # <<>> /\ Commits # SetsTotal /\ Commits # Syncs /\ Commits \notin Writing
  <2>1. \A w \in Writing : Head(w) \in {"insert", "update", "void"}
    BY PaymentSteps DEF Writing
  <2>2. QED
    BY <2>1, PaymentSteps
<1>4. PaymentShapes'
  <2>1. PaymentStage(t)' /\ Writes(t)'
    BY <1>1, <1>2, <1>3 DEF PaymentsInv, PaymentShapes, PaymentStage, Writes, RowWanted, Locked
  <2>2. \A u \in Txs \ {t} : PaymentStage(u)' /\ Writes(u)'
    BY <1>1, <1>2, OthersWrite DEF PaymentsInv
  <2>3. QED
    BY <1>0, <1>1, <2>1, <2>2 DEF PaymentsInv, PaymentShapes, AreRows
<1>5. ASSUME ~crossed
      PROVE  Running(t)'
  <2>1. Running(t)
    BY <1>2, <1>5 DEF PaymentsInv, OneByOne
  <2>2. PaidSeen(t)' = PaidSeen(t) /\ Paid' = Paid
    BY <1>1, SamePaid
  <2>3. Balance(t)' = Balance(t)
    BY <1>1, <2>2 DEF Balance
  <2>4. PaymentStatus(PaidSeen(t), Balance(t))' = PaymentStatus(PaidSeen(t), Balance(t))
    BY <2>2, <2>3 DEF PaymentStatus
  <2>5. QED
    BY <1>1, <1>2, <1>3, <2>1, <2>2, <2>4 DEF Running, Writing
<1>6. OneByOne'
  BY <1>1, <1>2, <1>5, LoneStep
<1>7. QED
  BY <1>4, <1>6 DEF PaymentsInv

\* The order gets another total; what is paid stays.
LEMMA SetTotalPayments ==
    ASSUME PaymentsInv, NEW t \in Txs, SetTotal(t)
    PROVE  PaymentsInv'
<1> DEFINE new == [db[Order] EXCEPT !.total = intent[t].row.amount]
<1>1. /\ todo[t] = SetsTotal /\ todo' = [todo EXCEPT ![t] = Commits]
      /\ own' = [own EXCEPT ![t] = Over(Only(Order, new), own[t])]
      /\ UNCHANGED <<db, orderLoaded, intent, synced, crossed>>
  <2>1. At(t, "total") /\ PaymentStage(t)
    BY DEF SetTotal, PaymentsInv, PaymentShapes
  <2>2. todo[t] = SetsTotal
    BY <2>1, PaymentWhere
  <2>3. QED
    BY <2>2, PaymentSteps DEF SetTotal, Advance, Write
<1>2. /\ todo'[t] = Commits /\ own'[t] = Over(Only(Order, new), own[t])
      /\ \A u \in Txs \ {t} : todo'[u] = todo[u] /\ own'[u] = own[u]
      /\ ~Idle(t) /\ intent[t].id = Null /\ Locked(t) = {}
  BY <1>1, PaymentSteps DEF PaymentsInv, PaymentShapes, Idle, Writes
<1>3. new \in OrderRow
  BY DEF PaymentsInv, PaymentShapes, AreRows, OrderRow, Intent, PaymentRow
<1> HIDE DEF new
<1>4. Locked(t)' = {Order} /\ own'[t][Order] = new
  <2>1. DOMAIN Only(Order, new) = {Order} /\ Only(Order, new)[Order] = new
    BY DEF Only
  <2>2. DOMAIN own[t] = {}
    BY <1>2 DEF Locked
  <2>3. /\ DOMAIN Over(Only(Order, new), own[t]) = {Order}
        /\ Over(Only(Order, new), own[t])[Order] = new
    BY <2>1, <2>2 DEF Over
  <2>4. QED
    BY <1>2, <2>3 DEF Locked
<1>5. Commits # <<>> /\ Commits # SetsTotal /\ Commits # Syncs /\ Commits \notin Writing
  <2>1. \A w \in Writing : Head(w) \in {"insert", "update", "void"}
    BY PaymentSteps DEF Writing
  <2>2. QED
    BY <2>1, PaymentSteps
<1>6. PaymentShapes'
  <2>1. PaymentStage(t)' /\ Writes(t)'
    BY <1>1, <1>2, <1>3, <1>4, <1>5, PaymentRowsDiffer
       DEF PaymentStage, Writes, RowWanted
  <2>2. \A u \in Txs \ {t} : PaymentStage(u)' /\ Writes(u)'
    BY <1>1, <1>2, OthersWrite DEF PaymentsInv
  <2>3. QED
    BY <1>1, <2>1, <2>2 DEF PaymentsInv, PaymentShapes, AreRows
<1>7. ASSUME ~crossed
      PROVE  Running(t)'
  BY <1>1, <1>2, <1>5, <1>7 DEF Running, Writing, PaymentsInv, OneByOne
<1>8. OneByOne'
  BY <1>1, <1>2, <1>7, LoneStep
<1>9. QED
  BY <1>6, <1>8 DEF PaymentsInv

\* What a commit publishes, and when it changes what is paid.
LEMMA PaymentPublished ==
    ASSUME PaymentsInv, NEW t \in Txs, CommitRequest(t)
    PROVE  /\ ~Idle(t) /\ todo[t] = Commits /\ Finish(t) /\ crossed' = crossed
           /\ AreRows(db)'
           /\ \A p \in Payments : db'[Payment(p)] = See(t, Payment(p))
           /\ intent[t].id = Null => \A p \in Payments : db'[Payment(p)] = db[Payment(p)]
           /\ intent[t].id # Null =>
                /\ db'[Order].total = db[Order].total
                /\ db'[Order].status =
                      IF synced[t] # orderLoaded[t].status THEN synced[t] ELSE db[Order].status
<1> DEFINE rewritten == intent[t].id # Null /\ synced[t] # orderLoaded[t].status
           under == IF rewritten THEN [db EXCEPT ![Order].status = synced[t]] ELSE db
<1>1. /\ todo[t] = Commits /\ ~Idle(t) /\ Finish(t) /\ crossed' = crossed
      /\ db' = Over(own[t], under)
  <2>1. At(t, "commit") /\ PaymentStage(t)
    BY DEF CommitRequest, PaymentsInv, PaymentShapes
  <2>2. QED
    BY <2>1, PaymentWhere, PaymentSteps DEF CommitRequest, Publish
<1>2. /\ AreRows(db) /\ Writes(t) /\ intent[t] \in Intent
  BY DEF PaymentsInv, PaymentShapes
<1>3. AreRows(under) /\ (rewritten => under[Order] = [db[Order] EXCEPT !.status = synced[t]])
      /\ (~rewritten => under = db) /\ \A p \in Payments : under[Payment(p)] = db[Payment(p)]
  BY <1>2, PaymentRowsDiffer DEF AreRows, OrderRow, PaymentsInv, PaymentShapes
<1> HIDE DEF under
<1>4. DOMAIN own[t] \subseteq DOMAIN under
  BY <1>2, <1>3 DEF Writes, Locked, RowWanted, AreRows, Intent
<1>5. /\ DOMAIN db' = DOMAIN under
      /\ \A i \in DOMAIN under : db'[i] = IF i \in DOMAIN own[t] THEN own[t][i] ELSE under[i]
  BY <1>1, <1>4 DEF Over
<1>6. AreRows(db)'
  BY <1>2, <1>3, <1>5 DEF AreRows, Writes, Locked
<1>7. \A p \in Payments : db'[Payment(p)] = See(t, Payment(p))
  BY <1>3, <1>5 DEF AreRows, See
<1>8. ASSUME intent[t].id = Null
      PROVE  \A p \in Payments : db'[Payment(p)] = db[Payment(p)]
  BY <1>2, <1>3, <1>5, <1>8, PaymentRowsDiffer DEF Writes, RowWanted, Locked, AreRows
<1>9. ASSUME intent[t].id # Null
      PROVE  db'[Order] = under[Order]
  BY <1>2, <1>3, <1>5, <1>9, PaymentRowsDiffer DEF Writes, RowWanted, Locked, AreRows, Intent
<1>10. QED
  BY <1>1, <1>2, <1>3, <1>6, <1>7, <1>8, <1>9 DEF AreRows, OrderRow
LEMMA CommitPayments ==
    ASSUME PaymentsInv, NEW t \in Txs, CommitRequest(t)
    PROVE  PaymentsInv'
BY PaymentPublished, FinishPayments

\* A commit that changes what is paid leaves it as the request saw it.
LEMMA CommitPays ==
    ASSUME PaymentsInv, NEW t \in Txs, CommitRequest(t)
    PROVE  /\ intent[t].id # Null => Paid' = PaidSeen(t)
           /\ intent[t].id = Null => Paid' = Paid
<1>1. /\ \A p \in Payments : db'[Payment(p)] = See(t, Payment(p))
      /\ intent[t].id = Null => \A p \in Payments : db'[Payment(p)] = db[Payment(p)]
  BY PaymentPublished
<1>2. Paid' = PaidIn(db')
  BY DEF Paid, PaidIn
<1>3. PaidIn(db') = PaidSeen(t)
  <2> DEFINE seen == [i \in DOMAIN db |-> See(t, i)]
  <2>1. \A p \in Payments : seen[Payment(p)] = db'[Payment(p)]
    BY <1>1 DEF PaymentsInv, PaymentShapes, AreRows
  <2>2. PaidSeen(t) = PaidIn(seen)
    BY DEF PaidSeen
  <2> HIDE DEF seen
  <2>3. QED
    BY <2>1, <2>2, PaidStays
<1>4. ASSUME intent[t].id = Null
      PROVE  PaidIn(db') = PaidIn(db)
  <2>1. \A p \in Payments : db'[Payment(p)] = db[Payment(p)]
    BY <1>1, <1>4
  <2>2. QED
    BY <2>1 DEF PaidIn
<1>5. QED
  BY <1>2, <1>3, <1>4 DEF Paid

------------------------------------------------------------------------------
(* The requests as they are asked for.                                     *)

LEMMA ColumnsRow ==
    ASSUME NEW amount \in Nat, NEW currency \in Currencies,
           NEW rate \in (Nat \ {0}) \cup {Null}, Payable(currency, rate)
    PROVE  Columns(amount, currency, rate) \in PaymentRow
           /\ Columns(amount, currency, rate).status = "COMPLETED"
<1>1. CASE currency = OrderCurrency
  BY <1>1 DEF Columns, PaymentRow
<1>2. CASE currency # OrderCurrency
  <2>1. Convert(amount, currency, rate) \in Nat
    BY <1>2, ConvertNat DEF Payable
  <2>2. QED
    BY <1>2, <2>1 DEF Columns, PaymentRow
<1>3. QED
  BY <1>1, <1>2

LEMMA BeginRecordInv ==
    ASSUME PaymentsInv, NEW t \in Txs, NEW p \in Payments, NEW amount \in Amounts,
           NEW currency \in Currencies, NEW rate \in Maybe(Rates),
           BeginRecord(t, p, amount, currency, rate)
    PROVE  PaymentsInv'
<1>1. /\ db[Payment(p)] = NoPayment /\ Payable(currency, rate)
      /\ BeginRequest(t, Inserts, p, NoPayment, Columns(amount, currency, rate))
  BY DEF BeginRecord, Inserts
<1>2. amount \in Nat /\ rate \in (Nat \ {0}) \cup {Null}
  BY MoneyAssumption DEF Maybe
<1>3. Columns(amount, currency, rate) \in PaymentRow
  BY <1>1, <1>2, ColumnsRow
<1>4. /\ Inserts \in Writing /\ Inserts # Updates /\ Inserts # Voids /\ Inserts # SetsTotal
      /\ p # Null
  BY PaymentSteps, PaymentsAssumption DEF Writing
<1>5. QED
  BY <1>1, <1>3, <1>4, NoPaymentRow, BeginPayments

\* What an edit does not give is taken from the payment.
LEMMA BeginUpdateInv ==
    ASSUME PaymentsInv, NEW t \in Txs, NEW p \in Payments, NEW amount \in Maybe(Amounts),
           NEW currency \in Maybe(Currencies), NEW rate \in Maybe(Rates),
           BeginUpdate(t, p, amount, currency, rate)
    PROVE  PaymentsInv'
<1> DEFINE old == db[Payment(p)]
           rawAmount == IF amount # Null THEN amount
                        ELSE IF old.original # Null THEN old.original ELSE old.amount
           rawCurrency == IF currency # Null THEN currency
                          ELSE IF old.originalCurrency # Null
                          THEN old.originalCurrency ELSE OrderCurrency
           rawRate == IF rate # Null THEN rate ELSE old.rate
           row == Columns(rawAmount, rawCurrency, rawRate)
<1>1. /\ old.status = "COMPLETED" /\ Payable(rawCurrency, rawRate)
      /\ BeginRequest(t, Updates, p, old, row)
  BY DEF BeginUpdate, Updates
<1>2. old \in PaymentRow
  BY DEF PaymentsInv, PaymentShapes, AreRows
<1>3. /\ rawAmount \in Nat /\ rawCurrency \in Currencies
      /\ rawRate \in (Nat \ {0}) \cup {Null}
  BY <1>2, MoneyAssumption, CurrencyAssumption DEF Maybe, PaymentRow
<1> HIDE DEF rawAmount, rawCurrency, rawRate
<1>4. row \in PaymentRow
  BY <1>1, <1>3, ColumnsRow
<1>5. /\ Updates \in Writing /\ Updates # Inserts /\ Updates # Voids /\ Updates # SetsTotal
      /\ p # Null
  BY PaymentSteps, PaymentsAssumption DEF Writing
<1> HIDE DEF row
<1>6. QED
  BY <1>1, <1>2, <1>4, <1>5, BeginPayments

LEMMA BeginVoidInv ==
    ASSUME PaymentsInv, NEW t \in Txs, NEW p \in Payments, BeginVoid(t, p)
    PROVE  PaymentsInv'
<1> DEFINE old == db[Payment(p)]
           row == [old EXCEPT !.status = "VOIDED"]
<1>1. BeginRequest(t, Voids, p, old, row)
  BY DEF BeginVoid, Voids
<1>2. old \in PaymentRow
  BY DEF PaymentsInv, PaymentShapes, AreRows
<1>3. row \in PaymentRow /\ row.status = "VOIDED"
  BY <1>2 DEF PaymentRow
<1>4. /\ Voids \in Writing /\ Voids # Inserts /\ Voids # Updates /\ Voids # SetsTotal
      /\ p # Null
  BY PaymentSteps, PaymentsAssumption DEF Writing
<1> HIDE DEF row
<1>5. QED
  BY <1>1, <1>2, <1>3, <1>4, BeginPayments

LEMMA BeginTotalInv ==
    ASSUME PaymentsInv, NEW t \in Txs, NEW total \in Totals, BeginTotal(t, total)
    PROVE  PaymentsInv'
<1> DEFINE row == [NoPayment EXCEPT !.amount = total]
<1>1. BeginRequest(t, SetsTotal, Null, NoPayment, row)
  BY DEF BeginTotal, SetsTotal
<1>2. row \in PaymentRow
  BY NoPaymentRow, MoneyAssumption DEF PaymentRow
<1>3. SetsTotal \notin Writing /\ Null \notin Payments
  <2>1. \A w \in Writing : Head(w) \in {"insert", "update", "void"}
    BY PaymentSteps DEF Writing
  <2>2. QED
    BY <2>1, PaymentSteps, PaymentsAssumption
<1>4. SetsTotal # Inserts /\ SetsTotal # Updates /\ SetsTotal # Voids
  BY <1>3 DEF Writing
<1> HIDE DEF row
<1>5. QED
  BY <1>1, <1>2, <1>3, <1>4, NoPaymentRow, BeginPayments

------------------------------------------------------------------------------
(* The invariant, and what is paid.                                        *)

LEMMA InitPayments == PaymentsInit => PaymentsInv
<1> SUFFICES ASSUME PaymentsInit PROVE PaymentsInv
  OBVIOUS
<1>1. PICK total \in Totals :
          db = Over(Only(Order, [total |-> total, status |-> "UNPAID"]),
                    [i \in {Payment(p) : p \in Payments} |-> NoPayment])
  BY DEF PaymentsInit
<1>2. /\ DOMAIN db = {Order} \cup {Payment(p) : p \in Payments}
      /\ db[Order] = [total |-> total, status |-> "UNPAID"]
      /\ \A p \in Payments : db[Payment(p)] = NoPayment
  BY <1>1, PaymentRowsDiffer DEF Over, Only
<1>3. AreRows(db)
  BY <1>2, NoPaymentRow, MoneyAssumption DEF AreRows, OrderRow, OrderStatuses
<1>4. /\ own = [t \in Txs |-> <<>>] /\ todo = [t \in Txs |-> <<>>]
      /\ orderLoaded = [t \in Txs |-> NotLoaded]
      /\ intent = [t \in Txs |-> NoIntent] /\ synced = [t \in Txs |-> "UNPAID"]
  BY DEF PaymentsInit, InitSessions
<1>5. NoIntent \in Intent
  BY NoPaymentRow DEF NoIntent, Intent
<1>6. ASSUME NEW t \in Txs
      PROVE  PaymentStage(t) /\ Writes(t) /\ Idle(t)
  <2>1. <<>> \notin Writing \cup {Syncs, SetsTotal}
    BY PaymentSteps
  <2>2. QED
    BY <1>4, <2>1, NothingLocked DEF PaymentStage, Writes, Locked, Idle
<1>7. PaymentShapes
  BY <1>3, <1>4, <1>5, <1>6 DEF PaymentShapes, OrderStatuses
<1>8. QED
  BY <1>6, <1>7 DEF PaymentsInv, OneByOne

LEMMA StatementsPay ==
    ASSUME PaymentsInv, NEW t \in Txs, Insert(t) \/ Update(t) \/ Void(t)
    PROVE  PaymentsInv' /\ UNCHANGED db
<1>1. PaymentStage(t)
  BY DEF PaymentsInv, PaymentShapes
<1>2. Inserts # Voids /\ Updates # Voids
  BY PaymentSteps
<1>3. CASE Insert(t) \/ Update(t)
  <2>1. todo[t] \in {Inserts, Updates} /\ ~Idle(t)
    BY <1>1, <1>3, PaymentWhere DEF Insert, Update, At
  <2>2. CASE Fits(t) /\ WritePayment(t)
    BY <1>2, <2>1, <2>2, WritePayments DEF Writing, WritePayment
  <2>3. CASE RollBackRequest(t)
    BY <2>1, <2>3, RollBackPayments DEF RollBackRequest
  <2>4. QED
    BY <1>3, <2>2, <2>3 DEF Insert, Update
<1>4. CASE Void(t)
  BY <1>1, <1>4, PaymentWhere, WritePayments DEF Void, Writing, WritePayment
<1>5. QED
  BY <1>3, <1>4

\* Every step keeps the invariant, and only a commit changes a committed row.
LEMMA StepPays ==
    ASSUME PaymentsInv, [PaymentsNext]_paymentVars
    PROVE  PaymentsInv' /\ (UNCHANGED db \/ \E t \in Txs : CommitRequest(t))
<1>1. CASE UNCHANGED paymentVars
  <2>1. UNCHANGED <<db, own, todo, orderLoaded, intent, synced, crossed>>
    BY <1>1 DEF paymentVars
  <2>2. PaymentShapes'
    BY <2>1 DEF PaymentsInv, PaymentShapes, AreRows, PaymentStage, Writes, RowWanted, Locked
  <2>3. \A t \in Txs : PaidSeen(t)' = PaidSeen(t) /\ Paid' = Paid
    BY <2>1, SamePaid
  <2>4. ASSUME NEW t \in Txs, Running(t)
        PROVE  Running(t)'
    <3>1. Balance(t)' = Balance(t)
      BY <2>1, <2>3 DEF Balance
    <3>2. PaymentStatus(PaidSeen(t), Balance(t))' = PaymentStatus(PaidSeen(t), Balance(t))
      BY <2>3, <3>1 DEF PaymentStatus
    <3>3. QED
      BY <2>1, <2>3, <2>4, <3>2 DEF Running
  <2>5. OneByOne'
    BY <2>1, <2>4 DEF PaymentsInv, OneByOne, Idle, Alone
  <2>6. QED
    BY <2>1, <2>2, <2>5 DEF PaymentsInv
<1>2. ASSUME NEW t \in Txs, NEW p \in Payments, NEW amount \in Amounts,
             NEW currency \in Currencies, NEW rate \in Maybe(Rates),
             BeginRecord(t, p, amount, currency, rate)
      PROVE  PaymentsInv' /\ UNCHANGED db
  BY <1>2, BeginRecordInv DEF BeginRecord, BeginRequest
<1>3. ASSUME NEW t \in Txs, NEW p \in Payments, NEW amount \in Maybe(Amounts),
             NEW currency \in Maybe(Currencies), NEW rate \in Maybe(Rates),
             BeginUpdate(t, p, amount, currency, rate)
      PROVE  PaymentsInv' /\ UNCHANGED db
  BY <1>3, BeginUpdateInv DEF BeginUpdate, BeginRequest
<1>4. ASSUME NEW t \in Txs, NEW p \in Payments, BeginVoid(t, p)
      PROVE  PaymentsInv' /\ UNCHANGED db
  BY <1>4, BeginVoidInv DEF BeginVoid, BeginRequest
<1>5. ASSUME NEW t \in Txs, NEW total \in Totals, BeginTotal(t, total)
      PROVE  PaymentsInv' /\ UNCHANGED db
  BY <1>5, BeginTotalInv DEF BeginTotal, BeginRequest
<1>6. ASSUME NEW t \in Txs, Insert(t) \/ Update(t) \/ Void(t)
      PROVE  PaymentsInv' /\ UNCHANGED db
  BY <1>6, StatementsPay
<1>7. ASSUME NEW t \in Txs, Sync(t)
      PROVE  PaymentsInv' /\ UNCHANGED db
  BY <1>7, SyncPayments DEF Sync
<1>8. ASSUME NEW t \in Txs, SetTotal(t)
      PROVE  PaymentsInv' /\ UNCHANGED db
  BY <1>8, SetTotalPayments DEF SetTotal
<1>9. ASSUME NEW t \in Txs, CommitRequest(t)
      PROVE  PaymentsInv'
  BY <1>9, CommitPayments
<1>10. ASSUME NEW t \in Txs, RequestFails(t)
       PROVE  PaymentsInv' /\ UNCHANGED db
  BY <1>10, RollBackPayments DEF RequestFails, RollBackRequest
<1>11. QED
  BY <1>1, <1>2, <1>3, <1>4, <1>5, <1>6, <1>7, <1>8, <1>9, <1>10 DEF PaymentsNext

\* The payments of an order (PaymentsInv): what requests hold, have read and will
\* write; while they come one by one, what the one under way has loaded is what is
\* committed, and the status it will write is the one its payments give.
THEOREM PaymentsInvariant == PaymentsSpec => []PaymentsInv
<1>1. PaymentsInv /\ [PaymentsNext]_paymentVars => PaymentsInv'
  BY StepPays
<1>2. QED
  BY <1>1, InitPayments, PTL DEF PaymentsSpec

LEMMA PaidStatusStep ==
    ASSUME PaymentsInv, [PaymentsNext]_paymentVars, Paid' # Paid, ~crossed
    PROVE  db'[Order].status = PaymentStatus(Paid', db'[Order].total - Paid')
<1>1. ~ UNCHANGED db
  BY DEF Paid, PaidIn
<1>2. PICK t \in Txs : CommitRequest(t)
  BY <1>1, StepPays
<1>3. intent[t].id # Null /\ Paid' = PaidSeen(t)
  BY <1>2, CommitPays
<1>4. /\ ~Idle(t) /\ todo[t] = Commits
      /\ db'[Order].total = db[Order].total
      /\ db'[Order].status = IF synced[t] # orderLoaded[t].status THEN synced[t] ELSE db[Order].status
  BY <1>2, <1>3, PaymentPublished
<1>5. /\ orderLoaded[t] = db[Order] /\ synced[t] = PaymentStatus(PaidSeen(t), Balance(t))
  BY <1>3, <1>4 DEF PaymentsInv, OneByOne, Running
<1>6. Balance(t) = db'[Order].total - Paid'
  BY <1>3, <1>4, <1>5 DEF Balance
<1>7. QED
  BY <1>3, <1>4, <1>5, <1>6

\* StatusFollowsPayments, for any payments, amounts, rates and sessions: a request
\* that overlapped no other and changed what is paid leaves the order with the
\* status derived from it (_sync_payment_status()).
THEOREM StatusFollowsPaymentsHolds == PaymentsSpec => StatusFollowsPayments
<1>1. PaymentsInv /\ [PaymentsNext]_paymentVars =>
          [Paid' # Paid /\ ~crossed =>
              db'[Order].status = PaymentStatus(Paid', db'[Order].total - Paid')]_paymentVars
  BY PaidStatusStep
<1>2. QED
  BY <1>1, PaymentsInvariant, PTL DEF PaymentsSpec, StatusFollowsPayments

LEMMA FitsStep ==
    ASSUME PaymentsInv, [PaymentsNext]_paymentVars, Paid' > Paid, ~crossed
    PROVE  Paid' <= db'[Order].total
<1>1. Paid \in Nat
  BY PaidNat DEF PaymentsInv, PaymentShapes, AreRows, Paid
<1>2. ~ UNCHANGED db
  <2>1. UNCHANGED db => Paid' = Paid
    BY DEF Paid, PaidIn
  <2>2. QED
    BY <1>1, <2>1
<1>3. PICK t \in Txs : CommitRequest(t)
  BY <1>2, StepPays
<1>4. intent[t].id # Null /\ Paid' = PaidSeen(t)
  BY <1>1, <1>3, CommitPays
<1>5. ~Idle(t) /\ todo[t] = Commits /\ db'[Order].total = db[Order].total
  BY <1>3, <1>4, PaymentPublished
<1>6. PaidSeen(t) > Paid => PaidSeen(t) <= db[Order].total
  BY <1>4, <1>5 DEF PaymentsInv, OneByOne, Running
<1>7. QED
  BY <1>4, <1>5, <1>6

\* FitsTheTotal, likewise: such a request never brings what is paid above the order's
\* total (the overpayment checks of record_payment() and update_payment()).
THEOREM FitsTheTotalHolds == PaymentsSpec => FitsTheTotal
<1>1. PaymentsInv /\ [PaymentsNext]_paymentVars =>
          [Paid' > Paid /\ ~crossed => Paid' <= db'[Order].total]_paymentVars
  BY FitsStep
<1>2. QED
  BY <1>1, PaymentsInvariant, PTL DEF PaymentsSpec, FitsTheTotal

=============================================================================
