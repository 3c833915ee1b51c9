-------------------------- MODULE PackageMaterials --------------------------
(****************************************************************************)
(* Packaging materials (pages/material_management.py): which products are    *)
(* materials and of what type, the bills of materials of finished products,  *)
(* and the production of a package, which takes what the bill asks for from  *)
(* the stock; and the upload of the product master (services/products.py),   *)
(* which replaces the table of products the materials are marked in.          *)
(* A page reads and writes in one run; another session may write in between. *)
(* A production's transaction locks the database at its first UPDATE and     *)
(* not before: what it SELECTs for its first material may be outdated then.  *)
(****************************************************************************)
EXTENDS Integers, Sequences, FiniteSets, SequencesExt

CONSTANTS
  Names,         \* the names of products, as ORDER BY sorts them
  Types, NoType, \* MATERIAL_TYPES, and NULL
  Master,        \* the products table at first: a function on some names
  Bills,         \* the bills at first: quantities by material, by finished product
  Quantities,    \* what a user enters as a quantity for one package,
  Unit,          \* in parts of which this many make one unit
  Amounts,       \* how many packages a user produces
  Rows,          \* the rows of inventory: [product, expiry, company]
  NoDate,        \* an expiry that is blank or "-"
  InitialStock,  \* units by row
  Changes,       \* <<row, units>>: what other pages may set a row to
  Files,         \* what an uploaded master may list: sets of names
  Sessions,
  MaxEdits       \* bound: how often bills, lists, the master and rows change

VARIABLES
  product,  \* products: [material, type] for each name in the table
  bill,     \* product_bom_items
  stock,    \* inventory
  taken,    \* units the history says were used, by material
  session,  \* the request a session has under way
  moved,    \* units other pages brought or took, by material
  billed,   \* every bill a finished product has had
  crossed,  \* a production wrote a row another call had changed since it read it
  edits     \* a bound's counter

tables == <<product, bill, stock, taken>>
seen == <<moved, billed, crossed, edits>>
vars == <<tables, session, seen>>

NameSet == Range(Names)
RowIds == DOMAIN Rows

Marks == [material : BOOLEAN, type : Types \cup {NoType}]
IsBill(b) == DOMAIN b \subseteq NameSet /\ b \in [DOMAIN b -> Nat \ {0}]
MaterialsOK ==
  /\ Unit \in Nat \ {0} /\ Quantities \subseteq Nat \ {0} /\ Amounts \subseteq Nat \ {0}
  /\ NoType \notin Types
  /\ Names \in Seq(NameSet) /\ DOMAIN Master \subseteq NameSet /\ DOMAIN Bills \subseteq NameSet
  /\ Master \in [DOMAIN Master -> Marks]
  /\ \A n \in DOMAIN Master : Master[n].material \/ Master[n].type = NoType
  /\ \A f \in DOMAIN Bills : IsBill(Bills[f])
  /\ IsFiniteSet(RowIds) /\ \A r \in RowIds : Rows[r].product \in NameSet
  /\ InitialStock \in [RowIds -> Nat] /\ Changes \subseteq RowIds \X Nat
  /\ \A f \in Files : f \subseteq NameSet

Put(f, x, y) == [z \in DOMAIN f \cup {x} |-> IF z = x THEN y ELSE f[z]]
Of(m) == {r \in RowIds : Rows[r].product = m}
OnHand(units, m) == SumFunctionOnSet(units, Of(m))
(* The first of some products in the order of the names.                     *)
First(S) == Names[Min({i \in DOMAIN Names : Names[i] \in S})]
Idle == [at |-> "idle"]

Init ==
  /\ product = Master /\ bill = Bills /\ stock = InitialStock
  /\ taken = [m \in NameSet |-> 0] /\ moved = [m \in NameSet |-> 0]
  /\ billed = [f \in DOMAIN Bills |-> {Bills[f]}]
  /\ crossed = FALSE /\ edits = 0
  /\ session = [s \in Sessions |-> Idle]

At(s, step) == session[s].at = step
Goes(s, request) == session' = [session EXCEPT ![s] = request]
Rests(s) == Goes(s, Idle)
Edit == edits < MaxEdits /\ edits' = edits + 1

(* The database is locked by the production that has written rows.           *)
Writing(s) == session[s].at \in {"select", "take", "commit"} /\ DOMAIN session[s].own # {}
Free(s) == \A t \in Sessions \ {s} : ~Writing(t)

-----------------------------------------------------------------------------
(* Production.                                                               *)

(* The bill of a finished product, empty if it has none.                     *)
BillOf(f) == IF f \in DOMAIN bill THEN bill[f] ELSE <<>>
(* What `amount' packages need of each material.  A quantity that does not    *)
(* come out in whole units is an error.                                      *)
Needs(b, amount) == [m \in DOMAIN b |-> (b[m] * amount) \div Unit]
Whole(b, amount) == \A m \in DOMAIN b : Needs(b, amount)[m] * Unit = b[m] * amount

(* The page shows the plan, and the click makes it again before it acts.     *)
(* `left' are the materials a plan or production still has to go through.    *)
Plans(s, pass, f, amount) ==
  IF DOMAIN BillOf(f) # {} /\ Whole(BillOf(f), amount)
  THEN Goes(s, [at |-> "check", pass |-> pass, of |-> f, amount |-> amount, need |-> Needs(BillOf(f), amount),
                left |-> DOMAIN BillOf(f), short |-> FALSE])
  ELSE Rests(s)
Produce(s, f, amount) ==
  /\ At(s, "idle") /\ f \in DOMAIN bill
  /\ Plans(s, "shown", f, amount)
  /\ UNCHANGED <<tables, seen>>
PlanAgain(s) ==
  /\ At(s, "again")
  /\ Plans(s, "made", session[s].of, session[s].amount)
  /\ UNCHANGED <<tables, seen>>

(* One SELECT for each material; a shortage of any ends it.                  *)
CheckStock(s) ==
  LET p == session[s]
      m == First(p.left)
      short == p.short \/ OnHand(stock, m) < p.need[m]
      rest == p.left \ {m}
  IN  /\ At(s, "check")
      /\ \/ rest # {} /\ Goes(s, [p EXCEPT !.left = rest, !.short = short])
         \/ rest = {} /\ short /\ Rests(s)
         \/ rest = {} /\ ~short /\ p.pass = "shown" /\ Goes(s, [at |-> "again", of |-> p.of, amount |-> p.amount])
         \/ /\ rest = {} /\ ~short /\ p.pass = "made"
            /\ Goes(s, [at |-> "select", of |-> p.of, amount |-> p.amount, need |-> p.need, left |-> DOMAIN p.need,
                        own |-> <<>>, took |-> [n \in NameSet |-> 0]])
      /\ UNCHANGED <<tables, seen>>

(* Rows with an expiry come before those without, then by expiry, company    *)
(* and id.                                                                   *)
Before(q, r) ==
  LET dated(x) == IF Rows[x].expiry = NoDate THEN 1 ELSE 0
      key(x) == <<dated(x), IF Rows[x].expiry = NoDate THEN 0 ELSE Rows[x].expiry, Rows[x].company, x>>
  IN  \E i \in 1 .. 4 : key(q)[i] < key(r)[i] /\ \A j \in 1 .. (i - 1) : key(q)[j] = key(r)[j]
(* What a production sees of a row: its own write, or what is committed.     *)
View(s, r) == IF r \in DOMAIN session[s].own THEN session[s].own[r] ELSE stock[r]
Views(s) == [r \in RowIds |-> View(s, r)]
Filled(s) == {r \in Of(First(session[s].left)) : View(s, r) > 0}

SelectRows_unchecked(s) ==
  LET p == session[s]
  IN  /\ At(s, "select")
      /\ Goes(s, [at |-> "take", of |-> p.of, amount |-> p.amount, need |-> p.need, left |-> p.left, own |-> p.own,
                  took |-> p.took, rows |-> Filled(s), read |-> Views(s), rest |-> p.need[First(p.left)]])
      /\ UNCHANGED <<tables, seen>>
(* The rows of the next material; too few units in them roll all back.       *)
SelectRows(s) ==
  LET p == session[s]
      required == p.need[First(p.left)]
  IN  /\ At(s, "select")
      /\ IF SumFunctionOnSet(Views(s), Filled(s)) < required THEN Rests(s)
         ELSE Goes(s, [at |-> "take", of |-> p.of, amount |-> p.amount, need |-> p.need, left |-> p.left, own |-> p.own,
                       took |-> p.took, rows |-> Filled(s), read |-> Views(s), rest |-> required])
      /\ UNCHANGED <<tables, seen>>

Least(x, y) == IF x < y THEN x ELSE y
TakeRow_required(s) ==
  LET p == session[s]
      m == First(p.left)
  IN  /\ At(s, "take") /\ p.rest > 0 /\ Free(s)
      /\ \E r \in p.rows :
           LET take == Least(p.rest, p.read[r])
           IN  /\ \A q \in p.rows \ {r} : Before(r, q)
               /\ Goes(s, [p EXCEPT !.own = Put(@, r, p.read[r] - take), !.took[m] = @ + p.rest,
                                    !.rows = @ \ {r}, !.rest = @ - take])
      /\ crossed' = (crossed \/ (DOMAIN p.own = {} /\ \E q \in Of(m) : stock[q] # p.read[q]))
      /\ UNCHANGED <<tables, moved, billed, edits>>
(* The next row is written as it was read, less what is taken, with a        *)
(* history row.  The first UPDATE waits for the lock.                        *)
TakeRow(s) ==
  LET p == session[s]
      m == First(p.left)
  IN  /\ At(s, "take") /\ p.rest > 0 /\ Free(s)
      /\ \E r \in p.rows :
           LET take == Least(p.rest, p.read[r])
           IN  /\ \A q \in p.rows \ {r} : Before(r, q)
               /\ Goes(s, [p EXCEPT !.own = Put(@, r, p.read[r] - take), !.took[m] = @ + take,
                                    !.rows = @ \ {r}, !.rest = @ - take])
      /\ crossed' = (crossed \/ (DOMAIN p.own = {} /\ \E q \in Of(m) : stock[q] # p.read[q]))
      /\ UNCHANGED <<tables, moved, billed, edits>>
NextMaterial(s) ==
  LET p == session[s]
      rest == p.left \ {First(p.left)}
  IN  /\ At(s, "take") /\ (p.rest = 0 \/ p.rows = {})
      /\ Goes(s, [at |-> IF rest = {} THEN "commit" ELSE "select", of |-> p.of, amount |-> p.amount, need |-> p.need,
                  left |-> rest, own |-> p.own, took |-> p.took])
      /\ UNCHANGED <<tables, seen>>
Commit(s) ==
  LET p == session[s]
  IN  /\ At(s, "commit")
      /\ stock' = Views(s)
      /\ taken' = [m \in NameSet |-> taken[m] + p.took[m]]
      /\ Rests(s)
      /\ UNCHANGED <<product, bill, seen>>
(* The lock does not come in time, or the process stops: all is rolled back. *)
Stop(s) ==
  /\ session[s].at \in {"select", "take", "commit"}
  /\ Rests(s)
  /\ UNCHANGED <<tables, seen>>

(* Other pages change a row.                                                 *)
ChangeStock(change) ==
  LET r == change[1]
  IN  /\ Edit /\ \A s \in Sessions : ~Writing(s)
      /\ stock' = [stock EXCEPT ![r] = change[2]]
      /\ moved' = [moved EXCEPT ![Rows[r].product] = @ + change[2] - stock[r]]
      /\ UNCHANGED <<product, bill, taken, session, billed, crossed>>

-----------------------------------------------------------------------------
(* Bills and the list of materials.                                          *)

Registered == {n \in DOMAIN product : product[n].material}
(* The list shows each material with its type (and its stock by company).    *)
Summary == [n \in Registered |-> product[n].type]
(* Products that may become materials, or have bills.                        *)
Candidates == DOMAIN product \ Registered

(* The editor shows a bill: rows are kept, with their quantity or another,   *)
(* or ticked to be deleted; materials not yet on it are added, all with one  *)
(* quantity.  What is stored is what the page shows, not a difference.       *)
EditBill(s, f) ==
  LET now == BillOf(f)
  IN  /\ At(s, "idle") /\ Edit
      /\ f \in DOMAIN bill \cup Candidates
      /\ \E keep \in SUBSET DOMAIN now, add \in SUBSET (Registered \ DOMAIN now), one \in Quantities :
           \E kept \in [keep -> Quantities] :
             Goes(s, [at |-> "bill", of |-> f, new |-> [m \in keep \cup add |-> IF m \in keep THEN kept[m] ELSE one]])
      /\ UNCHANGED <<tables, moved, billed, crossed>>
SaveBill(s) ==
  LET p == session[s]
      after == Put(bill, p.of, p.new)
      had == IF p.of \in DOMAIN billed THEN billed[p.of] ELSE {}
  IN  /\ At(s, "bill") /\ Free(s)
      /\ bill' = [f \in {x \in DOMAIN after : DOMAIN after[x] # {}} |-> after[f]]
      /\ billed' = Put(billed, p.of, had \cup {p.new})
      /\ Rests(s)
      /\ UNCHANGED <<product, stock, taken, moved, crossed, edits>>

(* Products that are no material are picked, and marked with a type.         *)
PickMaterials(s, picked, type) ==
  /\ At(s, "idle") /\ Edit
  /\ picked # {} /\ picked \subseteq Candidates
  /\ Goes(s, [at |-> "add", picked |-> picked, type |-> type])
  /\ UNCHANGED <<tables, moved, billed, crossed>>
SetMaterials(s) ==
  LET p == session[s]
  IN  /\ At(s, "add") /\ Free(s)
      /\ product' = [n \in DOMAIN product |->
                       IF n \in p.picked THEN [material |-> TRUE, type |-> p.type] ELSE product[n]]
      /\ Rests(s)
      /\ UNCHANGED <<bill, stock, taken, seen>>

(* The list of materials is edited: some are ticked to be removed, the types *)
(* of all the others are written as the list shows them.                     *)
EditList(s, removed) ==
  /\ At(s, "idle") /\ Edit
  /\ Registered # {} /\ removed \subseteq Registered
  /\ \E changed \in SUBSET (Registered \ removed) : \E new \in [changed -> Types \cup {NoType}] :
       Goes(s, [at |-> "list", removed |-> removed,
                types |-> [n \in Registered \ removed |-> IF n \in changed THEN new[n] ELSE Summary[n]]])
  /\ UNCHANGED <<tables, moved, billed, crossed>>
UpdateMaterials_unguarded(s) ==
  LET p == session[s]
  IN  /\ At(s, "list") /\ Free(s)
      /\ product' = [n \in DOMAIN product |->
                       IF n \in p.removed THEN [material |-> FALSE, type |-> NoType]
                       ELSE IF n \in DOMAIN p.types THEN [product[n] EXCEPT !.type = p.types[n]]
                       ELSE product[n]]
      /\ Rests(s)
      /\ UNCHANGED <<bill, stock, taken, seen>>
UpdateMaterials(s) ==
  LET p == session[s]
  IN  /\ At(s, "list") /\ Free(s)
      /\ product' = [n \in DOMAIN product |->
                       IF n \in p.removed THEN [material |-> FALSE, type |-> NoType]
                       ELSE IF n \in DOMAIN p.types /\ product[n].material THEN [product[n] EXCEPT !.type = p.types[n]]
                       ELSE product[n]]
      /\ Rests(s)
      /\ UNCHANGED <<bill, stock, taken, seen>>

(* A master is uploaded: the marks are read, in a transaction of their own;  *)
(* then the table is replaced by the rows of the file, with these marks.     *)
ReadMarks(s, file) ==
  /\ At(s, "idle") /\ Edit
  /\ Goes(s, [at |-> "import", file |-> file, marked |-> Registered])
  /\ UNCHANGED <<tables, moved, billed, crossed>>
ReplaceMaster(s) ==
  LET p == session[s]
  IN  /\ At(s, "import") /\ Free(s)
      /\ product' = [n \in p.file |-> [material |-> n \in p.marked, type |-> NoType]]
      /\ Rests(s)
      /\ UNCHANGED <<bill, stock, taken, seen>>

-----------------------------------------------------------------------------
Production(s) ==
  \/ \E f \in NameSet, amount \in Amounts : Produce(s, f, amount)
  \/ CheckStock(s) \/ PlanAgain(s) \/ SelectRows(s) \/ TakeRow(s) \/ NextMaterial(s) \/ Commit(s) \/ Stop(s)
BillPage(s) == (\E f \in NameSet : EditBill(s, f)) \/ SaveBill(s)
ListPages(s) ==
  \/ \E picked \in SUBSET NameSet, type \in Types : PickMaterials(s, picked, type)
  \/ \E removed \in SUBSET NameSet : EditList(s, removed)
  \/ \E file \in Files : ReadMarks(s, file)
  \/ SetMaterials(s) \/ UpdateMaterials(s) \/ ReplaceMaster(s)
Next ==
  \/ \E s \in Sessions : Production(s) \/ BillPage(s) \/ ListPages(s)
  \/ \E c \in Changes : ChangeStock(c)

Spec == Init /\ [][Next]_vars

-----------------------------------------------------------------------------
(* Properties.                                                               *)

(* The history accounts for the stock: what there is of a material is what   *)
(* there was, with what other pages brought, less what productions noted,    *)
(* stopped and refused ones included.  Not so once a production has written  *)
(* rows another call changed after it read them: nothing notices that.       *)
StockAccounted ==
  ~crossed => \A m \in NameSet : OnHand(stock, m) = OnHand(InitialStock, m) + moved[m] - taken[m]

(* A production takes of every material just what one bill its product has   *)
(* had asks for, whatever bills and stock did between the plan and the       *)
(* commit: never a part, nor materials of two bills.                         *)
ProductionsFollowBill ==
  [][\A s \in Sessions : At(s, "commit") /\ taken' # taken =>
       LET p == session[s]
       IN  \E b \in billed[p.of] : \A m \in NameSet :
             (taken'[m] - taken[m]) * Unit = IF m \in DOMAIN b THEN b[m] * p.amount ELSE 0]_vars

(* What is no material has no type, however removals, new types and uploads  *)
(* of several sessions overlap.                                              *)
TypesAreOfMaterials == \A n \in DOMAIN product : product[n].type # NoType => product[n].material
=============================================================================
