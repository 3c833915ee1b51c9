------------------------ MODULE PurchaseStatements -------------------------
(****************************************************************************)
(* Receipts against purchase orders (src/order_management_src): statements,  *)
(* their lines and the price history, as browser sessions register, edit,    *)
(* return, correct and delete them.  A page reads all tables when its script *)
(* starts and saves by replacing whole tables, one transaction per table;    *)
(* orders are written, and a correction is made, in one transaction.  The    *)
(* cache the pages read through is cleared after every save, so a page sees  *)
(* the database.  One day: the ids of other days have another prefix.        *)
(****************************************************************************)
EXTENDS Integers, Sequences, FiniteSets, SequencesExt

CONSTANTS
  Users,          \* browser sessions
  Products,
  Orders,         \* orders that may be made
  Amounts,        \* units of an order line, and of a receipt line
  Baskets,        \* what is ordered: sequences of order lines
  Prices,         \* purchase prices an edit may enter
  Workloads,      \* what a behaviour is made of: one of these records, the calls
                  \* made, by how many sessions at a time, on how many orders
                  \* and for how many lines of statements
  MaxStatements,  \* bound: highest statement id
  MaxLines,       \* bound: lines of a statement
  MaxChanges      \* bound: changes made to an open form

OrderLine == [product : Products, qty : Nat]
ASSUME StatementsOK ==
  /\ Amounts \subseteq Nat \ {0} /\ Prices \subseteq Nat
  /\ \A rows \in Baskets : rows \in Seq(OrderLine) /\ rows # <<>>
  /\ MaxStatements \in Nat /\ MaxLines \in Nat \ {0}

VARIABLES
  db,     \* tables orders (with their items), statements, statement_items, price_history
  todo,   \* the writes each session still has to make of the save it is at
  form,   \* the statement each session has open for editing, with the rows on screen
  clean,  \* no save was interrupted, or overlapped by another session: a history variable
  work    \* the workload of this behaviour: nothing of the program

vars == <<db, todo, form, clean, work>>

StatementIds == 1 .. MaxStatements
NoOrder == <<>>
None == "none"
NoForm == [st |-> 0, rows |-> <<>>, changes |-> 0]

-----------------------------------------------------------------------------
(* What the pages read off the tables.                                      *)

(* The header rows are a set: a save computes an id that no row it read has.  *)
IdsOf(t, o) == {h.id : h \in {g \in t.heads : g.order = o}}
Listed(t, s) == \E h \in t.heads : h.id = s
LinesOf(t, o) == {l \in t.items : l.st \in IdsOf(t, o)}
Units(lines) == SumFunctionOnSet([l \in lines |-> l.qty], lines)

(* A line counts for the product that was ordered, whatever came instead.    *)
Key(l) == IF l.of # None THEN l.of ELSE l.got
Received(t, o, p) == Units({l \in LinesOf(t, o) : Key(l) = p})
Remaining_fault(t, o, i) ==
  LET came == {l \in LinesOf(t, o) : l.got = t.orders[o][i].product}
      r == t.orders[o][i].qty - Units(came)
  IN  IF r > 0 THEN r ELSE 0
Remaining(t, o, i) ==
  LET r == t.orders[o][i].qty - Received(t, o, t.orders[o][i].product) IN IF r > 0 THEN r ELSE 0
(* The registration page offers an order with something left on a row.       *)
OpenOrders(t) == {o \in Orders : \E i \in DOMAIN t.orders[o] : Remaining(t, o, i) > 0}

Ordered(t, o, p) ==
  LET rows == {i \in DOMAIN t.orders[o] : t.orders[o][i].product = p}
  IN  SumFunctionOnSet([i \in rows |-> t.orders[o][i].qty], rows)
(* The order list adds up the rows of a product before it compares.          *)
Status(t, o) ==
  LET asked == {t.orders[o][i].product : i \in DOMAIN t.orders[o]}
  IN  IF SumFunctionOnSet([p \in asked |-> Received(t, o, p)], asked) = 0 THEN "ordered"
      ELSE IF \A p \in asked : Received(t, o, p) >= Ordered(t, o, p) THEN "received"
      ELSE "partly"

HasReturns_fault(t, s) == FALSE
(* What protects a statement from an edit: the amounts its return markers    *)
(* remember.                                                                *)
HasReturns(t, s) ==
  LET markers == {l \in t.items : l.st = s /\ l.mark = "returned"}
  IN  SumFunctionOnSet([l \in markers |-> l.back * l.price], markers) > 0

NextId(t) == 1 + Max({h.id : h \in t.heads} \cup {0})

-----------------------------------------------------------------------------
(* Saving: a page computes whole tables from what it read, then writes them  *)
(* one by one.                                                              *)

Idle(u) == todo[u] = <<>>
Alone(u) == \A v \in Users \ {u} : Idle(v)
Busy == {u \in Users : ~Idle(u) \/ form[u] # NoForm}
Acts(u) ==
  /\ Idle(u) /\ Cardinality(Busy \cup {u}) <= work.sessions
  /\ clean' = (clean /\ Alone(u))
Write(name, rows) == [op |-> name, rows |-> rows]

(* The tables without the statements of ids; with or without their headers.  *)
Purged(t, ids) ==
  [t EXCEPT !.items = {l \in @ : l.st \notin ids}, !.prices = {q \in @ : q.st \notin ids}]

SaveTable(u) ==
  /\ todo[u] # <<>>
  /\ LET w == Head(todo[u])
     IN  CASE w.op = "heads" -> db' = [db EXCEPT !.heads = w.rows]
           [] w.op = "items" -> db' = [db EXCEPT !.items = w.rows]
           [] w.op = "prices" -> db' = [db EXCEPT !.prices = w.rows]
  /\ todo' = [todo EXCEPT ![u] = Tail(@)]
  /\ clean' = (clean /\ Alone(u))
  /\ UNCHANGED form

(* The server stops: saves are left where they are, sessions are gone.       *)
Crash ==
  /\ clean' = (clean /\ \A u \in Users : Idle(u))
  /\ todo' = [u \in Users |-> <<>>] /\ form' = [u \in Users |-> NoForm]
  /\ UNCHANGED db

-----------------------------------------------------------------------------
(* Orders.                                                                  *)

SaveOrder(u, o, rows) ==
  /\ Acts(u)
  /\ db' = [db EXCEPT !.orders[o] = rows]
  /\ UNCHANGED <<todo, form>>

DeleteOrder_fault(u, o) ==
  /\ Acts(u) /\ db.orders[o] # NoOrder
  /\ db' = [db EXCEPT !.orders[o] = NoOrder, !.heads = {h \in @ : h.order # o}]
  /\ UNCHANGED <<todo, form>>
DeleteOrder(u, o) ==
  /\ Acts(u) /\ db.orders[o] # NoOrder
  /\ db' = [Purged(db, IdsOf(db, o)) EXCEPT !.orders[o] = NoOrder,
              !.heads = {h \in @ : h.order # o}]
  /\ UNCHANGED <<todo, form>>

-----------------------------------------------------------------------------
(* Statements.                                                              *)

(* A row of the receipt form: any product may come for the i-th order row,   *)
(* in any quantity: too much is reported and saved all the same.  Rows with  *)
(* something left are offered; a row may be copied for another lot.          *)
Came(t, o) ==
  [row : {i \in DOMAIN t.orders[o] : Remaining(t, o, i) > 0},
   got : Products, qty : Amounts, mark : {"Y", "N"}]
Receipts(t, o) == {r \in UNION {[1 .. n -> Came(t, o)] : n \in 1 .. MaxLines} :
                     \A j, k \in DOMAIN r : r[j].row = r[k].row => r[j].got = r[k].got}

Priced(lines) ==
  {[st |-> l.st, seq |-> l.seq, product |-> l.got] : l \in {m \in lines : m.mark = "Y"}}
Register(u, o, r) ==
  /\ Acts(u) /\ o \in OpenOrders(db)
  /\ LET s == NextId(db)
         lines == {[st |-> s, seq |-> k, of |-> db.orders[o][r[k].row].product,
                    got |-> r[k].got, qty |-> r[k].qty, price |-> 1, mark |-> r[k].mark,
                    back |-> 0] : k \in DOMAIN r}
         heads == Write("heads", db.heads \cup {[id |-> s, order |-> o]})
         items == Write("items", db.items \cup lines)
         prices == Write("prices", db.prices \cup Priced(lines))
     IN  /\ s <= MaxStatements /\ Cardinality(db.items) + Len(r) <= work.lines
         /\ todo' = [todo EXCEPT ![u] = IF Priced(lines) = {} THEN <<heads, items>> ELSE <<heads, items, prices>>]
  /\ UNCHANGED <<db, form>>

DeleteStatement(u, s) ==
  /\ Acts(u) /\ Listed(db, s)
  /\ LET rest == Purged(db, {s})
     IN  todo' = [todo EXCEPT ![u] = <<Write("heads", {h \in db.heads : h.id # s}),
                                       Write("items", rest.items), Write("prices", rest.prices)>>]
  /\ UNCHANGED <<db, form>>

ReturnLine(l) == [l EXCEPT !.mark = "returned", !.back = l.qty, !.qty = 0]
(* Every line the order has of product p becomes a return that remembers how *)
(* many units there were; the price history is left alone.                   *)
Return(u, o, p) ==
  /\ Acts(u)
  /\ LET S == {l \in LinesOf(db, o) : Key(l) = p /\ l.mark # "returned" /\ l.qty > 0}
     IN  /\ S # {}
         /\ todo' = [todo EXCEPT ![u] = <<Write("items", (db.items \ S) \cup {ReturnLine(l) : l \in S})>>]
  /\ UNCHANGED <<db, form>>

-----------------------------------------------------------------------------
(* The edit form of a statement, kept by the session from run to run.        *)

Change(u, rows) ==
  /\ form[u].changes < MaxChanges
  /\ form' = [form EXCEPT ![u].rows = rows, ![u].changes = @ + 1]
(* The lines as they are numbered, in any order those of one number.         *)
InOrder(S) ==
  {rows \in [1 .. Cardinality(S) -> S] :
     \A j, k \in DOMAIN rows : j < k => rows[j] # rows[k] /\ rows[j].seq <= rows[k].seq}
Shown(u, s) == form[u].st = s /\ ~HasReturns(db, s) /\ Listed(db, s)
OpenForm(u, s) ==
  /\ Acts(u) /\ ~HasReturns(db, s) /\ Listed(db, s)
  /\ form[u].st # s
  /\ \E rows \in InOrder({l \in db.items : l.st = s}) :
       form' = [form EXCEPT ![u] = [st |-> s, changes |-> 0, rows |-> rows]]
  /\ UNCHANGED <<db, todo>>
CloseForm(u) ==
  /\ Acts(u) /\ form[u] # NoForm /\ Shown(u, form[u].st)
  /\ form' = [form EXCEPT ![u] = NoForm]
  /\ UNCHANGED <<db, todo>>

Enter(u, k, n, p) ==
  /\ Acts(u) /\ Shown(u, form[u].st) /\ k \in DOMAIN form[u].rows
  /\ Change(u, [form[u].rows EXCEPT ![k].qty = n, ![k].price = p])
  /\ UNCHANGED <<db, todo>>
CopyRow(u, k) ==
  /\ Acts(u) /\ Shown(u, form[u].st) /\ k \in DOMAIN form[u].rows /\ Len(form[u].rows) < MaxLines
  /\ Change(u, InsertAt(form[u].rows, k + 1, [form[u].rows[k] EXCEPT !.qty = 0]))
  /\ UNCHANGED <<db, todo>>
RemoveRow(u, k) ==
  /\ Acts(u) /\ Shown(u, form[u].st) /\ k \in DOMAIN form[u].rows /\ Len(form[u].rows) > 1
  /\ Change(u, RemoveAt(form[u].rows, k))
  /\ UNCHANGED <<db, todo>>
(* What is left of an order row is added at no price.                        *)
AddRow(u, o, i) ==
  /\ Acts(u) /\ Shown(u, form[u].st) /\ form[u].st \in IdsOf(db, o)
  /\ i \in DOMAIN db.orders[o] /\ Remaining(db, o, i) > 0 /\ Len(form[u].rows) < MaxLines
  /\ Change(u, Append(form[u].rows,
       [st |-> form[u].st, seq |-> 0, of |-> None, got |-> db.orders[o][i].product,
        qty |-> Remaining(db, o, i), price |-> 0, mark |-> "N", back |-> 0]))
  /\ UNCHANGED <<db, todo>>
Substitute(u, k, p) ==
  /\ Acts(u) /\ Shown(u, form[u].st) /\ k \in DOMAIN form[u].rows
  /\ Change(u, [form[u].rows EXCEPT ![k].of = Key(form[u].rows[k]), ![k].got = p])
  /\ UNCHANGED <<db, todo>>
Unsubstitute(u, k) ==
  /\ Acts(u) /\ Shown(u, form[u].st) /\ k \in DOMAIN form[u].rows /\ form[u].rows[k].of # None
  /\ Change(u, [form[u].rows EXCEPT ![k].got = form[u].rows[k].of, ![k].of = None])
  /\ UNCHANGED <<db, todo>>

(* Every line is saved as one whose price applies, and gets a price row.     *)
SaveForm(u) ==
  /\ Acts(u) /\ Shown(u, form[u].st)
  /\ Cardinality({h \in db.heads : h.id = form[u].st}) = 1
  /\ form[u].rows # <<>>
  /\ LET s == form[u].st
         lines == {[form[u].rows[k] EXCEPT !.st = s, !.seq = k, !.mark = "applied", !.back = 0] :
                     k \in DOMAIN form[u].rows}
         rest == Purged(db, {s})
     IN  todo' = [todo EXCEPT ![u] = <<Write("heads", db.heads), Write("items", rest.items \cup lines),
           Write("prices", rest.prices \cup {[st |-> s, seq |-> l.seq, product |-> l.got] : l \in lines})>>]
  /\ form' = [form EXCEPT ![u] = NoForm]
  /\ UNCHANGED db

-----------------------------------------------------------------------------
(* The correction of an order with its statements, in one transaction: the   *)
(* statements of ids stay, the lines of drop go and one line gets n units.   *)
(* Only lines marked Y keep a price row; a return keeps its amount.          *)
Correct(u, o, ids, drop, l, n) ==
  /\ Acts(u) /\ db.orders[o] # NoOrder /\ ids \subseteq IdsOf(db, o)
  /\ LET kept == {m \in LinesOf(db, o) : m.st \in ids} \ drop
         new == (kept \ {l}) \cup {[m EXCEPT !.qty = n] : m \in kept \cap {l}}
         rest == Purged(db, IdsOf(db, o))
     IN  /\ drop \subseteq LinesOf(db, o)
         /\ db' = [rest EXCEPT !.heads = {h \in @ : h.order # o \/ h.id \in ids},
                     !.items = @ \cup new, !.prices = @ \cup Priced(new)]
  /\ UNCHANGED <<todo, form>>

-----------------------------------------------------------------------------
Init ==
  /\ db = [orders |-> [o \in Orders |-> NoOrder], heads |-> {}, items |-> {}, prices |-> {}]
  /\ todo = [u \in Users |-> <<>>] /\ form = [u \in Users |-> NoForm]
  /\ clean = TRUE /\ work \in Workloads

RegisterPage(u) == \E o \in Orders : \E r \in Receipts(db, o) : Register(u, o, r)
DetailPage(u) ==
  \/ "delete" \in work.calls /\ \E s \in StatementIds : DeleteStatement(u, s)
  \/ "return" \in work.calls /\ \E o \in Orders, p \in Products : Return(u, o, p)
(* One change of a correction at a time: a statement or a line goes, or the   *)
(* units of a line change.                                                  *)
CorrectionPage(u) ==
  \E o \in Orders : \E ids \in SUBSET IdsOf(db, o) : \E l \in LinesOf(db, o) :
    \E drop \in {{}, {l}}, n \in Amounts : Correct(u, o, ids, drop, l, n)
Edit(u) ==
  /\ "edit" \in work.calls
  /\ \/ \E s \in StatementIds : OpenForm(u, s)
     \/ SaveForm(u) \/ CloseForm(u)
     \/ \E k \in 1 .. MaxLines, n \in Amounts, p \in Prices : Enter(u, k, n, p)
     \/ \E k \in 1 .. MaxLines : CopyRow(u, k) \/ RemoveRow(u, k) \/ Unsubstitute(u, k)
     \/ \E k \in 1 .. MaxLines, p \in Products : Substitute(u, k, p)
     \/ \E o \in Orders, i \in 1 .. MaxLines : AddRow(u, o, i)

Next ==
  /\ UNCHANGED work
  /\ \/ \E u \in Users : SaveTable(u) \/ RegisterPage(u) \/ DetailPage(u) \/ Edit(u)
     \/ "correct" \in work.calls /\ \E u \in Users : CorrectionPage(u)
     \/ \E u \in Users, o \in Orders, rows \in Baskets :
          /\ db.orders[o] = NoOrder \/ "reorder" \in work.calls
          /\ db.orders[o] = NoOrder => Cardinality({q \in Orders : db.orders[q] # NoOrder}) < work.orders
          /\ SaveOrder(u, o, rows)
     \/ "drop" \in work.calls /\ \E u \in Users, o \in Orders : DeleteOrder(u, o)
     \/ "crash" \in work.calls /\ Crash

Spec == Init /\ [][Next]_vars

-----------------------------------------------------------------------------
Quiet == \A u \in Users : Idle(u)
(* As long as no save met another one or a crash, the tables hang together    *)
(* between saves, though no key or foreign key asks for it: an id names one   *)
(* statement, a statement has an order and a line its statement, and there is *)
(* a price row exactly where a line has its price entered, the lines of an    *)
(* edit that a correction keeps excepted (replace_statements,                *)
(* replace_statement_items, replace_price_history, save_bundle).             *)
Whole(t) ==
  /\ \A g, h \in t.heads : g.id = h.id => g = h
  /\ \A h \in t.heads : t.orders[h.order] # NoOrder
  /\ \A l \in t.items : Listed(t, l.st)
  /\ \A q \in t.prices : \E l \in t.items : l.st = q.st /\ l.seq = q.seq /\ l.got = q.product
  /\ \A l \in t.items : l.mark = "Y" =>
       \E q \in t.prices : l.st = q.st /\ l.seq = q.seq /\ l.got = q.product
StatementsWhole == clean /\ Quiet => Whole(db)

Kept(l) == Listed(db', l.st) => l \in db'.items
Returned == {l \in db.items : l.mark = "returned"}
(* A return of goods bought at a price stays recorded as long as its         *)
(* statement is there, whatever edits the statement later goes through       *)
(* (replace_statement_items).                                               *)
PaidReturnsStand ==
  [][db.items # db'.items /\ clean' /\ "correct" \notin work.calls =>
       \A l \in Returned : l.price > 0 => Kept(l)]_db

(* An order shown as received is not offered for another receipt: the list    *)
(* adds per product, the registration page compares row by row, and a         *)
(* substitute counts for what was ordered in both (_receipt_status_map,       *)
(* _open_orders).                                                           *)
ReceivedIsClosed == \A o \in OpenOrders(db) : Status(db, o) # "received"
=============================================================================
