---------------------------- MODULE OutboundOrders ----------------------------
(****************************************************************************)
(* Outbound orders (services/outbound_orders.py, services/outbound.py), the  *)
(* stock calls they compete with (services/inventory.py) and the deletion of *)
(* history rows (pages/history.py), for several sessions at once.            *)
(*                                                                           *)
(* Every browser session runs in a thread of its own and every call opens a  *)
(* connection of its own.  Python's sqlite3 starts a transaction at the      *)
(* first INSERT, UPDATE or DELETE: the SELECTs before it each see the last   *)
(* commit and lock nothing, what follows it runs alone until the commit.  So *)
(* a call is one action per SELECT and one for all its writes, and writes    *)
(* quantities computed from what the SELECTs returned.                       *)
(****************************************************************************)
EXTENDS Integers, Sequences, FiniteSets, SequencesExt

CONSTANTS
  Keys,          \* stock keys: company, product, lot, expiry
  Rows,          \* inventory rows
  KeyOf,         \* the stock key of a row
  Orders,        \* ids of outbound_orders (the ids in between are of other orders)
  Base,          \* ids are written in this base in a memo: 10
  Sessions,
  Handles,       \* the stock keys each session works on
  Carts,         \* carts a user may submit
  InitialStock,
  ReceivedQty, CountedQty,
  Deletable,     \* kinds of history rows users delete together with their effect
  MaxStock,      \* bound: receipts and counts leave at most this much in all
  MaxLog         \* bound: a call commits only if the history stays this short

CartEntry == [row : Rows, qty : Nat \ {0}]
Kinds == {"ship", "reship", "cancel", "in", "count", "move"}
Statuses == {"none", "saved", "edited", "cancelled", "deleted"}
NoOrder == 0

ASSUME OutboundConstants ==
  /\ Rows # {} /\ IsFiniteSet(Rows) /\ KeyOf \in [Rows -> Keys] /\ InitialStock \in [Rows -> Nat]
  /\ Orders \subseteq Nat \ {0} /\ Base \in Nat \ {0, 1}
  /\ \A c \in Carts : c \in Seq(CartEntry) /\ c # << >>
  /\ ReceivedQty \subseteq Nat \ {0} /\ CountedQty \subseteq Nat
  /\ Handles \in [Sessions -> SUBSET Keys]

VARIABLES
  stock,     \* inventory.qty
  status,    \* outbound_orders.status
  items,     \* outbound_order_items of each order
  log,       \* transactions in id order
  call       \* what each session's call has read so far

vars == <<stock, status, items, log, call>>

(* A definition named X_y is not part of the specification: it is X with the *)
(* fault y, and shows that a property would notice that fault.               *)

Zero == [r \in Rows |-> 0]
NoCall == [pc |-> "idle", order |-> NoOrder, cart |-> << >>, old |-> << >>,
           seen |-> Zero, total |-> [k \in Keys |-> 0], to |-> CHOOSE r \in Rows : TRUE]

Init ==
  /\ stock = InitialStock
  /\ status = [o \in Orders |-> "none"] /\ items = [o \in Orders |-> << >>]
  /\ log = << >>
  /\ call = [s \in Sessions |-> NoCall]

-----------------------------------------------------------------------------
(* _requested_by_inventory, over the first n entries of a cart.              *)
Qty(cart) == [i \in DOMAIN cart |-> cart[i].qty]
Upto(cart, n, r) == SumFunctionOnSet(Qty(cart), {i \in 1 .. n : cart[i].row = r})
Requested(cart, r) == Upto(cart, Len(cart), r)
RowsIn(cart) == {cart[i].row : i \in DOMAIN cart}
ReadRows(S) == [r \in Rows |-> IF r \in S THEN stock[r] ELSE 0]

(* stock_key_final_qty *)
OnHand(table, k) == SumFunctionOnSet(table, {r \in Rows : KeyOf[r] = k})

(* A row of transactions.  The stock key it is filed under is that of the    *)
(* row the units end up in (_infer_transaction_stock_company).               *)
Entry(kind, o, r, to, q, final) ==
  [kind |-> kind, order |-> o, row |-> r, to |-> to, qty |-> q, final |-> final]
FiledUnder(e) == KeyOf[e.to]

(* latest_stock_key_history_final_qty: the positions filed under a key.      *)
History(table, k) == {i \in DOMAIN table : FiledUnder(table[i]) = k}
LatestFinal(table, k) == table[Max(History(table, k))].final

(* The text "#o" is the beginning of the text "#p".                          *)
Prefix(o, p) ==
  LET begins[q \in 0 .. p] == q = o \/ (q >= Base /\ begins[q \div Base])
  IN  begins[p]

Handled(s, cart) == \A r \in RowsIn(cart) : KeyOf[r] \in Handles[s]

Idle(s) == call[s].pc = "idle"
At(s, pc) == call[s].pc = pc
Goto(s, c) == call' = [call EXCEPT ![s] = c] /\ UNCHANGED <<stock, status, items, log>>
End(s) == call' = [call EXCEPT ![s] = NoCall]
Write(entries) == log' = log \o entries /\ Len(log') <= MaxLog

-----------------------------------------------------------------------------
(* save_outbound_order: the rows are read and compared with the cart, then   *)
(* the totals for the history; then the stock read is written less what the  *)
(* cart asks for.                                                            *)
SaveReadsRows(s, cart) ==
  /\ Idle(s) /\ Handled(s, cart)
  /\ \A r \in RowsIn(cart) : Requested(cart, r) <= stock[r]
  /\ Goto(s, [NoCall EXCEPT !.pc = "save_total", !.cart = cart, !.seen = ReadRows(RowsIn(cart))])

SaveReadsTotal(s) ==
  /\ At(s, "save_total")
  /\ LET keys == {KeyOf[r] : r \in RowsIn(call[s].cart)}
     IN  Goto(s, [call[s] EXCEPT !.pc = "save",
                    !.total = [k \in Keys |-> IF k \in keys THEN OnHand(stock, k) ELSE 0]])

(* running_final: the total read, less the entries of the key so far.        *)
KeyUpto_one(cart, n, k) == IF KeyOf[cart[n].row] = k THEN cart[n].qty ELSE 0
KeyUpto(cart, n, k) == SumFunctionOnSet(Qty(cart), {i \in 1 .. n : KeyOf[cart[i].row] = k})

SaveWrites(s, o) ==
  /\ At(s, "save") /\ status[o] = "none"
  /\ LET c == call[s]
         final(i) == c.total[KeyOf[c.cart[i].row]] - KeyUpto(c.cart, i, KeyOf[c.cart[i].row])
     IN  /\ stock' = [r \in Rows |-> IF r \in RowsIn(c.cart) THEN c.seen[r] - Requested(c.cart, r)
                                                             ELSE stock[r]]
         /\ items' = [items EXCEPT ![o] = c.cart]
         /\ Write([i \in DOMAIN c.cart |->
                     Entry("ship", o, c.cart[i].row, c.cart[i].row, c.cart[i].qty, final(i))])
  /\ status' = [status EXCEPT ![o] = "saved"]
  /\ End(s)

-----------------------------------------------------------------------------
(* update_outbound_order: the status, the order's rows, the stock rows and   *)
(* the history of the keys that change are read one after the other; then    *)
(* every row is written by the difference.                                   *)
EditReadsStatus_any(s, o, cart) ==
  /\ Idle(s) /\ Handled(s, cart) /\ Handled(s, items[o])
  /\ status[o] # "none"
  /\ Goto(s, [NoCall EXCEPT !.pc = "edit_items", !.order = o, !.cart = cart])
EditReadsStatus(s, o, cart) ==
  /\ Idle(s) /\ Handled(s, cart) /\ Handled(s, items[o])
  /\ status[o] \notin {"none", "cancelled"}
  /\ Goto(s, [NoCall EXCEPT !.pc = "edit_items", !.order = o, !.cart = cart])

EditReadsItems(s) ==
  /\ At(s, "edit_items")
  /\ Goto(s, [call[s] EXCEPT !.pc = "edit_rows", !.old = items[call[s].order]])

EditReadsRows(s) ==
  /\ At(s, "edit_rows")
  /\ Goto(s, [call[s] EXCEPT !.pc = "edit_check",
                            !.seen = ReadRows(RowsIn(call[s].cart) \cup RowsIn(call[s].old))])

Delta_reversed(c, r) == Requested(c.old, r) - Requested(c.cart, r)
Delta(c, r) == Requested(c.cart, r) - Requested(c.old, r)
Changed(c) == {r \in Rows : Delta(c, r) # 0}

(* assert_stock_key_history_consistent, for every key that changes.          *)
HistoryConsistent(k) == History(log, k) = {} \/ LatestFinal(log, k) = OnHand(stock, k)

EditChecksHistory(s) ==
  /\ At(s, "edit_check")
  /\ \A r \in Changed(call[s]) : HistoryConsistent(KeyOf[r])
  /\ Goto(s, [call[s] EXCEPT !.pc = "edit"])

(* One history row for each stock row that changes, in id order, with the    *)
(* total as the writes so far have left it.                                  *)
EditWrites(s) ==
  /\ At(s, "edit")
  /\ LET c == call[s]
         rows == SetToSeq(Changed(c))
         after(n) == [r \in Rows |-> IF \E i \in 1 .. n : rows[i] = r THEN c.seen[r] - Delta(c, r)
                                                                      ELSE stock[r]]
     IN  /\ \A r \in Changed(c) : c.seen[r] >= Delta(c, r)
         /\ stock' = after(Len(rows))
         /\ items' = IF rows = << >> THEN items ELSE [items EXCEPT ![c.order] = c.cart]
         /\ Write([i \in DOMAIN rows |-> Entry("reship", c.order, rows[i], rows[i], Delta(c, rows[i]),
                                               OnHand(after(i), KeyOf[rows[i]]))])
         /\ status' = [status EXCEPT ![c.order] = "edited"]
  /\ End(s)

-----------------------------------------------------------------------------
(* cancel_outbound_order, from the list of orders that have history          *)
(* (_order_has_history_sql); `LIKE` finds the memo of any order whose number *)
(* begins with this one's.                                                   *)
Listed(o) == /\ status[o] # "cancelled"
             /\ \E i \in DOMAIN log : log[i].kind = "ship" /\ Prefix(o, log[i].order)

CancelReadsStatus(s, o) ==
  /\ Idle(s) /\ Handled(s, items[o])
  /\ status[o] \notin {"none", "cancelled"} /\ Listed(o)
  /\ Goto(s, [NoCall EXCEPT !.pc = "cancel_log", !.order = o])

AlreadyRestored(o) == \E i \in DOMAIN log : log[i].kind = "cancel" /\ Prefix(o, log[i].order)

CancelReadsLog(s) ==
  /\ At(s, "cancel_log")
  /\ Goto(s, [call[s] EXCEPT !.pc = IF AlreadyRestored(call[s].order) THEN "cancel_mark"
                                                                      ELSE "cancel_items"])

(* The order is marked and the call fails: its stock counts as restored.     *)
CancelMarks(s) ==
  /\ At(s, "cancel_mark")
  /\ status' = [status EXCEPT ![call[s].order] = "cancelled"]
  /\ End(s) /\ UNCHANGED <<stock, items, log>>

CancelReadsItems(s) ==
  /\ At(s, "cancel_items")
  /\ Goto(s, [call[s] EXCEPT !.pc = "cancel_row", !.old = items[call[s].order]])

(* The stock row of the first item is read before anything is written, those *)
(* of the others after it.                                                   *)
CancelReadsRow(s) ==
  /\ At(s, "cancel_row")
  /\ Goto(s, [call[s] EXCEPT !.pc = "cancel", !.seen = ReadRows({call[s].old[1].row})])

CancelWrites(s) ==
  /\ At(s, "cancel")
  /\ LET c == call[s]
         after(n) == [r \in Rows |->
                        (IF r = c.old[1].row THEN c.seen[r] ELSE stock[r]) + Upto(c.old, n, r)]
     IN  /\ stock' = after(Len(c.old))
         /\ Write([i \in DOMAIN c.old |->
                     Entry("cancel", c.order, c.old[i].row, c.old[i].row, c.old[i].qty,
                           OnHand(after(i), KeyOf[c.old[i].row]))])
         /\ status' = [status EXCEPT ![c.order] = "cancelled"]
  /\ End(s) /\ UNCHANGED items

-----------------------------------------------------------------------------
(* services/inventory.py                                                     *)
InBounds(table) == SumFunction(table) <= MaxStock

(* add_inventory *)
ReceiveReads(s, r, q) ==
  /\ Idle(s) /\ KeyOf[r] \in Handles[s]
  /\ Goto(s, [NoCall EXCEPT !.pc = "in", !.cart = << [row |-> r, qty |-> q] >>,
                            !.seen = ReadRows({r})])

ReceiveWrites(s) ==
  /\ At(s, "in")
  /\ LET r == call[s].cart[1].row
         q == call[s].cart[1].qty
     IN  /\ stock' = [stock EXCEPT ![r] = call[s].seen[r] + q]
         /\ Write(<< Entry("in", NoOrder, r, r, q, OnHand(stock', KeyOf[r])) >>)
  /\ InBounds(stock')
  /\ End(s) /\ UNCHANGED <<status, items>>

(* move_inventory: the source row is read before the first write, the        *)
(* destination row after it.                                                 *)
MoveReads(s, r, to, q) ==
  /\ Idle(s) /\ r # to /\ {KeyOf[r], KeyOf[to]} \subseteq Handles[s]
  /\ q \in 1 .. stock[r]
  /\ Goto(s, [NoCall EXCEPT !.pc = "move", !.cart = << [row |-> r, qty |-> q] >>, !.to = to,
                            !.seen = ReadRows({r})])

MoveWrites(s) ==
  /\ At(s, "move")
  /\ LET r == call[s].cart[1].row
         q == call[s].cart[1].qty
         to == call[s].to
     IN  /\ stock' = [stock EXCEPT ![r] = call[s].seen[r] - q, ![to] = @ + q]
         /\ Write(<< Entry("move", NoOrder, r, to, q, OnHand(stock', KeyOf[to])) >>)
  /\ End(s) /\ UNCHANGED <<status, items>>

(* adjust_inventory: the count replaces whatever the row holds.              *)
Count(s, r, q) ==
  /\ Idle(s) /\ KeyOf[r] \in Handles[s] /\ stock[r] # q
  /\ stock' = [stock EXCEPT ![r] = q] /\ InBounds(stock')
  /\ Write(<< Entry("count", NoOrder, r, r, q - stock[r], OnHand(stock', KeyOf[r])) >>)
  /\ UNCHANGED <<status, items, call>>

-----------------------------------------------------------------------------
(* pages/history.py, run alone: a history row is deleted and its effect      *)
(* undone, but not that of an edit; an order that has no shipping row left   *)
(* is marked.                                                                *)
Undone(e) ==
  CASE e.kind = "ship" -> [stock EXCEPT ![e.row] = @ + e.qty]
    [] e.kind \in {"cancel", "in", "count"} -> [stock EXCEPT ![e.row] = @ - e.qty]
    [] e.kind = "move" -> [stock EXCEPT ![e.to] = @ - e.qty, ![e.row] = @ + e.qty]
    [] OTHER -> stock

DeleteHistory(s, i) ==
  /\ Idle(s) /\ log[i].kind \in Deletable
  /\ {KeyOf[log[i].row], KeyOf[log[i].to]} \subseteq Handles[s]
  /\ stock' = Undone(log[i]) /\ \A r \in Rows : stock'[r] >= 0
  /\ log' = RemoveAt(log, i)
  /\ status' = IF /\ log[i].kind = "ship"
                  /\ ~\E j \in DOMAIN log' : log'[j].kind = "ship" /\ Prefix(log[i].order, log'[j].order)
               THEN [status EXCEPT ![log[i].order] = "deleted"] ELSE status
  /\ UNCHANGED <<items, call>>

(* Only the row: "stock, locations and the order's status are left alone".   *)
DropHistory(s, i) ==
  /\ Idle(s) /\ log[i].kind \in Deletable
  /\ log' = RemoveAt(log, i)
  /\ UNCHANGED <<stock, status, items, call>>

(* A check fails, the lock is not obtained in time, or the process ends.     *)
Abandon(s) == ~Idle(s) /\ Goto(s, NoCall)

-----------------------------------------------------------------------------
CallStep(s) ==
  \/ \E cart \in Carts : SaveReadsRows(s, cart)
  \/ SaveReadsTotal(s) \/ \E o \in Orders : SaveWrites(s, o)
  \/ \E o \in Orders, cart \in Carts : EditReadsStatus(s, o, cart)
  \/ EditReadsItems(s) \/ EditReadsRows(s) \/ EditChecksHistory(s) \/ EditWrites(s)
  \/ \E o \in Orders : CancelReadsStatus(s, o)
  \/ CancelReadsLog(s) \/ CancelMarks(s)
  \/ CancelReadsItems(s) \/ CancelReadsRow(s) \/ CancelWrites(s)
  \/ \E r \in Rows, q \in ReceivedQty : ReceiveReads(s, r, q)
  \/ ReceiveWrites(s)
  \/ \E r, to \in Rows : \E q \in 1 .. stock[r] : MoveReads(s, r, to, q)
  \/ MoveWrites(s)
  \/ \E r \in Rows, q \in CountedQty : Count(s, r, q)
  \/ \E i \in DOMAIN log : DeleteHistory(s, i) \/ DropHistory(s, i)
  \/ Abandon(s)

Next == \E s \in Sessions : CallStep(s)

Spec == Init /\ [][Next]_vars

-----------------------------------------------------------------------------
(* Properties.                                                               *)

Entries == [kind : Kinds, order : Orders \cup {NoOrder}, row : Rows, to : Rows, qty : Int, final : Int]
Phases == {"idle", "save_total", "save", "edit_items", "edit_rows", "edit_check", "edit",
           "cancel_log", "cancel_mark", "cancel_items", "cancel_row", "cancel", "in", "move"}
Calls == [pc : Phases, order : Orders \cup {NoOrder}, cart : Seq(CartEntry), old : Seq(CartEntry),
          seen : [Rows -> Nat], total : [Keys -> Nat], to : Rows]

(* A call that is about to write has read rows that cover what it writes.    *)
Covered(c) ==
  /\ c.pc \in {"save_total", "save", "move"} => \A r \in RowsIn(c.cart) : Requested(c.cart, r) <= c.seen[r]
  /\ c.pc \in {"edit_items", "edit_rows", "edit_check", "edit", "cancel_log", "cancel_mark",
               "cancel_items", "cancel_row", "cancel"} =>
       c.order \in Orders /\ status[c.order] # "none"
  /\ c.pc \in {"in", "move"} => Len(c.cart) = 1

(* Every row of every table has its columns' types: above all no interleaving *)
(* of calls, however stale what they read, leaves a stock row below zero.    *)
TypeOK ==
  /\ stock \in [Rows -> Nat] /\ status \in [Orders -> Statuses]
  /\ items \in [Orders -> Seq(CartEntry)] /\ log \in Seq(Entries)
  /\ call \in [Sessions -> Calls] /\ \A s \in Sessions : Covered(call[s])

Active == {"saved", "edited"}
TakenBy(o) ==
  [k \in Keys |-> IF status[o] \in Active THEN KeyUpto(items[o], Len(items[o]), k) ELSE 0]

(* Sessions that work on different stock keys keep the ledger, however their *)
(* calls interleave and wherever they fail.                                  *)
Ledger == INSTANCE OutboundLedger WITH
  onHand <- [k \in Keys |-> OnHand(stock, k)],
  taken <- [o \in Orders |-> TakenBy(o)],
  CompanyMoves <- Keys \X Keys
LedgerKept == Ledger!Spec

(* transactions.final_stock is the stock right after the transaction: the    *)
(* last history row a call files under a key says what the key then has,     *)
(* although saving computes it from a total read earlier, and the others     *)
(* from the table in the middle of their writes.                             *)
HistoryMatchesStock ==
  [][\A k \in Keys :
       (\E i \in Len(log) + 1 .. Len(log') : FiledUnder(log'[i]) = k)
         => LatestFinal(log', k) = OnHand(stock', k)]_vars

(* A cancelled order stays cancelled ("a cancelled order cannot be edited"). *)
CancelledForGood ==
  [][\A o \in Orders : status[o] = "cancelled" => status'[o] = "cancelled"]_vars
=============================================================================
