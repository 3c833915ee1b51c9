---------------------------- MODULE ExportWaiting ----------------------------
(****************************************************************************)
(* The export reservations of the warehouse (services/export_waiting.py,     *)
(* with export_waiting_history_patch.py, which replaces one of its functions *)
(* at import) over the stock table they share with services/inventory.py.    *)
(*                                                                           *)
(* A reservation takes stock from a shelf to a staging location (P, T1..T5)  *)
(* and records a row of export_waiting_items; confirming it takes the stock  *)
(* out of the warehouse, and editing, cancelling, returning, merging and     *)
(* repairing move it back and forth.  Each service call is one SQLite        *)
(* transaction of several steps: ensure_export_waiting_tables takes the      *)
(* write lock before the call reads anything, so calls do not interleave,    *)
(* but every call is a loop over rows that can stop half way.  The module    *)
(* has one action per turn of a loop; `committed` is the database as the     *)
(* other sessions see it and as a crash leaves it.                           *)
(****************************************************************************)
EXTENDS Integers, Sequences, FiniteSets, SequencesExt

CONSTANTS
  Keys,          \* stock keys: company, product, ERP name, lot and expiry
  Shelves,       \* ordinary locations
  Staging,       \* STAGING_LOCATIONS
  Orders,        \* ids of export_waiting_orders; an order has an export_no of its own
  Customers,     \* ERP customers a row can be confirmed to
  Unsold,        \* a row with confirmed = 0
  NoOrder, NoLoc,
  Carts,         \* carts a user may submit, grouped by inventory row
  InitialStock,  \* the stock table at the start
  ReceivedQty,   \* quantities add_inventory may be given
  CountedQty,    \* quantities a stock count may find
  MaxStock,      \* bound: receipts and counts leave at most this much stock in all
  MaxItems,      \* bound: a cart is saved only if the item table stays this short
  CompanyMoves   \* pairs of keys: a stock key and what it becomes in another company

Locs == Shelves \cup Staging
Rows == Keys \X Locs            \* an inventory row: no two rows share key and location
CartEntry == [row : Rows, qty : Nat \ {0}]
Live == {"waiting", "partial", "confirmed"}
Statuses == Live \cup {"none", "cancelled"}

ASSUME ConstantsOK ==
  /\ Shelves \cap Staging = {} /\ NoLoc \notin Locs
  /\ NoOrder \notin Orders /\ Unsold \notin Customers
  /\ Keys # {} /\ Staging # {} /\ IsFiniteSet(Locs)
  /\ InitialStock \in [Rows -> Nat]
  /\ \A c \in Carts : /\ c \in Seq(CartEntry) /\ c # << >>
                      /\ \A i, j \in DOMAIN c : c[i].row = c[j].row => i = j
  /\ ReceivedQty \subseteq Nat /\ CountedQty \subseteq Nat
  /\ CompanyMoves \subseteq Keys \X Keys

(* A row of export_waiting_items.  waiting_inventory_id is the stock row     *)
(* <<key, waiting_location>>; source is the location of the stock row        *)
(* source_inventory_id names, and differs from source_location only after a  *)
(* confirmed row was tied to another stock row.                              *)
Item == [order : Orders, key : Keys, source : Locs, source_location : Locs,
         waiting_location : Staging, qty : Nat \ {0},
         customer : Customers \cup {Unsold}]

VARIABLES
  inv,        \* inventory.qty, as the running transaction has left it
  items,      \* export_waiting_items in id order, likewise
  status,     \* export_waiting_orders.status, likewise
  tx,         \* the running transaction
  committed   \* the three tables at the last commit

vars == <<inv, items, status, tx, committed>>

(* A definition named X_y is not part of the specification: it is X with the *)
(* fault y, and shows that a property would notice that fault.               *)

Phases == {"idle", "register", "unstage", "restage", "sold", "unsold", "add",
           "cancel", "confirm", "return", "repair", "merge"}

NoTx == [pc |-> "idle", order |-> NoOrder, into |-> NoOrder, at |-> 1,
         cart |-> << >>, want |-> [r \in Rows |-> 0], hint |-> [r \in Rows |-> r[2]],
         loc |-> NoLoc, selected |-> {}, customer |-> Unsold, rows |-> << >>]

Database == [inv |-> inv, items |-> items, status |-> status]

Init ==
  /\ inv = InitialStock /\ items = << >> /\ status = [o \in Orders |-> "none"]
  /\ tx = NoTx
  /\ committed = [inv |-> InitialStock, items |-> << >>, status |-> [o \in Orders |-> "none"]]

-----------------------------------------------------------------------------
(* Sums over the table.                                                      *)

Lesser(a, b) == IF a <= b THEN a ELSE b

SumQty(table, S) == SumFunction([i \in S |-> table[i].qty])

RowOf(it) == <<it.key, it.source>>
StagedAt(it) == <<it.key, it.waiting_location>>

(* _items(order_id, confirmed=...), as positions in the table.               *)
RowsOf(table, o, sold) == {i \in DOMAIN table : /\ table[i].order = o
                                                /\ (table[i].customer # Unsold) = sold}

(* What unconfirmed rows of live orders hold of one staging row.             *)
Reserved(table, st, r) ==
  SumQty(table, {i \in DOMAIN table : /\ StagedAt(table[i]) = r
                                      /\ table[i].customer = Unsold
                                      /\ st[table[i].order] \in Live})

(* _current_item_signature: what the rows of one order ask of each stock row. *)
Signature(table, o, sold) ==
  [r \in Rows |-> SumQty(table, {i \in RowsOf(table, o, sold) : RowOf(table[i]) = r})]

(* _waiting_inventory_matches_items *)
InventoryMatchesItems(o) ==
  \A r \in Rows :
    SumQty(items, {i \in RowsOf(items, o, FALSE) : StagedAt(items[i]) = r}) <= inv[r]

-----------------------------------------------------------------------------
(* Finding, taking and giving back stock.                                    *)

MoveQty(stock, from, to, q) == [[stock EXCEPT ![from] = @ - q] EXCEPT ![to] = @ + q]

(* _resolve_source_row: the location of the stock row to take q of row r     *)
(* from, when the cart or the reservation says it was at `hint`.  The row    *)
(* itself is used when it is staged stock asked for as such, or shelf stock  *)
(* that suffices; otherwise the hinted shelf, whatever it holds, unless it   *)
(* is empty and exactly one other shelf suffices.                            *)
Resolve(r, hint, q) ==
  LET k == r[1]
      enough == {l \in Shelves : inv[<<k, l>>] > 0 /\ inv[<<k, l>>] >= q}
  IN  IF \/ r[2] \in Staging /\ hint \in Staging
         \/ r[2] \in Shelves /\ inv[r] >= q
      THEN r[2]
      ELSE IF hint \in Staging THEN NoLoc
      ELSE IF inv[<<k, hint>>] > 0 THEN hint
      ELSE IF \E l \in enough : enough = {l} THEN CHOOSE l \in enough : TRUE
      ELSE NoLoc

(* _take_source: a shelf row must hold q, a staging row must hold q that no  *)
(* reservation has.                                                          *)
CanTake_reserved(k, l, q) == l # NoLoc /\ q <= inv[<<k, l>>]
CanTake(k, l, q) ==
  /\ l # NoLoc
  /\ q <= inv[<<k, l>>] - (IF l \in Staging THEN Reserved(items, status, <<k, l>>) ELSE 0)

(* _take_source and _place_source_in_staging: shelf stock moves to the       *)
(* staging location, stock that is staged already stays where it is.         *)
Staged(k, l, q, to) == IF l \in Staging THEN inv ELSE MoveQty(inv, <<k, l>>, <<k, to>>, q)
StagedLoc(l, to) == IF l \in Staging THEN l ELSE to

(* _restore_waiting_item: back to the source location, unless the stock has  *)
(* left the staging row and the source row holds that much already.          *)
InStaging(it, q) == inv[StagedAt(it)] >= q
Fallback(it, q) == Resolve(RowOf(it), it.source_location, q)
CanRestore(it, q) ==
  InStaging(it, q) \/ (Fallback(it, q) # NoLoc /\ inv[<<it.key, Fallback(it, q)>>] >= q)
Restored_again(it, q) ==
  IF InStaging(it, q) THEN MoveQty(inv, StagedAt(it), <<it.key, it.source_location>>, q)
  ELSE [inv EXCEPT ![<<it.key, it.source_location>>] = @ + q]
Restored(it, q) ==
  IF InStaging(it, q) THEN MoveQty(inv, StagedAt(it), <<it.key, it.source_location>>, q) ELSE inv
RestoredLoc(it, q) == IF InStaging(it, q) THEN it.source_location ELSE Fallback(it, q)

-----------------------------------------------------------------------------
(* Transactions.                                                             *)

Idle == tx.pc = "idle"

Commit(st) ==
  /\ status' = st /\ tx' = NoTx
  /\ committed' = [inv |-> inv, items |-> items, status |-> st]
  /\ UNCHANGED <<inv, items>>

(* An exception leaves the `with connect()` block without a commit.          *)
Rollback ==
  /\ inv' = committed.inv /\ items' = committed.items /\ status' = committed.status
  /\ tx' = NoTx /\ UNCHANGED committed

(* The row the loop is at, and whether the loop is over this kind of row.    *)
Here == items[tx.at]
InLoop == tx.at \in DOMAIN items
Visits(it) ==
  CASE tx.pc \in {"unstage", "unsold", "cancel", "repair"} -> it.order = tx.order /\ it.customer = Unsold
    [] tx.pc \in {"sold", "return"} -> it.order = tx.order /\ it.customer # Unsold
    [] tx.pc = "confirm" -> tx.at \in tx.selected
    [] tx.pc = "merge" -> it.order \in {tx.order, tx.into}
    [] OTHER -> FALSE

At(pc) == tx.pc = pc /\ InLoop /\ Visits(Here)
After(pc) == tx.pc = pc /\ ~InLoop
Advanced == [tx EXCEPT !.at = @ + 1]

(* The loop selects by order and by confirmed: other rows are passed over.   *)
PassOver ==
  /\ tx.pc \notin {"idle", "register", "restage", "add"} /\ InLoop /\ ~Visits(Here)
  /\ tx' = Advanced
  /\ UNCHANGED <<inv, items, status, committed>>

-----------------------------------------------------------------------------
(* save_export_waiting_order                                                 *)

Wanted(cart) == [r \in Rows |-> LET S == {i \in DOMAIN cart : cart[i].row = r}
                                IN  IF S = {} THEN 0 ELSE cart[CHOOSE i \in S : TRUE].qty]

(* Where the cart says a row is: the edit screen fills it from the order's   *)
(* own rows, a new entry from the stock table; _resolve_source_row is then   *)
(* asked once for every entry before anything moves.                         *)
CartHint(o, r) ==
  LET S == {i \in DOMAIN items : items[i].order = o /\ RowOf(items[i]) = r}
  IN  IF S = {} THEN r[2] ELSE items[Min(S)].source_location

Hints(o, cart) ==
  LET found(r) == Resolve(r, CartHint(o, r), Wanted(cart)[r])
  IN  [r \in Rows |-> IF found(r) # NoLoc THEN found(r) ELSE CartHint(o, r)]

Saving(pc, o, cart, loc) ==
  [NoTx EXCEPT !.pc = pc, !.order = o, !.cart = cart, !.want = Wanted(cart),
               !.hint = Hints(o, cart), !.loc = loc]

BeginRegister(o, cart, loc) ==
  /\ Idle /\ status[o] = "none" /\ Len(items) + Len(cart) <= MaxItems
  /\ status' = [status EXCEPT ![o] = "waiting"]
  /\ tx' = Saving("register", o, cart, loc)
  /\ UNCHANGED <<inv, items, committed>>

(* An edit may leave nothing: the last saved row is deleted with an empty    *)
(* cart (_empty_target_save of export_app/services/wms_link_edit_patch.py).  *)
Submitted == Carts \cup {<< >>}

(* Nothing is done when the cart is what the order has and its stock is      *)
(* there; otherwise a waiting order is rebuilt, a confirmed one adjusted.    *)
ItemsChanged(o, cart) ==
  \/ Signature(items, o, status[o] # "waiting") # Wanted(cart)
  \/ ~InventoryMatchesItems(o)

BeginEdit(o, cart, loc) ==
  /\ Idle /\ status[o] \in Live /\ (cart = << >> \/ ItemsChanged(o, cart))
  /\ Len(items) + Len(cart) <= MaxItems
  /\ IF status[o] = "waiting"
     THEN tx' = Saving("unstage", o, cart, loc)
     ELSE /\ RowsOf(items, o, TRUE) # {}     \* the guard of _apply_confirmed_...
          /\ tx' = Saving("sold", o, cart, loc)
  /\ UNCHANGED <<inv, items, status, committed>>

(* _patched_apply_export_waiting_item_changes, first loop: rows of the       *)
(* quantity asked for whose stock is in place stay; every other row is given *)
(* back and deleted, or just deleted if its stock is nowhere and the cart    *)
(* has dropped it.                                                           *)
StaysStaged(it) == tx.want[RowOf(it)] = it.qty /\ InStaging(it, it.qty)

KeepStaged ==
  /\ At("unstage") /\ StaysStaged(Here)
  /\ tx' = Advanced
  /\ UNCHANGED <<inv, items, status, committed>>

Unstage ==
  /\ At("unstage") /\ ~StaysStaged(Here) /\ CanRestore(Here, Here.qty)
  /\ inv' = Restored(Here, Here.qty)
  /\ items' = RemoveAt(items, tx.at)
  /\ tx' = [tx EXCEPT !.hint[RowOf(Here)] = RestoredLoc(Here, Here.qty)]
  /\ UNCHANGED <<status, committed>>

DropOrphan ==
  /\ At("unstage") /\ ~StaysStaged(Here) /\ ~CanRestore(Here, Here.qty)
  /\ tx.want[RowOf(Here)] = 0
  /\ items' = RemoveAt(items, tx.at)
  /\ UNCHANGED <<inv, status, tx, committed>>

UnstageFails ==
  /\ At("unstage") /\ ~StaysStaged(Here) /\ ~CanRestore(Here, Here.qty)
  /\ tx.want[RowOf(Here)] > 0
  /\ Rollback

(* _apply_confirmed_export_item_changes, first loop: a confirmed row keeps   *)
(* what the cart still asks of its stock row, or of the first entry of the   *)
(* same key; then its stock is taken from that entry's row.  What is no      *)
(* longer asked for goes back to the shelf it came from.                     *)
MatchedRow(it) ==
  LET S == {i \in DOMAIN tx.cart : /\ tx.cart[i].row[1] = it.key
                                   /\ tx.want[tx.cart[i].row] > 0}
  IN  IF tx.want[RowOf(it)] > 0 \/ S = {} THEN RowOf(it) ELSE tx.cart[Min(S)].row

KeptQty_all_or_none(it, r) == IF it.qty <= tx.want[r] THEN it.qty ELSE 0
KeptQty(it, r) == Lesser(it.qty, tx.want[r])

(* The row at the cursor is left with q units of row r, or deleted; a part   *)
(* given back tells a later _take_source where the stock row now is.         *)
LeaveQty_of_own_row(q, r, hint) ==
  /\ items' = IF q > 0 THEN [items EXCEPT ![tx.at].qty = q, ![tx.at].source = r[2]]
                       ELSE RemoveAt(items, tx.at)
  /\ tx' = [tx EXCEPT !.want[RowOf(Here)] = @ - Lesser(q, @), !.at = IF q > 0 THEN @ + 1 ELSE @,
                      !.hint[RowOf(Here)] = IF q < Here.qty THEN hint ELSE @]
LeaveQty(q, r, hint) ==
  /\ items' = IF q > 0 THEN [items EXCEPT ![tx.at].qty = q, ![tx.at].source = r[2]]
                       ELSE RemoveAt(items, tx.at)
  /\ tx' = [tx EXCEPT !.want[r] = @ - q, !.at = IF q > 0 THEN @ + 1 ELSE @,
                      !.hint[RowOf(Here)] = IF q < Here.qty THEN hint ELSE @]

TakesFromOther(it, r) == r # RowOf(it) /\ KeptQty(it, r) > 0
Relinkable(it, r) == TakesFromOther(it, r) => inv[r] >= KeptQty(it, r)
Relinked(it, r) == IF TakesFromOther(it, r) THEN [inv EXCEPT ![r] = @ - KeptQty(it, r)] ELSE inv

ReduceSold ==
  /\ At("sold")
  /\ LET it == Here
         r == MatchedRow(it)
         kept == KeptQty(it, r)
     IN  /\ Relinkable(it, r)
         /\ inv' = [Relinked(it, r) EXCEPT ![<<it.key, it.source_location>>] = @ + (it.qty - kept)]
         /\ LeaveQty(kept, r, it.source_location)
  /\ UNCHANGED <<status, committed>>

RelinkFails == At("sold") /\ ~Relinkable(Here, MatchedRow(Here)) /\ Rollback

(* Second loop: an unconfirmed row keeps what the cart still asks of its     *)
(* stock row and gives the rest back.                                        *)
ReduceUnsold ==
  /\ At("unsold")
  /\ LET it == Here
         kept == KeptQty(it, RowOf(it))
     IN  /\ kept < it.qty => CanRestore(it, it.qty - kept)
         /\ inv' = IF kept < it.qty THEN Restored(it, it.qty - kept) ELSE inv
         /\ LeaveQty(kept, RowOf(it), RestoredLoc(it, it.qty - kept))
  /\ UNCHANGED <<status, committed>>

ReduceFails ==
  /\ At("unsold")
  /\ LET removed == Here.qty - KeptQty(Here, RowOf(Here))
     IN  removed > 0 /\ ~CanRestore(Here, removed)
  /\ Rollback

NextLoop ==
  /\ \/ After("unstage") /\ tx' = [tx EXCEPT !.pc = "restage", !.at = 1]
     \/ After("sold") /\ tx' = [tx EXCEPT !.pc = "unsold", !.at = 1]
     \/ After("unsold") /\ tx' = [tx EXCEPT !.pc = "add", !.at = 1]
  /\ UNCHANGED <<inv, items, status, committed>>

(* The last loop of all three is over the cart.  Rebuilding takes an entry   *)
(* unless the order had that quantity of the row before; adjusting takes     *)
(* what is left to ask for.  An entry goes where the order's rows of that    *)
(* stock row were staged, a new one to the location of the request.          *)
Taking == tx.pc \in {"register", "restage", "add"}
Entry == tx.cart[tx.at].row

BeforeRows(r) == {i \in RowsOf(committed.items, tx.order, FALSE) : RowOf(committed.items[i]) = r}

Pending(r) ==
  CASE tx.pc = "restage" -> SumQty(committed.items, BeforeRows(r)) # tx.want[r]
    [] tx.pc = "add" -> tx.want[r] > 0
    [] OTHER -> TRUE

Target(r) ==
  IF tx.pc = "register" \/ BeforeRows(r) = {} THEN tx.loc
  ELSE committed.items[IF tx.pc = "restage" THEN Min(BeforeRows(r)) ELSE Max(BeforeRows(r))].waiting_location

(* A new row; when a confirmed order is adjusted, the first unconfirmed row  *)
(* of the same stock row grows instead and is said to be where the new part  *)
(* is.                                                                       *)
Enlisted(k, l, q, to) ==
  LET S == {i \in RowsOf(items, tx.order, FALSE) : RowOf(items[i]) = <<k, l>>}
  IN  IF tx.pc = "add" /\ S # {}
      THEN [items EXCEPT ![Min(S)].qty = @ + q, ![Min(S)].waiting_location = to]
      ELSE Append(items, [order |-> tx.order, key |-> k, source |-> l, source_location |-> l,
                          waiting_location |-> to, qty |-> q, customer |-> Unsold])

TakeEntry ==
  /\ Taking /\ tx.at \in DOMAIN tx.cart /\ Pending(Entry)
  /\ LET k == Entry[1]
         q == tx.want[Entry]
         l == Resolve(Entry, tx.hint[Entry], q)
     IN  /\ CanTake(k, l, q)
         /\ inv' = Staged(k, l, q, Target(Entry))
         /\ items' = Enlisted(k, l, q, StagedLoc(l, Target(Entry)))
  /\ tx' = Advanced
  /\ UNCHANGED <<status, committed>>

TakeFails ==
  /\ Taking /\ tx.at \in DOMAIN tx.cart /\ Pending(Entry)
  /\ ~CanTake(Entry[1], Resolve(Entry, tx.hint[Entry], tx.want[Entry]), tx.want[Entry])
  /\ Rollback

SkipEntry ==
  /\ Taking /\ tx.at \in DOMAIN tx.cart /\ ~Pending(Entry)
  /\ tx' = Advanced
  /\ UNCHANGED <<inv, items, status, committed>>

AdjustedStatus(o) ==
  IF RowsOf(items, o, TRUE) \cup RowsOf(items, o, FALSE) = {} THEN "waiting"
  ELSE IF RowsOf(items, o, FALSE) # {} THEN "partial" ELSE "confirmed"

CommitSave ==
  /\ Taking /\ tx.at \notin DOMAIN tx.cart
  /\ Commit(IF tx.pc = "add" THEN [status EXCEPT ![tx.order] = AdjustedStatus(tx.order)] ELSE status)

-----------------------------------------------------------------------------
(* cancel_export_waiting_order                                               *)

BeginCancel(o) ==
  /\ Idle /\ status[o] \in {"waiting", "partial"}
  /\ tx' = [NoTx EXCEPT !.pc = "cancel", !.order = o]
  /\ UNCHANGED <<inv, items, status, committed>>

CancelRow ==
  /\ At("cancel") /\ CanRestore(Here, Here.qty)
  /\ inv' = Restored(Here, Here.qty)
  /\ tx' = Advanced
  /\ UNCHANGED <<items, status, committed>>

CancelFails == At("cancel") /\ ~CanRestore(Here, Here.qty) /\ Rollback

CommitCancel_at_once == tx.pc = "cancel" /\ Commit([status EXCEPT ![tx.order] = "cancelled"])
CommitCancel == After("cancel") /\ Commit([status EXCEPT ![tx.order] = "cancelled"])

-----------------------------------------------------------------------------
(* confirm_export_waiting_items                                              *)

BeginConfirm(o, S, c) ==
  /\ Idle /\ status[o] \in {"waiting", "partial"}
  /\ S # {} /\ S \subseteq RowsOf(items, o, FALSE)
  /\ tx' = [NoTx EXCEPT !.pc = "confirm", !.order = o, !.selected = S, !.customer = c]
  /\ UNCHANGED <<inv, items, status, committed>>

ConfirmRow ==
  /\ At("confirm") /\ InStaging(Here, Here.qty)
  /\ inv' = [inv EXCEPT ![StagedAt(Here)] = @ - Here.qty]
  /\ items' = [items EXCEPT ![tx.at].customer = tx.customer]
  /\ tx' = Advanced
  /\ UNCHANGED <<status, committed>>

ConfirmFails == At("confirm") /\ ~InStaging(Here, Here.qty) /\ Rollback

CommitConfirm ==
  /\ After("confirm")
  /\ Commit([status EXCEPT ![tx.order] = IF RowsOf(items, tx.order, FALSE) = {} THEN "confirmed"
                                                                             ELSE "partial"])

-----------------------------------------------------------------------------
(* return_confirmed_export_to_waiting                                        *)

BeginReturn(o) ==
  /\ Idle /\ status[o] \in {"partial", "confirmed"}
  /\ tx' = [NoTx EXCEPT !.pc = "return", !.order = o]
  /\ UNCHANGED <<inv, items, status, committed>>

ReturnRow ==
  /\ At("return")
  /\ inv' = [inv EXCEPT ![StagedAt(Here)] = @ + Here.qty]
  /\ items' = [items EXCEPT ![tx.at].customer = Unsold]
  /\ tx' = Advanced
  /\ UNCHANGED <<status, committed>>

CommitReturn_keeps_status == After("return") /\ Commit(status)
CommitReturn ==
  /\ After("return")
  /\ Commit(IF RowsOf(committed.items, tx.order, TRUE) = {} THEN status
            ELSE [status EXCEPT ![tx.order] = "waiting"])

-----------------------------------------------------------------------------
(* update_confirmed_export_waiting_items: the customer of confirmed rows.    *)

UpdateSale(o, S, c) ==
  /\ Idle /\ status[o] \in {"partial", "confirmed"}
  /\ S # {} /\ S \subseteq RowsOf(items, o, TRUE)
  /\ items' = [i \in DOMAIN items |-> IF i \in S THEN [items[i] EXCEPT !.customer = c] ELSE items[i]]
  /\ committed' = [committed EXCEPT !.items = items']
  /\ UNCHANGED <<inv, status, tx>>

-----------------------------------------------------------------------------
(* merge_export_waiting_orders: the rows of both orders, grouped by stock    *)
(* row, location and reservation, become rows of the target.                 *)

BeginMerge(s, t) ==
  /\ Idle /\ s # t /\ status[s] = "waiting" /\ status[t] = "waiting"
  /\ \A o \in {s, t} : RowsOf(items, o, TRUE) = {}
  /\ RowsOf(items, s, FALSE) # {}
  /\ tx' = [NoTx EXCEPT !.pc = "merge", !.order = s, !.into = t]
  /\ UNCHANGED <<inv, items, status, committed>>

SameGroup(a, b) == RowOf(a) = RowOf(b) /\ StagedAt(a) = StagedAt(b)
                   /\ a.source_location = b.source_location

Grouped(rows, it) ==
  LET S == {i \in DOMAIN rows : SameGroup(rows[i], it)}
  IN  IF S = {} THEN Append(rows, it) ELSE [rows EXCEPT ![Min(S)].qty = @ + it.qty]

MergeRow ==
  /\ At("merge")
  /\ items' = RemoveAt(items, tx.at)
  /\ tx' = [tx EXCEPT !.rows = Grouped(@, [Here EXCEPT !.order = tx.into])]
  /\ UNCHANGED <<inv, status, committed>>

(* The source order's row is deleted.                                        *)
CommitMerge ==
  /\ After("merge")
  /\ items' = items \o tx.rows
  /\ status' = [status EXCEPT ![tx.order] = "none"]
  /\ tx' = NoTx
  /\ committed' = [inv |-> inv, items |-> items', status |-> status']
  /\ UNCHANGED inv

-----------------------------------------------------------------------------
(* repair_broken_waiting_reservations                                        *)

BeginRepair(o) ==
  /\ Idle /\ status[o] \in Live
  /\ tx' = [NoTx EXCEPT !.pc = "repair", !.order = o]
  /\ UNCHANGED <<inv, items, status, committed>>

(* _unreserved_staging_stock                                                 *)
Free(it, l) ==
  inv[<<it.key, l>>] - SumQty(items, {i \in DOMAIN items \ {tx.at} :
                                        /\ StagedAt(items[i]) = <<it.key, l>>
                                        /\ items[i].customer = Unsold
                                        /\ status[items[i].order] \in Live})
Spare(it) == {l \in Staging \ {it.waiting_location} : Free(it, l) > 0}
Shortfall(it) == it.qty - inv[StagedAt(it)]
RepairLoc(it) == Resolve(RowOf(it), it.source_location, it.qty)
CanGather_unchecked(it) == TRUE
CanGather(it) == Shortfall(it) <= MapThenSumSet(LAMBDA l : Free(it, l), Spare(it))

(* A reservation whose stock is in place, and one whose stock is nowhere     *)
(* (reported, not an error), are passed over.                                *)
LeaveReservation ==
  /\ At("repair")
  /\ \/ InStaging(Here, Here.qty)
     \/ ~CanTake(Here.key, RepairLoc(Here), Here.qty) /\ ~CanGather(Here)
  /\ tx' = Advanced
  /\ UNCHANGED <<inv, items, status, committed>>

Restage ==
  /\ At("repair") /\ ~InStaging(Here, Here.qty)
  /\ LET it == Here
         l == RepairLoc(it)
     IN  /\ CanTake(it.key, l, it.qty)
         /\ inv' = Staged(it.key, l, it.qty, it.waiting_location)
         /\ items' = [items EXCEPT ![tx.at].source = l, ![tx.at].source_location = l,
                                   ![tx.at].waiting_location = StagedLoc(l, @)]
  /\ tx' = Advanced
  /\ UNCHANGED <<status, committed>>

(* One turn of the loop over the other staging rows.  A turn never finds     *)
(* more spare than the row holds: the reservations subtracted are positive.  *)
Gather ==
  /\ At("repair") /\ ~InStaging(Here, Here.qty)
  /\ ~CanTake(Here.key, RepairLoc(Here), Here.qty) /\ CanGather(Here)
  /\ \E l \in Spare(Here) : \E take \in 1 .. inv[<<Here.key, l>>] :
       /\ take = Lesser(Free(Here, l), Shortfall(Here))
       /\ inv' = MoveQty(inv, <<Here.key, l>>, StagedAt(Here), take)
  /\ UNCHANGED <<items, status, tx, committed>>

CommitRepair == After("repair") /\ Commit(status)

-----------------------------------------------------------------------------
(* services/inventory.py, each call run alone.                               *)

Store(stock) ==
  /\ inv' = stock /\ committed' = [committed EXCEPT !.inv = stock]
  /\ UNCHANGED <<items, status, tx>>

InBounds(stock) == MapThenSumSet(LAMBDA r : stock[r], Rows) <= MaxStock

(* add_inventory *)
Receive(r, q) == Idle /\ Store([inv EXCEPT ![r] = @ + q]) /\ InBounds(inv')

(* adjust_inventory: a count overrides the row, reserved or not.             *)
Count(r, q) == Idle /\ inv[r] # q /\ Store([inv EXCEPT ![r] = q]) /\ InBounds(inv')

(* move_inventory: staged stock only as far as no reservation holds it.      *)
Move(r, to, q) ==
  /\ Idle /\ r # to /\ (r[1] = to[1] \/ <<r[1], to[1]>> \in CompanyMoves)
  /\ q > 0 /\ q <= inv[r]
  /\ r[2] \in Staging => q <= inv[r] - Reserved(items, status, r)
  /\ Store(MoveQty(inv, r, to, q))

-----------------------------------------------------------------------------
(* The process may end at any moment; SQLite undoes what was not committed.  *)
Crash == ~Idle /\ Rollback

UserStep ==
  \/ \E o \in Orders, cart \in Carts, loc \in Staging : BeginRegister(o, cart, loc)
  \/ \E o \in Orders, cart \in Submitted, loc \in Staging : BeginEdit(o, cart, loc)
  \/ \E o \in Orders : BeginCancel(o) \/ BeginReturn(o) \/ BeginRepair(o)
  \/ \E o \in Orders, S \in SUBSET DOMAIN items, c \in Customers :
       BeginConfirm(o, S, c) \/ UpdateSale(o, S, c)
  \/ \E s, t \in Orders : BeginMerge(s, t)
  \/ \E r \in Rows, q \in ReceivedQty : Receive(r, q)
  \/ \E r \in Rows, q \in CountedQty : Count(r, q)
  \/ \E r, to \in Rows : \E q \in 1 .. inv[r] : Move(r, to, q)

(* The transaction that is running goes on.                                  *)
TxStep ==
  \/ PassOver \/ NextLoop
  \/ KeepStaged \/ Unstage \/ DropOrphan \/ UnstageFails
  \/ ReduceSold \/ RelinkFails \/ ReduceUnsold \/ ReduceFails
  \/ TakeEntry \/ TakeFails \/ SkipEntry \/ CommitSave
  \/ CancelRow \/ CancelFails \/ CommitCancel
  \/ ConfirmRow \/ ConfirmFails \/ CommitConfirm
  \/ ReturnRow \/ CommitReturn
  \/ MergeRow \/ CommitMerge
  \/ LeaveReservation \/ Restage \/ Gather \/ CommitRepair

Next == UserStep \/ TxStep \/ Crash

(* A service call that has begun runs on; nobody has to make one.            *)
Spec == Init /\ [][Next]_vars /\ WF_vars(TxStep)

-----------------------------------------------------------------------------
(* Properties.  They are about committed, what a reader of the database sees.*)

Tx == [pc : Phases, order : Orders \cup {NoOrder}, into : Orders \cup {NoOrder},
       at : Nat \ {0}, cart : Submitted, want : [Rows -> Nat], hint : [Rows -> Locs],
       loc : Staging \cup {NoLoc}, selected : SUBSET Nat,
       customer : Customers \cup {Unsold}, rows : Seq(Item)]

Databases == [inv : [Rows -> Nat], items : Seq(Item), status : [Orders -> Statuses]]

Typed ==
  /\ inv \in [Rows -> Nat] /\ items \in Seq(Item) /\ status \in [Orders -> Statuses]
  /\ tx \in Tx
  /\ committed \in Databases

(* A transaction has the arguments its call was given. *)
Arguments ==
  /\ ~Idle => tx.order \in Orders
  /\ tx.pc = "merge" => tx.into \in Orders
  /\ tx.pc \in {"register", "unstage", "restage", "sold", "unsold", "add"} => tx.loc \in Staging
  /\ tx.pc \in {"register", "unstage", "restage"} => tx.want = Wanted(tx.cart)

(* Every row of every table has its columns' types at every step; above all, *)
(* no sequence of service calls leaves a stock row below zero.               *)
TypeOK == Typed /\ Arguments

StatusOf(table, st, o) ==
  LET unsold == RowsOf(table, o, FALSE)
      sold == RowsOf(table, o, TRUE)
  IN  CASE st[o] = "none" -> unsold = {} /\ sold = {}
        [] st[o] = "waiting" -> sold = {}
        [] st[o] = "partial" -> unsold # {}
        [] st[o] = "confirmed" -> unsold = {} /\ sold # {}
        [] OTHER -> TRUE

(* The status written at the end of five different calls agrees with the     *)
(* rows they left: a waiting order has no sold row, a confirmed one has rows *)
(* and every row sold, a partial one has a row still to sell, and a merged   *)
(* order leaves no row behind.                                               *)
StatusAgrees == \A o \in Orders : StatusOf(committed.items, committed.status, o)

QtyBy(table, o, sold, k) == SumQty(table, {i \in RowsOf(table, o, sold) : table[i].key = k})
CartQty(cart, k) == SumFunction([i \in DOMAIN cart |-> IF cart[i].row[1] = k THEN cart[i].qty ELSE 0])

AchievesCart ==
  \A k \in Keys : QtyBy(items, tx.order, TRUE, k) + QtyBy(items, tx.order, FALSE, k) = CartQty(tx.cart, k)

(* A new reservation, and the edit of a confirmed order, commit exactly the  *)
(* cart's quantity of every key, whatever rows the stock was found in and    *)
(* however it was split into sold and unsold rows before.                    *)
SavesAchieveCart == [][CommitSave /\ tx.pc # "restage" => AchievesCart]_vars

SoldFrom(db, o, r) == SumQty(db.items, {i \in RowsOf(db.items, o, TRUE) : RowOf(db.items[i]) = r})

(* Sold units of a stock row come back in two ways only: the export is       *)
(* returned as a whole, or an edit asks for less of that row than was sold,  *)
(* and then no more than the difference comes back.                          *)
SoldKept ==
  [][\A o \in Orders, r \in Rows :
       SoldFrom(committed', o, r) < SoldFrom(committed, o, r) =>
         /\ tx.order = o
         /\ \/ tx.pc = "return"
            \/ tx.pc = "add" /\ SoldFrom(committed', o, r) >= Wanted(tx.cart)[r]]_vars

(* What an order's unconfirmed rows have in a place, and what they took from *)
(* there.                                                                    *)
TakenFrom(it) == <<it.key, it.source_location>>
StagedFor(o, r) ==
  SumQty(committed.items, {i \in RowsOf(committed.items, o, FALSE) : StagedAt(committed.items[i]) = r})
TakenFor(o, r) ==
  SumQty(committed.items, {i \in RowsOf(committed.items, o, FALSE) : TakenFrom(committed.items[i]) = r})

(* Cancelling puts the stock of every unconfirmed row back where it was      *)
(* taken from and nothing else, provided the order's stock was in place.     *)
CancelReturnsStock ==
  [][CommitCancel /\ (\A r \in Rows : StagedFor(tx.order, r) <= committed.inv[r]) =>
       \A r \in Rows : inv[r] = committed.inv[r] - StagedFor(tx.order, r) + TakenFor(tx.order, r)]_vars

Backed(db) == \A r \in Rows : Reserved(db.items, db.status, r) <= db.inv[r]

(* Of all the calls, only a stock count and the edit of a confirmed order    *)
(* can leave reservations without their stock: no registration, waiting      *)
(* edit, cancellation, confirmation, return, merge, repair or move takes     *)
(* what another order's rows hold.                                           *)
BackingKept ==
  [][Backed(committed) /\ ~(CommitSave /\ tx.pc = "add")
       /\ ~(\E r \in Rows, q \in CountedQty : Count(r, q)) => Backed(committed')]_vars

OnHand(db, k) == SumFunction([l \in Locs |-> db.inv[<<k, l>>]])

(* The warehouse keeps the quantities' promise.                              *)
Ledger == INSTANCE StockLedger WITH
  onHand <- [k \in Keys |-> OnHand(committed, k)],
  sold <- [o \in Orders |-> [k \in Keys |-> QtyBy(committed.items, o, TRUE, k)]]
LedgerKept == Ledger!Spec

(* A service call ends, by a commit or an exception: no loop over rows it    *)
(* deletes, gathers or passes over runs for ever.                            *)
TransactionsEnd == ~Idle ~> Idle
=============================================================================
