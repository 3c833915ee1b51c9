---------------------------- MODULE ExportTables ----------------------------
(****************************************************************************)
(* The tables of export.db that follow an export case from its order to its  *)
(* delivery (cases, order items, shipment rows, CTN boxes), the reservations *)
(* of nohtus.db as the case's pages see them, and what one statement does to *)
(* them.  db.execute commits after every statement, and a call of            *)
(* services/export_waiting.py is one transaction (module ExportWaiting shows *)
(* it row by row), so a statement here is what a crash cannot divide.        *)
(****************************************************************************)
EXTENDS Integers, Sequences, SequencesExt

CONSTANTS
  Cases,        \* export cases of type `current`; a case's export number is its own
  OrderIds,     \* ids of order_items; one that no row refers to serves as a new one
  Keys,         \* stock keys: company, product, lot and expiry (_stock_signature)
  KeyOf,        \* the stock picked for an order item
  StagedKeys,   \* keys whose unreserved stock lies in a staging location (P, T1..T5)
  RowIds,       \* ids of shipment_items: 1 .. n, compacted between calls
  Boxes,        \* CTN numbers: 1 .. n
  Reservations, \* ids of export_waiting_orders
  NoCase, NoOrder, NoRow, NoReservation

Unboxed == 0
Managed == {"ordered", "packing", "packed"}   \* 주문 접수, 패킹 대기, 패킹 완료
Stages == Managed \cup {"shipped", "cancelled"} \* 국내배송, 취소

ASSUME TablesOK ==
  /\ Cases # {} /\ Keys # {} /\ StagedKeys \subseteq Keys
  /\ KeyOf \in [OrderIds -> Keys] /\ OrderIds \subseteq Nat
  /\ RowIds \subseteq Nat \ {0} /\ Boxes \subseteq Nat \ {0} /\ Reservations \subseteq Nat
  /\ NoCase \notin Cases /\ NoOrder \notin OrderIds /\ NoReservation \notin Reservations
  /\ IsFiniteSet(Keys) /\ IsFiniteSet(RowIds) /\ IsFiniteSet(Reservations)

(* An order item of no case is not entered yet, or was deleted. *)
Order == [case : Cases \cup {NoCase}, need : Nat]
NotEntered == [case |-> NoCase, need |-> 0]
(* order is NoOrder for an unlinked row (order_item_id NULL); the others hold *)
(* the stock picked for their order item.                                    *)
Row == {r \in [case : Cases, order : OrderIds \cup {NoOrder}, key : Keys, qty : Nat \ {0},
               box : Boxes \cup {Unboxed}] :
          r.order # NoOrder => r.key = KeyOf[r.order]}
ASSUME NoRowOK == NoRow \notin Row
(* The unconfirmed (wait) and confirmed (sold) rows of a reservation by key. *)
Reservation == [no : Cases \cup {NoCase},
                status : {"none", "waiting", "partial", "confirmed", "cancelled"},
                wait : [Keys -> Nat], sold : [Keys -> Nat]]
Nothing == [k \in Keys |-> 0]
NoSuch == [no |-> NoCase, status |-> "none", wait |-> Nothing, sold |-> Nothing]

Tables == [stage : [Cases -> Stages], orders : [OrderIds -> Order],
           rows : [RowIds -> Row \cup {NoRow}], boxes : [Cases -> SUBSET Boxes],
           held : [Reservations -> Reservation], shelf : [Keys -> Nat]]

-----------------------------------------------------------------------------
(* Reading.                                                                  *)

Lesser(a, b) == IF a <= b THEN a ELSE b
AtLeast0(n) == IF n > 0 THEN n ELSE 0

Used(d) == {i \in RowIds : d.rows[i] # NoRow}
QtyOf(d, S) == SumFunctionOnSet([i \in S |-> d.rows[i].qty], S)
Items(d, c) == {o \in OrderIds : d.orders[o].case = c}
RowsOf(d, c) == {i \in Used(d) : d.rows[i].case = c}
RowsFor(d, c, o) == {i \in RowsOf(d, c) : d.rows[i].order = o}
(* list_case_items: the rows joined to an order item of the same case.       *)
Linked(d, c) == {i \in RowsOf(d, c) : d.rows[i].order \in Items(d, c)}
Dangling(d, c) == {i \in RowsOf(d, c) : d.rows[i].order \notin Items(d, c) \cup {NoOrder}}
Received(d, c, o) == QtyOf(d, RowsFor(d, c, o))
MirrorQty(d, S, k) == QtyOf(d, {i \in S : d.rows[i].key = k})

(* stage_service.sync_case_stage, which export_app_bridge puts in the place  *)
(* of shipment_service.sync_case_stage and packing_service._sync_...         *)
Complete(d, c, o) == d.orders[o].need > 0 /\ Received(d, c, o) >= d.orders[o].need
Short(d, c, o) == Received(d, c, o) < d.orders[o].need
Remaining(d, c) == QtyOf(d, {i \in Linked(d, c) : d.rows[i].box = Unboxed})

ComputedStage(d, c) ==
  IF ~\E o \in Items(d, c) : Complete(d, c, o) THEN "ordered"
  ELSE IF (\E o \in Items(d, c) : Short(d, c, o)) \/ Remaining(d, c) > 0 THEN "packing"
  ELSE "packed"

(* packing_edit_service.next_available_box_no: the first gap.                *)
NextBox(d, c) == Min({b \in 1 .. Max(Boxes) + 1 : b \notin d.boxes[c]})

Live == {"waiting", "partial", "confirmed"}
With(d, c, statuses) == {w \in Reservations : d.held[w].no = c /\ d.held[w].status \in statuses}
The(S) == CHOOSE w \in S : TRUE

-----------------------------------------------------------------------------
(* Reservations: the calls of services/export_waiting.py.                    *)

Total(q) == SumFunctionOnSet(q, Keys)

(* _set_order_status, and the status written after a confirmation or edit.   *)
StatusFor(wait, sold, empty) ==
  IF Total(wait) > 0 /\ Total(sold) > 0 THEN "partial"
  ELSE IF Total(wait) > 0 THEN "waiting"
  ELSE IF Total(sold) > 0 THEN "confirmed" ELSE empty

(* save_export_waiting_order, or _empty_target_save when the cart is empty:  *)
(* a waiting order is rebuilt to hold the cart; in a partial or confirmed    *)
(* one the cart is the total, sold units first.                              *)
After(r, cart) ==
  LET sold == [k \in Keys |-> Lesser(r.sold[k], cart[k])]
  IN  CASE r.status \in {"none", "waiting"} -> [r EXCEPT !.wait = cart, !.status = "waiting"]
        [] r.sold = cart /\ cart # Nothing -> r
        [] OTHER -> LET wait == [k \in Keys |-> cart[k] - sold[k]]
                        status == IF Total(wait) > 0 THEN "partial"
                                  ELSE IF Total(sold) > 0 THEN "confirmed" ELSE "waiting"
                    IN  [r EXCEPT !.wait = wait, !.sold = sold, !.status = status]

Holds(r, k) == r.wait[k] + r.sold[k]
Exchange(shelf, before, after) == [k \in Keys |-> shelf[k] + Holds(before, k) - Holds(after, k)]

CanReserve(d, w, cart) ==
  LET r == d.held[w]
      to == After(r, cart)
  IN  /\ r.status \in {"partial", "confirmed"} => Total(r.sold) > 0
      /\ \A k \in Keys : d.shelf[k] + Holds(r, k) >= Holds(to, k)
Reserve(d, w, c, cart) ==
  LET to == [After(d.held[w], cart) EXCEPT !.no = c]
  IN  [d EXCEPT !.held[w] = to, !.shelf = Exchange(@, d.held[w], to)]

(* cancel_export_waiting_order: sold units stay sold.                        *)
CancelReservation(d, w) ==
  LET r == d.held[w]
  IN  [d EXCEPT !.held[w] = IF Total(r.sold) = 0 THEN NoSuch
                            ELSE [r EXCEPT !.wait = Nothing, !.status = "cancelled"],
                !.shelf = [k \in Keys |-> @[k] + r.wait[k]]]

(* confirm_export_waiting_items, return_confirmed_export_to_waiting          *)
Confirm(d, w, K) ==
  LET r == d.held[w]
      wait == [k \in Keys |-> IF k \in K THEN 0 ELSE r.wait[k]]
      sold == [k \in Keys |-> IF k \in K THEN r.sold[k] + r.wait[k] ELSE r.sold[k]]
  IN  [d EXCEPT !.held[w] = [@ EXCEPT !.wait = wait, !.sold = sold,
                               !.status = IF Total(wait) = 0 THEN "confirmed" ELSE "partial"]]
ReturnSale(d, w) ==
  [d EXCEPT !.held[w] = [@ EXCEPT !.wait = [k \in Keys |-> Holds(d.held[w], k)],
                                  !.sold = Nothing, !.status = "waiting"]]

(* case_merge_service._reconcile_wms_waiting_orders: the source's waiting    *)
(* order joins the target's, or takes the target's number; nothing happens   *)
(* to a partly or wholly confirmed one.                                      *)
MergeReservations(d, s, t) ==
  LET from == With(d, s, {"waiting"})
      into == With(d, t, {"waiting"})
      a == The(from)
      b == The(into)
  IN  IF Cardinality(from) # 1 \/ Cardinality(into) > 1 THEN d
      ELSE IF into = {} THEN [d EXCEPT !.held[a].no = t]
      ELSE IF Total(d.held[a].wait) = 0 THEN d
      ELSE [d EXCEPT !.held[a] = NoSuch,
                     !.held[b].wait = [k \in Keys |-> @[k] + d.held[a].wait[k]]]

(* stale_inventory_cleanup_service: a reservation loses `excess`.  Units go  *)
(* back to the shelf they came from; units reserved where they lay, in a     *)
(* staging location, leave the stock row and are added to none.              *)
Released_nowhere(d, w, excess) ==
  LET wait == [k \in Keys |-> d.held[w].wait[k] - excess[k]]
  IN  [d EXCEPT !.held[w].wait = wait,
                !.held[w].status = StatusFor(wait, d.held[w].sold, "cancelled")]
Released(d, w, excess) ==
  LET wait == [k \in Keys |-> d.held[w].wait[k] - excess[k]]
      status == StatusFor(wait, d.held[w].sold, "cancelled")
  IN  [d EXCEPT !.held[w] = IF status = "cancelled" THEN NoSuch
                            ELSE [@ EXCEPT !.wait = wait, !.status = status],
                !.shelf = [k \in Keys |-> IF k \in StagedKeys THEN @[k] ELSE @[k] + excess[k]]]

(* reconcile_orphan_waiting_items: what exceeds the case's rows, unlinked    *)
(* ones included, less what was sold, is released.                           *)
Excess_ignores_sold(d, c, w) ==
  [k \in Keys |-> AtLeast0(d.held[w].wait[k] - MirrorQty(d, RowsOf(d, c), k))]
Excess(d, c, w) ==
  [k \in Keys |-> AtLeast0(d.held[w].wait[k]
                             - AtLeast0(MirrorQty(d, RowsOf(d, c), k) - d.held[w].sold[k]))]
ReleaseOrphans(d, c) ==
  LET W == With(d, c, Live)
      w == The(W)
  IN  IF d.stage[c] = "cancelled" \/ Cardinality(W) # 1 \/ Excess(d, c, w) = Nothing THEN d
      ELSE Released(d, w, Excess(d, c, w))

(* _best_effort_cleanup_wms, for the rows S a forced deletion finds.         *)
ReleaseRows(d, c, S) ==
  LET W == With(d, c, {"waiting", "partial"})
      w == The(W)
      part == [k \in Keys |-> Lesser(d.held[w].wait[k], MirrorQty(d, S, k))]
  IN  IF S = {} \/ Cardinality(W) # 1 THEN d ELSE Released(d, w, part)
=============================================================================
