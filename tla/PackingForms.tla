---------------------------- MODULE PackingForms ----------------------------
(****************************************************************************)
(* The packing page of the export app, 박스 패킹 (views/박스_패킹_edit.py), and   *)
(* the intake page (IntakeForms) over the rows of one case.                  *)
(*                                                                           *)
(* A session of the packing page keeps the ids it has ticked, the label of   *)
(* the CTN it works on and the dialog it has open; all else is read again by *)
(* the run a click starts.                                                   *)
(****************************************************************************)
EXTENDS IntakeForms

CONSTANT MaxBox \* bound: the highest CTN number

VARIABLE pack \* ticked ids, label of 작업할 CTN as drawn, the open dialog

vars == <<intake, pack>>

(* The page offers cases whose lines are all complete (패킹 대기, 패킹 완료).     *)
Packable == Linked # {} /\ \A l \in DOMAIN lines : Complete(l)
NextBox == IF boxes = {} THEN 1 ELSE Max(boxes) + 1

(* A label that is no option any more gives way to the new CTN's.            *)
Box(n) == [new |-> FALSE, no |-> n]
NewBox == [new |-> TRUE, no |-> NextBox]
Active_number(s) == pack[s].label
Active(s) == IF pack[s].label \in {Box(b) : b \in boxes} \cup {NewBox} THEN pack[s].label ELSE NewBox

NoDialog == [form |-> "none"]
Put(f, S, b) == [i \in DOMAIN f |-> IF i \in S THEN [f[i] EXCEPT !.box = b] ELSE f[i]]

(* A session shows one page at a time.                                       *)
Packs(s) == "pack" \in work.on[s] /\ Packable /\ desk[s] = Closed
Kept == UNCHANGED <<work, lines, lastLine, stock, visited, draft, desk>>
Drawn(s, sel, label, dialog) == pack' = [pack EXCEPT ![s] = [sel |-> sel, label |-> label, dialog |-> dialog]]

-----------------------------------------------------------------------------
(* Ticking rows and choosing a CTN, with no dialog open.                     *)

Idle(s) == Packs(s) /\ pack[s].dialog = NoDialog

(* sync_grid_checkbox_selection.  미패킹만 표시 may be off.                      *)
Tick(s) ==
  /\ Idle(s)
  /\ \E i \in Linked : Drawn(s, IF i \in pack[s].sel THEN pack[s].sel \ {i} ELSE pack[s].sel \cup {i},
                             Active(s), NoDialog)
  /\ UNCHANGED intake

(* 동일제품 전체선택: expand_same_product_selection over the visible rows.        *)
SameProduct(s) ==
  /\ Idle(s) /\ pack[s].sel # {}
  /\ LET product(i) == work.product[rows[i].lot]
         chosen == {product(i) : i \in pack[s].sel \cap Linked}
     IN  \E visible \in {Linked, {i \in Linked : rows[i].box = None}} :
           Drawn(s, IF chosen = {} THEN pack[s].sel ELSE {i \in visible : product(i) \in chosen}, Active(s), NoDialog)
  /\ UNCHANGED intake

Choose(s) ==
  /\ Idle(s)
  /\ \E label \in {Box(b) : b \in boxes} \cup {NewBox} : Drawn(s, pack[s].sel, label, NoDialog)
  /\ UNCHANGED intake

-----------------------------------------------------------------------------
(* Packing.                                                                  *)

(* assign_items: every ticked row that still exists, wherever it is.         *)
Assign(s) ==
  /\ Idle(s) /\ pack[s].sel # {}
  /\ LET b == Active(s).no
     IN  /\ b <= MaxBox /\ boxes' = boxes \cup {b}
         /\ rows' = Put(rows, pack[s].sel \cap DOMAIN rows, b)
         /\ Drawn(s, {}, Box(b), NoDialog)
  /\ UNCHANGED lastRow /\ Kept

(* 일부 담기 keeps the row and the number of the CTN as they are now.            *)
AskPartial(s) ==
  /\ Idle(s) /\ Cardinality(pack[s].sel) = 1
  /\ \E i \in pack[s].sel \cap Linked :
       /\ rows[i].box = None
       /\ Drawn(s, pack[s].sel, Active(s), [form |-> "partial", id |-> i, box |-> Active(s).no])
  /\ UNCHANGED intake

(* assign_partial_item reads the row again and refuses what it does not have.*)
Partial(i, n, b) ==
  /\ rows[i].box = None /\ n <= rows[i].qty
  /\ boxes' = boxes \cup {b}
  /\ IF n = rows[i].qty THEN rows' = Put(rows, {i}, b) /\ UNCHANGED lastRow
     ELSE /\ rows' = [rows EXCEPT ![i].qty = n, ![i].box = b]
                     @@ (lastRow + 1 :> [rows[i] EXCEPT !.qty = @ - n])
          /\ lastRow' = lastRow + 1 /\ lastRow' <= work.maxRow
PackPartial(s) ==
  /\ Packs(s) /\ pack[s].dialog.form = "partial"
  /\ LET d == pack[s].dialog
     IN  /\ d.id \in DOMAIN rows /\ d.box <= MaxBox
         /\ \E n \in 1 .. Most : Partial(d.id, n, d.box)
         /\ Drawn(s, {}, Box(d.box), NoDialog)
  /\ Kept

(* 동일 CTN 반복 담기: the preview keeps the quantity per CTN; assign_repeated_ctns *)
(* splits what the row has by then into the CTNs that are next by then.      *)
AskRepeated(s) ==
  /\ Idle(s) /\ Cardinality(pack[s].sel) = 1
  /\ \E i \in pack[s].sel \cap Linked, per \in 1 .. Most :
       /\ rows[i].box = None /\ per <= rows[i].qty
       /\ Drawn(s, pack[s].sel, Active(s), [form |-> "repeat", id |-> i, per |-> per])
  /\ UNCHANGED intake
Repeated(i, per) ==
  LET qty == rows[i].qty
      n == (qty + per - 1) \div per
      part(k) == IF k < n THEN per ELSE qty - per * (n - 1)
  IN  /\ rows[i].box = None /\ NextBox + n - 1 <= MaxBox
      /\ boxes' = boxes \cup NextBox .. (NextBox + n - 1)
      /\ rows' = [rows EXCEPT ![i].qty = part(1), ![i].box = NextBox]
                 @@ [j \in lastRow + 1 .. lastRow + n - 1 |->
                      [rows[i] EXCEPT !.qty = part(j - lastRow + 1), !.box = NextBox + j - lastRow]]
      /\ lastRow' = lastRow + n - 1 /\ lastRow' <= work.maxRow
PackRepeated(s) ==
  /\ Packs(s) /\ pack[s].dialog.form = "repeat"
  /\ LET d == pack[s].dialog
     IN  /\ d.id \in DOMAIN rows /\ Repeated(d.id, d.per)
         /\ Drawn(s, {}, Box(NextBox), NoDialog)
  /\ Kept

(* Cancelled; or drawn again when the row is gone or (반복 담기) in a CTN.       *)
CloseDialog(s) ==
  /\ pack[s].dialog # NoDialog
  /\ Drawn(s, pack[s].sel, Active(s), NoDialog) /\ UNCHANGED intake

(* CTN에서 빼기, 박스에서 빼기: ticked rows in a CTN, or rows of the CTN shown.     *)
Unassign(s) ==
  /\ Idle(s)
  /\ \E S \in {pack[s].sel \cap {i \in Linked : rows[i].box # None}}
              \cup {{i} : i \in {j \in Linked : rows[j].box = Active(s).no}} :
       /\ S # {} /\ rows' = Put(rows, S, None)
       /\ Drawn(s, IF S \subseteq pack[s].sel THEN {} ELSE pack[s].sel, Active(s), NoDialog)
  /\ UNCHANGED <<lastRow, boxes>> /\ Kept

(* clear_box, rename_box, clone_box.                                         *)
ClearBox(s) ==
  /\ Idle(s)
  /\ \E b \in boxes : /\ rows' = Put(rows, {i \in DOMAIN rows : rows[i].box = b}, None)
                      /\ boxes' = boxes \ {b}
                      /\ Drawn(s, pack[s].sel, [new |-> TRUE, no |-> IF boxes' = {} THEN 1 ELSE Max(boxes') + 1], NoDialog)
  /\ UNCHANGED lastRow /\ Kept
RenameBox(s) ==
  /\ Idle(s) /\ ~Active(s).new
  /\ LET b == Active(s).no
     IN  \E n \in 1 .. MaxBox \ boxes :
           /\ rows' = Put(rows, {i \in DOMAIN rows : rows[i].box = b}, n)
           /\ boxes' = (boxes \ {b}) \cup {n}
           /\ Drawn(s, pack[s].sel, Box(n), NoDialog)
  /\ UNCHANGED lastRow /\ Kept
CloneBox(s) ==
  /\ "clone" \in work.on[s] /\ Idle(s)
  /\ LET S == {i \in Linked : rows[i].box = Active(s).no}
         q == SetToSortSeq(S, <)
     IN  /\ S # {} /\ NextBox <= MaxBox
         /\ rows' = rows @@ [j \in lastRow + 1 .. lastRow + Len(q) |->
                              [rows[q[j - lastRow]] EXCEPT !.box = NextBox]]
         /\ lastRow' = lastRow + Len(q) /\ lastRow' <= work.maxRow
         /\ boxes' = boxes \cup {NextBox}
         /\ Drawn(s, pack[s].sel, Box(NextBox), NoDialog)
  /\ Kept

-----------------------------------------------------------------------------

Init == /\ IntakeInit
        /\ pack = [s \in Sessions |-> [sel |-> {}, label |-> NewBox, dialog |-> NoDialog]]

Next ==
  \/ UNCHANGED pack /\ (Others \/ \E s \in DOMAIN work.on : pack[s].dialog = NoDialog /\ Intake(s))
  \/ \E s \in DOMAIN work.on :
       \/ Tick(s) \/ SameProduct(s) \/ Choose(s) \/ Assign(s)
       \/ AskPartial(s) \/ PackPartial(s) \/ AskRepeated(s) \/ PackRepeated(s) \/ CloseDialog(s)
       \/ Unassign(s) \/ ClearBox(s) \/ RenameBox(s) \/ CloneBox(s)

Spec == Init /\ [][Next]_vars

-----------------------------------------------------------------------------

(* A session may copy a CTN, which adds rows without a reservation.          *)
Cloning == \E s \in DOMAIN work.on : "clone" \in work.on[s]

(* Stock that the rows of order lines name is reserved, however stale the    *)
(* draft, dialog or selection it was saved from (save_for_order and          *)
(* save_export_waiting_order, reached from the page and from the dialog);    *)
(* only a cloned CTN adds rows without a reservation.                        *)
RowsAreBacked ==
  ~Cloning =>
    \A lot \in {Lot(s) : s \in Stocks} :
      Total(rows, Linked, LAMBDA i : rows[i].lot = lot /\ rows[i].src # None)
        <= SumOf(held, {s \in Stocks : Lot(s) = lot})
(* What a save shows, per lot: the entries and picks of a page as they are   *)
(* still drawn, the entries that are not deleted, the quantities of a dialog.*)
Submitted(s) == desk[s].form # "none" /\ desk'[s] = Closed
Lots == {Lot(s) : s \in Stocks}
Sums(f, l) == [lot \in Lots |-> Total(f, {i \in DOMAIN f : f[i].line = l}, LAMBDA i : f[i].lot = lot)]
Wanted(d) ==
  LET sum(f, lot) == SumOf(f, {x \in Stocks : Lot(x) = lot})
  IN  CASE d.form = "page" ->
             LET read == Read(d, d.line)
             IN  [lot \in Lots |-> sum(read.picks, lot) + IF lot \in DOMAIN read.want THEN read.want[lot] ELSE 0]
        [] d.form = "marks" ->
             [lot \in Lots |-> IF lot \in DOMAIN Table(d.line) \ DOMAIN d.marks THEN Table(d.line)[lot].qty ELSE 0]
        [] OTHER -> [lot \in Lots |-> sum(IF Entries(d) = d.entries THEN d.want ELSE Untouched(Entries(d)), lot)]

(* A save leaves the line with what its form showed or, when the stock does  *)
(* not allow it, with what it had: also when other sessions deleted, split   *)
(* or repacked the rows the form was drawn from (save_for_order re-inserts   *)
(* ids that are gone).                                                       *)
SavedIsShown ==
  [][\A s \in Sessions : Submitted(s) /\ rows' # rows =>
       Sums(rows', desk[s].line) \in {Wanted(desk[s]), Sums(rows, desk[s].line)}]_vars

(* A save by the page leaves the rows of other lines, and of the entries it  *)
(* neither changes nor adds to, where they are: same id, quantity and CTN    *)
(* (distribute_group_quantity, save_for_order).                              *)
Unedited(d, lot) ==
  CASE d.form = "page" -> LET read == Read(d, d.line)
                          IN  /\ read.want[lot] = Table(d.line)[lot].qty
                              /\ \A s \in Stocks : Lot(s) = lot => read.picks[s] = 0
    [] d.form = "marks" -> lot \notin DOMAIN d.marks
    [] OTHER -> FALSE
SavesKeepPacking ==
  [][\A s \in Sessions : Submitted(s) =>
       \A i \in {j \in DOMAIN rows : rows[j].line = desk[s].line => Unedited(desk[s], rows[j].lot)} :
         i \in DOMAIN rows' /\ [rows'[i] EXCEPT !.src = rows[i].src] = rows[i]]_vars

(* A row joins the rows of a CTN only when that CTN is the one the session   *)
(* sees as its own; a number shown as a new one gives an empty CTN, even     *)
(* when another session took the number meanwhile (render_active_box).  The  *)
(* dialog for a part of a row keeps the number it was opened with.           *)
PacksWhereShown ==
  [][\A i \in DOMAIN rows' :
       rows'[i].box \in boxes /\ ~(i \in DOMAIN rows /\ rows[i].box = rows'[i].box) =>
         \E s \in DOMAIN work.on : /\ pack'[s] # pack[s]
           /\ \/ pack[s].label = Box(rows'[i].box)
              \/ pack[s].dialog.form = "partial" /\ pack[s].dialog.box = rows'[i].box]_vars
=============================================================================
