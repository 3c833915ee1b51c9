----------------------------- MODULE IntakeForms -----------------------------
(****************************************************************************)
(* The intake page of the export app, 수출대기 저장 (views/실출고_입력.py):      *)
(* several sessions fill in the order list and the stock of one case that is *)
(* not delivered yet.                                                        *)
(*                                                                           *)
(* A click runs the whole script again, on rows it has just read, and so is  *)
(* one step.  What outlives a run is what the session keeps: the draft of    *)
(* the order list, what was typed into a table, the rows a dialog was opened *)
(* with.  Streamlit forgets what was typed into a table whose data changed   *)
(* and the choice of an option that is no longer offered; a click on a       *)
(* button that is not drawn any more does nothing.                           *)
(*                                                                           *)
(* Saves are whole here; ExportCases stops them between any two statements.  *)
(****************************************************************************)
EXTENDS Integers, FiniteSets, FiniteSetsExt, SequencesExt

CONSTANTS
  Sessions,
  Stocks,  \* ids of stock rows outside the staging locations
  Works,   \* what the sessions of a behaviour do, the case they find, and
           \* the bound on the rows ever inserted (maxRow)
  MaxLine, \* bound: order lines ever inserted
  Most     \* bound: the quantity of an order line

VARIABLES
  work,     \* the member of Works this behaviour draws
  lines,    \* order_items: id -> name and quantity
  lastLine, \* its AUTOINCREMENT counter
  rows,     \* shipment_items: id -> order line, lot, stock row, quantity, CTN
  lastRow,  \* its AUTOINCREMENT counter
  boxes,    \* the CTN numbers of boxes
  open,     \* nohtus.db holds an export waiting order for the export number
  held,     \* its waiting items: stock row -> quantity
  free,     \* what is left of each stock row
  visited,  \* sessions whose wms_link_restored_case_ids has the case
  draft,    \* the order list of a session's editor
  desk      \* the form or dialog a session has open

case == <<lines, lastLine, rows, lastRow, boxes>>
stock == <<open, held, free>>
intake == <<work, case, stock, visited, draft, desk>>

(* The product an order line's name is matched to, and that of a lot: two    *)
(* names of one list, such as "needle" and "needle (20EA)", may match one.   *)
ProductOf(name) == IF name = "pp" THEN "p" ELSE name
Matching(lot) == {l \in DOMAIN lines : ProductOf(lines[l].name) = work.product[lot]}
Lot(s) == work.lot[s]

None == 0
Nothing == [s \in Stocks |-> 0]
Total(f, S, ok(_)) == FoldSet(LAMBDA i, n : n + (IF ok(i) THEN f[i].qty ELSE 0), 0, S)
SumOf(f, S) == FoldSet(LAMBDA x, n : n + f[x], 0, S)
Least(a, b) == IF a < b THEN a ELSE b
AtLeast0(n) == IF n < 0 THEN 0 ELSE n

Of(l) == {i \in DOMAIN rows : rows[i].line = l}
Linked == {i \in DOMAIN rows : rows[i].line \in DOMAIN lines}
Orphans == DOMAIN rows \ Linked
(* The order of list_case_items: rows outside a CTN first, then by CTN, id.  *)
InOrder(f) == SetToSortSeq(DOMAIN f,
  LAMBDA i, j : f[i].box < f[j].box \/ (f[i].box = f[j].box /\ i < j))

-----------------------------------------------------------------------------
(* Saving the rows of an order line.                                         *)

(* save_for_order: a row whose id is still there is updated where it is, an  *)
(* id that is gone comes back as a new row outside any CTN, the line's other *)
(* rows are deleted, and so are the CTNs left without a row.                 *)
SaveForOrder_updates_only(t, l, kept, new) ==
  LET mine == {i \in DOMAIN t.rows : t.rows[i].line = l}
      stays == DOMAIN kept \cap mine
      now == [i \in (DOMAIN t.rows \ mine) \cup stays \cup (t.last + 1) .. (t.last + Len(new)) |->
               IF i > t.last THEN new[i - t.last]
               ELSE IF i \in stays THEN [kept[i] EXCEPT !.box = t.rows[i].box] ELSE t.rows[i]]
  IN  [rows |-> now, last |-> t.last + Len(new),
       boxes |-> {b \in t.boxes : \E i \in DOMAIN now : now[i].box = b}]
SaveForOrder(t, l, kept, new) ==
  LET mine == {i \in DOMAIN t.rows : t.rows[i].line = l}
      stays == DOMAIN kept \cap mine
      back == SetToSortSeq(DOMAIN kept \ mine, <)
      added == [n \in DOMAIN back |-> kept[back[n]]] \o new
      now == [i \in (DOMAIN t.rows \ mine) \cup stays \cup (t.last + 1) .. (t.last + Len(added)) |->
               IF i > t.last THEN [added[i - t.last] EXCEPT !.line = l, !.box = None]
               ELSE IF i \in stays THEN [kept[i] EXCEPT !.box = t.rows[i].box] ELSE t.rows[i]]
  IN  [rows |-> now, last |-> t.last + Len(added),
       boxes |-> {b \in t.boxes : \E i \in DOMAIN now : now[i].box = b}]

(* _fill_source_links, which needs an export waiting order: a row without a  *)
(* stock row gets the one the order holds of its lot, if there is only one,  *)
(* and otherwise the newest with enough left.                                *)
Holding(h, lot) == {s \in Stocks : h[s] > 0 /\ Lot(s) = lot}
Found(r) ==
  LET enough == {s \in Stocks : Lot(s) = r.lot /\ free[s] >= r.qty}
  IN  IF Cardinality(Holding(held, r.lot)) = 1 THEN CHOOSE s \in Holding(held, r.lot) : TRUE
      ELSE IF enough = {} THEN None ELSE CHOOSE s \in enough : \A u \in enough : u <= s
Filled(f) == [i \in DOMAIN f |-> IF f[i].src = None /\ open THEN [f[i] EXCEPT !.src = Found(f[i])] ELSE f[i]]

Of_src(f, s) == Total(f, DOMAIN f, LAMBDA i : f[i].src = s)

(* cart_rows_after_selected_order_edit over the waiting items that a saved   *)
(* row of the case still stands for; without waiting items the saved rows    *)
(* are the whole target.  "now" are the line's rows as they are, "kept" as   *)
(* the form wants them, "others" those of the other lines.                   *)
Cart_as_shown(now, kept, others, picks) ==
  [s \in Stocks |-> IF held = Nothing THEN Of_src(others, s) + Of_src(kept, s) + picks[s]
                    ELSE AtLeast0(held[s] + picks[s])]
Cart(now, kept, others, picks) ==
  LET stands(f, lot) == \E i \in DOMAIN f : f[i].lot = lot /\ f[i].qty > 0 /\ f[i].src # None
      backed(lot) == stands(kept, lot) \/ stands(others, lot)
                     \/ \E i \in DOMAIN now : now[i].lot = lot /\ now[i].qty > 0
  IN  [s \in Stocks |->
        IF held = Nothing THEN Of_src(others, s) + Of_src(kept, s) + picks[s]
        ELSE AtLeast0((IF backed(Lot(s)) THEN held[s] ELSE 0)
                      - Of_src(now, s) + Of_src(kept, s) + picks[s])]

(* sync_mirror_source_links: rows of a lot that the order holds of just one  *)
(* stock row point to that one.                                              *)
Mirrored(f, h) ==
  [i \in DOMAIN f |->
    LET from == Holding(h, f[i].lot)
    IN  IF f[i].line \in DOMAIN lines /\ Cardinality(from) = 1
        THEN [f[i] EXCEPT !.src = CHOOSE s \in from : TRUE] ELSE f[i]]

NewRows(l, picks) ==
  LET from == SetToSortSeq({s \in Stocks : picks[s] > 0}, <)
  IN  [n \in DOMAIN from |-> [line |-> l, lot |-> Lot(from[n]), src |-> from[n],
                              qty |-> picks[from[n]], box |-> None]]

(* _patched_save_picked_inventory: the rows, then the reservation; when the  *)
(* stock does not allow that, the rows as they were, those the save deleted  *)
(* under new ids.                                                            *)
Result(l, shown, picks) ==
  LET now == Restrict(rows, Of(l))
      kept == Filled(shown)
      cart == Cart(now, kept, Filled(Restrict(rows, Linked \ Of(l))), picks)
      mirror == SaveForOrder([rows |-> rows, last |-> lastRow, boxes |-> boxes], l, kept, NewRows(l, picks))
      done == \A s \in Stocks : cart[s] <= held[s] + free[s]
  IN  [done |-> done, held |-> IF done THEN cart ELSE held,
       t |-> IF ~done THEN SaveForOrder(mirror, l, now, << >>)
             ELSE IF open \/ cart # Nothing THEN [mirror EXCEPT !.rows = Mirrored(@, cart)] ELSE mirror]
Saves(l, shown, picks) ==
  LET r == Result(l, shown, picks)
  IN  /\ rows' = r.t.rows /\ lastRow' = r.t.last /\ lastRow' <= work.maxRow /\ boxes' = r.t.boxes
      /\ held' = r.held /\ open' = (open \/ r.held # Nothing)
      /\ free' = [s \in Stocks |-> free[s] + held[s] - r.held[s]]
      /\ UNCHANGED <<work, lines, lastLine, visited, draft>>

-----------------------------------------------------------------------------
(* The first run of the page in a session: restore_legacy_waiting_links.     *)

(* One waiting item: its line is the only one whose name matches, or the     *)
(* only one there is; rows of an older version, which name no stock row,     *)
(* are linked to it when their quantities add up to it, preferring rows in a *)
(* CTN; an item no row stands for gets one.                                  *)
Restored(t, s) ==
  LET named == Matching(Lot(s))
      only == IF Cardinality(named) = 1 THEN named ELSE IF Cardinality(DOMAIN lines) = 1 THEN DOMAIN lines ELSE {}
      line == CHOOSE l \in only : TRUE
      from == {i \in DOMAIN t.rows : t.rows[i].src = s}
      linked == {i \in from : t.rows[i].line = line}
      old == {i \in DOMAIN t.rows : /\ t.rows[i].src = None /\ t.rows[i].line = line
                                    /\ t.rows[i].lot = Lot(s)}
      legacy == IF Total(t.rows, old, LAMBDA i : TRUE) = held[s] THEN old ELSE {}
      boxed(S) == \E i \in S : t.rows[i].box # None
      link(f) == [i \in DOMAIN f |-> IF i \in legacy THEN [f[i] EXCEPT !.src = s] ELSE f[i]]
      without(S) == Restrict(t.rows, DOMAIN t.rows \ S)
  IN  CASE held[s] = 0 \/ only = {} \/ from # linked -> t
        [] linked # {} /\ legacy # {} /\ Total(t.rows, linked, LAMBDA i : TRUE) = held[s] ->
             [t EXCEPT !.rows = IF boxed(legacy) \/ ~boxed(linked) THEN link(without(linked))
                                ELSE without(legacy)]
        [] linked # {} -> t
        [] legacy # {} -> [t EXCEPT !.rows = link(@)]
        [] OTHER -> [t EXCEPT !.last = @ + 1,
                              !.rows = @ @@ (t.last + 1 :> [line |-> line, lot |-> Lot(s), src |-> s,
                                                            qty |-> held[s], box |-> None])]

Closed == [form |-> "none"]

Visit(s) ==
  /\ s \notin visited
  /\ visited' = visited \cup {s}
  /\ LET t == IF open THEN FoldLeft(Restored, [rows |-> rows, last |-> lastRow], SetToSortSeq(Stocks, <))
              ELSE [rows |-> rows, last |-> lastRow]
     IN  rows' = t.rows /\ lastRow' = t.last /\ t.last <= work.maxRow
  /\ UNCHANGED <<work, lines, lastLine, boxes, stock, draft, desk>>

-----------------------------------------------------------------------------
(* The order list: a draft per session, read once and kept until it is       *)
(* saved (shipment_order_draft_{case}).                                      *)

NoDraft == [old |-> << >>, new |-> {}, at |-> 0]

(* What the user makes of it: a line taken out, one with another quantity,   *)
(* one more.  A second line of one name cannot be saved before it is merged  *)
(* into the first.                                                           *)
Edits(d) ==
  {[d EXCEPT !.old = Restrict(@, DOMAIN @ \ {l})] : l \in DOMAIN d.old}
  \cup {[d EXCEPT !.old[l].need = n] : l \in DOMAIN d.old, n \in 1 .. Most}
  \cup UNION {LET same == {l \in DOMAIN d.old : d.old[l].name = x}
              IN  IF same = {} THEN {[d EXCEPT !.new = {[name |-> x, need |-> 1]}]}
                  ELSE LET first == CHOOSE l \in same : TRUE
                       IN  {e \in {[d EXCEPT !.old[first].need = @ + 1]} : e.old[first].need <= Most}
              : x \in work.names}

Draft(s) ==
  /\ "draft" \in work.on[s] /\ s \in visited /\ draft[s] = NoDraft
  /\ draft' \in {[draft EXCEPT ![s] = e] :
                   e \in Edits([old |-> lines, new |-> {}, at |-> 1]) \ {[old |-> lines, new |-> {}, at |-> 1]}}
  /\ UNCHANGED <<work, case, stock, visited, desk>>

(* save_order_items: lines that are not in the draft are deleted, lines of   *)
(* the draft that are not there any more come back under new ids.  Then, in  *)
(* _after_order_change, rows whose line is gone lose it.                     *)
SaveDraft(s) ==
  /\ draft[s] # NoDraft
  /\ LET d == draft[s]
         back == SetToSortSeq(DOMAIN d.old \ DOMAIN lines, <)
         added == [n \in DOMAIN back |-> d.old[back[n]]] \o SetToSeq(d.new)
         kept == DOMAIN d.old \cap DOMAIN lines
         now == kept \cup (lastLine + 1) .. (lastLine + Len(added))
     IN  /\ lastLine' = lastLine + Len(added) /\ lastLine' <= MaxLine
         /\ lines' = [l \in now |-> IF l > lastLine THEN added[l - lastLine] ELSE d.old[l]]
         /\ rows' = [i \in DOMAIN rows |-> IF rows[i].line \in now THEN rows[i]
                                           ELSE [rows[i] EXCEPT !.line = None]]
  /\ draft' = [draft EXCEPT ![s] = NoDraft]
  /\ UNCHANGED <<work, lastRow, boxes, stock, visited, desk>>

(* delete_unlinked: the rows without a line, then the CTNs without a row.    *)
DeleteUnlinked(s) ==
  /\ "draft" \in work.on[s] /\ s \in visited /\ Orphans # {}
  /\ rows' = Restrict(rows, Linked)
  /\ boxes' = {b \in boxes : \E i \in Linked : rows[i].box = b}
  /\ UNCHANGED <<work, lines, lastLine, lastRow, stock, visited, draft, desk>>

-----------------------------------------------------------------------------
(* The form of a line that is not complete.                                  *)

LineQty(l) == Total(rows, Of(l), LAMBDA i : TRUE)
Complete(l) == LineQty(l) >= lines[l].need
(* The options of 출고제품을 입력할 주문 carry the quantities: when these change *)
(* the choice is lost and falls back to the first line of the list.          *)
Label(l) == <<lines[l].name, LineQty(l), lines[l].need>>
(* sort_orders_for_intake: complete lines last, then by name.                *)
Rank(l) == <<IF Complete(l) THEN 1 ELSE 0, CHOOSE n \in 1 .. 3 : <<"p", "pp", "q">>[n] = lines[l].name, l>>
Earlier(a, b) == \E n \in 1 .. 3 : a[n] < b[n] /\ \A m \in 1 .. n - 1 : a[m] = b[m]
First == CHOOSE l \in DOMAIN lines : \A k \in DOMAIN lines \ {l} : Earlier(Rank(l), Rank(k))
Chosen(d) == IF d.line \in DOMAIN lines /\ Label(d.line) = d.label THEN d.line
             ELSE IF lines = << >> THEN None ELSE First

(* saved_inventory_source: the line's rows, one entry per lot (and so per    *)
(* product), whatever place or CTN they are in.                              *)
Table(l) == [lot \in {rows[i].lot : i \in Of(l)} |->
              LET ids == {i \in Of(l) : rows[i].lot = lot}
              IN  [ids |-> ids, qty |-> Total(rows, ids, LAMBDA i : TRUE)]]
(* product_stock_rows, and reserved_product_stock_rows: what the case holds  *)
(* of stock rows that no row of this line names.                             *)
OnShelf(product) == [s \in {x \in Stocks : work.product[Lot(x)] = product} |-> free[s]]
Offer(l, product) ==
  [s \in DOMAIN OnShelf(product) |->
     free[s] + IF \E i \in Of(l) : rows[i].src = s THEN 0 ELSE held[s]]

(* distribute_group_quantity: in the order of the rows each keeps what it    *)
(* has while there is enough, the last takes the rest, rows left with        *)
(* nothing go.                                                               *)
Shared_first(ids, total) ==
  LET first == InOrder(Restrict(rows, ids))[1]
  IN  [i \in {j \in {first} : total > 0} |-> [rows[i] EXCEPT !.qty = total]]
Shared(ids, total) ==
  LET q == InOrder(Restrict(rows, ids))
      before(n) == FoldLeft(LAMBDA m, i : m + rows[i].qty, 0, SubSeq(q, 1, n - 1))
      share == [i \in ids |-> LET n == CHOOSE k \in DOMAIN q : q[k] = i
                                  left == AtLeast0(total - before(n))
                              IN  IF n = Len(q) THEN left ELSE Least(rows[i].qty, left)]
  IN  [i \in {j \in ids : share[j] > 0} |-> [rows[i] EXCEPT !.qty = share[i]]]

(* A pick of stock that a kept row names already is added to the last such   *)
(* row, whether it is in a CTN or not.                                       *)
Merged(kept, picks) ==
  LET q == InOrder(kept)
      last(s) == CHOOSE n \in DOMAIN q : /\ kept[q[n]].src = s
                                         /\ \A m \in DOMAIN q : kept[q[m]].src = s => m <= n
      into == {s \in Stocks : picks[s] > 0 /\ \E i \in DOMAIN kept : kept[i].src = s}
  IN  [kept |-> [i \in DOMAIN kept |->
                  IF \E s \in into : q[last(s)] = i
                  THEN [kept[i] EXCEPT !.qty = @ + picks[kept[i].src]] ELSE kept[i]],
       picks |-> [s \in Stocks |-> IF s \in into THEN 0 ELSE picks[s]]]

(* What is typed: another quantity for one entry, or a pick of one unit.     *)
Typed(f) == {f} \cup {[f EXCEPT ![x] = n] : x \in DOMAIN f, n \in 1 .. Most}
Pages(l, product) ==
  {[form |-> "page", line |-> l, label |-> Label(l), product |-> product,
    table |-> Table(l), offer |-> Offer(l, product), want |-> want, picks |-> picks] :
     want \in Typed([lot \in DOMAIN Table(l) |-> Table(l)[lot].qty]),
     picks \in {Nothing} \cup {[Nothing EXCEPT ![x] = 1] : x \in {y \in DOMAIN OnShelf(product) : Offer(l, product)[y] > 0}}}
OpenPage(s) ==
  /\ "page" \in work.on[s] /\ s \in visited /\ desk[s] = Closed
  /\ \E l \in DOMAIN lines, product \in work.products :
       /\ ~Complete(l)
       /\ desk' \in {[desk EXCEPT ![s] = d] : d \in Pages(l, product)}
  /\ UNCHANGED <<work, case, stock, visited, draft>>

(* What is left of it when the button is pressed.                            *)
Read(d, l) ==
  [want |-> IF Table(l) = d.table THEN d.want ELSE [lot \in DOMAIN Table(l) |-> Table(l)[lot].qty],
   picks |-> IF Offer(l, d.product) = d.offer THEN d.picks ELSE Nothing]
KeptBy(l, want) == FoldSet(LAMBDA lot, f : f @@ Shared(Table(l)[lot].ids, want[lot]), << >>, DOMAIN want)

SavePage(s) ==
  /\ desk[s].form = "page" /\ desk' = [desk EXCEPT ![s] = Closed]
  /\ LET l == desk[s].line
         read == Read(desk[s], l)
         m == Merged(KeptBy(l, read.want), read.picks)
     IN  IF lines # << >> /\ Chosen(desk[s]) = l /\ ~Complete(l)
         THEN Saves(l, m.kept, m.picks) ELSE UNCHANGED <<work, case, stock, visited, draft>>

(* 선택 행 삭제: the options name the rows and their quantities.               *)
Mark(s) ==
  /\ "delete" \in work.on[s] /\ s \in visited /\ desk[s] = Closed
  /\ \E l \in DOMAIN lines : /\ ~Complete(l)
       /\ \E lots \in SUBSET DOMAIN Table(l) \ {{}} :
            desk' = [desk EXCEPT ![s] = [form |-> "marks", line |-> l, label |-> Label(l),
                                         marks |-> Restrict(Table(l), lots)]]
  /\ UNCHANGED <<work, case, stock, visited, draft>>
DeleteMarked(s) ==
  /\ desk[s].form = "marks" /\ desk' = [desk EXCEPT ![s] = Closed]
  /\ LET d == desk[s]
         still == {lot \in DOMAIN d.marks : lot \in DOMAIN Table(d.line) /\ Table(d.line)[lot] = d.marks[lot]}
         gone == UNION {d.marks[lot].ids : lot \in still}
     IN  IF lines # << >> /\ Chosen(d) = d.line /\ ~Complete(d.line) /\ gone # {}
         THEN Saves(d.line, Restrict(rows, Of(d.line) \ gone), Nothing)
         ELSE UNCHANGED <<work, case, stock, visited, draft>>

-----------------------------------------------------------------------------
(* The dialog 입고 수정 of a complete line works on the rows it was opened      *)
(* with, until it is closed.                                                 *)

(* inventory_selection_source: one entry per stock row; rows without one are *)
(* left out.                                                                 *)
Entries(d) == [s \in Stocks |-> [have |-> Of_src(d.rows, s),
                                 most |-> Of_src(d.rows, s) + IF work.product[Lot(s)] = d.product THEN free[s] ELSE 0]]
Untouched(e) == [s \in Stocks |-> e[s].have]
OpenDialog(s) ==
  /\ "dialog" \in work.on[s] /\ s \in visited /\ desk[s] = Closed
  /\ \E l \in DOMAIN lines, product \in work.products :
       LET d == [form |-> "dialog", line |-> l, product |-> product, rows |-> Restrict(rows, Of(l))]
           e == Entries(d)
       IN  /\ Complete(l)
           /\ desk' \in {[desk EXCEPT ![s] = d @@ [entries |-> e, want |-> w]] :
                w \in {Untouched(e)} \cup {[Untouched(e) EXCEPT ![x] = n] : x \in Stocks, n \in 0 .. Most}}
           /\ \A x \in Stocks : desk'[s].want[x] <= e[x].most
  /\ UNCHANGED <<work, case, stock, visited, draft>>

(* The first row of each stock row takes its whole quantity.                 *)
DialogRows(d, want) ==
  LET q == InOrder(d.rows)
      firsts == {i \in DOMAIN d.rows : /\ d.rows[i].src # None
                   /\ \A n, m \in DOMAIN q : q[n] = i /\ d.rows[q[m]].src = d.rows[i].src => n <= m}
  IN  [i \in {j \in firsts : want[d.rows[j].src] > 0} |-> [d.rows[i] EXCEPT !.qty = want[d.rows[i].src]]]
DialogPicks(d, want) ==
  [s \in Stocks |-> IF \E i \in DOMAIN d.rows : d.rows[i].src = s THEN 0 ELSE want[s]]

(* A dialog whose line is gone, or whose stock is, stays open.               *)
SaveDialog(s) ==
  /\ desk[s].form = "dialog"
  /\ LET d == desk[s]
         want == IF Entries(d) = d.entries THEN d.want ELSE Untouched(Entries(d))
         kept == DialogRows(d, want)
         picks == DialogPicks(d, want)
     IN  /\ d.line \in DOMAIN lines
         /\ Saves(d.line, kept, picks)
         /\ desk' = IF Result(d.line, kept, picks).done THEN [desk EXCEPT ![s] = Closed] ELSE desk
Leave(s) == /\ desk[s].form = "dialog" /\ desk' = [desk EXCEPT ![s] = Closed]
            /\ UNCHANGED <<work, case, stock, visited, draft>>

-----------------------------------------------------------------------------
(* Other pages: stock of the shelf is taken, or put into the case's          *)
(* reservation from the stock side.                                          *)
Others ==
  /\ work.others
  /\ \E s \in Stocks : /\ free[s] > 0 /\ free' = [free EXCEPT ![s] = @ - 1]
                       /\ \/ UNCHANGED <<held, open>>
                          \/ held' = [held EXCEPT ![s] = @ + 1] /\ open' = TRUE
  /\ UNCHANGED <<work, case, visited, draft, desk>>

IntakeInit ==
  /\ work \in Works
  /\ lines = work.lines /\ lastLine = Cardinality(DOMAIN work.lines)
  /\ rows = work.rows /\ lastRow = Cardinality(DOMAIN work.rows)
  /\ boxes = {work.rows[i].box : i \in DOMAIN work.rows} \ {None}
  /\ held = work.held /\ free = work.free /\ open = (work.held # Nothing)
  /\ visited = {} /\ draft = [s \in Sessions |-> NoDraft] /\ desk = [s \in Sessions |-> Closed]

Intake(s) ==
  \/ Visit(s) \/ Draft(s) \/ SaveDraft(s) \/ DeleteUnlinked(s)
  \/ OpenPage(s) \/ SavePage(s) \/ Mark(s) \/ DeleteMarked(s)
  \/ OpenDialog(s) \/ SaveDialog(s) \/ Leave(s)
=============================================================================
