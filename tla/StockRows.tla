----------------------------- MODULE StockRows -----------------------------
(****************************************************************************)
(* The rows of the table inventory, what other tables remember about them    *)
(* (reservations by row id and by a copy of the label, outbound items,       *)
(* shipment rows of export.db) and the calls that change what a row says     *)
(* about its goods rather than how many there are: the master edit of the    *)
(* stock page, the renaming of a standard product and the import of a        *)
(* stocktake file (pages/stocktake.py, services/stocktake.py,                *)
(* services/master.py).  One company; the lot stands for lot and expiry; ids  *)
(* are AUTOINCREMENT, so an id is never used twice.                          *)
(****************************************************************************)
EXTENDS Integers, Sequences, FiniteSets, SequencesExt

CONSTANTS
  Products,   \* standard product names
  ErpNames,   \* ERP names (warehouse_name) a product may be mapped to
  Lots, Shelves, Staging,
  Renames,    \* pairs of standard names the matching page may exchange
  CallSets,   \* the calls a behaviour is made of: one of these sets
  Imports,    \* whether an import may keep the stock (FALSE) or replace it (TRUE)
  Amounts,    \* units of a move, a reservation or an outbound item
  Counted,    \* quantities a stock count may find
  MaxRows,    \* bound: rows ever inserted
  MaxSlots,   \* bound: reservations, and outbound items, ever made
  MaxEdits,   \* bound: master edits and renamings
  MaxUnits    \* bound: units in the warehouse when a receipt is booked

Places == Shelves \cup Staging
RowIds == 1 .. MaxRows
Slots == 1 .. MaxSlots

RowsOK ==
  /\ Shelves \cap Staging = {} /\ Counted \subseteq Nat
  /\ MaxRows \in Nat /\ MaxSlots \in Nat /\ MaxUnits \in Nat
  /\ Renames \subseteq Products \X Products

VARIABLES
  row,      \* inventory by id
  nextId,   \* the id the next INSERT takes
  held,     \* export_waiting_items by id, each with the status of its order
  out,      \* outbound_order_items of open outbound orders
  mapping,  \* the ERP name the first products row of a standard name gives
  file,     \* the last stocktake file downloaded
  edits,    \* how many master edits and renamings were made: a bound's counter
  calls     \* the calls of this behaviour: nothing of the program

tables == <<row, nextId, held, out, mapping, file>>
vars == <<tables, edits, calls>>

NoRow == [product |-> "none"]
Free == [status |-> "free"]
NoFile == [saved |-> FALSE]

Used == {i \in RowIds : row[i] # NoRow}
Label(x) == [product |-> x.product, erp |-> x.erp, lot |-> x.lot]
AnErp == ErpNames \cup Products
Labels == [product : Products, erp : AnErp, lot : Lots]

QtyOf(rs, S) == MapThenSumSet(LAMBDA i : rs[i].qty, S)
(* Rows that say label l and lie at place p; the label of a reservation must *)
(* match in every part (_take_p, _find).                                     *)
Matching(rs, l, p) == {i \in RowIds : rs[i] # NoRow /\ Label(rs[i]) = l /\ rs[i].at = p}
UnitsAt(rs, p) == QtyOf(rs, {i \in RowIds : rs[i] # NoRow /\ rs[i].at = p})
Least(S) == CHOOSE i \in S : \A j \in S : i <= j

(* Ids are given in order.                                                   *)
IsNext(f, s) == f[s] = Free /\ \A t \in Slots : t < s => f[t] # Free
Unconfirmed == {s \in Slots : held[s].status \in {"waiting", "cancelled"}}
Open == {s \in Slots : held[s].status = "waiting"}
ReservedIn(i) ==
  MapThenSumSet(LAMBDA s : held[s].qty, {s \in Open : held[s].waiting = i})

-----------------------------------------------------------------------------
(* Quantities: receipts, moves, counts, reservations and outbound orders.    *)

(* The tables after n units of label l are put at p: added to the row that   *)
(* already says so, or inserted.                                             *)
RowFor(rs, l, p) == IF Matching(rs, l, p) = {} THEN nextId ELSE Least(Matching(rs, l, p))
Put(rs, l, p, n) ==
  LET i == RowFor(rs, l, p)
  IN  IF i = nextId
        THEN [rs EXCEPT ![i] = [product |-> l.product, erp |-> l.erp, lot |-> l.lot,
                                at |-> p, qty |-> n]]
        ELSE [rs EXCEPT ![i].qty = @ + n]
HasRoom(rs, l, p) == RowFor(rs, l, p) <= MaxRows
Advance(rs) == nextId' = IF nextId \in RowIds /\ rs[nextId] # NoRow THEN nextId + 1 ELSE nextId

(* A receipt is booked under the mapped ERP name; the first one of a product   *)
(* enters it in the mapping (ensure_inbound_first_product_mapping).          *)
Blank == "blank"
Receive(l, p, n) ==
  /\ mapping[l.product] \in {Blank, l.erp}
  /\ mapping' = [mapping EXCEPT ![l.product] = l.erp]
  /\ QtyOf(row, Used) + n <= MaxUnits /\ HasRoom(row, l, p)
  /\ row' = Put(row, l, p, n)
  /\ Advance(row')
  /\ UNCHANGED <<held, out, file>>

MappedErp(p) == IF mapping[p] = Blank THEN p ELSE mapping[p]
(* A move relabels what it moves with the mapped ERP name.  Reserved units   *)
(* of a staging row do not move.                                             *)
Move(i, p, n) ==
  /\ i \in Used
  /\ n <= row[i].qty - (IF row[i].at \in Staging THEN ReservedIn(i) ELSE 0)
  /\ LET l == [Label(row[i]) EXCEPT !.erp = MappedErp(row[i].product)]
         taken == [row EXCEPT ![i].qty = @ - n]
     IN  /\ HasRoom(taken, l, p)
         /\ row' = Put(taken, l, p, n)
  /\ Advance(row')
  /\ UNCHANGED <<held, out, mapping, file>>

Count(i, n) ==
  /\ i \in Used /\ row[i].qty # n
  /\ row' = [row EXCEPT ![i].qty = n]
  /\ UNCHANGED <<nextId, held, out, mapping, file>>

(* A reservation of a case: shelf stock goes to the staging place p, stock   *)
(* already staged stays, and both keep the label in a copy of their own; the *)
(* export page mirrors it.                                                   *)
Reserve(s, i, p, n) ==
  /\ IsNext(held, s) /\ i \in Used
  /\ LET staged == row[i].at \in Staging
         taken == [row EXCEPT ![i].qty = @ - n]
         w == IF staged THEN i ELSE RowFor(taken, Label(row[i]), p)
     IN  /\ n <= row[i].qty - (IF staged THEN ReservedIn(i) ELSE 0)
         /\ w <= MaxRows
         /\ row' = IF staged THEN row ELSE Put(taken, Label(row[i]), p, n)
         /\ held' = [held EXCEPT ![s] =
              [status |-> "waiting", source |-> i, waiting |-> w, label |-> Label(row[i]),
               home |-> row[i].at, at |-> IF staged THEN row[i].at ELSE p, qty |-> n]]
  /\ Advance(row')
  /\ UNCHANGED <<out, mapping, file>>

(* What a reservation takes from the rows of its label at its place: the      *)
(* linked row first, then the fullest.                                       *)
StagedFor(h) == Matching(row, h.label, h.at)
CanTake(h) == QtyOf(row, StagedFor(h)) >= h.qty
Earlier(h, i, j) ==
  \/ i = h.waiting
  \/ /\ j # h.waiting
     /\ row[i].qty > row[j].qty \/ (row[i].qty = row[j].qty /\ i < j)
TakenFrom(h, i) ==
  LET before == QtyOf(row, {j \in StagedFor(h) \ {i} : Earlier(h, j, i)})
      left == IF before < h.qty THEN h.qty - before ELSE 0
  IN  IF left < row[i].qty THEN left ELSE row[i].qty
Taken(h) == [i \in RowIds |-> IF i \in StagedFor(h)
                               THEN [row[i] EXCEPT !.qty = @ - TakenFrom(h, i)] ELSE row[i]]
FirstTaken(h) == CHOOSE i \in StagedFor(h) : /\ TakenFrom(h, i) > 0
                                             /\ \A j \in StagedFor(h) \ {i} :
                                                  TakenFrom(h, j) > 0 => Earlier(h, i, j)

(* The shelf row a cancellation believes the goods are back in when the       *)
(* staged ones are gone (_resolve_source_row).                               *)
SameGoods(h, S) == {i \in Used : Label(row[i]) = h.label /\ row[i].at \in S /\ row[i].qty > 0}
BackAlready(h) ==
  /\ h.home \in Shelves
  /\ \/ /\ h.source \in Used /\ row[h.source].at \in Shelves
        /\ Label(row[h.source]) = h.label /\ row[h.source].qty >= h.qty
     \/ \E i \in SameGoods(h, {h.home}) : row[i].qty >= h.qty
     \/ /\ SameGoods(h, {h.home}) = {}
        /\ \E i \in SameGoods(h, Shelves) :
             {j \in SameGoods(h, Shelves) : row[j].qty >= h.qty} = {i}

CancelReservation(s) ==
  LET h == held[s]
  IN  /\ h.status = "waiting"
      /\ \/ /\ CanTake(h) /\ HasRoom(Taken(h), h.label, h.home)
            /\ row' = Put(Taken(h), h.label, h.home, h.qty)
            /\ held' = [held EXCEPT ![s].status = "cancelled", ![s].waiting = FirstTaken(h)]
         \/ /\ ~CanTake(h) /\ BackAlready(h)
            /\ row' = row
            /\ held' = [held EXCEPT ![s].status = "cancelled"]
      /\ Advance(row')
      /\ UNCHANGED <<out, mapping, file>>

Confirm(s) ==
  LET h == held[s]
  IN  /\ h.status = "waiting" /\ CanTake(h)
      /\ row' = Taken(h)
      /\ held' = [held EXCEPT ![s].status = "confirmed", ![s].waiting = FirstTaken(h)]
      /\ UNCHANGED <<nextId, out, mapping, file>>

(* A reservation whose staged row is gone, elsewhere or short is linked to    *)
(* the one row of its label and place that holds enough.                     *)
RepairLink(s) ==
  LET h == held[s]
      enough == {i \in Matching(row, h.label, h.at) : row[i].qty >= h.qty}
  IN  /\ h.status \in {"waiting", "cancelled"}
      /\ ~(h.waiting \in Used /\ row[h.waiting].at = h.at /\ row[h.waiting].qty >= h.qty)
      /\ \E i \in enough : enough = {i} /\ held' = [held EXCEPT ![s].waiting = i]
      /\ UNCHANGED <<row, nextId, out, mapping, file>>

(* The outbound pages list shelf stock only.                                 *)
OutboundSave(s, i, n) ==
  /\ IsNext(out, s) /\ i \in Used /\ row[i].at \in Shelves /\ n <= row[i].qty
  /\ row' = [row EXCEPT ![i].qty = @ - n]
  /\ out' = [out EXCEPT ![s] = [status |-> "open", source |-> i, label |-> Label(row[i]),
                                 at |-> row[i].at, qty |-> n]]
  /\ UNCHANGED <<nextId, held, mapping, file>>

(* The units go to the row of that id, whatever it says now, and only without *)
(* one to a row of the label the order remembers.                            *)
OutboundCancel(s) ==
  LET o == out[s]
  IN  /\ o.status = "open"
      /\ IF o.source \in Used
           THEN row' = [row EXCEPT ![o.source].qty = @ + o.qty]
           ELSE HasRoom(row, o.label, o.at) /\ row' = Put(row, o.label, o.at, o.qty)
      /\ out' = [out EXCEPT ![s].status = "cancelled"]
      /\ Advance(row')
      /\ UNCHANGED <<held, mapping, file>>

-----------------------------------------------------------------------------
(* Labels: the master edit of the stock page.                                *)

Identity_lost(d, i, p, l) ==
  LET dups == {j \in RowIds \ {i} : /\ d.row[j] # NoRow /\ d.row[j].at = d.row[i].at
                                    /\ d.row[j].product = p /\ d.row[j].lot = l}
      follow(j) == IF j \in dups THEN i ELSE j
  IN  IF d.row[i] = NoRow THEN d
      ELSE [row |-> [j \in RowIds |->
              CASE j \in dups -> NoRow
                [] j = i -> [d.row[i] EXCEPT !.product = p, !.lot = l]
                [] OTHER -> d.row[j]],
            held |-> [s \in Slots |->
              IF d.held[s] = Free THEN Free
              ELSE [d.held[s] EXCEPT !.source = follow(@), !.waiting = follow(@)]]]
(* _update_inventory_identity: row i takes the label and swallows the rows of *)
(* its place that already carry it, whatever ERP name they show; links to a  *)
(* swallowed row follow it, outbound items do not.                           *)
Identity(d, i, p, l) ==
  LET dups == {j \in RowIds \ {i} : /\ d.row[j] # NoRow /\ d.row[j].at = d.row[i].at
                                    /\ d.row[j].product = p /\ d.row[j].lot = l}
      follow(j) == IF j \in dups THEN i ELSE j
  IN  IF d.row[i] = NoRow THEN d
      ELSE [row |-> [j \in RowIds |->
              CASE j \in dups -> NoRow
                [] j = i -> [d.row[i] EXCEPT !.product = p, !.lot = l,
                                             !.qty = @ + QtyOf(d.row, dups)]
                [] OTHER -> d.row[j]],
            held |-> [s \in Slots |->
              IF d.held[s] = Free THEN Free
              ELSE [d.held[s] EXCEPT !.source = follow(@), !.waiting = follow(@)]]]

(* The reservations a row is edited with: by id, and for a staged row those   *)
(* of its label wherever they wait; then all that share their staged rows.   *)
Linked(i) == {s \in Unconfirmed : \/ held[s].source = i
                                  \/ held[s].waiting = i
                                  \/ row[i].at \in Staging /\ held[s].label = Label(row[i])}
Related(i) ==
  Linked(i) \cup {s \in Unconfirmed : \E t \in Linked(i) : held[s].waiting = held[t].waiting}
RelatedRows(i) ==
  {i} \cup {held[s].source : s \in Related(i)} \cup {held[s].waiting : s \in Related(i)}

MasterEdit(i, p, l, m) ==
  LET d == [row |-> row,
            held |-> [s \in Slots |-> IF s \in Related(i)
                        THEN [held[s] EXCEPT !.label.product = p, !.label.lot = l] ELSE held[s]]]
      e == FoldLeft(LAMBDA acc, j : Identity(acc, j, p, l), d,
                    SetToSortSeq(RelatedRows(i) \cap RowIds, <))
  IN  /\ i \in Used
      /\ row' = e.row /\ held' = e.held
      /\ mapping' = [[mapping EXCEPT ![row[i].product] = Blank] EXCEPT ![p] = m]
      /\ UNCHANGED <<nextId, out, file>>

(* apply_standard_name_change: stock and outbound items, not reservations.   *)
Rename(old, new) ==
  /\ row' = [i \in RowIds |-> IF i \in Used /\ row[i].product = old
                               THEN [row[i] EXCEPT !.product = new] ELSE row[i]]
  /\ out' = [s \in Slots |-> IF out[s] # Free /\ out[s].label.product = old
                              THEN [out[s] EXCEPT !.label.product = new] ELSE out[s]]
  /\ mapping' = [mapping EXCEPT ![old] = Blank, ![new] = mapping[old]]
  /\ mapping[old] # Blank
  /\ UNCHANGED <<nextId, held, file>>

-----------------------------------------------------------------------------
(* The stocktake file: a line for every row, with the mapped ERP name; lines  *)
(* without units are skipped on import.  total remembers what lay at each     *)
(* place when the file was written.                                          *)

FileErp(x) == IF mapping[x.product] = Blank THEN x.erp ELSE mapping[x.product]
Download ==
  /\ ~file.saved
  /\ file' = [saved |-> TRUE,
              lines |-> [i \in {j \in Used : row[j].qty > 0} |->
                           [row[i] EXCEPT !.erp = FileErp(row[i])]],
              total |-> [p \in Places |-> UnitsAt(row, p)]]
  /\ UNCHANGED <<row, nextId, held, out, mapping>>

AddLine_fault(acc, i) ==
  LET x == file.lines[i]
      same == Matching(acc.row, Label(x), x.at)
  IN  IF same # {} THEN [acc EXCEPT !.row[Least(same)].qty = x.qty]
      ELSE [row |-> [acc.row EXCEPT ![acc.next] = x], next |-> acc.next + 1]
(* A line is added to the row of its label and place, or inserted.           *)
AddLine(acc, i) ==
  LET x == file.lines[i]
      same == Matching(acc.row, Label(x), x.at)
  IN  IF same # {} THEN [acc EXCEPT !.row[Least(same)].qty = @ + x.qty]
      ELSE [row |-> [acc.row EXCEPT ![acc.next] = x], next |-> acc.next + 1]

(* mapping learns the ERP name of a product that has none.  Bounds: a file is *)
(* imported once, and added to the stock only while there is little.         *)
Learnt ==
  [p \in Products |-> LET names == {file.lines[i].erp : i \in {j \in DOMAIN file.lines :
                                                             file.lines[j].product = p}}
                      IN  IF mapping[p] = Blank /\ names # {} THEN names ELSE {mapping[p]}]
Import(replace) ==
  /\ file.saved
  /\ nextId + Cardinality(DOMAIN file.lines) <= MaxRows + 1
  /\ ~replace => QtyOf(row, Used) <= MaxUnits
  /\ LET start == [row |-> IF replace THEN [i \in RowIds |-> NoRow] ELSE row, next |-> nextId]
         done == FoldLeft(AddLine, start, SetToSortSeq(DOMAIN file.lines, <))
     IN  row' = done.row /\ nextId' = done.next
  /\ mapping' \in {g \in [Products -> AnErp \cup {Blank}] : \A p \in Products : g[p] \in Learnt[p]}
  /\ file' = NoFile
  /\ UNCHANGED <<held, out>>

-----------------------------------------------------------------------------
Init ==
  /\ row = [i \in RowIds |-> NoRow] /\ nextId = 1
  /\ held = [s \in Slots |-> Free] /\ out = [s \in Slots |-> Free]
  /\ mapping = [p \in Products |-> Blank]
  /\ file = NoFile
  /\ edits = 0 /\ calls \in CallSets

(* Behaviours without the call "remap" use one ERP name (bound).             *)
Mappable == IF "remap" \in calls THEN ErpNames ELSE {CHOOSE e \in ErpNames : TRUE}
Stocked == \E p \in Products, e \in Mappable, l \in Lots, a \in Places :
             Receive([product |-> p, erp |-> e, lot |-> l], a, 1)
Relabelled == \E i \in Used, p \in Products, l \in Lots, m \in Mappable : MasterEdit(i, p, l, m)
Renamed == \E r \in Renames : Rename(r[1], r[2])

QuantityPages ==
  \/ "receive" \in calls /\ Stocked
  \/ "move" \in calls /\ \E i \in Used, p \in Places, n \in Amounts : Move(i, p, n)
  \/ "count" \in calls /\ \E i \in Used, n \in Counted : Count(i, n)
  \/ "reserve" \in calls /\ \E s \in Slots, i \in Used, p \in Staging, n \in Amounts : Reserve(s, i, p, n)
  \/ "close" \in calls /\ \E s \in Slots : CancelReservation(s) \/ Confirm(s)
  \/ "repair" \in calls /\ \E s \in Slots : RepairLink(s)
  \/ "outbound" \in calls /\ \E s \in Slots, i \in Used, n \in Amounts : OutboundSave(s, i, n)
  \/ "outbound" \in calls /\ \E s \in Slots : OutboundCancel(s)
  \/ "file" \in calls /\ (Download \/ \E replace \in Imports : Import(replace))

Next ==
  /\ \/ QuantityPages /\ UNCHANGED edits
     \/ /\ edits < MaxEdits /\ edits' = edits + 1
        /\ \/ "edit" \in calls /\ Relabelled
           \/ "rename" \in calls /\ Renamed
  /\ UNCHANGED calls

Spec == Init /\ [][Next]_vars

-----------------------------------------------------------------------------

(* A master edit and a renaming change what rows say, never how many units    *)
(* lie at a place, although an edit may merge several rows of several places *)
(* at once; and no reservation is left linked to a row that is gone: a merge *)
(* moves the links of the rows it deletes (_merge_inventory_rows).           *)
RelabelKeepsPlaces ==
  [][edits' # edits =>
       /\ \A p \in Places : UnitsAt(row', p) = UnitsAt(row, p)
       /\ \A s \in Unconfirmed :
            /\ held[s].waiting \in Used => held'[s].waiting \in Used'
            /\ held[s].source \in Used => held'[s].source \in Used']_vars

(* Importing a downloaded file in place of the stock puts back, at every      *)
(* place, the units that lay there when it was downloaded, although rows     *)
(* whose ERP names are mapped to one name become one row.                    *)
ImportRestores ==
  [][file.saved /\ Import(TRUE) => \A p \in Places : UnitsAt(row', p) = file.total[p]]_vars
=============================================================================
