----------------------------- MODULE ExportCases -----------------------------
(****************************************************************************)
(* The pages that take an export case from its order to its delivery         *)
(* (export_app): order entry and editing, the picking of stock, CTN packing, *)
(* delivery, sales registration, merging and cancelling.                     *)
(*                                                                           *)
(* A call is planned from what it reads and then runs statement by           *)
(* statement (module ExportTables): the process may end, or export.db may    *)
(* refuse, between any two, which leaves the rest undone, and any call into  *)
(* nohtus.db may raise, because another session took the stock or for any    *)
(* other reason, which sends the call into its except branch.  One user      *)
(* works on the cases.                                                       *)
(****************************************************************************)
EXTENDS ExportTables

CONSTANTS
  Works,     \* the works users may have before them: one is drawn for a behaviour
  MaxFaults, \* bound: crashes and failed calls into nohtus.db in a behaviour
  MaxRows    \* bound: a call that would leave more shipment rows is not made

VARIABLES
  db,    \* the tables
  call,  \* the running call: what is left of its plan, its except branch
  faults, \* crashes and failures so far
  work   \* what users do: the calls of Ops they make on which cases and order
         \* items, in as many reservations, the order items entered at the start,
         \* the quantities (in EA) an order item may have, those a user may pick,
         \* the units of each key in stock

vars == <<db, call, faults, work>>

ASSUME WorksOK == \A w \in Works :
  /\ w.cases \subseteq Cases /\ w.items \subseteq OrderIds /\ w.reservations \subseteq Reservations
  /\ w.entered \in [OrderIds -> Order] /\ w.needs \subseteq Nat /\ w.picks \subseteq Nat \ {0}
  /\ w.shelf \in Nat

Ops == {"orders", "units", "open", "save", "delete", "purge", "assign", "partial", "repeat",
        "unassign", "clear", "rename", "clone", "deliver", "return", "cancel", "merge", "register"}

(* failed: the except branch was taken.  base: the tables at the start, for  *)
(* the properties and the except branch; no statement reads it.              *)
NoCall == [op |-> "none", case |-> NoCase, plan |-> << >>, rescue |-> << >>, failed |-> FALSE,
           base |-> << >>]

Start == [stage |-> [c \in Cases |-> "ordered"],
          orders |-> work.entered,
          rows |-> [i \in RowIds |-> NoRow], boxes |-> [c \in Cases |-> {}],
          held |-> [w \in Reservations |-> NoSuch], shelf |-> [k \in Keys |-> work.shelf]]

Init == work \in Works /\ db = Start /\ call = NoCall /\ faults = 0

-----------------------------------------------------------------------------
(* Statements.                                                               *)

FreeId(d) == Min({i \in RowIds : d.rows[i] = NoRow /\ call.base.rows[i] = NoRow})
Renumbered(b, boxes) == IF b \in DOMAIN boxes THEN boxes[b] ELSE b

Exec(d, s) ==
  CASE s.do = "orders" -> [d EXCEPT !.orders = s.orders]
    [] s.do = "unlink" -> [d EXCEPT !.rows = [i \in RowIds |-> IF i \in Dangling(d, s.case)
                                                THEN [@[i] EXCEPT !.order = NoOrder] ELSE @[i]]]
    [] s.do = "put" -> IF s.id \in Used(d) THEN [d EXCEPT !.rows[s.id].qty = s.qty, !.rows[s.id].box = s.box]
                       ELSE d
    [] s.do = "insert" -> [d EXCEPT !.rows[FreeId(d)] = s.row]
    [] s.do = "delete" -> [d EXCEPT !.rows = [i \in RowIds |-> IF i \in s.ids THEN NoRow ELSE @[i]]]
    [] s.do = "trim" -> [d EXCEPT !.rows = [i \in RowIds |->
                           IF i \in RowsFor(d, s.case, s.order) \ s.ids THEN NoRow ELSE @[i]]]
    [] s.do = "empty" -> [d EXCEPT !.rows = [i \in RowIds |->
                            IF i \in RowsOf(d, s.case) /\ @[i].box = s.box
                            THEN [@[i] EXCEPT !.box = Unboxed] ELSE @[i]]]
    [] s.do = "box" -> [d EXCEPT !.boxes[s.case] = @ \cup {s.box}]
    [] s.do = "unbox" -> [d EXCEPT !.boxes[s.case] = @ \ {s.box}]
    [] s.do = "drop empty" -> [d EXCEPT !.boxes[s.case] =
                                {b \in @ : \E i \in RowsOf(d, s.case) : d.rows[i].box = b}]
    [] s.do = "stage" -> [d EXCEPT !.stage[s.case] = s.stage]
    [] s.do = "reopen" -> IF d.stage[s.case] = "shipped" THEN [d EXCEPT !.stage[s.case] = "packing"] ELSE d
    [] s.do = "sync" -> IF d.stage[s.case] \in Managed
                        THEN [d EXCEPT !.stage[s.case] = ComputedStage(d, s.case)] ELSE d
    [] s.do = "move" ->      \* the one transaction of merge_case_into and of rename_box
         [d EXCEPT !.orders = [o \in OrderIds |-> IF @[o].case = s.case THEN [@[o] EXCEPT !.case = s.to] ELSE @[o]],
                   !.rows = [i \in RowIds |-> IF i \in RowsOf(d, s.case)
                      THEN [d.rows[i] EXCEPT !.case = s.to, !.box = Renumbered(d.rows[i].box, s.boxes)]
                      ELSE d.rows[i]],
                   !.boxes = [c \in Cases |->
                      LET moved == {Renumbered(b, s.boxes) : b \in @[s.case]}
                      IN  IF c = s.to THEN (IF c = s.case THEN {} ELSE @[c]) \cup moved
                          ELSE IF c = s.case THEN {} ELSE @[c]],
                   !.stage[s.case] = IF s.to = s.case THEN @ ELSE "cancelled"]
    [] s.do = "reserve" -> Reserve(d, s.id, s.case, s.cart)
    [] s.do = "withdraw" -> CancelReservation(d, s.id)
    [] s.do = "return" -> ReturnSale(d, s.id)
    [] s.do = "sell" -> Confirm(d, s.id, s.keys)
    [] s.do = "reconcile" -> ReleaseOrphans(d, s.case)
    [] s.do = "release" -> ReleaseRows(d, s.case, s.ids \cap RowsFor(d, s.case, s.order))
    [] s.do = "join" -> MergeReservations(d, s.case, s.to)

Remote == {"reserve", "withdraw", "return", "sell", "reconcile", "release", "join"}
(* _best_effort_cleanup_wms and the end of merge_case_into catch everything. *)
Swallowed == {"release", "join"}

Do(name, c) == [do |-> name, case |-> c]
Sync(c) == Do("sync", c)
Put(i, q, b) == [do |-> "put", id |-> i, qty |-> q, box |-> b]
Insert(row) == [do |-> "insert", row |-> row]
Box(name, c, b) == [do |-> name, case |-> c, box |-> b]
Each(stmts) == LET ids == SetToSeq(DOMAIN stmts) IN [n \in DOMAIN ids |-> stmts[ids[n]]]
When(guard, plan) == IF guard THEN plan ELSE << >>

-----------------------------------------------------------------------------
(* Saving picks: wms_link_edit_patch._patched_save_picked_inventory, which   *)
(* replaces wms_link_service.save_picked_inventory, and save_for_order.      *)

(* _editable_order_id: an open reservation first, a confirmed one otherwise. *)
Editable(d, c) ==
  LET open == With(d, c, {"waiting", "partial"})
  IN  IF open # {} THEN open ELSE With(d, c, {"confirmed"})
Target(d, c) ==
  IF Editable(d, c) # {} THEN The(Editable(d, c))
  ELSE LET new == {w \in work.reservations : d.held[w].status = "none"}
       IN  IF new # {} THEN Min(new) ELSE NoReservation

Unchanged(d, c, o) == [i \in RowsFor(d, c, o) |-> d.rows[i].qty]
KeptQty(kept) == SumFunctionOnSet(kept, DOMAIN kept)

(* What the reservation is to hold.  With waiting rows: theirs, less those   *)
(* no saved row of the case backs, changed by what this order item's rows    *)
(* change; without: everything the case's rows ask for.                      *)
Cart_own_rows_only(d, c, o, kept, pick) ==
  [k \in Keys |-> IF k = KeyOf[o] THEN KeptQty(kept) + pick ELSE 0]
Cart(d, c, o, kept, pick) ==
  LET others == Linked(d, c) \ RowsFor(d, c, o)
      waiting == IF Editable(d, c) = {} THEN Nothing ELSE d.held[The(Editable(d, c))].wait
      backed(k) == IF MirrorQty(d, Linked(d, c), k) > 0 THEN waiting[k] ELSE 0
      own(k) == IF k = KeyOf[o] THEN KeptQty(kept) + pick ELSE 0
  IN  IF waiting = Nothing THEN [k \in Keys |-> MirrorQty(d, others, k) + own(k)]
      ELSE [k \in Keys |-> AtLeast0(backed(k) + own(k) - MirrorQty(d, RowsFor(d, c, o), k))]

(* save_for_order: rows whose id is still there are updated in place, the    *)
(* others are deleted, new ones come in outside any CTN.  An UPDATE that     *)
(* changes nothing is left out.                                              *)
Mirror(d, c, o, kept, new) ==
  LET changed == {i \in DOMAIN kept : kept[i] # d.rows[i].qty}
      gone == RowsFor(d, c, o) \ DOMAIN kept
  IN  When(Dangling(d, c) # {}, <<Do("unlink", c), Sync(c)>>)
      \o Each([i \in changed |-> Put(i, kept[i], d.rows[i].box)])
      \o << [do |-> "trim", case |-> c, order |-> o, ids |-> DOMAIN kept] >>
      \o new
      \o When(changed # {} \/ gone # {} \/ new # << >>, <<Do("reopen", c)>>)
      \o <<Do("drop empty", c), Sync(c)>>

Fresh(c, o, q) == [case |-> c, order |-> o, key |-> KeyOf[o], qty |-> q, box |-> Unboxed]

SavePlan(d, c, o, kept, pick) ==
  LET cart == Cart(d, c, o, kept, pick)
  IN  Mirror(d, c, o, kept, When(pick > 0, <<Insert(Fresh(c, o, pick))>>))
      \o When(cart # Nothing \/ Editable(d, c) # {},
              << [do |-> "reserve", case |-> c, id |-> Target(d, c), cart |-> cart] >>)

(* The except branch saves the original rows again: those it deleted come    *)
(* back as new rows, outside any CTN.                                        *)
SaveRescue_forgets(d, c, o, kept) == << >>
SaveRescue(d, c, o, kept) ==
  LET changed == {i \in DOMAIN kept : kept[i] # d.rows[i].qty}
      gone == RowsFor(d, c, o) \ DOMAIN kept
  IN  Each([i \in changed |-> Put(i, d.rows[i].qty, d.rows[i].box)])
      \o << [do |-> "trim", case |-> c, order |-> o, ids |-> DOMAIN kept] >>
      \o Each([i \in gone |-> Insert([d.rows[i] EXCEPT !.box = Unboxed])])
      \o <<Do("drop empty", c), Sync(c)>>

(* stale_inventory_cleanup_service.force_delete_stale_rows *)
ForcedDeletion(c, o, S) ==
  << [do |-> "release", case |-> c, order |-> o, ids |-> S], [do |-> "delete", ids |-> S],
     Do("drop empty", c), Sync(c) >>

-----------------------------------------------------------------------------
(* Calls.  The guards are those of the pages: which cases a page lists and   *)
(* which buttons it offers, and the checks before the first statement.       *)

Idle == call.op = "none"
Begin(op, c, plan, rescue) ==
  /\ op \in work.calls /\ plan # << >>
  /\ call' = [op |-> op, case |-> c, plan |-> plan, rescue |-> rescue, failed |-> FALSE, base |-> db]
  /\ UNCHANGED <<db, faults, work>>
Room(n) == Cardinality(Used(db)) + n <= MaxRows

(* order_save_guard.save_order_items, from both order editors: new items,    *)
(* changed quantities and deleted items at once.                             *)
OrdersAfter(c, needs) ==
  [o \in OrderIds |->
     IF o \in DOMAIN needs THEN [case |-> c, need |-> needs[o]]
     ELSE IF o \in Items(db, c) THEN NotEntered ELSE db.orders[o]]
SaveOrders(c, needs) ==
  /\ db.stage[c] # "cancelled"
  /\ \A o \in DOMAIN needs \ Items(db, c) :
       db.orders[o] = NotEntered /\ \A i \in Used(db) : db.rows[i].order # o
  /\ OrdersAfter(c, needs) # db.orders
  /\ Begin("orders", c,
       << [do |-> "orders", orders |-> OrdersAfter(c, needs)] >>
         \o When(db.stage[c] \in {"packed", "shipped"}, << [do |-> "stage", case |-> c, stage |-> "packing"] >>)
         \o <<Do("unlink", c), Sync(c)>>, << >>)

(* The same when only `EA per unit` changes, which _database_snapshot does   *)
(* not compare: nothing follows.                                             *)
SaveUnits(c, o, n) ==
  /\ db.stage[c] # "cancelled" /\ o \in Items(db, c) /\ db.orders[o].need # n
  /\ Begin("units", c, << [do |-> "orders", orders |-> [db.orders EXCEPT ![o].need = n]] >>, << >>)

(* The intake page is opened: cleanup_invalid_links.                         *)
OpenIntake(c) ==
  /\ db.stage[c] \in Managed /\ Dangling(db, c) # {}
  /\ Begin("open", c, <<Do("unlink", c), Sync(c)>>, << >>)

(* The intake page and its dialog: any of the item's rows with new           *)
(* quantities, and stock of the shelf; a pick of stock that a kept row has   *)
(* already makes that row larger.                                            *)
SavePicks(c, o, kept, pick) ==
  /\ db.stage[c] \in Managed /\ o \in Items(db, c)
  /\ DOMAIN kept \subseteq RowsFor(db, c, o)
  /\ pick > 0 => DOMAIN kept = {} /\ pick <= db.shelf[KeyOf[o]] /\ Room(1)
  /\ Cardinality(Editable(db, c)) <= 1 /\ Target(db, c) # NoReservation
  /\ Begin("save", c, SavePlan(db, c, o, kept, pick), SaveRescue(db, c, o, kept))

DeleteRows(c, o, S, refused) ==
  LET kept == [i \in RowsFor(db, c, o) \ S |-> db.rows[i].qty]
  IN  /\ db.stage[c] \in Managed /\ o \in Items(db, c) /\ S # {} /\ S \subseteq RowsFor(db, c, o)
      /\ Cardinality(Editable(db, c)) > 1 => refused
      /\ IF refused      \* no country, two reservations, unreadable: before anything is written
         THEN Begin("delete", c, ForcedDeletion(c, o, S), << >>)
         ELSE /\ Target(db, c) # NoReservation
              /\ Begin("delete", c, SavePlan(db, c, o, kept, 0),
                       SaveRescue(db, c, o, kept) \o ForcedDeletion(c, o, S))

DeleteUnlinked(c) ==
  LET S == RowsFor(db, c, NoOrder)
  IN  /\ db.stage[c] \in Managed /\ S # {}
      /\ Begin("purge", c, << [do |-> "delete", ids |-> S], Do("drop empty", c), Sync(c) >>, << >>)

(* The packing page.                                                         *)
Packing(c) == db.stage[c] \in {"packing", "packed"}
Offered(c) == db.boxes[c] \cup ({NextBox(db, c)} \cap Boxes)

AssignPlan_sync_first(c, S, b) ==
  <<Box("box", c, b), Sync(c)>> \o Each([i \in S |-> Put(i, db.rows[i].qty, b)])
AssignPlan(c, S, b) ==
  Each([i \in S |-> Put(i, db.rows[i].qty, b)]) \o <<Box("box", c, b), Sync(c)>>
Assign(c, S, b) ==
  /\ Packing(c) /\ S # {} /\ S \subseteq Linked(db, c) /\ b \in Offered(c)
  /\ Begin("assign", c, AssignPlan(c, S, b), << >>)

AssignPartial(c, i, b, q) ==
  /\ Packing(c) /\ i \in Linked(db, c) /\ db.rows[i].box = Unboxed /\ b \in Offered(c)
  /\ q <= db.rows[i].qty /\ Room(1)
  /\ Begin("partial", c,
       IF q = db.rows[i].qty THEN AssignPlan(c, {i}, b)
       ELSE <<Put(i, q, b), Insert([db.rows[i] EXCEPT !.qty = @ - q]), Box("box", c, b), Sync(c)>>, << >>)

(* assign_repeated_ctns: as many boxes as q goes into the row, the last one  *)
(* with the remainder.                                                       *)
Portions(n, q) == [j \in 1 .. (n + q - 1) \div q |-> Lesser(q, n - (j - 1) * q)]
AssignRepeated(c, i, q) ==
  LET row == db.rows[i]
      parts == Portions(row.qty, q)
      first == NextBox(db, c)
      boxOf(j) == first + j - 1
      put(j) == IF j = 1 THEN Put(i, parts[1], boxOf(1))
                ELSE Insert([row EXCEPT !.qty = parts[j], !.box = boxOf(j)])
  IN  /\ Packing(c) /\ i \in Linked(db, c) /\ row.box = Unboxed /\ Room(Len(parts) - 1)
      /\ \A j \in DOMAIN parts : boxOf(j) \in Boxes \ db.boxes[c]
      /\ Begin("repeat", c, [n \in 1 .. 2 * Len(parts) |-> IF n % 2 = 1 THEN Box("box", c, boxOf(n \div 2 + 1))
                                                          ELSE put(n \div 2)] \o <<Sync(c)>>, << >>)

Unassign(c, S) ==
  /\ Packing(c) /\ S # {} /\ S \subseteq Linked(db, c)
  /\ Begin("unassign", c, Each([i \in S |-> Put(i, db.rows[i].qty, Unboxed)]) \o <<Sync(c)>>, << >>)

ClearBox(c, b) ==
  /\ Packing(c) /\ b \in db.boxes[c]
  /\ Begin("clear", c, <<Box("empty", c, b), Box("unbox", c, b), Sync(c)>>, << >>)

(* rename_box refuses a number that is in use.                               *)
RenameBox(c, b, to) ==
  /\ Packing(c) /\ b \in db.boxes[c] /\ to \notin db.boxes[c]
  /\ Begin("rename", c, << [do |-> "move", case |-> c, to |-> c, boxes |-> [x \in {b} |-> to]] >>, << >>)

CloneBox(c, b) ==
  LET S == {i \in Linked(db, c) : db.rows[i].box = b}
      to == NextBox(db, c)
  IN  /\ Packing(c) /\ b \in db.boxes[c] /\ S # {} /\ to \in Boxes /\ Room(Cardinality(S))
      /\ Begin("clone", c, <<Box("box", c, to)>>
                 \o Each([i \in S |-> Insert([db.rows[i] EXCEPT !.box = to])]) \o <<Sync(c)>>, << >>)

(* save_delivery, and return_domestic_to_packing_complete.                   *)
Deliver(c) ==
  /\ db.stage[c] = "packed"
  /\ Begin("deliver", c, << [do |-> "stage", case |-> c, stage |-> "shipped"] >>, << >>)

ReturnDomestic(c) ==
  LET W == With(db, c, {"partial", "confirmed"})
  IN  /\ db.stage[c] = "shipped" /\ Cardinality(W) = 1
      /\ Total(db.held[The(W)].sold) > 0
      /\ Begin("return", c, << [do |-> "return", id |-> The(W)],
                               [do |-> "stage", case |-> c, stage |-> "packed"] >>, << >>)

(* cancel_case: the reservation first, then the case.                        *)
CancelPlan(c, W) ==
  When(W # {}, << [do |-> "withdraw", id |-> The(W)] >>)
    \o << [do |-> "stage", case |-> c, stage |-> "cancelled"] >>
CancelCase(c) ==
  LET W == With(db, c, {"waiting", "partial"})
  IN  /\ db.stage[c] # "cancelled" /\ Cardinality(W) <= 1
      /\ Begin("cancel", c, CancelPlan(c, W), << >>)

(* merge_case_into: the boxes are numbered on from the target's last.        *)
MergePlan_plain(s, t) ==
  << [do |-> "move", case |-> s, to |-> t, boxes |-> << >>], Sync(t), [do |-> "join", case |-> s, to |-> t] >>
MergePlan(s, t) ==
  LET offset == IF db.boxes[s] = {} \/ db.boxes[t] = {} THEN 0 ELSE Max(db.boxes[t])
      moved == {b \in Boxes : b + offset \in Boxes}
  IN  << [do |-> "move", case |-> s, to |-> t, boxes |-> [b \in moved |-> b + offset]],
         Sync(t), [do |-> "join", case |-> s, to |-> t] >>
MergeCase(s, t) ==
  /\ s # t /\ db.stage[s] # "cancelled" /\ db.stage[t] # "cancelled" /\ Items(db, s) # {}
  /\ \A i \in RowsOf(db, s) : db.rows[i].box # Unboxed =>
       db.rows[i].box + (IF db.boxes[t] = {} THEN 0 ELSE Max(db.boxes[t])) \in Boxes
  /\ \A b \in db.boxes[s] : b + (IF db.boxes[t] = {} THEN 0 ELSE Max(db.boxes[t])) \in Boxes
  /\ Begin("merge", s, MergePlan(s, t), << >>)

(* The registration page (render_wms_confirmation_section): opening it       *)
(* reconciles and repairs, then a button confirms rows or cancels the rest.  *)
Register(c, act) ==
  /\ With(db, c, Live) # {}
  /\ Begin("register", c, <<Do("reconcile", c), Do("audit", c)>> \o act, << >>)

OrdersPage(c) ==
  \/ \E S \in SUBSET work.items : \E needs \in [S -> work.needs] : SaveOrders(c, needs)
  \/ \E o \in work.items, n \in work.needs : SaveUnits(c, o, n)
  \/ \E t \in work.cases : MergeCase(c, t)
  \/ CancelCase(c)
IntakePage(c) ==
  \/ OpenIntake(c) \/ DeleteUnlinked(c)
  \/ \E o \in work.items : \E S \in SUBSET RowsFor(db, c, o) :
       \/ \E kept \in [S -> work.picks], pick \in work.picks \cup {0} : SavePicks(c, o, kept, pick)
       \/ \E refused \in BOOLEAN : DeleteRows(c, o, S, refused)
PackingPage(c) ==
  \/ \E S \in SUBSET Linked(db, c) : Unassign(c, S) \/ \E b \in Boxes : Assign(c, S, b)
  \/ \E i \in Linked(db, c), q \in work.picks :
       AssignRepeated(c, i, q) \/ \E b \in Boxes : AssignPartial(c, i, b, q)
  \/ \E b \in Boxes : ClearBox(c, b) \/ CloneBox(c, b) \/ \E to \in Boxes : RenameBox(c, b, to)
SalesPage(c) ==
  \/ Register(c, << >>) \/ Register(c, <<Do("give up", c)>>)
  \/ \E K \in SUBSET {KeyOf[o] : o \in work.items} \ {{}} : Register(c, << [do |-> "confirm", case |-> c, keys |-> K] >>)
StartCall ==
  Idle /\ \E c \in work.cases :
    \/ OrdersPage(c)
    \/ IntakePage(c)
    \/ PackingPage(c)
    \/ Deliver(c) \/ ReturnDomestic(c)
    \/ SalesPage(c)

-----------------------------------------------------------------------------
(* A call goes on.                                                           *)

Next1 == Head(call.plan)
Rest == Tail(call.plan)
Running == ~Idle /\ call.plan # << >>
Continue(plan) == call' = [call EXCEPT !.plan = plan]

Possible(s) == s.do = "reserve" => CanReserve(db, s.id, s.cart)

(* Statements on export.db run one after the other and nothing else looks in *)
(* between, so all up to the next call into nohtus.db are one step; a crash  *)
(* may still cut it after any of them.                                       *)
Local(s) == s.do \notin Remote \cup {"audit", "repair", "confirm", "give up"}
ToRemote == Max({n \in 0 .. Len(call.plan) : \A m \in 1 .. n : Local(call.plan[m])})
RunTo(n) == LET after[m \in 0 .. Len(call.plan)] ==
                  IF m = 0 THEN db ELSE Exec(after[m - 1], call.plan[m])
            IN  after[n]

RunStatements ==
  /\ Running /\ Local(Next1)
  /\ db' = RunTo(ToRemote) /\ Continue(SubSeq(call.plan, ToRemote + 1, Len(call.plan)))
  /\ UNCHANGED <<faults, work>>

CallRemote ==
  /\ Running /\ Next1.do \in Remote /\ Possible(Next1)
  /\ db' = Exec(db, Next1) /\ Continue(Rest) /\ UNCHANGED <<faults, work>>

(* A call into nohtus.db raises.                                             *)
Fault == faults < MaxFaults /\ faults' = faults + 1
RemoteFails ==
  /\ Running /\ Next1.do \in Remote /\ Fault
  /\ IF Next1.do \in Swallowed THEN Continue(Rest)
     ELSE call' = [call EXCEPT !.plan = call.rescue, !.rescue = << >>, !.failed = TRUE]
  /\ UNCHANGED <<db, work>>

(* repair_missing_saved_inventory: keys of saved rows that no reservation    *)
(* row of the case has; the first order item with one is saved again as it   *)
(* is, at most once more than there were such keys.                          *)
Missing(d, c) ==
  IF Cardinality(With(d, c, Live)) # 1 THEN {}
  ELSE {k \in Keys : /\ MirrorQty(d, Linked(d, c), k) > 0
                     /\ Holds(d.held[The(With(d, c, Live))], k) = 0}
RepairStep(c, left) == [do |-> "repair", case |-> c, left |-> left]

Audit ==
  /\ Running /\ Next1.do = "audit"
  /\ LET c == Next1.case
         n == Cardinality(Missing(db, c))
     IN  Continue(When(n > 0 /\ db.stage[c] # "cancelled", <<RepairStep(c, n + 1)>>) \o Rest)
  /\ UNCHANGED <<db, faults, work>>

(* The repair's own failure is caught by the page, which goes on.            *)
Repair ==
  /\ Running /\ Next1.do = "repair"
  /\ LET c == Next1.case
         S == {o \in Items(db, c) : \E i \in RowsFor(db, c, o) : db.rows[i].key \in Missing(db, c)}
         o == Min(S)
         kept == Unchanged(db, c, o)
     IN  IF S = {} \/ Next1.left = 0 THEN Continue(Rest)
         ELSE call' = [call EXCEPT !.plan = SavePlan(db, c, o, kept, 0)
                                              \o <<RepairStep(c, Next1.left - 1)>> \o Rest,
                                   !.rescue = SaveRescue(db, c, o, kept) \o Rest]
  /\ UNCHANGED <<db, faults, work>>

(* The page's buttons, as the repaired reservation now offers them.          *)
PressButton ==
  /\ Running /\ Next1.do \in {"confirm", "give up"}
  /\ LET W == With(db, Next1.case, Live)
         w == The(W)
         offered == Cardinality(W) = 1 /\ db.held[w].status # "confirmed"
         act == IF Next1.do = "give up" THEN [do |-> "withdraw", id |-> w]
                ELSE [do |-> "sell", id |-> w, keys |-> Next1.keys]
     IN  Continue(When(offered /\ (Next1.do = "confirm" =>
                        \A k \in Next1.keys : db.held[w].wait[k] > 0), <<act>>))
  /\ UNCHANGED <<db, faults, work>>

(* Ids are compacted once no plan names them: only their being different matters. *)
Before(d, i, j) ==
  LET rank(r) == <<r.case, r.key, r.box, r.qty>>
      a == rank(d.rows[i])
      b == rank(d.rows[j])
  IN  \/ a = b /\ i < j
      \/ \E n \in DOMAIN a : a[n] < b[n] /\ \A m \in 1 .. n - 1 : a[m] = b[m]
Compacted(d) ==
  LET rank == [i \in Used(d) |-> Cardinality({j \in Used(d) : Before(d, j, i)})]
      at(n) == {i \in Used(d) : rank[i] = n - 1}
  IN  [d EXCEPT !.rows = [n \in RowIds |-> IF at(n) = {} THEN NoRow ELSE d.rows[The(at(n))]]]

Finish == ~Idle /\ call.plan = << >> /\ db' = Compacted(db) /\ call' = NoCall /\ UNCHANGED <<faults, work>>
(* The process ends, or a statement on export.db raises.                     *)
Crash ==
  /\ Running /\ call' = NoCall /\ Fault /\ UNCHANGED work
  /\ \E n \in 0 .. ToRemote : n < Len(call.plan) /\ db' = Compacted(RunTo(n))

Next ==
  \/ StartCall
  \/ RunStatements \/ CallRemote \/ RemoteFails \/ Audit \/ Repair \/ PressButton \/ Finish \/ Crash

Spec == Init /\ [][Next]_vars

-----------------------------------------------------------------------------
(* Properties.                                                               *)

Ends(ops) == call.op \in ops /\ call.plan = << >> /\ call' = NoCall
StageTrue(d, c) ==
  CASE d.stage[c] \in Managed -> d.stage[c] = ComputedStage(d, c)
    [] d.stage[c] = "shipped" -> ComputedStage(d, c) = "packed"
    [] OTHER -> TRUE
Syncing == {"orders", "open", "save", "delete", "purge", "assign", "partial", "repeat",
            "unassign", "clear", "clone"}

(* The stage by which a page finds its cases follows from the rows: a call   *)
(* that ends, in its except branch too, leaves every stage true that was     *)
(* true before, and its own case's whatever a crash or a change of units     *)
(* alone had left.  Not promised by a change of units alone, nor when orders *)
(* join a delivered case.                                                    *)
StagesFollowRows ==
  [][Ends(Ops \ {"units"}) =>
       \A c \in Cases :
         \/ c = call.case /\ call.op \in Syncing
         \/ StageTrue(call.base, c)
         => \/ StageTrue(db', c)
            \/ call.op = "merge" /\ db.stage[c] = "shipped"]_vars

(* Reservations, releases, sales and returns only move units between the     *)
(* shelf, the waiting and the sold rows, whatever stops or fails in between: *)
(* no unit is invented nor reserved twice, and none is lost but those a       *)
(* release takes from a staging location.                                    *)
UnitsOf(d, k) ==
  d.shelf[k] + SumFunctionOnSet([w \in Reservations |-> Holds(d.held[w], k)], Reservations)
UnitsKept ==
  \A k \in Keys : /\ db.shelf[k] >= 0
                  /\ UnitsOf(db, k) <= work.shelf
                  /\ k \notin StagedKeys => UnitsOf(db, k) = work.shelf

(* Packing, delivery, merging and everything else that is not about goods    *)
(* leaves each key, and each order item, the goods it had; only copying a    *)
(* box adds goods.  The CTN of a boxed row is one the case still lists, and  *)
(* goods of different CTNs come together only where a user packs them.       *)
Goods(d, k) == QtyOf(d, {i \in Used(d) : d.rows[i].key = k})
GoodsOf(d, o) == QtyOf(d, {i \in Used(d) : d.rows[i].order = o})
BoxesListed(d) ==
  \A i \in Used(d) : d.rows[i].box # Unboxed => d.rows[i].box \in d.boxes[d.rows[i].case]
Ctn(d, i) == <<d.rows[i].case, d.rows[i].box>>
PackingKeepsGoods ==
  [][Ends(Ops) =>
       /\ call.op \notin {"save", "delete", "purge", "clone", "register"} =>
            /\ \A k \in Keys : Goods(db', k) = Goods(call.base, k)
            /\ \A o \in OrderIds : db.orders[o].case # NoCase => GoodsOf(db', o) = GoodsOf(call.base, o)
       /\ BoxesListed(call.base) =>
            /\ BoxesListed(db')
            /\ call.op \in {"merge", "rename"} => \A i, j \in Used(db) :
                 Ctn(db, i) = Ctn(db, j) /\ db.rows[i].box # Unboxed => Ctn(call.base, i) = Ctn(call.base, j)]_vars

(* When the reservation refuses a pick or raises, the goods of every order   *)
(* item and all reservations are as they were before the save.               *)
FailedSaveRestores ==
  [][Ends({"save"}) /\ call.failed =>
       /\ \A o \in OrderIds : db.orders[o].case # NoCase => GoodsOf(db', o) = GoodsOf(call.base, o)
       /\ db'.held = call.base.held]_vars

(* After picks are saved, with more goods or fewer, the case's reservation    *)
(* holds exactly what its saved rows say, key by key, if it did before and   *)
(* was not partly sold, and on the first save of a case.                     *)
Mirrored(d, c, statuses) ==
  LET W == With(d, c, statuses)
      held(k) == IF W = {} THEN 0 ELSE Holds(d.held[The(W)], k)
  IN  /\ Cardinality(W) <= 1
      /\ \A k \in Keys : held(k) = MirrorQty(d, Linked(d, c), k)
SavesReserveMirror ==
  [][/\ Ends({"save"}) /\ ~call.failed
     /\ With(call.base, call.case, {"partial"}) = {}
     /\ Mirrored(call.base, call.case, Live) \/ With(call.base, call.case, Live) = {}
     => Mirrored(db', call.case, Live)]_vars

(* Whatever crashes, edits and merges left behind, once the registration     *)
(* page has opened, and repaired what it found missing, and sold or given up *)
(* what the user chose, the case's one reservation waits for no more of a    *)
(* key than the case's rows still need beyond what was sold.                 *)
Reconciled(d, c) ==
  LET W == With(d, c, Live)
  IN  Cardinality(W) = 1 /\ d.stage[c] # "cancelled" =>
        \A k \in Keys : d.held[The(W)].wait[k]
                          <= AtLeast0(MirrorQty(d, RowsOf(d, c), k) - d.held[The(W)].sold[k])
RegistrationReconciles ==
  call.op = "register" /\ call.plan = << >> /\ ~call.failed => Reconciled(db, call.case)
=============================================================================
