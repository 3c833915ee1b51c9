---------------------------- MODULE MCStockPages ----------------------------
(* The pages that relabel, compare and use up stock, for TLC.  A behaviour   *)
(* is of one page: they share the table inventory, but the calls of one are  *)
(* to another only the changes of stock that each allows for by itself.      *)
EXTENDS PackageMaterials, TLC

CONSTANTS
  box, label, tray, kit, p1, p2,           \* the materials page's
  A, B, m1, m2, stray, fee, Empty, Depot,  \* the comparison's
  Products, Staging                        \* the relabelling's

-----------------------------------------------------------------------------
(* Materials: a kit takes two boxes and half a label; one box has no expiry. *)
Wares == << box, kit, label, tray >>
Marked == [n \in {box, label} |-> [material |-> TRUE, type |-> p1]]
            @@ [n \in {tray, kit} |-> [material |-> FALSE, type |-> NoType]]
KitBill == kit :> (box :> 2 @@ label :> 1)
Batch(n, e, c) == [product |-> n, expiry |-> e, company |-> c]
Batches == << Batch(box, NoDate, 1), Batch(box, 2, 1), Batch(box, 1, 2), Batch(label, 1, 1) >>
OneEach == << 1, 1, 1, 1 >>
MaterialChanges == {<<3, 0>>, <<4, 0>>}
MasterFiles == {{box, label, kit}, {box, tray, kit}}
ASSUME MaterialsOK

-----------------------------------------------------------------------------
(* Relabelling.                                                              *)
VARIABLES row, nextId, held, out, mapping, file, relabels, calls
relabelled == <<row, nextId, held, out, mapping, file, relabels, calls>>

Work == {{"receive", "reserve", "close", "edit"}, {"receive", "file", "edit", "remap"},
         {"receive", "reserve", "repair", "file"},
         {"receive", "move", "count", "rename"}, {"receive", "outbound", "edit"}}
Swap == {<<m, n>> \in Products \X Products : m # n}

R == INSTANCE StockRows WITH
       ErpNames <- {"e", "f"}, Lots <- {"l"}, Shelves <- {"s"}, Renames <- Swap, CallSets <- Work,
       Imports <- BOOLEAN, Amounts <- {1}, Counted <- {0},
       MaxRows <- 4, MaxSlots <- 2, MaxEdits <- 2, MaxUnits <- 2, edits <- relabels
ASSUME R!RowsOK

-----------------------------------------------------------------------------
(* The comparison: m1 goes by two names in A's file, one of which a later     *)
(* product claims too.                                                       *)
VARIABLES units, ignored, entryId, visit, runs
compared == <<units, ignored, entryId, visit, runs>>

Claims == << [standard |-> m1, names |-> (A :> {m1, "pa", "pb"} @@ B :> {m1})],
             [standard |-> m2, names |-> (A :> {m2, "pb"} @@ B :> {m2})] >>
Line(n, amount) == [name |-> n, qty |-> amount]
Stored(c, goods, expiry, depot) == [company |-> c, product |-> goods, expiry |-> expiry, depot |-> depot]
Shelved == << Stored(A, m1, "e1", FALSE), Stored(A, m1, "e2", FALSE), Stored(A, m1, "e1", TRUE), Stored(B, m1, "e1", FALSE) >>
ErpA == << Line("pa", 2), Line("pb", 1), Line(stray, 1), Line(fee, 3), Line(stray, Empty), Line(Empty, 7) >>
ErpB == << Line(m1, 2), Line(m1, -1), Line(Empty, 1) >>
DepotFile == << [name |-> "pa", expiry |-> "e1", qty |-> 1], [name |-> Empty, expiry |-> "e2", qty |-> 1],
             [name |-> stray, expiry |-> "e1", qty |-> 1] >>

C == INSTANCE StockCompare WITH Blank <- Empty, Master <- Claims,
       Companies <- {A, B}, Keeper <- A, Costs <- {fee}, Rows <- Shelved,
       Uploads <- { [erp |-> (A :> ErpA @@ B :> ErpB), depot |-> <<>>], [erp |-> <<>>, depot |-> DepotFile] },
       InitialStock <- << 1, 2, 1, 1 >>, Changes <- {<<2, 0>>}, Reasons <- {"r", "t"},
       MaxIds <- 2, MaxRuns <- 2,
       stock <- units, nextId <- entryId, session <- visit
ASSUME C!CompareOK

-----------------------------------------------------------------------------
VARIABLE page  \* the page a behaviour is of
Pages == {"relabel", "compare", "produce", "materials"}

PagesInit ==
  /\ page \in Pages
  /\ Init /\ R!Init /\ C!Init
  /\ page # "relabel" => calls = CHOOSE w \in Work : TRUE
PagesNext ==
  \/ page = "relabel" /\ R!Next /\ UNCHANGED <<vars, compared, page>>
  \/ page = "compare" /\ C!Next /\ UNCHANGED <<vars, relabelled, page>>
  \/ /\ page = "produce"
     /\ \/ \E s \in Sessions : Production(s) \/ BillPage(s)
        \/ \E c \in MaterialChanges : ChangeStock(c)
     /\ UNCHANGED <<relabelled, compared, page>>
  \/ /\ page = "materials"
     /\ \E s \in Sessions : BillPage(s) \/ ListPages(s)
     /\ UNCHANGED <<relabelled, compared, page>>
PagesSpec == PagesInit /\ [][PagesNext]_<<vars, relabelled, compared, page>>

(* An edit of labels or a renaming leaves units and links alone (StockRows).  *)
RelabelKeepsPlaces == R!RelabelKeepsPlaces
(* An import of the file that was downloaded restores the stock (StockRows).  *)
ImportRestores == R!ImportRestores
(* What a file counts is in the result of a comparison, and the sheet for    *)
(* the count adds up (StockCompare).                                         *)
AmountsAddUp == C!AmountsAddUp
(* The list of ignored differences changes by hand only (StockCompare).      *)
IgnoredByHand == C!IgnoredByHand

\* Standard names, staging places and sessions do not differ from one another.
Alike == Permutations(Products) \cup Permutations(Staging) \cup Permutations(Sessions)
=============================================================================
