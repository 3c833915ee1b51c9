------------------------- MODULE ExportWaitingProofs -------------------------
(****************************************************************************)
(* What holds of ExportWaiting for every set of keys, locations, orders and  *)
(* carts.                                                                    *)
(****************************************************************************)
EXTENDS ExportWaiting, DataFacts

-----------------------------------------------------------------------------
(* Sequences of rows.                                                        *)

(* Updating a row in place leaves a table of rows.                           *)
LEMMA UpdateRow ==
  ASSUME NEW s \in Seq(Item), NEW n \in DOMAIN s, NEW it \in Item
  PROVE  /\ [s EXCEPT ![n] = it] \in Seq(Item)
         /\ Len([s EXCEPT ![n] = it]) = Len(s)
  BY ExceptSeq, LenProperties

-----------------------------------------------------------------------------
(* Stock.                                                                    *)

(* Moving stock a row holds to another row leaves no row below zero.         *)
LEMMA MoveQtyType ==
  ASSUME NEW stock \in [Rows -> Nat], NEW from \in Rows, NEW to \in Rows, NEW q \in Nat,
         q <= stock[from]
  PROVE  MoveQty(stock, from, to, q) \in [Rows -> Nat]
<1> DEFINE less == [stock EXCEPT ![from] = @ - q]
<1>1. stock[from] \in Nat /\ stock[from] - q \in Nat
  OBVIOUS
<1>2. less \in [Rows -> Nat]
  BY <1>1
<1> HIDE DEF less
<1>3. [less EXCEPT ![to] = @ + q] \in [Rows -> Nat]
  BY <1>2
<1> QED BY <1>3 DEF MoveQty, less

(* The row a source is resolved to is a row of the same key.                 *)
LEMMA ResolveType ==
  ASSUME NEW r \in Rows, NEW hint \in Locs, NEW q
  PROVE  Resolve(r, hint, q) \in Locs \cup {NoLoc}
<1>1. r[2] \in Locs
  BY DEF Rows
<1>2. ASSUME NEW E, E \subseteq Shelves, \E l \in E : E = {l}
      PROVE  (CHOOSE l \in E : TRUE) \in Locs
  BY <1>2 DEF Locs
<1> DEFINE enough == {l \in Shelves : inv[<<r[1], l>>] > 0 /\ inv[<<r[1], l>>] >= q}
<1>3. (\E l \in enough : enough = {l}) => (CHOOSE l \in enough : TRUE) \in Locs
  BY <1>2
<1> HIDE DEF enough
<1> QED BY <1>1, <1>3 DEF Resolve, enough

(* Shelf stock is taken only as far as the row holds it.                     *)
LEMMA StagedType ==
  ASSUME inv \in [Rows -> Nat], NEW k \in Keys, NEW l, NEW q \in Nat, NEW to \in Staging,
         l \in Locs \cup {NoLoc}, CanTake(k, l, q)
  PROVE  /\ l \in Locs
         /\ Staged(k, l, q, to) \in [Rows -> Nat]
         /\ StagedLoc(l, to) \in Staging
<1>1. l \in Locs
  BY DEF CanTake
<1>2. CASE l \in Staging
  BY <1>1, <1>2 DEF Staged, StagedLoc
<1>3. CASE l \notin Staging
  <2>1. <<k, l>> \in Rows /\ <<k, to>> \in Rows
    BY <1>1 DEF Rows, Locs
  <2>2. q <= inv[<<k, l>>]
    BY <1>3, <2>1 DEF CanTake
  <2>3. MoveQty(inv, <<k, l>>, <<k, to>>, q) \in [Rows -> Nat]
    BY <2>1, <2>2, MoveQtyType
  <2> QED BY <1>1, <1>3, <2>3 DEF Staged, StagedLoc
<1> QED BY <1>2, <1>3

(* A reservation is given back from staging only as far as staging holds it. *)
LEMMA RestoredType ==
  ASSUME inv \in [Rows -> Nat], NEW it \in Item, NEW q \in Nat, CanRestore(it, q)
  PROVE  Restored(it, q) \in [Rows -> Nat] /\ RestoredLoc(it, q) \in Locs
<1>1. /\ RowOf(it) \in Rows /\ StagedAt(it) \in Rows /\ <<it.key, it.source_location>> \in Rows
      /\ it.source_location \in Locs
  BY DEF Item, Rows, Locs, RowOf, StagedAt
<1>2. CASE InStaging(it, q)
  <2>1. MoveQty(inv, StagedAt(it), <<it.key, it.source_location>>, q) \in [Rows -> Nat]
    BY <1>1, <1>2, MoveQtyType DEF InStaging
  <2> QED BY <1>1, <1>2, <2>1 DEF Restored, RestoredLoc
<1>3. CASE ~InStaging(it, q)
  <2>1. Fallback(it, q) \in Locs \cup {NoLoc}
    BY <1>1, ResolveType DEF Fallback
  <2>2. Fallback(it, q) # NoLoc
    BY <1>3 DEF CanRestore
  <2> QED BY <1>3, <2>1, <2>2 DEF Restored, RestoredLoc
<1> QED BY <1>2, <1>3

-----------------------------------------------------------------------------
(* Carts.                                                                    *)

(* A submitted cart is a sequence of entries and asks for naturals. *)
LEMMA WantedType ==
  ASSUME NEW cart \in Submitted
  PROVE  Wanted(cart) \in [Rows -> Nat] /\ cart \in Seq(CartEntry)
<1>1. cart \in Seq(CartEntry)
  BY ConstantsOK, EmptySeq DEF Submitted
<1>2. \A i \in DOMAIN cart : cart[i].qty \in Nat
  <2> TAKE i \in DOMAIN cart
  <2>1. cart[i] \in CartEntry
    BY <1>1, ElementOfSeq, LenProperties
  <2> QED BY <2>1 DEF CartEntry
<1>3. ASSUME NEW S, S \subseteq DOMAIN cart, S # {}
      PROVE  cart[CHOOSE i \in S : TRUE].qty \in Nat
  BY <1>2, <1>3
<1>4. ASSUME NEW r \in Rows
      PROVE  (LET S == {i \in DOMAIN cart : cart[i].row = r}
              IN  IF S = {} THEN 0 ELSE cart[CHOOSE i \in S : TRUE].qty) \in Nat
  <2> DEFINE S == {i \in DOMAIN cart : cart[i].row = r}
  <2>1. S # {} => cart[CHOOSE i \in S : TRUE].qty \in Nat
    <3>1. S \subseteq DOMAIN cart
      OBVIOUS
    <3> HIDE DEF S
    <3> QED BY <1>3, <3>1
  <2> HIDE DEF S
  <2>2. (IF S = {} THEN 0 ELSE cart[CHOOSE i \in S : TRUE].qty) \in Nat
    BY <2>1
  <2> QED BY <2>2 DEF S
<1> QED BY <1>1, <1>4 DEF Wanted

(* Every hint is a location. *)
LEMMA HintsType ==
  ASSUME items \in Seq(Item), NEW o \in Orders, NEW cart \in Submitted
  PROVE  Hints(o, cart) \in [Rows -> Locs]
<1>1. \A i \in DOMAIN items : items[i].source_location \in Locs
  <2> TAKE i \in DOMAIN items
  <2>1. items[i] \in Item
    BY ElementOfSeq, LenProperties
  <2> QED BY <2>1 DEF Item, Locs
<1>2. ASSUME NEW r \in Rows PROVE CartHint(o, r) \in Locs
  <2> DEFINE S == {i \in DOMAIN items : items[i].order = o /\ RowOf(items[i]) = r}
  <2>1. S # {} => Min(S) \in DOMAIN items
    <3>1. S \subseteq Nat /\ S \subseteq DOMAIN items
      BY LenProperties
    <3> HIDE DEF S
    <3> QED BY <3>1, MinIn
  <2> HIDE DEF S
  <2>2. (IF S = {} THEN r[2] ELSE items[Min(S)].source_location) \in Locs
    BY <1>1, <2>1 DEF Rows
  <2> QED BY <2>2 DEF CartHint, S
<1>3. ASSUME NEW r \in Rows
      PROVE  Resolve(r, CartHint(o, r), Wanted(cart)[r]) \in Locs \cup {NoLoc}
  BY <1>2, ResolveType
<1> QED BY <1>2, <1>3 DEF Hints

-----------------------------------------------------------------------------
(* Type correctness.                                                         *)

(* No transaction. *)
LEMMA NoTxType == NoTx \in Tx
<1>1. [r \in Rows |-> 0] \in [Rows -> Nat] /\ [r \in Rows |-> r[2]] \in [Rows -> Locs]
  BY DEF Rows
<1>2. << >> \in Seq(Item)
  BY EmptySeq
<1> QED BY <1>1, <1>2 DEF NoTx, Tx, Phases, Submitted

(* The initial state is typed. *)
LEMMA InitType == Init => Typed
<1> SUFFICES ASSUME Init PROVE Typed
  OBVIOUS
<1>1. InitialStock \in [Rows -> Nat] /\ << >> \in Seq(Item) /\ [o \in Orders |-> "none"] \in [Orders -> Statuses]
  BY ConstantsOK, EmptySeq DEF Statuses
<1> QED BY <1>1, NoTxType DEF Init, Typed, Databases

(* An exception restores typed tables, a commit publishes them. *)
LEMMA RollbackType == ASSUME Typed, Rollback PROVE Typed'
  BY NoTxType DEF Typed, Databases, Rollback

(* A commit publishes typed tables. *)
LEMMA CommitType ==
  ASSUME Typed, NEW st \in [Orders -> Statuses], Commit(st)
  PROVE  Typed'
<1>1. [inv |-> inv, items |-> items, status |-> st] \in Databases
  BY DEF Typed, Databases
<1> QED BY <1>1, NoTxType DEF Typed, Commit

(* The row at the cursor. *)
LEMMA HereType ==
  ASSUME Typed, InLoop
  PROVE  /\ Here \in Item /\ tx.at \in DOMAIN items
         /\ RowOf(Here) \in Rows /\ StagedAt(Here) \in Rows
         /\ <<Here.key, Here.source_location>> \in Rows
<1>1. Here \in Item /\ tx.at \in DOMAIN items
  BY ElementOfSeq, LenProperties DEF Typed, InLoop, Here
<1> QED BY <1>1 DEF Item, Rows, Locs, RowOf, StagedAt

(* The steps that only move the cursor. *)
LEMMA AdvancedType == ASSUME tx \in Tx PROVE Advanced \in Tx
<1>1. tx.at \in Nat \ {0}
  BY DEF Tx
<1>2. tx.at + 1 \in Nat \ {0}
  BY <1>1
<1> QED BY <1>2 DEF Advanced, Tx

(* A step that moves only the cursor keeps the types. *)
LEMMA CursorType ==
  ASSUME Typed, tx' = Advanced, UNCHANGED <<inv, items, status, committed>>
  PROVE  Typed'
  BY AdvancedType DEF Typed

(* Opening a transaction. *)
LEMMA SavingType ==
  ASSUME Typed, NEW pc \in Phases, NEW o \in Orders, NEW cart \in Submitted, NEW loc \in Staging
  PROVE  Saving(pc, o, cart, loc) \in Tx
<1>1. Wanted(cart) \in [Rows -> Nat] /\ Hints(o, cart) \in [Rows -> Locs]
  BY WantedType, HintsType DEF Typed
<1> DEFINE A == Orders \cup {NoOrder}
           B == Submitted
           W == [Rows -> Nat]
           H == [Rows -> Locs]
           L == Staging \cup {NoLoc}
           C == Customers \cup {Unsold}
           S == SUBSET Nat
           R == Seq(Item)
           N == Nat \ {0}
<1>2. Tx = [pc : Phases, order : A, into : A, at : N, cart : B, want : W, hint : H,
            loc : L, selected : S, customer : C, rows : R]
  BY DEF Tx
<1>3. o \in A /\ cart \in B /\ loc \in L /\ Wanted(cart) \in W /\ Hints(o, cart) \in H
  BY <1>1
<1> HIDE DEF A, B, W, H, L, C, S, R, N
<1> QED BY <1>2, <1>3, NoTxType DEF Saving

(* Every call opens a typed transaction. *)
LEMMA BeginType ==
  ASSUME Typed
  PROVE  /\ \A o \in Orders, cart \in Submitted, loc \in Staging :
              BeginRegister(o, cart, loc) \/ BeginEdit(o, cart, loc) => Typed'
         /\ \A o \in Orders : BeginCancel(o) \/ BeginReturn(o) \/ BeginRepair(o) => Typed'
         /\ \A o \in Orders, S \in SUBSET DOMAIN items, c \in Customers : BeginConfirm(o, S, c) => Typed'
         /\ \A s, t \in Orders : BeginMerge(s, t) => Typed'
<1>1. ASSUME tx' \in Tx, UNCHANGED <<inv, items, status, committed>> PROVE Typed'
  BY <1>1 DEF Typed
<1>2. ASSUME NEW o \in Orders, NEW cart \in Submitted, NEW loc \in Staging, BeginRegister(o, cart, loc)
      PROVE  Typed'
  <2>1. tx' \in Tx
    BY <1>2, SavingType DEF BeginRegister, Phases
  <2>2. [status EXCEPT ![o] = "waiting"] \in [Orders -> Statuses]
    BY DEF Typed, Statuses, Live
  <2> QED BY <1>2, <2>1, <2>2 DEF BeginRegister, Typed
<1>3. ASSUME NEW o \in Orders, NEW cart \in Submitted, NEW loc \in Staging, BeginEdit(o, cart, loc)
      PROVE  Typed'
  BY <1>1, <1>3, SavingType DEF BeginEdit, Phases
<1>4. ASSUME NEW o \in Orders, BeginCancel(o) \/ BeginReturn(o) \/ BeginRepair(o) PROVE Typed'
  <2>1. \A pc \in Phases : [NoTx EXCEPT !.pc = pc, !.order = o] \in Tx
    BY NoTxType DEF Tx
  <2> QED BY <1>1, <1>4, <2>1 DEF BeginCancel, BeginReturn, BeginRepair, Phases
<1>5. ASSUME NEW o \in Orders, NEW S \in SUBSET DOMAIN items, NEW c \in Customers, BeginConfirm(o, S, c)
      PROVE  Typed'
  <2>1. S \in SUBSET Nat
    BY LenProperties DEF Typed
  <2>2. [NoTx EXCEPT !.pc = "confirm", !.order = o, !.selected = S, !.customer = c] \in Tx
    BY <2>1, NoTxType DEF Tx, Phases
  <2> QED BY <1>1, <1>5, <2>2 DEF BeginConfirm
<1>6. ASSUME NEW s \in Orders, NEW t \in Orders, BeginMerge(s, t) PROVE Typed'
  <2>1. [NoTx EXCEPT !.pc = "merge", !.order = s, !.into = t] \in Tx
    BY NoTxType DEF Tx, Phases
  <2> QED BY <1>1, <1>6, <2>1 DEF BeginMerge
<1> QED BY <1>2, <1>3, <1>4, <1>5, <1>6

(* The loops over the rows of an order that only give back, sell or restock. *)
LEMMA RowStepType ==
  ASSUME Typed, CancelRow \/ ConfirmRow \/ ReturnRow
  PROVE  Typed'
<1>1. InLoop
  BY DEF CancelRow, ConfirmRow, ReturnRow, At
<1>2. Here \in Item /\ tx.at \in DOMAIN items /\ StagedAt(Here) \in Rows
  BY <1>1, HereType
<1>3. Here.qty \in Nat
  BY <1>2 DEF Item
<1>4. \A c \in Customers \cup {Unsold} : [items EXCEPT ![tx.at].customer = c] \in Seq(Item)
  <2> TAKE c \in Customers \cup {Unsold}
  <2>1. [Here EXCEPT !.customer = c] \in Item
    BY <1>2 DEF Item
  <2>2. [items EXCEPT ![tx.at].customer = c] = [items EXCEPT ![tx.at] = [Here EXCEPT !.customer = c]]
    BY DEF Here
  <2> QED BY <1>2, <2>1, <2>2, UpdateRow DEF Typed
<1>5. CASE CancelRow
  <2>1. inv' \in [Rows -> Nat]
    BY <1>2, <1>3, <1>5, RestoredType DEF CancelRow, Typed
  <2> QED BY <1>5, <2>1, AdvancedType DEF CancelRow, Typed
<1>6. CASE ConfirmRow
  <2>1. inv' \in [Rows -> Nat]
    BY <1>2, <1>3, <1>6 DEF ConfirmRow, InStaging, Typed
  <2>2. items' \in Seq(Item)
    BY <1>4, <1>6 DEF ConfirmRow, Typed, Tx
  <2> QED BY <1>6, <2>1, <2>2, AdvancedType DEF ConfirmRow, Typed
<1>7. CASE ReturnRow
  <2>1. inv' \in [Rows -> Nat]
    BY <1>2, <1>3, <1>7 DEF ReturnRow, Typed
  <2>2. items' \in Seq(Item)
    BY <1>4, <1>7 DEF ReturnRow
  <2> QED BY <1>7, <2>1, <2>2, AdvancedType DEF ReturnRow, Typed
<1> QED BY <1>5, <1>6, <1>7

(* What a loop remembers: where a stock row was given back to, what is still *)
(* asked for, the rows grouped so far.                                       *)
LEMMA RememberType ==
  ASSUME tx \in Tx
  PROVE  /\ \A r \in Rows, l \in Locs : [tx EXCEPT !.hint[r] = l] \in Tx
         /\ \A r, s \in Rows, l \in Locs, n \in Nat, at \in Nat \ {0} :
              [tx EXCEPT !.want[s] = n, !.at = at, !.hint[r] = l] \in Tx
         /\ \A rows \in Seq(Item) : [tx EXCEPT !.rows = rows] \in Tx
         /\ \A pc \in Phases, at \in Nat \ {0} : [tx EXCEPT !.pc = pc, !.at = at] \in Tx
<1> DEFINE A == Orders \cup {NoOrder}
           B == Submitted
           W == [Rows -> Nat]
           H == [Rows -> Locs]
           L == Staging \cup {NoLoc}
           C == Customers \cup {Unsold}
           S == SUBSET Nat
           R == Seq(Item)
           N == Nat \ {0}
<1>1. Tx = [pc : Phases, order : A, into : A, at : N, cart : B, want : W, hint : H,
            loc : L, selected : S, customer : C, rows : R]
  BY DEF Tx
<1>2. /\ \A r \in Rows, l \in Locs : [tx.hint EXCEPT ![r] = l] \in H
      /\ \A s \in Rows, n \in Nat : [tx.want EXCEPT ![s] = n] \in W
  BY DEF Tx
<1>3. \A rows \in Seq(Item) : rows \in R
  OBVIOUS
<1>4. \A at \in Nat \ {0} : at \in N
  OBVIOUS
<1> HIDE DEF A, B, W, H, L, C, S, R, N
<1>5. \A h \in H : [tx EXCEPT !.hint = h] \in Tx
  BY <1>1
<1>6. \A h \in H, w \in W, at \in N : [tx EXCEPT !.want = w, !.at = at, !.hint = h] \in Tx
  BY <1>1
<1>7. \A rows \in R : [tx EXCEPT !.rows = rows] \in Tx
  BY <1>1
<1>8. \A pc \in Phases, at \in N : [tx EXCEPT !.pc = pc, !.at = at] \in Tx
  BY <1>1
<1>9. \A r \in Rows, l \in Locs : [tx EXCEPT !.hint[r] = l] \in Tx
  BY <1>2, <1>5
<1>10. \A r, s \in Rows, l \in Locs, n \in Nat, at \in Nat \ {0} :
         [tx EXCEPT !.want[s] = n, !.at = at, !.hint[r] = l] \in Tx
  <2> TAKE r, s \in Rows, l \in Locs, n \in Nat, at \in Nat \ {0}
  <2>1. [tx.hint EXCEPT ![r] = l] \in H /\ [tx.want EXCEPT ![s] = n] \in W /\ at \in N
    BY <1>2, <1>4
  <2>2. [tx EXCEPT !.want = [tx.want EXCEPT ![s] = n], !.at = at,
                   !.hint = [tx.hint EXCEPT ![r] = l]] \in Tx
    BY <1>6, <2>1
  <2> QED BY <2>2
<1> QED BY <1>3, <1>4, <1>7, <1>8, <1>9, <1>10

(* Giving back a row of a waiting order keeps the types. *)
LEMMA UnstageType ==
  ASSUME Typed, Unstage \/ DropOrphan
  PROVE  Typed'
<1>1. InLoop
  BY DEF Unstage, DropOrphan, At
<1>2. Here \in Item /\ tx.at \in DOMAIN items /\ RowOf(Here) \in Rows
  BY <1>1, HereType
<1>3. RemoveAt(items, tx.at) \in Seq(Item)
  BY <1>2, RemoveAtFacts DEF Typed
<1>4. CASE Unstage
  <2>1. Restored(Here, Here.qty) \in [Rows -> Nat] /\ RestoredLoc(Here, Here.qty) \in Locs
    BY <1>2, <1>4, RestoredType DEF Unstage, Typed, Item
  <2>2. [tx EXCEPT !.hint[RowOf(Here)] = RestoredLoc(Here, Here.qty)] \in Tx
    BY <1>2, <2>1, RememberType DEF Typed
  <2> QED BY <1>3, <1>4, <2>1, <2>2 DEF Unstage, Typed
<1>5. CASE DropOrphan
  BY <1>3, <1>5 DEF DropOrphan, Typed
<1> QED BY <1>4, <1>5

(* So does leaving part of a row, or none of it. *)
LEMMA LeaveQtyType ==
  ASSUME Typed, InLoop, NEW r \in Rows, r[1] = Here.key, NEW l \in Locs,
         NEW q \in Nat, q <= tx.want[r], LeaveQty(q, r, l)
  PROVE  items' \in Seq(Item) /\ tx' \in Tx
<1>1. Here \in Item /\ tx.at \in DOMAIN items /\ RowOf(Here) \in Rows
  BY HereType
<1>2. RemoveAt(items, tx.at) \in Seq(Item)
  BY <1>1, RemoveAtFacts DEF Typed
<1>3. ASSUME q > 0
      PROVE  [items EXCEPT ![tx.at].qty = q, ![tx.at].source = r[2]] \in Seq(Item)
  <2> DEFINE it == [Here EXCEPT !.qty = q, !.source = r[2]]
  <2>1. it \in Item
    <3>1. r[2] \in Locs /\ q \in Nat \ {0}
      BY <1>3 DEF Rows
    <3> QED BY <1>1, <3>1 DEF Item
  <2>2. [items EXCEPT ![tx.at].qty = q, ![tx.at].source = r[2]] = [items EXCEPT ![tx.at] = it]
    BY <1>1 DEF Here, Typed
  <2> HIDE DEF it
  <2> QED BY <1>1, <2>1, <2>2, UpdateRow DEF Typed
<1>4. items' \in Seq(Item)
  BY <1>2, <1>3 DEF LeaveQty
<1>5. tx' \in Tx
  <2> DEFINE at == IF q > 0 THEN tx.at + 1 ELSE tx.at
             h == IF q < Here.qty THEN l ELSE tx.hint[RowOf(Here)]
             w == tx.want[r] - q
  <2>1. at \in Nat \ {0} /\ h \in Locs /\ w \in Nat
    BY <1>1 DEF Typed, Tx
  <2>2. tx' = [tx EXCEPT !.want[r] = w, !.at = at, !.hint[RowOf(Here)] = h]
    BY DEF LeaveQty
  <2> HIDE DEF at, h, w
  <2>3. [tx EXCEPT !.want[r] = w, !.at = at, !.hint[RowOf(Here)] = h] \in Tx
    BY <1>1, <2>1, RememberType DEF Typed
  <2> QED BY <2>2, <2>3
<1> QED BY <1>4, <1>5

(* A sold row stays tied to its stock row or is tied to a cart entry's of    *)
(* the same key.                                                             *)
LEMMA MatchedRowType ==
  ASSUME Typed, InLoop
  PROVE  MatchedRow(Here) \in Rows /\ MatchedRow(Here)[1] = Here.key
<1>1. Here \in Item /\ RowOf(Here) \in Rows
  BY HereType
<1> DEFINE S == {i \in DOMAIN tx.cart : /\ tx.cart[i].row[1] = Here.key
                                        /\ tx.want[tx.cart[i].row] > 0}
<1>2. tx.cart \in Seq(CartEntry)
  BY WantedType DEF Typed, Tx
<1>3. S # {} => tx.cart[Min(S)].row \in Rows /\ tx.cart[Min(S)].row[1] = Here.key
  <2>1. \A i \in S : tx.cart[i].row \in Rows /\ tx.cart[i].row[1] = Here.key
    <3> TAKE i \in S
    <3>1. tx.cart[i] \in CartEntry
      BY <1>2, ElementOfSeq, LenProperties
    <3> QED BY <3>1 DEF CartEntry
  <2>2. S \subseteq Nat
    BY <1>2, LenProperties
  <2> HIDE DEF S
  <2> QED BY <2>1, <2>2, MinIn
<1>4. RowOf(Here)[1] = Here.key
  BY DEF RowOf
<1> HIDE DEF S
<1>5. MatchedRow(Here) = IF tx.want[RowOf(Here)] > 0 \/ S = {} THEN RowOf(Here)
                         ELSE tx.cart[Min(S)].row
  BY DEF MatchedRow, S
<1> QED BY <1>1, <1>3, <1>4, <1>5

(* What a row keeps is at most what it has and what is still asked for. *)
LEMMA KeptQtyType ==
  ASSUME Typed, NEW it \in Item, NEW r \in Rows
  PROVE  /\ KeptQty(it, r) \in Nat /\ KeptQty(it, r) <= tx.want[r]
         /\ KeptQty(it, r) <= it.qty /\ it.qty - KeptQty(it, r) \in Nat
<1>1. it.qty \in Nat /\ tx.want[r] \in Nat
  BY DEF Item, Typed, Tx
<1> QED BY <1>1 DEF KeptQty, Lesser

(* Reducing sold and unsold rows keeps the types: a row tied to another stock *)
(* row takes no more than that row holds.                                    *)
LEMMA ReduceType ==
  ASSUME Typed, ReduceSold \/ ReduceUnsold
  PROVE  Typed'
<1>1. InLoop
  BY DEF ReduceSold, ReduceUnsold, At
<1>2. /\ Here \in Item /\ RowOf(Here) \in Rows /\ <<Here.key, Here.source_location>> \in Rows
      /\ Here.source_location \in Locs /\ RowOf(Here)[1] = Here.key
  BY <1>1, HereType DEF Item, RowOf
<1>3. CASE ReduceSold
  <2> DEFINE r == MatchedRow(Here)
             kept == KeptQty(Here, r)
             home == <<Here.key, Here.source_location>>
  <2>1. r \in Rows /\ r[1] = Here.key
    BY <1>1, MatchedRowType
  <2> HIDE DEF r
  <2>2. kept \in Nat /\ kept <= tx.want[r] /\ Here.qty - kept \in Nat
    BY <1>2, <2>1, KeptQtyType
  <2>3. Relinked(Here, r) \in [Rows -> Nat]
    <3>1. CASE TakesFromOther(Here, r)
      <4>1. inv[r] >= kept
        BY <1>3, <3>1 DEF ReduceSold, r, Relinkable
      <4> HIDE DEF kept
      <4>2. [inv EXCEPT ![r] = @ - kept] \in [Rows -> Nat]
        BY <2>1, <2>2, <4>1 DEF Typed
      <4> QED BY <3>1, <4>2 DEF Relinked, kept
    <3>2. CASE ~TakesFromOther(Here, r)
      BY <3>2 DEF Relinked, Typed
    <3> QED BY <3>1, <3>2
  <2>4. /\ inv' = [Relinked(Here, r) EXCEPT ![home] = @ + (Here.qty - kept)]
        /\ LeaveQty(kept, r, Here.source_location) /\ UNCHANGED <<status, committed>>
    BY <1>3 DEF ReduceSold, r
  <2> HIDE DEF kept, home
  <2>5. inv' \in [Rows -> Nat]
    BY <1>2, <2>2, <2>3, <2>4 DEF home
  <2>6. items' \in Seq(Item) /\ tx' \in Tx
    BY <1>1, <1>2, <2>1, <2>2, <2>4, LeaveQtyType
  <2> QED BY <2>4, <2>5, <2>6 DEF Typed
<1>4. CASE ReduceUnsold
  <2> DEFINE kept == KeptQty(Here, RowOf(Here))
  <2>1. kept \in Nat /\ kept <= tx.want[RowOf(Here)] /\ Here.qty - kept \in Nat
    BY <1>2, KeptQtyType
  <2>2. /\ kept < Here.qty => CanRestore(Here, Here.qty - kept)
        /\ inv' = IF kept < Here.qty THEN Restored(Here, Here.qty - kept) ELSE inv
        /\ LeaveQty(kept, RowOf(Here), RestoredLoc(Here, Here.qty - kept))
        /\ UNCHANGED <<status, committed>>
    BY <1>4 DEF ReduceUnsold
  <2> HIDE DEF kept
  <2>3. /\ kept < Here.qty => Restored(Here, Here.qty - kept) \in [Rows -> Nat]
        /\ RestoredLoc(Here, Here.qty - kept) \in Locs
    <3>1. CASE kept < Here.qty
      BY <1>2, <2>1, <2>2, <3>1, RestoredType DEF Typed
    <3>2. CASE ~(kept < Here.qty)
      <4>1. Here.qty - kept = 0 /\ inv[StagedAt(Here)] \in Nat
        BY <1>1, <1>2, <2>1, <3>2, HereType DEF Item, Typed
      <4> QED BY <1>2, <3>2, <4>1 DEF RestoredLoc, InStaging
    <3> QED BY <3>1, <3>2
  <2>4. items' \in Seq(Item) /\ tx' \in Tx
    BY <1>1, <1>2, <2>1, <2>2, <2>3, LeaveQtyType
  <2> QED BY <2>2, <2>3, <2>4 DEF Typed
<1> QED BY <1>3, <1>4

(* The loop over the cart. *)
LEMMA WantedPositive ==
  ASSUME NEW cart \in Submitted, NEW i \in DOMAIN cart
  PROVE  cart[i].row \in Rows /\ Wanted(cart)[cart[i].row] \in Nat \ {0}
<1>1. cart \in Seq(CartEntry)
  BY WantedType
<1>2. \A j \in DOMAIN cart : cart[j].row \in Rows /\ cart[j].qty \in Nat \ {0}
  <2> TAKE j \in DOMAIN cart
  <2>1. cart[j] \in CartEntry
    BY <1>1, ElementOfSeq, LenProperties
  <2> QED BY <2>1 DEF CartEntry
<1> DEFINE r == cart[i].row
           S == {j \in DOMAIN cart : cart[j].row = r}
<1>3. S # {} /\ S \subseteq DOMAIN cart
  OBVIOUS
<1>4. Wanted(cart)[r] = IF S = {} THEN 0 ELSE cart[CHOOSE j \in S : TRUE].qty
  BY <1>2 DEF Wanted
<1> HIDE DEF r, S
<1>5. (CHOOSE j \in S : TRUE) \in DOMAIN cart
  BY <1>3
<1>6. Wanted(cart)[r] \in Nat \ {0}
  BY <1>2, <1>3, <1>4, <1>5
<1> QED BY <1>2, <1>6 DEF r

(* An entry goes to a staging location. *)
LEMMA TargetType ==
  ASSUME Typed, tx.loc \in Staging, NEW r \in Rows
  PROVE  Target(r) \in Staging
<1> DEFINE B == BeforeRows(r)
<1>1. committed.items \in Seq(Item)
  BY DEF Typed, Databases
<1>2. PICK n \in Nat : DOMAIN committed.items = 1 .. n
  BY <1>1, LenProperties
<1>3. B \subseteq DOMAIN committed.items
  BY DEF BeforeRows, RowsOf
<1>4. \A i \in DOMAIN committed.items : committed.items[i].waiting_location \in Staging
  <2> TAKE i \in DOMAIN committed.items
  <2>1. committed.items[i] \in Item
    BY <1>1, ElementOfSeq, LenProperties
  <2> QED BY <2>1 DEF Item
<1>5. Target(r) = IF tx.pc = "register" \/ B = {} THEN tx.loc
                  ELSE committed.items[IF tx.pc = "restage" THEN Min(B) ELSE Max(B)].waiting_location
  BY DEF Target
<1> HIDE DEF B
<1>6. B # {} => Min(B) \in B /\ Max(B) \in B
  <2>1. B \subseteq Nat /\ B \subseteq 0 .. n
    BY <1>2, <1>3
  <2> QED BY <2>1, MinIn, MaxIn
<1> QED BY <1>3, <1>4, <1>5, <1>6

(* Enlisting a taken entry leaves a table of rows. *)
LEMMA EnlistedType ==
  ASSUME Typed, tx.order \in Orders, NEW k \in Keys, NEW l \in Locs, NEW q \in Nat \ {0},
         NEW to \in Staging
  PROVE  Enlisted(k, l, q, to) \in Seq(Item)
<1> DEFINE S == {i \in RowsOf(items, tx.order, FALSE) : RowOf(items[i]) = <<k, l>>}
           new == [order |-> tx.order, key |-> k, source |-> l, source_location |-> l,
                   waiting_location |-> to, qty |-> q, customer |-> Unsold]
<1>1. new \in Item
  BY DEF Item
<1>2. S \subseteq DOMAIN items /\ S \subseteq Nat
  BY LenProperties DEF RowsOf, Typed
<1>3. Append(items, new) \in Seq(Item)
  <2> HIDE DEF new
  <2> QED BY <1>1, AppendProperties DEF Typed
<1>4. Enlisted(k, l, q, to) =
        IF tx.pc = "add" /\ S # {}
        THEN [items EXCEPT ![Min(S)].qty = @ + q, ![Min(S)].waiting_location = to]
        ELSE Append(items, new)
  BY DEF Enlisted
<1> HIDE DEF S, new
<1>5. ASSUME NEW i \in DOMAIN items
      PROVE  [items EXCEPT ![i].qty = @ + q, ![i].waiting_location = to] \in Seq(Item)
  <2> DEFINE it == [items[i] EXCEPT !.qty = @ + q, !.waiting_location = to]
  <2>1. it \in Item
    <3>1. items[i] \in Item
      BY ElementOfSeq, LenProperties DEF Typed
    <3>2. items[i].qty + q \in Nat \ {0}
      BY <3>1 DEF Item
    <3> QED BY <3>1, <3>2 DEF Item
  <2>2. [items EXCEPT ![i].qty = @ + q, ![i].waiting_location = to] = [items EXCEPT ![i] = it]
    OBVIOUS
  <2> HIDE DEF it
  <2> QED BY <2>1, <2>2, UpdateRow DEF Typed
<1>6. S # {} => Min(S) \in DOMAIN items
  BY <1>2, MinIn
<1>7. CASE tx.pc = "add" /\ S # {}
  <2>1. Enlisted(k, l, q, to) = [items EXCEPT ![Min(S)].qty = @ + q, ![Min(S)].waiting_location = to]
    BY <1>4, <1>7
  <2>2. [items EXCEPT ![Min(S)].qty = @ + q, ![Min(S)].waiting_location = to] \in Seq(Item)
    BY <1>5, <1>6, <1>7
  <2> QED BY <2>1, <2>2
<1>8. CASE ~(tx.pc = "add" /\ S # {})
  BY <1>3, <1>4, <1>8
<1> QED BY <1>7, <1>8

(* Taking a cart entry keeps the types. *)
LEMMA TakeEntryType ==
  ASSUME Typed, Arguments, TakeEntry
  PROVE  Typed'
<1>1. /\ Taking /\ tx.at \in DOMAIN tx.cart /\ Pending(Entry)
      /\ tx.pc \in {"register", "restage", "add"} /\ tx.order \in Orders /\ tx.loc \in Staging
  BY DEF TakeEntry, Taking, Arguments, Idle
<1>2. tx.cart \in Submitted /\ tx.want \in [Rows -> Nat] /\ tx.hint \in [Rows -> Locs]
  BY DEF Typed, Tx
<1>3. Entry \in Rows /\ Entry[1] \in Keys
  BY <1>1, <1>2, WantedPositive DEF Entry, Rows
<1> DEFINE k == Entry[1]
           q == tx.want[Entry]
           l == Resolve(Entry, tx.hint[Entry], q)
<1>4. q \in Nat \ {0}
  <2>1. CASE tx.pc = "add"
    BY <1>1, <1>2, <1>3, <2>1 DEF Pending
  <2>2. CASE tx.pc # "add"
    BY <1>1, <1>2, <2>2, WantedPositive DEF Arguments, Entry
  <2> QED BY <2>1, <2>2
<1>5. l \in Locs \cup {NoLoc}
  BY <1>2, <1>3, ResolveType
<1>6. /\ CanTake(k, l, q) /\ inv' = Staged(k, l, q, Target(Entry))
      /\ items' = Enlisted(k, l, q, StagedLoc(l, Target(Entry)))
      /\ tx' = Advanced /\ UNCHANGED <<status, committed>>
  BY DEF TakeEntry
<1> HIDE DEF k, q, l
<1>7. Target(Entry) \in Staging
  BY <1>1, <1>3, TargetType
<1>8. k \in Keys
  BY <1>3 DEF k
<1>9. l \in Locs /\ inv' \in [Rows -> Nat] /\ StagedLoc(l, Target(Entry)) \in Staging
  BY <1>4, <1>5, <1>6, <1>7, <1>8, StagedType DEF Typed
<1>10. items' \in Seq(Item)
  BY <1>1, <1>4, <1>6, <1>8, <1>9, EnlistedType
<1> QED BY <1>6, <1>9, <1>10, AdvancedType DEF Typed

(* Grouping the rows of a merge. *)
LEMMA GroupedType ==
  ASSUME NEW rows \in Seq(Item), NEW it \in Item
  PROVE  Grouped(rows, it) \in Seq(Item)
<1> DEFINE S == {i \in DOMAIN rows : SameGroup(rows[i], it)}
<1>1. S # {} => Min(S) \in DOMAIN rows
  <2>1. S \subseteq Nat /\ S \subseteq DOMAIN rows
    BY LenProperties
  <2> HIDE DEF S
  <2> QED BY <2>1, MinIn
<1>2. Append(rows, it) \in Seq(Item)
  BY AppendProperties
<1>3. Grouped(rows, it) = IF S = {} THEN Append(rows, it) ELSE [rows EXCEPT ![Min(S)].qty = @ + it.qty]
  BY DEF Grouped
<1> HIDE DEF S
<1>4. ASSUME NEW i \in DOMAIN rows
      PROVE  [rows EXCEPT ![i].qty = @ + it.qty] \in Seq(Item)
  <2>1. rows[i] \in Item
    BY ElementOfSeq, LenProperties
  <2>2. rows[i].qty + it.qty \in Nat \ {0}
    BY <2>1 DEF Item
  <2>3. [rows[i] EXCEPT !.qty = @ + it.qty] \in Item
    BY <2>1, <2>2 DEF Item
  <2> QED BY <2>3, UpdateRow
<1> QED BY <1>1, <1>2, <1>3, <1>4

(* The steps of a merge keep the types. *)
LEMMA MergeType ==
  ASSUME Typed, Arguments, MergeRow \/ CommitMerge
  PROVE  Typed'
<1>1. CASE MergeRow
  <2>1. InLoop /\ tx.into \in Orders /\ tx.rows \in Seq(Item)
    BY <1>1 DEF MergeRow, At, Arguments, Typed, Tx
  <2>2. Here \in Item /\ tx.at \in DOMAIN items
    BY <2>1, HereType
  <2>3. [Here EXCEPT !.order = tx.into] \in Item
    BY <2>1, <2>2 DEF Item
  <2>4. Grouped(tx.rows, [Here EXCEPT !.order = tx.into]) \in Seq(Item)
    BY <2>1, <2>3, GroupedType
  <2>5. tx' \in Tx
    BY <1>1, <2>4, RememberType DEF MergeRow, Typed
  <2>6. items' \in Seq(Item)
    BY <1>1, <2>2, RemoveAtFacts DEF MergeRow, Typed
  <2> QED BY <1>1, <2>5, <2>6 DEF MergeRow, Typed
<1>2. CASE CommitMerge
  <2>1. items' \in Seq(Item)
    BY <1>2, ConcatProperties DEF CommitMerge, Typed, Tx
  <2>2. status' \in [Orders -> Statuses]
    BY <1>2 DEF CommitMerge, Typed, Statuses
  <2>3. committed' \in Databases
    BY <1>2, <2>1, <2>2 DEF CommitMerge, Typed, Databases
  <2> QED BY <1>2, <2>1, <2>2, <2>3, NoTxType DEF CommitMerge, Typed
<1> QED BY <1>1, <1>2

(* The repair of broken reservations. *)
LEMMA RepairType ==
  ASSUME Typed, Restage \/ Gather
  PROVE  Typed'
<1>1. InLoop
  BY DEF Restage, Gather, At
<1>2. /\ Here \in Item /\ tx.at \in DOMAIN items /\ RowOf(Here) \in Rows /\ StagedAt(Here) \in Rows
      /\ Here.key \in Keys /\ Here.qty \in Nat /\ Here.source_location \in Locs
      /\ Here.waiting_location \in Staging
  BY <1>1, HereType DEF Item
<1>3. CASE Restage
  <2> DEFINE l == RepairLoc(Here)
             to == StagedLoc(l, Here.waiting_location)
             it == [Here EXCEPT !.source = l, !.source_location = l, !.waiting_location = to]
  <2>1. l \in Locs \cup {NoLoc}
    BY <1>2, ResolveType DEF RepairLoc
  <2>2. /\ CanTake(Here.key, l, Here.qty)
        /\ inv' = Staged(Here.key, l, Here.qty, Here.waiting_location)
        /\ tx' = Advanced /\ UNCHANGED <<status, committed>>
    BY <1>3 DEF Restage
  <2>3. items' = [items EXCEPT ![tx.at] = it]
    BY <1>2, <1>3 DEF Restage, Here, Typed
  <2> HIDE DEF l
  <2>4. l \in Locs /\ inv' \in [Rows -> Nat] /\ to \in Staging
    BY <1>2, <2>1, <2>2, StagedType DEF Typed
  <2> HIDE DEF to
  <2>5. it \in Item
    BY <1>2, <2>4 DEF Item
  <2> HIDE DEF it
  <2>6. items' \in Seq(Item)
    BY <1>2, <2>3, <2>5, UpdateRow DEF Typed
  <2> QED BY <2>2, <2>4, <2>6, AdvancedType DEF Typed
<1>4. CASE Gather
  <2>0. PICK l \in Spare(Here) : \E take \in 1 .. inv[<<Here.key, l>>] :
          inv' = MoveQty(inv, <<Here.key, l>>, StagedAt(Here), take)
    BY <1>4 DEF Gather
  <2>1. PICK take \in 1 .. inv[<<Here.key, l>>] :
          inv' = MoveQty(inv, <<Here.key, l>>, StagedAt(Here), take)
    BY <2>0
  <2>2. <<Here.key, l>> \in Rows
    BY <1>2 DEF Spare, Rows, Locs
  <2>3. inv[<<Here.key, l>>] \in Nat
    BY <2>2 DEF Typed
  <2>4. take \in Nat /\ take <= inv[<<Here.key, l>>]
    BY <2>3
  <2>5. inv' \in [Rows -> Nat]
    BY <1>2, <2>1, <2>2, <2>4, MoveQtyType DEF Typed
  <2> QED BY <1>4, <2>5 DEF Gather, Typed
<1> QED BY <1>3, <1>4

(* The calls that are one step. *)
LEMMA StoreType ==
  ASSUME Typed
  PROVE  /\ \A r \in Rows, q \in ReceivedQty : Receive(r, q) => Typed'
         /\ \A r \in Rows, q \in CountedQty : Count(r, q) => Typed'
         /\ \A r, to \in Rows : \A q \in 1 .. inv[r] : Move(r, to, q) => Typed'
<1>1. ASSUME NEW stock \in [Rows -> Nat], Store(stock) PROVE Typed'
  BY <1>1 DEF Store, Typed, Databases
<1>2. ASSUME NEW r \in Rows, NEW q \in ReceivedQty, Receive(r, q) PROVE Typed'
  <2>1. [inv EXCEPT ![r] = @ + q] \in [Rows -> Nat]
    BY ConstantsOK DEF Typed
  <2> QED BY <1>1, <1>2, <2>1 DEF Receive
<1>3. ASSUME NEW r \in Rows, NEW q \in CountedQty, Count(r, q) PROVE Typed'
  <2>1. [inv EXCEPT ![r] = q] \in [Rows -> Nat]
    BY ConstantsOK DEF Typed
  <2> QED BY <1>1, <1>3, <2>1 DEF Count
<1>4. ASSUME NEW r \in Rows, NEW to \in Rows, NEW q \in 1 .. inv[r], Move(r, to, q) PROVE Typed'
  <2>1. inv[r] \in Nat
    BY DEF Typed
  <2>2. q \in Nat /\ q <= inv[r]
    BY <2>1
  <2>3. MoveQty(inv, r, to, q) \in [Rows -> Nat]
    BY <2>2, MoveQtyType DEF Typed
  <2> QED BY <1>1, <1>4, <2>3 DEF Move
<1> QED BY <1>2, <1>3, <1>4

(* Changing the customer of sold rows keeps the types. *)
LEMMA UpdateSaleType ==
  ASSUME Typed, NEW o \in Orders, NEW S \in SUBSET DOMAIN items, NEW c \in Customers, UpdateSale(o, S, c)
  PROVE  Typed'
<1>1. PICK n \in Nat : DOMAIN items = 1 .. n
  BY LenProperties DEF Typed
<1>2. \A i \in 1 .. n : items[i] \in Item
  BY <1>1, ElementOfSeq, LenProperties DEF Typed
<1>3. \A i \in 1 .. n : [items[i] EXCEPT !.customer = c] \in Item
  BY <1>2 DEF Item
<1>4. items' = [i \in 1 .. n |-> IF i \in S THEN [items[i] EXCEPT !.customer = c] ELSE items[i]]
  BY <1>1 DEF UpdateSale
<1>5. items' \in [1 .. n -> Item]
  BY <1>2, <1>3, <1>4
<1>6. items' \in Seq(Item)
  BY <1>5, SeqDef
<1> QED BY <1>6 DEF UpdateSale, Typed, Databases

(* The steps that end a transaction, and what they write. *)
LEMMA EndsType ==
  ASSUME Typed, \/ UnstageFails \/ RelinkFails \/ ReduceFails \/ TakeFails
                \/ CancelFails \/ ConfirmFails \/ Crash
                \/ CommitSave \/ CommitCancel \/ CommitConfirm \/ CommitReturn \/ CommitRepair
  PROVE  Typed'
<1>1. CASE UnstageFails \/ RelinkFails \/ ReduceFails \/ TakeFails \/ CancelFails \/ ConfirmFails \/ Crash
  <2>1. Rollback
    BY <1>1 DEF UnstageFails, RelinkFails, ReduceFails, TakeFails, CancelFails, ConfirmFails, Crash
  <2> QED BY <2>1, RollbackType
<1>2. status \in [Orders -> Statuses]
  BY DEF Typed
<1>3. \A st \in Statuses : [status EXCEPT ![tx.order] = st] \in [Orders -> Statuses]
  BY <1>2
<1>4. CASE CommitSave \/ CommitCancel \/ CommitConfirm \/ CommitReturn \/ CommitRepair
  <2>1. \E st \in [Orders -> Statuses] : Commit(st)
    <3>1. CASE CommitSave
      <4>1. AdjustedStatus(tx.order) \in Statuses
        BY DEF AdjustedStatus, Statuses, Live
      <4> QED BY <1>2, <1>3, <3>1, <4>1 DEF CommitSave
    <3>2. CASE CommitCancel
      BY <1>3, <3>2 DEF CommitCancel, Statuses
    <3>3. CASE CommitConfirm
      BY <1>3, <3>3 DEF CommitConfirm, Statuses, Live
    <3>4. CASE CommitReturn
      BY <1>2, <1>3, <3>4 DEF CommitReturn, Statuses, Live
    <3>5. CASE CommitRepair
      BY <1>2, <3>5 DEF CommitRepair
    <3> QED BY <1>4, <3>1, <3>2, <3>3, <3>4, <3>5
  <2> QED BY <2>1, CommitType
<1> QED BY <1>1, <1>4

(* The steps inside a transaction change neither the call nor its arguments, *)
(* and only the adjustment of a confirmed order counts down what is wanted.  *)
LEMMA ArgumentsKept ==
  ASSUME Arguments,
         \/ UNCHANGED tx
         \/ tx' = NoTx
         \/ /\ tx'.order = tx.order /\ tx'.into = tx.into /\ tx'.loc = tx.loc /\ tx'.cart = tx.cart
            /\ tx'.pc = tx.pc \/ (tx.pc = "unstage" /\ tx'.pc = "restage")
                              \/ (tx.pc = "sold" /\ tx'.pc = "unsold")
                              \/ (tx.pc = "unsold" /\ tx'.pc = "add")
            /\ tx'.want = tx.want \/ tx.pc \in {"sold", "unsold"}
  PROVE  Arguments'
<1>1. CASE UNCHANGED tx
  BY <1>1 DEF Arguments, Idle, Wanted
<1>2. CASE tx' = NoTx
  BY <1>2 DEF Arguments, Idle, NoTx
<1>3. CASE /\ tx'.order = tx.order /\ tx'.into = tx.into /\ tx'.loc = tx.loc /\ tx'.cart = tx.cart
           /\ tx'.pc = tx.pc \/ (tx.pc = "unstage" /\ tx'.pc = "restage")
                             \/ (tx.pc = "sold" /\ tx'.pc = "unsold")
                             \/ (tx.pc = "unsold" /\ tx'.pc = "add")
           /\ tx'.want = tx.want \/ tx.pc \in {"sold", "unsold"}
  <2>1. Wanted(tx.cart)' = Wanted(tx.cart)
    BY <1>3 DEF Wanted
  <2> QED BY <1>3, <2>1 DEF Arguments, Idle
<1> QED BY <1>1, <1>2, <1>3

(* No step loses a transaction's arguments. *)
LEMMA ArgumentsStep == ASSUME Typed, Arguments, [Next]_vars PROVE Arguments'
<1>0. tx \in Tx
  BY DEF Typed
<1>1. ASSUME Rollback \/ tx' = NoTx \/ UNCHANGED tx PROVE Arguments'
  BY <1>1, ArgumentsKept DEF Rollback
<1>2. ASSUME tx' = Advanced PROVE Arguments'
  <2>1. /\ tx'.order = tx.order /\ tx'.into = tx.into /\ tx'.loc = tx.loc /\ tx'.cart = tx.cart
        /\ tx'.pc = tx.pc /\ tx'.want = tx.want
    BY <1>0, <1>2 DEF Advanced, Tx
  <2> QED BY <2>1, ArgumentsKept
<1>3. CASE UserStep
  <2>1. ASSUME NEW o \in Orders, NEW cart \in Submitted, NEW loc \in Staging, NEW pc \in Phases,
               tx' = Saving(pc, o, cart, loc), pc \in {"register", "unstage", "sold"}
        PROVE  Arguments'
    <3>1. tx'.pc = pc /\ tx'.order = o /\ tx'.loc = loc /\ tx'.cart = cart /\ tx'.want = Wanted(cart)
      BY <2>1 DEF Saving, NoTx
    <3> QED BY <2>1, <3>1 DEF Arguments, Idle
  <2>2. ASSUME NEW o \in Orders, tx'.order = o, tx'.pc \in {"cancel", "return", "repair", "confirm"}
        PROVE  Arguments'
    BY <2>2 DEF Arguments, Idle
  <2>3. ASSUME NEW o \in Orders, NEW cart \in Submitted, NEW loc \in Staging,
               BeginRegister(o, cart, loc) \/ BeginEdit(o, cart, loc)
        PROVE  Arguments'
    BY <2>1, <2>3 DEF BeginRegister, BeginEdit, Phases
  <2>4. ASSUME NEW o \in Orders, BeginCancel(o) \/ BeginReturn(o) \/ BeginRepair(o) PROVE Arguments'
    <3>1. tx'.order = o /\ tx'.pc \in {"cancel", "return", "repair"}
      BY <2>4 DEF BeginCancel, BeginReturn, BeginRepair, NoTx
    <3> QED BY <2>2, <3>1
  <2>5. ASSUME NEW o \in Orders, NEW S \in SUBSET DOMAIN items, NEW c \in Customers,
               BeginConfirm(o, S, c) \/ UpdateSale(o, S, c)
        PROVE  Arguments'
    <3>1. CASE BeginConfirm(o, S, c)
      <4>1. tx'.order = o /\ tx'.pc = "confirm"
        BY <3>1 DEF BeginConfirm, NoTx
      <4> QED BY <2>2, <4>1
    <3>2. CASE UpdateSale(o, S, c)
      BY <1>1, <3>2 DEF UpdateSale
    <3> QED BY <2>5, <3>1, <3>2
  <2>6. ASSUME NEW s \in Orders, NEW t \in Orders, BeginMerge(s, t) PROVE Arguments'
    <3>1. tx'.order = s /\ tx'.into = t /\ tx'.pc = "merge"
      BY <2>6 DEF BeginMerge, NoTx
    <3> QED BY <3>1 DEF Arguments, Idle
  <2>7. ASSUME \/ \E r \in Rows, q \in ReceivedQty : Receive(r, q)
               \/ \E r \in Rows, q \in CountedQty : Count(r, q)
               \/ \E r, to \in Rows : \E q \in 1 .. inv[r] : Move(r, to, q)
        PROVE  Arguments'
    BY <1>1, <2>7 DEF Receive, Count, Move, Store
  <2>8. Carts \subseteq Submitted
    BY DEF Submitted
  <2> QED BY <1>3, <2>3, <2>4, <2>5, <2>6, <2>7, <2>8 DEF UserStep
<1>4. CASE TxStep
  <2>1. CASE \/ PassOver \/ KeepStaged \/ TakeEntry \/ SkipEntry \/ CancelRow \/ ConfirmRow \/ ReturnRow
             \/ LeaveReservation \/ Restage
    BY <1>2, <2>1 DEF PassOver, KeepStaged, TakeEntry, SkipEntry, CancelRow, ConfirmRow, ReturnRow,
                      LeaveReservation, Restage
  <2>2. CASE \/ UnstageFails \/ RelinkFails \/ ReduceFails \/ TakeFails \/ CancelFails \/ ConfirmFails
             \/ CommitSave \/ CommitCancel \/ CommitConfirm \/ CommitReturn \/ CommitMerge \/ CommitRepair
    BY <1>1, <2>2 DEF UnstageFails, RelinkFails, ReduceFails, TakeFails, CancelFails, ConfirmFails,
                      CommitSave, CommitCancel, CommitConfirm, CommitReturn, CommitMerge, CommitRepair, Commit
  <2>3. CASE DropOrphan \/ Gather
    BY <1>1, <2>3 DEF DropOrphan, Gather
  <2>4. CASE Unstage
    <3>1. tx' = [tx EXCEPT !.hint[RowOf(Here)] = RestoredLoc(Here, Here.qty)]
      BY <2>4 DEF Unstage
    <3> QED BY <1>0, <3>1, ArgumentsKept DEF Tx
  <2>5. CASE ReduceSold \/ ReduceUnsold
    <3>1. ASSUME NEW q, NEW r, NEW l, LeaveQty(q, r, l), tx.pc \in {"sold", "unsold"} PROVE Arguments'
      <4>1. /\ tx'.order = tx.order /\ tx'.into = tx.into /\ tx'.loc = tx.loc /\ tx'.cart = tx.cart
            /\ tx'.pc = tx.pc
        BY <1>0, <3>1 DEF LeaveQty, Tx
      <4> QED BY <3>1, <4>1, ArgumentsKept
    <3> QED BY <2>5, <3>1 DEF ReduceSold, ReduceUnsold, At
  <2>6. CASE MergeRow
    <3>1. tx' = [tx EXCEPT !.rows = Grouped(@, [Here EXCEPT !.order = tx.into])]
      BY <2>6 DEF MergeRow
    <3> QED BY <1>0, <3>1, ArgumentsKept DEF Tx
  <2>7. CASE NextLoop
    <3>1. /\ tx'.order = tx.order /\ tx'.into = tx.into /\ tx'.loc = tx.loc /\ tx'.cart = tx.cart
          /\ tx'.want = tx.want
          /\ \/ tx.pc = "unstage" /\ tx'.pc = "restage"
             \/ tx.pc = "sold" /\ tx'.pc = "unsold"
             \/ tx.pc = "unsold" /\ tx'.pc = "add"
      BY <1>0, <2>7 DEF NextLoop, After, Tx
    <3> QED BY <3>1, ArgumentsKept
  <2> QED BY <1>4, <2>1, <2>2, <2>3, <2>4, <2>5, <2>6, <2>7 DEF TxStep
<1>5. CASE Crash
  BY <1>1, <1>5 DEF Crash
<1>6. CASE UNCHANGED vars
  BY <1>1, <1>6 DEF vars
<1> QED BY <1>3, <1>4, <1>5, <1>6 DEF Next

LEMMA TypeStart == Init => TypeOK
<1>1. Init => Arguments
  BY DEF Init, Arguments, Idle, NoTx
<1> QED BY <1>1, InitType DEF TypeOK

LEMMA TypeStep == TypeOK /\ [Next]_vars => TypeOK'
<1> SUFFICES ASSUME Typed, Arguments, [Next]_vars PROVE TypeOK'
  BY DEF TypeOK
<1>1. Arguments'
  BY ArgumentsStep
<1>2. Typed'
  <2>1. CASE UserStep
    <3>1. ASSUME NEW o \in Orders, NEW cart \in Submitted, NEW loc \in Staging,
                 BeginRegister(o, cart, loc) \/ BeginEdit(o, cart, loc)
          PROVE  Typed'
      BY <3>1, BeginType
    <3>2. ASSUME NEW o \in Orders, BeginCancel(o) \/ BeginReturn(o) \/ BeginRepair(o) PROVE Typed'
      BY <3>2, BeginType
    <3>3. ASSUME NEW o \in Orders, NEW S \in SUBSET DOMAIN items, NEW c \in Customers,
                 BeginConfirm(o, S, c) \/ UpdateSale(o, S, c)
          PROVE  Typed'
      BY <3>3, BeginType, UpdateSaleType
    <3>4. ASSUME NEW s \in Orders, NEW t \in Orders, BeginMerge(s, t) PROVE Typed'
      BY <3>4, BeginType
    <3>5. Carts \subseteq Submitted
      BY DEF Submitted
    <3> QED BY <2>1, <3>1, <3>2, <3>3, <3>4, <3>5, StoreType DEF UserStep
  <2>2. CASE TxStep
    <3>1. CASE PassOver \/ KeepStaged \/ SkipEntry \/ LeaveReservation
      BY <3>1, CursorType DEF PassOver, KeepStaged, SkipEntry, LeaveReservation
    <3>2. CASE NextLoop
      <4>1. \A pc \in Phases, at \in Nat \ {0} : [tx EXCEPT !.pc = pc, !.at = at] \in Tx
        BY RememberType DEF Typed
      <4>2. {"restage", "unsold", "add"} \subseteq Phases /\ 1 \in Nat \ {0}
        BY DEF Phases
      <4>3. \E pc \in {"restage", "unsold", "add"} : tx' = [tx EXCEPT !.pc = pc, !.at = 1]
        BY <3>2 DEF NextLoop
      <4>4. tx' \in Tx
        <5>1. PICK pc \in {"restage", "unsold", "add"} : tx' = [tx EXCEPT !.pc = pc, !.at = 1]
          BY <4>3
        <5>2. pc \in Phases
          BY <4>2
        <5>3. [tx EXCEPT !.pc = pc, !.at = 1] \in Tx
          BY <4>1, <4>2, <5>2
        <5> QED BY <5>1, <5>3
      <4>5. UNCHANGED <<inv, items, status, committed>>
        BY <3>2 DEF NextLoop
      <4> QED BY <4>4, <4>5 DEF Typed
    <3>3. CASE \/ UnstageFails \/ RelinkFails \/ ReduceFails \/ TakeFails \/ CancelFails \/ ConfirmFails
               \/ CommitSave \/ CommitCancel \/ CommitConfirm \/ CommitReturn \/ CommitRepair
      BY <3>3, EndsType
    <3>4. CASE \/ Unstage \/ DropOrphan \/ ReduceSold \/ ReduceUnsold \/ TakeEntry
               \/ CancelRow \/ ConfirmRow \/ ReturnRow \/ MergeRow \/ CommitMerge \/ Restage \/ Gather
      BY <3>4, UnstageType, ReduceType, TakeEntryType, RowStepType, MergeType, RepairType
    <3> QED BY <2>2, <3>1, <3>2, <3>3, <3>4 DEF TxStep
  <2>3. CASE Crash
    BY <2>3, EndsType
  <2>4. CASE UNCHANGED vars
    BY <2>4 DEF vars, Typed
  <2> QED BY <2>1, <2>2, <2>3, <2>4 DEF Next
<1> QED BY <1>1, <1>2 DEF TypeOK

(* Every reachable state is typed: in particular no sequence of service      *)
(* calls, failures and crashes brings a stock row or a reservation below     *)
(* zero, whatever the keys, locations, orders, carts and quantities.         *)
THEOREM TypeCorrect == Spec => []TypeOK
  BY TypeStart, TypeStep, PTL DEF Spec

-----------------------------------------------------------------------------
(* The status written at the end of a call agrees with the rows it leaves.  *)

(* An order has a row that is sold, or one that is not.                      *)
HasSold(table, o) == \E i \in DOMAIN table : table[i].order = o /\ table[i].customer # Unsold
HasUnsold(table, o) == \E i \in DOMAIN table : table[i].order = o /\ table[i].customer = Unsold

(* What a transaction knows of the rows of its order, phase by phase.        *)
Waiting(o) == status[o] = "waiting" /\ ~HasSold(items, o)

KnowsSave == tx.pc \in {"register", "unstage", "restage"} => Waiting(tx.order)

KnowsConfirm ==
  tx.pc = "confirm" =>
    /\ tx.selected # {} /\ tx.selected \subseteq DOMAIN items
    /\ \A i \in tx.selected : items[i].order = tx.order

KnowsReturn ==
  tx.pc = "return" =>
    /\ status = committed.status
    /\ ~HasSold(committed.items, tx.order) => items = committed.items
    /\ \A i \in DOMAIN items : i < tx.at /\ items[i].order = tx.order => items[i].customer = Unsold

KnowsMerge ==
  tx.pc = "merge" =>
    /\ tx.order # tx.into /\ Waiting(tx.order) /\ Waiting(tx.into)
    /\ \A i \in DOMAIN items : i < tx.at => items[i].order \notin {tx.order, tx.into}
    /\ \A i \in DOMAIN tx.rows : tx.rows[i].order = tx.into /\ tx.rows[i].customer = Unsold

KnowsRepair == tx.pc = "repair" => StatusOf(items, status, tx.order)

Knows == KnowsSave /\ KnowsConfirm /\ KnowsReturn /\ KnowsMerge /\ KnowsRepair

(* The rows of the other orders are as some earlier call left them.          *)
Touches(o) == o = tx.order \/ (tx.pc = "merge" /\ o = tx.into)
OthersAgree == ~Idle => \A o \in Orders : Touches(o) \/ StatusOf(items, status, o)

Settled == Idle => committed = Database

Agreement == StatusAgrees /\ OthersAgree /\ Settled /\ Knows
-----------------------------------------------------------------------------
(* The rows of an order.                                                     *)

(* The sets the code counts are empty just where there is no such row.       *)
LEMMA RowsOfHas ==
  ASSUME NEW table, NEW o
  PROVE  /\ RowsOf(table, o, TRUE) = {} <=> ~HasSold(table, o)
         /\ RowsOf(table, o, FALSE) = {} <=> ~HasUnsold(table, o)
<1>1. \A i \in DOMAIN table : i \in RowsOf(table, o, TRUE) <=> table[i].order = o /\ table[i].customer # Unsold
  BY Zenon DEF RowsOf
<1>2. \A i \in DOMAIN table : i \in RowsOf(table, o, FALSE) <=> table[i].order = o /\ table[i].customer = Unsold
  BY Zenon DEF RowsOf
<1>3. RowsOf(table, o, TRUE) \subseteq DOMAIN table /\ RowsOf(table, o, FALSE) \subseteq DOMAIN table
  BY DEF RowsOf
<1> QED BY <1>1, <1>2, <1>3 DEF HasSold, HasUnsold

(* Whether a status agrees with the rows is a matter of these two.           *)
LEMMA StatusOfHas ==
  ASSUME NEW table, NEW st, NEW o
  PROVE  StatusOf(table, st, o) <=>
           /\ st[o] = "none" => ~HasSold(table, o) /\ ~HasUnsold(table, o)
           /\ st[o] = "waiting" => ~HasSold(table, o)
           /\ st[o] = "partial" => HasUnsold(table, o)
           /\ st[o] = "confirmed" => HasSold(table, o) /\ ~HasUnsold(table, o)
  BY RowsOfHas DEF StatusOf

(* A table has the same rows of an order as another, as far as that goes.    *)
SameRows(table, other, o) ==
  (HasSold(table, o) <=> HasSold(other, o)) /\ (HasUnsold(table, o) <=> HasUnsold(other, o))

LEMMA StatusSame ==
  ASSUME NEW table, NEW other, NEW st, NEW st2, NEW o,
         SameRows(table, other, o), st[o] = st2[o], StatusOf(table, st, o)
  PROVE  StatusOf(other, st2, o)
  BY StatusOfHas DEF SameRows

(* Rows that are changed in place, in other columns or of another order.     *)
LEMMA UpdatedRows ==
  ASSUME NEW table, NEW other, NEW o, DOMAIN other = DOMAIN table,
         \A i \in DOMAIN table : /\ other[i].order = table[i].order
                                 /\ table[i].order = o => other[i].customer = table[i].customer
  PROVE  SameRows(table, other, o)
  BY DEF SameRows, HasSold, HasUnsold

(* A row that is deleted.                                                    *)
LEMMA RemovedRow ==
  ASSUME NEW table \in Seq(Item), NEW n \in DOMAIN table, NEW o
  PROVE  /\ HasSold(RemoveAt(table, n), o) => HasSold(table, o)
         /\ HasUnsold(RemoveAt(table, n), o) => HasUnsold(table, o)
         /\ table[n].order # o => SameRows(table, RemoveAt(table, n), o)
<1> DEFINE other == RemoveAt(table, n)
<1>1. /\ DOMAIN table = 1 .. Len(table) /\ DOMAIN other = 1 .. Len(table) - 1 /\ Len(table) \in Nat
      /\ \A i \in 1 .. Len(table) - 1 : other[i] = IF i < n THEN table[i] ELSE table[i + 1]
  <2>1. other \in Seq(Item) /\ Len(other) = Len(table) - 1
        /\ \A i \in 1 .. Len(table) - 1 : other[i] = IF i < n THEN table[i] ELSE table[i + 1]
    BY RemoveAtFacts
  <2> HIDE DEF other
  <2> QED BY <2>1, LenProperties
<1> HIDE DEF other
<1>2. \A i \in DOMAIN other : \E j \in DOMAIN table : other[i] = table[j]
  BY <1>1
<1>3. \A j \in DOMAIN table \ {n} : \E i \in DOMAIN other : other[i] = table[j]
  <2> TAKE j \in DOMAIN table \ {n}
  <2>1. CASE j < n
    <3>1. j \in DOMAIN other /\ other[j] = table[j]
      BY <1>1, <2>1
    <3> QED BY <3>1
  <2>2. CASE j > n
    <3>1. j - 1 \in DOMAIN other /\ other[j - 1] = table[j]
      BY <1>1, <2>2
    <3> QED BY <3>1
  <2> QED BY <1>1, <2>1, <2>2
<1> QED BY <1>2, <1>3 DEF SameRows, HasSold, HasUnsold, other

(* Rows that are added at the end.                                           *)
LEMMA AddedRows ==
  ASSUME NEW table \in Seq(Item), NEW more \in Seq(Item), NEW o
  PROVE  /\ HasSold(table \o more, o) <=> HasSold(table, o) \/ HasSold(more, o)
         /\ HasUnsold(table \o more, o) <=> HasUnsold(table, o) \/ HasUnsold(more, o)
<1> DEFINE other == table \o more
<1>1. /\ DOMAIN table = 1 .. Len(table) /\ DOMAIN more = 1 .. Len(more)
      /\ Len(table) \in Nat /\ Len(more) \in Nat
      /\ DOMAIN other = 1 .. Len(table) + Len(more)
      /\ \A i \in 1 .. Len(table) + Len(more) :
           other[i] = IF i <= Len(table) THEN table[i] ELSE more[i - Len(table)]
  BY ConcatProperties, LenProperties
<1> HIDE DEF other
<1>2. \A i \in DOMAIN table : i \in DOMAIN other /\ other[i] = table[i]
  BY <1>1
<1>3. \A i \in DOMAIN more : Len(table) + i \in DOMAIN other /\ other[Len(table) + i] = more[i]
  BY <1>1
<1>4. \A i \in DOMAIN other : \/ i \in DOMAIN table /\ other[i] = table[i]
                              \/ i - Len(table) \in DOMAIN more /\ other[i] = more[i - Len(table)]
  BY <1>1
<1>5. HasSold(other, o) <=> HasSold(table, o) \/ HasSold(more, o)
  BY <1>2, <1>3, <1>4 DEF HasSold
<1>6. HasUnsold(other, o) <=> HasUnsold(table, o) \/ HasUnsold(more, o)
  BY <1>2, <1>3, <1>4 DEF HasUnsold
<1> QED BY <1>5, <1>6 DEF other

(* One row.                                                                  *)
LEMMA AppendedRow ==
  ASSUME NEW table \in Seq(Item), NEW it \in Item, NEW o
  PROVE  /\ HasSold(Append(table, it), o) <=> HasSold(table, o) \/ (it.order = o /\ it.customer # Unsold)
         /\ HasUnsold(Append(table, it), o) <=> HasUnsold(table, o) \/ (it.order = o /\ it.customer = Unsold)
<1>1. << it >> \in Seq(Item) /\ Append(table, it) = table \o << it >>
  BY AppendIsConcat
<1>2. << it >>[1] = it
  OBVIOUS
<1>3. Len(<< it >>) = 1
  BY <1>1
<1> DEFINE one == << it >>
<1> HIDE DEF one
<1>4. DOMAIN one = {1} /\ one[1] = it
  BY <1>1, <1>2, <1>3, LenProperties DEF one
<1>5. /\ HasSold(one, o) <=> it.order = o /\ it.customer # Unsold
      /\ HasUnsold(one, o) <=> it.order = o /\ it.customer = Unsold
  BY <1>4 DEF HasSold, HasUnsold
<1>6. one \in Seq(Item) /\ Append(table, it) = table \o one
  BY <1>1 DEF one
<1>7. /\ HasSold(table \o one, o) <=> HasSold(table, o) \/ HasSold(one, o)
      /\ HasUnsold(table \o one, o) <=> HasUnsold(table, o) \/ HasUnsold(one, o)
  BY <1>6, AddedRows
<1> QED BY <1>5, <1>6, <1>7, Zenon
-----------------------------------------------------------------------------
(* How a call begins, goes on and ends.                                      *)

(* Between two calls every order agrees with the rows.                       *)
LEMMA AllAgree ==
  ASSUME Agreement, Idle
  PROVE  \A o \in Orders : StatusOf(items, status, o)
<1>1. committed.items = items /\ committed.status = status
  BY DEF Agreement, Settled, Database
<1> QED BY <1>1 DEF Agreement, StatusAgrees

(* A call that leaves rows every status agrees with has settled them.        *)
LEMMA Settles ==
  ASSUME tx' = NoTx, committed' = Database', \A o \in Orders : StatusOf(items', status', o)
  PROVE  Agreement'
<1>1. tx'.pc = "idle"
  BY DEF NoTx
<1>2. committed'.items = items' /\ committed'.status = status'
  BY DEF Database
<1>3. StatusAgrees'
  BY <1>2 DEF StatusAgrees
<1>4. Knows'
  BY <1>1 DEF Knows, KnowsSave, KnowsConfirm, KnowsReturn, KnowsMerge, KnowsRepair
<1> QED BY <1>1, <1>3, <1>4 DEF Agreement, OthersAgree, Settled, Idle

(* An exception or a crash leaves what was committed.                        *)
LEMMA RollsBack ==
  ASSUME Typed, Agreement, Rollback
  PROVE  Agreement'
<1>1. committed' = Database' /\ tx' = NoTx
  BY DEF Rollback, Database, Typed, Databases
<1>2. \A o \in Orders : StatusOf(items', status', o)
  BY DEF Rollback, Agreement, StatusAgrees
<1> QED BY <1>1, <1>2, Settles

(* A commit publishes the rows with the new status of the call's order.      *)
LEMMA Commits ==
  ASSUME Typed, Agreement, ~Idle, tx.pc # "merge", NEW st, Commit(st),
         \A o \in Orders : o # tx.order => st[o] = status[o],
         tx.order \in Orders => StatusOf(items, st, tx.order)
  PROVE  Agreement'
<1>1. /\ tx' = NoTx /\ items' = items /\ status' = st
      /\ committed' = Database'
  BY DEF Commit, Database
<1>2. ASSUME NEW o \in Orders, o # tx.order PROVE StatusOf(items, st, o)
  <2>1. StatusOf(items, status, o)
    BY <1>2 DEF Agreement, OthersAgree, Touches
  <2>2. SameRows(items, items, o)
    BY DEF SameRows
  <2> QED BY <1>2, <2>1, <2>2, StatusSame
<1> QED BY <1>1, <1>2, Settles

(* A turn of a loop leaves the rows of the other orders.                     *)
LEMMA GoesOn ==
  ASSUME Agreement, ~Idle, tx'.order = tx.order, tx'.into = tx.into, tx'.pc # "idle",
         tx'.pc = "merge" <=> tx.pc = "merge",
         UNCHANGED <<status, committed>>,
         \A o \in Orders : Touches(o) \/ SameRows(items, items', o),
         Knows'
  PROVE  Agreement'
<1>1. \A o \in Orders : Touches(o)' <=> Touches(o)
  BY DEF Touches
<1>2. ASSUME NEW o \in Orders, ~Touches(o) PROVE StatusOf(items', status', o)
  <2>1. StatusOf(items, status, o) /\ SameRows(items, items', o) /\ status'[o] = status[o]
    BY <1>2 DEF Agreement, OthersAgree
  <2> QED BY <2>1, StatusSame
<1>3. StatusAgrees'
  BY DEF Agreement, StatusAgrees
<1> QED BY <1>1, <1>2, <1>3 DEF Agreement, OthersAgree, Settled, Idle

(* A call begins by reading rows that agree.                                 *)
LEMMA Opens ==
  ASSUME Agreement, Idle, tx'.pc # "idle", UNCHANGED <<items, committed>>,
         \A o \in Orders : o # tx'.order => status'[o] = status[o],
         Knows'
  PROVE  Agreement'
<1>1. ASSUME NEW o \in Orders, o # tx'.order PROVE StatusOf(items', status', o)
  <2>1. StatusOf(items, status, o) /\ SameRows(items, items', o) /\ status'[o] = status[o]
    BY <1>1, AllAgree DEF SameRows
  <2> QED BY <2>1, StatusSame
<1>2. StatusAgrees'
  BY DEF Agreement, StatusAgrees
<1> QED BY <1>1, <1>2 DEF Agreement, OthersAgree, Settled, Idle, Touches
-----------------------------------------------------------------------------
(* The calls.                                                                *)

(* A call that opens no loop over rows knows nothing of them yet.            *)
LEMMA BeginsAgree ==
  ASSUME Typed, Agreement
  PROVE  /\ \A o \in Orders, cart \in Submitted, loc \in Staging :
              BeginRegister(o, cart, loc) \/ BeginEdit(o, cart, loc) => Agreement'
         /\ \A o \in Orders : BeginCancel(o) \/ BeginReturn(o) \/ BeginRepair(o) => Agreement'
         /\ \A o \in Orders, S \in SUBSET DOMAIN items, c \in Customers : BeginConfirm(o, S, c) => Agreement'
         /\ \A s, t \in Orders : BeginMerge(s, t) => Agreement'
<1>1. status \in [Orders -> Statuses] /\ DOMAIN items \subseteq Nat \ {0}
  BY LenProperties DEF Typed
<1>2. ASSUME NEW o \in Orders, NEW cart \in Submitted, NEW loc \in Staging, BeginRegister(o, cart, loc)
      PROVE  Agreement'
  <2>1. /\ tx'.pc = "register" /\ tx'.order = o /\ UNCHANGED <<items, committed>> /\ Idle
        /\ status' = [status EXCEPT ![o] = "waiting"] /\ status[o] = "none"
    BY <1>2 DEF BeginRegister, Saving, NoTx
  <2>2. StatusOf(items, status, o)
    BY <2>1, AllAgree
  <2>3. ~HasSold(items, o)
    BY <2>1, <2>2, StatusOfHas
  <2>4. KnowsSave'
    BY <1>1, <2>1, <2>3 DEF KnowsSave, Waiting, HasSold
  <2>5. Knows'
    BY <2>1, <2>4 DEF Knows, KnowsConfirm, KnowsReturn, KnowsMerge, KnowsRepair
  <2> QED BY <1>1, <2>1, <2>5, Opens
<1>3. ASSUME NEW o \in Orders, NEW cart \in Submitted, NEW loc \in Staging, BeginEdit(o, cart, loc)
      PROVE  Agreement'
  <2>1. /\ tx'.order = o /\ UNCHANGED <<items, status, committed>> /\ Idle
        /\ \/ tx'.pc = "unstage" /\ status[o] = "waiting"
           \/ tx'.pc = "sold"
    BY <1>3 DEF BeginEdit, Saving, NoTx
  <2>2. StatusOf(items, status, o)
    BY <2>1, AllAgree
  <2>3. status[o] = "waiting" => ~HasSold(items, o)
    BY <2>2, StatusOfHas
  <2>4. KnowsSave'
    BY <2>1, <2>3 DEF KnowsSave, Waiting, HasSold
  <2>5. Knows'
    BY <2>1, <2>4 DEF Knows, KnowsConfirm, KnowsReturn, KnowsMerge, KnowsRepair
  <2> QED BY <2>1, <2>5, Opens
<1>4. ASSUME NEW o \in Orders, BeginCancel(o) \/ BeginReturn(o) \/ BeginRepair(o)
      PROVE  Agreement'
  <2>1. /\ tx'.order = o /\ tx'.at = 1 /\ UNCHANGED <<items, status, committed>> /\ Idle
        /\ tx'.pc \in {"cancel", "return", "repair"}
    BY <1>4 DEF BeginCancel, BeginReturn, BeginRepair, NoTx
  <2>2. committed.items = items /\ committed.status = status
    BY <2>1 DEF Agreement, Settled, Database
  <2>3. KnowsReturn'
    BY <1>1, <2>1, <2>2 DEF KnowsReturn
  <2>4. KnowsRepair'
    <3>1. StatusOf(items, status, o) /\ SameRows(items, items', o)
      BY <2>1, AllAgree DEF SameRows
    <3>2. StatusOf(items', status', o)
      BY <2>1, <3>1, StatusSame
    <3> QED BY <2>1, <3>2 DEF KnowsRepair
  <2>5. Knows'
    BY <2>1, <2>3, <2>4 DEF Knows, KnowsSave, KnowsConfirm, KnowsMerge
  <2> QED BY <2>1, <2>5, Opens
<1>5. ASSUME NEW o \in Orders, NEW S \in SUBSET DOMAIN items, NEW c \in Customers, BeginConfirm(o, S, c)
      PROVE  Agreement'
  <2>1. /\ tx'.order = o /\ tx'.selected = S /\ UNCHANGED <<items, status, committed>> /\ Idle
        /\ tx'.pc = "confirm" /\ S # {} /\ S \subseteq RowsOf(items, o, FALSE)
    BY <1>5 DEF BeginConfirm, NoTx
  <2>2. KnowsConfirm'
    BY <2>1 DEF KnowsConfirm, RowsOf
  <2>3. Knows'
    BY <2>1, <2>2 DEF Knows, KnowsSave, KnowsReturn, KnowsMerge, KnowsRepair
  <2> QED BY <2>1, <2>3, Opens
<1>6. ASSUME NEW s \in Orders, NEW t \in Orders, BeginMerge(s, t) PROVE Agreement'
  <2>1. /\ tx'.order = s /\ tx'.into = t /\ tx'.at = 1 /\ tx'.rows = << >>
        /\ UNCHANGED <<items, status, committed>> /\ Idle /\ tx'.pc = "merge"
        /\ s # t /\ status[s] = "waiting" /\ status[t] = "waiting"
        /\ RowsOf(items, s, TRUE) = {} /\ RowsOf(items, t, TRUE) = {}
    BY <1>6 DEF BeginMerge, NoTx
  <2>2. ~HasSold(items, s) /\ ~HasSold(items, t)
    BY <2>1, RowsOfHas
  <2>3. Waiting(s)' /\ Waiting(t)'
    BY <2>1, <2>2 DEF Waiting, HasSold
  <2>4. KnowsMerge'
    BY <1>1, <2>1, <2>3 DEF KnowsMerge, Waiting
  <2>5. Knows'
    BY <2>1, <2>4 DEF Knows, KnowsSave, KnowsConfirm, KnowsReturn, KnowsRepair
  <2> QED BY <2>1, <2>5, Opens
<1> QED BY <1>2, <1>3, <1>4, <1>5, <1>6

(* The calls of one step change stock only, or a customer for another.       *)
LEMMA StoresAgree ==
  ASSUME Typed, Agreement
  PROVE  /\ \A r \in Rows, q \in ReceivedQty : Receive(r, q) => Agreement'
         /\ \A r \in Rows, q \in CountedQty : Count(r, q) => Agreement'
         /\ \A r, to \in Rows : \A q \in 1 .. inv[r] : Move(r, to, q) => Agreement'
         /\ \A o \in Orders, S \in SUBSET DOMAIN items, c \in Customers : UpdateSale(o, S, c) => Agreement'
<1>1. ASSUME Idle, UNCHANGED <<status, tx>>, committed' = Database',
             \A o \in Orders : SameRows(items, items', o)
      PROVE  Agreement'
  <2>1. /\ committed'.items = items' /\ committed'.status = status'
        /\ tx'.pc = "idle"
    BY <1>1 DEF Database, Idle
  <2>2. \A o \in Orders : StatusOf(items', status', o)
    BY <1>1, AllAgree, StatusSame
  <2>3. Knows'
    BY <2>1 DEF Knows, KnowsSave, KnowsConfirm, KnowsReturn, KnowsMerge, KnowsRepair
  <2> QED BY <1>1, <2>1, <2>2, <2>3 DEF Agreement, OthersAgree, Settled, StatusAgrees, Idle
<1>2. ASSUME NEW stock, Idle, Store(stock) PROVE Agreement'
  <2>1. committed = Database
    BY <1>2 DEF Agreement, Settled
  <2>2. committed' = Database'
    BY <1>2, <2>1 DEF Store, Database
  <2>3. \A o \in Orders : SameRows(items, items', o)
    BY <1>2 DEF Store, SameRows
  <2> QED BY <1>1, <1>2, <2>2, <2>3 DEF Store
<1>3. ASSUME NEW o \in Orders, NEW S \in SUBSET DOMAIN items, NEW c \in Customers, UpdateSale(o, S, c)
      PROVE  Agreement'
  <2>1. /\ Idle /\ S \subseteq RowsOf(items, o, TRUE)
        /\ items' = [i \in DOMAIN items |-> IF i \in S THEN [items[i] EXCEPT !.customer = c] ELSE items[i]]
        /\ committed' = [committed EXCEPT !.items = items'] /\ UNCHANGED <<inv, status, tx>>
    BY <1>3 DEF UpdateSale
  <2>2. committed = Database
    BY <2>1 DEF Agreement, Settled
  <2>3. committed' = Database'
    BY <2>1, <2>2 DEF Database
  <2>4. \A i \in DOMAIN items : items[i] \in Item
    BY ElementOfSeq, LenProperties DEF Typed
  <2>5. DOMAIN items' = DOMAIN items
    BY <2>1
  <2>6. \A i \in DOMAIN items : /\ items'[i].order = items[i].order
                                /\ items'[i].customer # Unsold <=> items[i].customer # Unsold
    <3> TAKE i \in DOMAIN items
    <3>1. i \in S => items[i].customer # Unsold
      BY <2>1 DEF RowsOf
    <3>2. c # Unsold
      BY ConstantsOK
    <3>3. items[i] \in Item
      BY <2>4
    <3>4. CASE i \in S
      <4>1. items'[i] = [items[i] EXCEPT !.customer = c]
        BY <2>1, <3>4
      <4>2. items'[i].order = items[i].order /\ items'[i].customer = c
        BY <3>3, <4>1 DEF Item
      <4> QED BY <3>1, <3>2, <3>4, <4>2
    <3>5. CASE i \notin S
      BY <2>1, <3>5
    <3> QED BY <3>4, <3>5
  <2>7. \A p \in Orders : SameRows(items, items', p)
    BY <2>5, <2>6 DEF SameRows, HasSold, HasUnsold
  <2> QED BY <1>1, <2>1, <2>3, <2>7
<1> QED BY <1>2, <1>3 DEF Receive, Count, Move
-----------------------------------------------------------------------------
(* The loops.                                                                *)

(* The steps that move the cursor only, over rows the loop does not visit    *)
(* or leaves as they are.                                                    *)
LEMMA CursorAgrees ==
  ASSUME Typed, Agreement, ~Idle, tx' = Advanced, UNCHANGED <<items, status, committed>>,
         tx.pc \in {"return", "merge"} => InLoop /\ ~Visits(Here)
  PROVE  Agreement'
<1>1. /\ tx'.pc = tx.pc /\ tx'.order = tx.order /\ tx'.into = tx.into /\ tx'.selected = tx.selected
      /\ tx'.rows = tx.rows /\ tx'.at = tx.at + 1
  BY DEF Typed, Tx, Advanced
<1>2. tx.at \in Nat /\ DOMAIN items \subseteq Nat
  BY LenProperties DEF Typed, Tx
<1>3. KnowsSave' /\ KnowsConfirm' /\ KnowsRepair'
  BY <1>1 DEF Agreement, Knows, KnowsSave, KnowsConfirm, KnowsRepair, Waiting, HasSold, StatusOf, RowsOf
<1>4. \A i \in DOMAIN items : i < tx.at + 1 => i < tx.at \/ i = tx.at
  BY <1>2
<1>5. KnowsReturn'
  <2> SUFFICES ASSUME tx.pc = "return" PROVE KnowsReturn'
    BY <1>1 DEF KnowsReturn
  <2>1. ~(Here.order = tx.order /\ Here.customer # Unsold)
    BY DEF Visits
  <2>2. KnowsReturn
    BY DEF Agreement, Knows
  <2> QED BY <1>1, <1>4, <2>1, <2>2 DEF KnowsReturn, HasSold, Here
<1>6. KnowsMerge'
  <2> SUFFICES ASSUME tx.pc = "merge" PROVE KnowsMerge'
    BY <1>1 DEF KnowsMerge
  <2>1. Here.order \notin {tx.order, tx.into}
    BY DEF Visits
  <2>2. KnowsMerge
    BY DEF Agreement, Knows
  <2> QED BY <1>1, <1>4, <2>1, <2>2 DEF KnowsMerge, Waiting, HasSold, Here
<1>7. \A o \in Orders : SameRows(items, items', o)
  BY DEF SameRows
<1> QED BY <1>1, <1>3, <1>5, <1>6, <1>7, GoesOn DEF Knows, Idle

(* Deleting the row at the cursor of a waiting order.                        *)
LEMMA UnstageAgrees ==
  ASSUME Typed, Agreement, Unstage \/ DropOrphan
  PROVE  Agreement'
<1>1. /\ tx.pc = "unstage" /\ InLoop /\ Here.order = tx.order
      /\ items' = RemoveAt(items, tx.at) /\ UNCHANGED <<status, committed>>
  BY DEF Unstage, DropOrphan, At, Visits
<1>2. tx'.pc = tx.pc /\ tx'.order = tx.order /\ tx'.into = tx.into
  <2>1. tx \in Tx
    BY DEF Typed
  <2> QED BY <2>1 DEF Unstage, DropOrphan, Tx
<1>3. tx.at \in DOMAIN items /\ items \in Seq(Item)
  BY <1>1, HereType DEF Typed
<1>4. \A o \in Orders : Touches(o) \/ SameRows(items, items', o)
  BY <1>1, <1>3, RemovedRow DEF Touches, Here
<1>5. KnowsSave'
  <2>1. Waiting(tx.order)
    BY <1>1 DEF Agreement, Knows, KnowsSave
  <2>2. ~HasSold(items', tx.order)
    BY <1>1, <1>3, <2>1, RemovedRow DEF Waiting
  <2> QED BY <1>1, <1>2, <2>1, <2>2 DEF KnowsSave, Waiting, HasSold
<1>6. Knows'
  BY <1>1, <1>2, <1>5 DEF Knows, KnowsConfirm, KnowsReturn, KnowsMerge, KnowsRepair
<1> QED BY <1>1, <1>2, <1>4, <1>6, GoesOn DEF Idle

(* Reducing a row of a confirmed order.                                      *)
LEMMA ReduceAgrees ==
  ASSUME Typed, Agreement, ReduceSold \/ ReduceUnsold
  PROVE  Agreement'
<1>1. /\ tx.pc \in {"sold", "unsold"} /\ InLoop /\ Here.order = tx.order
      /\ \E q, r, l : LeaveQty(q, r, l)
      /\ UNCHANGED <<status, committed>>
  BY DEF ReduceSold, ReduceUnsold, At, Visits
<1>2. PICK q, r, l : LeaveQty(q, r, l)
  BY <1>1
<1>3. tx'.pc = tx.pc /\ tx'.order = tx.order /\ tx'.into = tx.into
  <2>1. tx \in Tx
    BY DEF Typed
  <2> QED BY <1>2, <2>1 DEF LeaveQty, Tx
<1>4. tx.at \in DOMAIN items /\ items \in Seq(Item)
  BY <1>1, HereType DEF Typed
<1>5. \A o \in Orders : Touches(o) \/ SameRows(items, items', o)
  <2> TAKE o \in Orders
  <2>1. CASE q > 0
    <3>1. items' = [items EXCEPT ![tx.at].qty = q, ![tx.at].source = r[2]]
      BY <1>2, <2>1 DEF LeaveQty
    <3>2. DOMAIN items' = DOMAIN items /\ \A i \in DOMAIN items : i # tx.at => items'[i] = items[i]
      BY <1>4, <3>1
    <3>3. items[tx.at] \in Item /\ items[tx.at].order = tx.order
      BY <1>1, HereType DEF Here
    <3>4. items'[tx.at].order = tx.order
      BY <1>4, <3>1, <3>3 DEF Item
    <3>5. o # tx.order => SameRows(items, items', o)
      <4> SUFFICES ASSUME o # tx.order PROVE SameRows(items, items', o)
        OBVIOUS
      <4>1. \A i \in DOMAIN items : /\ items'[i].order = items[i].order
                                    /\ items[i].order = o => items'[i].customer = items[i].customer
        BY <3>2, <3>3, <3>4
      <4> QED BY <3>2, <4>1, UpdatedRows
    <3> QED BY <3>5 DEF Touches
  <2>2. CASE ~(q > 0)
    <3>1. items' = RemoveAt(items, tx.at)
      BY <1>2, <2>2 DEF LeaveQty
    <3> QED BY <1>1, <1>4, <3>1, RemovedRow DEF Touches, Here
  <2> QED BY <2>1, <2>2
<1>6. Knows'
  BY <1>1, <1>3 DEF Knows, KnowsSave, KnowsConfirm, KnowsReturn, KnowsMerge, KnowsRepair
<1> QED BY <1>1, <1>3, <1>5, <1>6, GoesOn DEF Idle

(* The row a taken cart entry becomes, or adds to, is an unsold row of the   *)
(* call's own order.                                                         *)
LEMMA EnlistedRows ==
  ASSUME Typed, tx.order \in Orders, NEW k \in Keys, NEW l \in Locs, NEW q \in Nat \ {0},
         NEW to \in Staging, NEW o
  PROVE  /\ HasSold(Enlisted(k, l, q, to), o) <=> HasSold(items, o)
         /\ o # tx.order => SameRows(items, Enlisted(k, l, q, to), o)
<1> DEFINE S == {i \in RowsOf(items, tx.order, FALSE) : RowOf(items[i]) = <<k, l>>}
           new == [order |-> tx.order, key |-> k, source |-> l, source_location |-> l,
                   waiting_location |-> to, qty |-> q, customer |-> Unsold]
<1>1. new \in Item /\ new.order = tx.order /\ new.customer = Unsold
  BY DEF Item
<1>2. S \subseteq DOMAIN items /\ S \subseteq Nat /\ items \in Seq(Item)
  BY LenProperties DEF RowsOf, Typed
<1>3. Enlisted(k, l, q, to) =
        IF tx.pc = "add" /\ S # {}
        THEN [items EXCEPT ![Min(S)].qty = @ + q, ![Min(S)].waiting_location = to]
        ELSE Append(items, new)
  BY DEF Enlisted
<1> HIDE DEF S, new
<1>4. CASE tx.pc = "add" /\ S # {}
  <2> DEFINE other == [items EXCEPT ![Min(S)].qty = @ + q, ![Min(S)].waiting_location = to]
             n == Min(S)
  <2>1. n \in DOMAIN items
    BY <1>2, <1>4, MinIn
  <2>2. items[n] \in Item
    BY <1>2, <2>1, ElementOfSeq, LenProperties
  <2> HIDE DEF n
  <2>3. DOMAIN other = DOMAIN items /\ \A i \in DOMAIN items : i # n => other[i] = items[i]
    BY <1>2, <2>1 DEF n
  <2>4. other[n] = [items[n] EXCEPT !.qty = @ + q, !.waiting_location = to]
    BY <1>2, <2>1 DEF n
  <2>5. other[n].order = items[n].order /\ other[n].customer = items[n].customer
    BY <2>2, <2>4 DEF Item
  <2> HIDE DEF other
  <2>6. \A p : SameRows(items, other, p)
    BY <2>3, <2>5, UpdatedRows
  <2> QED BY <1>3, <1>4, <2>6 DEF SameRows, other
<1>5. CASE ~(tx.pc = "add" /\ S # {})
  <2>1. /\ HasSold(Append(items, new), o) <=> HasSold(items, o) \/ (new.order = o /\ new.customer # Unsold)
        /\ HasUnsold(Append(items, new), o) <=> HasUnsold(items, o) \/ (new.order = o /\ new.customer = Unsold)
    BY <1>1, <1>2, AppendedRow
  <2> QED BY <1>1, <1>3, <1>5, <2>1 DEF SameRows
<1> QED BY <1>4, <1>5

(* Taking a cart entry.                                                      *)
LEMMA TakeAgrees ==
  ASSUME Typed, Arguments, Agreement, TakeEntry
  PROVE  Agreement'
<1>1. /\ Taking /\ tx.at \in DOMAIN tx.cart /\ Pending(Entry)
      /\ tx.pc \in {"register", "restage", "add"} /\ tx.order \in Orders /\ tx.loc \in Staging
  BY DEF TakeEntry, Taking, Arguments, Idle
<1>2. tx.cart \in Submitted /\ tx.want \in [Rows -> Nat] /\ tx.hint \in [Rows -> Locs]
  BY DEF Typed, Tx
<1>3. Entry \in Rows /\ Entry[1] \in Keys
  BY <1>1, <1>2, WantedPositive DEF Entry, Rows
<1> DEFINE k == Entry[1]
           q == tx.want[Entry]
           l == Resolve(Entry, tx.hint[Entry], q)
           to == StagedLoc(l, Target(Entry))
<1>4. q \in Nat \ {0}
  <2>1. CASE tx.pc = "add"
    BY <1>1, <1>2, <1>3, <2>1 DEF Pending
  <2>2. CASE tx.pc # "add"
    BY <1>1, <1>2, <2>2, WantedPositive DEF Arguments, Entry
  <2> QED BY <2>1, <2>2
<1>5. l \in Locs \cup {NoLoc}
  BY <1>2, <1>3, ResolveType
<1>6. /\ CanTake(k, l, q) /\ items' = Enlisted(k, l, q, to)
      /\ tx' = Advanced /\ UNCHANGED <<status, committed>>
  BY DEF TakeEntry
<1>7. Target(Entry) \in Staging
  BY <1>1, <1>3, TargetType
<1> HIDE DEF k, q, l
<1>8. l \in Locs /\ to \in Staging
  BY <1>3, <1>4, <1>5, <1>6, <1>7, StagedType DEF Typed, k
<1> HIDE DEF to
<1>9. \A o : /\ HasSold(items', o) <=> HasSold(items, o)
             /\ o # tx.order => SameRows(items, items', o)
  BY <1>1, <1>3, <1>4, <1>6, <1>8, EnlistedRows DEF k
<1>10. tx'.pc = tx.pc /\ tx'.order = tx.order /\ tx'.into = tx.into
  BY <1>6 DEF Advanced, Typed, Tx
<1>11. KnowsSave'
  <2>1. tx.pc \in {"register", "unstage", "restage"} => Waiting(tx.order)
    BY DEF Agreement, Knows, KnowsSave
  <2>2. ~HasSold(items, tx.order) => ~HasSold(items', tx.order)
    BY <1>9
  <2> QED BY <1>6, <1>10, <2>1, <2>2 DEF KnowsSave, Waiting, HasSold
<1>12. Knows'
  BY <1>1, <1>10, <1>11 DEF Knows, KnowsConfirm, KnowsReturn, KnowsMerge, KnowsRepair
<1>13. \A o \in Orders : Touches(o) \/ SameRows(items, items', o)
  BY <1>9 DEF Touches
<1> QED BY <1>1, <1>6, <1>10, <1>12, <1>13, GoesOn DEF Idle

(* A row that is changed in place by a loop over the rows of one order.      *)
LEMMA RowInPlace ==
  ASSUME Typed, InLoop, NEW o, DOMAIN items' = DOMAIN items,
         \A i \in DOMAIN items : i # tx.at => items'[i] = items[i],
         items'[tx.at].order = Here.order, Here.order # o
  PROVE  SameRows(items, items', o)
<1>1. \A i \in DOMAIN items : /\ items'[i].order = items[i].order
                              /\ items[i].order = o => items'[i].customer = items[i].customer
  BY DEF Here
<1> QED BY <1>1, UpdatedRows

(* Selling a row, and taking the sale of one back.                           *)
LEMMA CustomerAgrees ==
  ASSUME Typed, Agreement, ConfirmRow \/ ReturnRow
  PROVE  Agreement'
<1>1. /\ InLoop /\ Visits(Here) /\ tx' = Advanced /\ UNCHANGED <<status, committed>>
      /\ tx.pc \in {"confirm", "return"}
  BY DEF ConfirmRow, ReturnRow, At
<1>2. /\ tx'.pc = tx.pc /\ tx'.order = tx.order /\ tx'.into = tx.into /\ tx'.selected = tx.selected
      /\ tx'.at = tx.at + 1
  BY <1>1 DEF Typed, Tx, Advanced
<1>3. tx.at \in DOMAIN items /\ items \in Seq(Item) /\ Here \in Item /\ tx.at \in Nat /\ DOMAIN items \subseteq Nat
  BY <1>1, HereType, LenProperties DEF Typed, Tx
<1>4. KnowsConfirm /\ KnowsReturn
  BY DEF Agreement, Knows
<1>5. Here.order = tx.order
  BY <1>1, <1>3, <1>4 DEF Visits, KnowsConfirm, Here
<1>6. \E c : items' = [items EXCEPT ![tx.at].customer = c]
  BY DEF ConfirmRow, ReturnRow
<1>7. /\ DOMAIN items' = DOMAIN items
      /\ \A i \in DOMAIN items : i # tx.at => items'[i] = items[i]
      /\ items'[tx.at].order = Here.order
  <2> PICK c : items' = [items EXCEPT ![tx.at].customer = c]
    BY <1>6
  <2>1. items'[tx.at] = [Here EXCEPT !.customer = c]
    BY <1>3 DEF Here
  <2> QED BY <1>3, <2>1 DEF Item
<1>8. \A o \in Orders : Touches(o) \/ SameRows(items, items', o)
  BY <1>1, <1>5, <1>7, RowInPlace DEF Touches
<1>9. KnowsConfirm'
  BY <1>2, <1>4, <1>5, <1>7 DEF KnowsConfirm, Here
<1>10. KnowsReturn'
  <2> SUFFICES ASSUME tx.pc = "return" PROVE KnowsReturn'
    BY <1>2 DEF KnowsReturn
  <2>1. items' = [items EXCEPT ![tx.at].customer = Unsold]
    BY DEF ConfirmRow, ReturnRow, At
  <2>2. items'[tx.at].customer = Unsold
    BY <1>3, <2>1 DEF Here, Item
  <2>3. HasSold(items, tx.order)
    BY <1>1, <1>3 DEF Visits, HasSold, Here
  <2>4. HasSold(committed.items, tx.order)
    BY <1>4, <2>3 DEF KnowsReturn
  <2>5. \A i \in DOMAIN items : i < tx.at + 1 => i < tx.at \/ i = tx.at
    BY <1>3
  <2>6. \A i \in DOMAIN items' : i < tx.at + 1 /\ items'[i].order = tx.order => items'[i].customer = Unsold
    BY <1>4, <1>7, <2>2, <2>5 DEF KnowsReturn
  <2>7. HasSold(committed.items, tx.order)'
    BY <1>1, <1>2, <2>4 DEF HasSold
  <2> QED BY <1>1, <1>2, <1>4, <2>6, <2>7 DEF KnowsReturn
<1>11. Knows'
  BY <1>1, <1>2, <1>9, <1>10 DEF Knows, KnowsSave, KnowsMerge, KnowsRepair
<1> QED BY <1>1, <1>2, <1>8, <1>11, GoesOn DEF Idle

(* Grouped rows are rows of the target, unsold.                              *)
LEMMA GroupedRows ==
  ASSUME NEW rows \in Seq(Item), NEW it \in Item, it.customer = Unsold,
         \A i \in DOMAIN rows : rows[i].order = it.order /\ rows[i].customer = Unsold
  PROVE  \A i \in DOMAIN Grouped(rows, it) :
           Grouped(rows, it)[i].order = it.order /\ Grouped(rows, it)[i].customer = Unsold
<1> DEFINE S == {i \in DOMAIN rows : SameGroup(rows[i], it)}
<1>1. Grouped(rows, it) = IF S = {} THEN Append(rows, it) ELSE [rows EXCEPT ![Min(S)].qty = @ + it.qty]
  BY DEF Grouped
<1>2. S # {} => Min(S) \in DOMAIN rows
  <2>1. S \subseteq Nat /\ S \subseteq DOMAIN rows
    BY LenProperties
  <2> HIDE DEF S
  <2> QED BY <2>1, MinIn
<1>3. \A i \in DOMAIN Append(rows, it) : Append(rows, it)[i] = it \/ (i \in DOMAIN rows /\ Append(rows, it)[i] = rows[i])
  BY AppendProperties, LenProperties
<1> HIDE DEF S
<1>4. CASE S = {}
  BY <1>1, <1>3, <1>4
<1>5. CASE S # {}
  <2> DEFINE n == Min(S)
             other == [rows EXCEPT ![n].qty = @ + it.qty]
  <2>1. n \in DOMAIN rows
    BY <1>2, <1>5
  <2>2. rows[n] \in Item
    BY <2>1, ElementOfSeq, LenProperties
  <2> HIDE DEF n
  <2>3. DOMAIN other = DOMAIN rows /\ \A i \in DOMAIN rows : i # n => other[i] = rows[i]
    BY <2>1
  <2>4. other[n].order = rows[n].order /\ other[n].customer = rows[n].customer
    BY <2>1, <2>2 DEF Item
  <2>5. Grouped(rows, it) = other
    BY <1>1, <1>5 DEF n
  <2> HIDE DEF other
  <2> QED BY <2>3, <2>4, <2>5
<1> QED BY <1>4, <1>5

(* Merging a row into the target.                                            *)
LEMMA MergeAgrees ==
  ASSUME Typed, Arguments, Agreement, MergeRow
  PROVE  Agreement'
<1>1. /\ tx.pc = "merge" /\ InLoop /\ Here.order \in {tx.order, tx.into}
      /\ items' = RemoveAt(items, tx.at) /\ UNCHANGED <<status, committed>>
      /\ tx' = [tx EXCEPT !.rows = Grouped(@, [Here EXCEPT !.order = tx.into])]
  BY DEF MergeRow, At, Visits
<1>2. /\ tx'.pc = tx.pc /\ tx'.order = tx.order /\ tx'.into = tx.into /\ tx'.at = tx.at
      /\ tx'.rows = Grouped(tx.rows, [Here EXCEPT !.order = tx.into])
  BY <1>1 DEF Typed, Tx
<1>3. tx.at \in DOMAIN items /\ items \in Seq(Item) /\ Here \in Item /\ tx.rows \in Seq(Item)
  BY <1>1, HereType DEF Typed, Tx
<1>4. KnowsMerge
  BY DEF Agreement, Knows
<1>5. Here.customer = Unsold
  BY <1>1, <1>3, <1>4 DEF KnowsMerge, Waiting, HasSold, Here
<1>6. \A o \in Orders : Touches(o) \/ SameRows(items, items', o)
  BY <1>1, <1>3, RemovedRow DEF Touches, Here
<1>7. ~HasSold(items', tx.order) /\ ~HasSold(items', tx.into)
  BY <1>1, <1>3, <1>4, RemovedRow DEF KnowsMerge, Waiting
<1>8. \A i \in DOMAIN items' : i < tx.at => i \in DOMAIN items /\ items'[i] = items[i]
  <2>1. /\ items' \in Seq(Item) /\ Len(items') = Len(items) - 1
        /\ \A i \in 1 .. Len(items) - 1 : items'[i] = IF i < tx.at THEN items[i] ELSE items[i + 1]
    BY <1>1, <1>3, RemoveAtFacts
  <2> QED BY <1>3, <2>1, LenProperties
<1>9. \A i \in DOMAIN tx'.rows : tx'.rows[i].order = tx.into /\ tx'.rows[i].customer = Unsold
  <2> DEFINE it == [Here EXCEPT !.order = tx.into]
  <2>1. tx.into \in Orders
    BY <1>1 DEF Arguments
  <2>2. it \in Item /\ it.order = tx.into /\ it.customer = Unsold
    BY <1>3, <1>5, <2>1 DEF Item
  <2> HIDE DEF it
  <2>3. \A i \in DOMAIN tx.rows : tx.rows[i].order = it.order /\ tx.rows[i].customer = Unsold
    BY <1>1, <1>4, <2>2 DEF KnowsMerge
  <2>4. \A i \in DOMAIN Grouped(tx.rows, it) :
          Grouped(tx.rows, it)[i].order = it.order /\ Grouped(tx.rows, it)[i].customer = Unsold
    BY <1>3, <2>2, <2>3, GroupedRows
  <2> QED BY <1>2, <2>2, <2>4 DEF it
<1>10. KnowsMerge'
  <2>1. Waiting(tx.order)' /\ Waiting(tx.into)'
    BY <1>1, <1>2, <1>4, <1>7 DEF KnowsMerge, Waiting, HasSold
  <2> QED BY <1>1, <1>2, <1>4, <1>8, <1>9, <2>1 DEF KnowsMerge, Waiting
<1>11. Knows'
  BY <1>1, <1>2, <1>10 DEF Knows, KnowsSave, KnowsConfirm, KnowsReturn, KnowsRepair
<1> QED BY <1>1, <1>2, <1>6, <1>11, GoesOn DEF Idle

(* The rest of the steps inside a transaction: stock is moved for rows that  *)
(* keep their order and customer.                                            *)
LEMMA StockMovesAgree ==
  ASSUME Typed, Agreement, NextLoop \/ CancelRow \/ Restage \/ Gather
  PROVE  Agreement'
<1>1. tx \in Tx /\ UNCHANGED <<status, committed>>
  BY DEF Typed, NextLoop, CancelRow, Restage, Gather
<1>2. CASE NextLoop
  <2>1. /\ tx.pc \in {"unstage", "sold", "unsold"} /\ tx'.order = tx.order /\ tx'.into = tx.into
        /\ tx'.pc \in {"restage", "unsold", "add"} /\ items' = items
        /\ tx'.pc = "restage" => tx.pc = "unstage"
    BY <1>1, <1>2 DEF NextLoop, After, Tx
  <2>2. KnowsSave'
    BY <1>1, <2>1 DEF Agreement, Knows, KnowsSave, Waiting, HasSold
  <2>3. Knows'
    BY <2>1, <2>2 DEF Knows, KnowsConfirm, KnowsReturn, KnowsMerge, KnowsRepair
  <2>4. \A o \in Orders : SameRows(items, items', o)
    BY <2>1 DEF SameRows
  <2> QED BY <1>1, <2>1, <2>3, <2>4, GoesOn DEF Idle
<1>3. CASE CancelRow
  BY <1>1, <1>3, CursorAgrees DEF CancelRow, At, Idle
<1>4. CASE Restage \/ Gather
  <2>1. /\ tx.pc = "repair" /\ InLoop /\ Here.order = tx.order
        /\ tx'.pc = tx.pc /\ tx'.order = tx.order /\ tx'.into = tx.into
    BY <1>1, <1>4 DEF Restage, Gather, At, Visits, Advanced, Tx
  <2>2. \A o : SameRows(items, items', o)
    <3>1. CASE Gather
      BY <3>1 DEF Gather, SameRows
    <3>2. CASE Restage
      <4>1. tx.at \in DOMAIN items /\ items[tx.at] \in Item
        BY <2>1, HereType DEF Here
      <4>2. PICK l, to : items' = [items EXCEPT ![tx.at] = [items[tx.at] EXCEPT
                                     !.source = l, !.source_location = l, !.waiting_location = to]]
        BY <3>2, <4>1 DEF Restage, Typed
      <4>3. DOMAIN items' = DOMAIN items /\ \A i \in DOMAIN items : i # tx.at => items'[i] = items[i]
        BY <4>1, <4>2
      <4>4. items'[tx.at] = [items[tx.at] EXCEPT !.source = l, !.source_location = l, !.waiting_location = to]
        BY <4>1, <4>2
      <4>5. items'[tx.at].order = items[tx.at].order /\ items'[tx.at].customer = items[tx.at].customer
        BY <4>1, <4>4 DEF Item
      <4> QED BY <4>3, <4>5, UpdatedRows
    <3> QED BY <1>4, <3>1, <3>2
  <2>3. KnowsRepair'
    <3>1. StatusOf(items, status, tx.order)
      BY <2>1 DEF Agreement, Knows, KnowsRepair
    <3>2. StatusOf(items', status', tx.order)
      BY <1>1, <2>2, <3>1, StatusSame
    <3> QED BY <1>1, <2>1, <3>2 DEF KnowsRepair, StatusOf, RowsOf
  <2>4. Knows'
    BY <2>1, <2>3 DEF Knows, KnowsSave, KnowsConfirm, KnowsReturn, KnowsMerge
  <2> QED BY <1>1, <2>1, <2>2, <2>4, GoesOn DEF Idle
<1> QED BY <1>2, <1>3, <1>4
-----------------------------------------------------------------------------
(* The statuses.                                                             *)

(* A loop that is over has been at every row.                                *)
LEMMA LoopOver ==
  ASSUME Typed, ~InLoop
  PROVE  \A i \in DOMAIN items : i < tx.at
<1>1. PICK n \in Nat : DOMAIN items = 1 .. n
  BY LenProperties DEF Typed
<1>2. tx.at \in Nat \ {0} /\ tx.at \notin 1 .. n
  BY <1>1 DEF Typed, Tx, InLoop
<1> QED BY <1>1, <1>2

(* Saving, cancelling and repairing.                                         *)
LEMMA SaveCommitAgrees ==
  ASSUME Typed, Agreement, CommitSave \/ CommitCancel \/ CommitRepair
  PROVE  Agreement'
<1>1. status \in [Orders -> Statuses]
  BY DEF Typed
<1>2. CASE CommitSave /\ tx.pc = "add"
  <2> DEFINE st == [status EXCEPT ![tx.order] = AdjustedStatus(tx.order)]
  <2>1. Commit(st)
    BY <1>2 DEF CommitSave
  <2>2. \A o \in Orders : o # tx.order => st[o] = status[o]
    BY <1>1
  <2>3. ASSUME tx.order \in Orders PROVE StatusOf(items, st, tx.order)
    <3>1. st[tx.order] = AdjustedStatus(tx.order)
      BY <1>1, <2>3
    <3> HIDE DEF st
    <3>2. /\ RowsOf(items, tx.order, TRUE) = {} <=> ~HasSold(items, tx.order)
          /\ RowsOf(items, tx.order, FALSE) = {} <=> ~HasUnsold(items, tx.order)
      BY RowsOfHas
    <3>3. /\ AdjustedStatus(tx.order) \in {"waiting", "partial", "confirmed"}
          /\ AdjustedStatus(tx.order) = "waiting" => ~HasSold(items, tx.order)
          /\ AdjustedStatus(tx.order) = "partial" => HasUnsold(items, tx.order)
          /\ AdjustedStatus(tx.order) = "confirmed" => HasSold(items, tx.order) /\ ~HasUnsold(items, tx.order)
      BY <3>2 DEF AdjustedStatus
    <3> QED BY <3>1, <3>3, StatusOfHas
  <2> HIDE DEF st
  <2> QED BY <1>2, <2>1, <2>2, <2>3, Commits DEF Idle
<1>3. CASE CommitSave /\ tx.pc # "add"
  <2>1. Commit(status) /\ tx.pc \in {"register", "restage"}
    BY <1>3 DEF CommitSave, Taking
  <2>2. Waiting(tx.order)
    BY <2>1 DEF Agreement, Knows, KnowsSave
  <2>3. StatusOf(items, status, tx.order)
    BY <2>2, StatusOfHas DEF Waiting
  <2> QED BY <2>1, <2>3, Commits DEF Idle
<1>4. CASE CommitCancel
  <2> DEFINE st == [status EXCEPT ![tx.order] = "cancelled"]
  <2>1. Commit(st) /\ tx.pc = "cancel"
    BY <1>4 DEF CommitCancel, After
  <2>2. \A o \in Orders : o # tx.order => st[o] = status[o]
    BY <1>1
  <2>3. tx.order \in Orders => st[tx.order] = "cancelled"
    BY <1>1
  <2> HIDE DEF st
  <2>4. tx.order \in Orders => StatusOf(items, st, tx.order)
    BY <2>3, StatusOfHas
  <2> QED BY <2>1, <2>2, <2>4, Commits DEF Idle
<1>5. CASE CommitRepair
  <2>1. Commit(status) /\ tx.pc = "repair"
    BY <1>5 DEF CommitRepair, After
  <2>2. StatusOf(items, status, tx.order)
    BY <2>1 DEF Agreement, Knows, KnowsRepair
  <2> QED BY <2>1, <2>2, Commits DEF Idle
<1> QED BY <1>2, <1>3, <1>4, <1>5

(* Selling leaves a sold row, so an order without unsold rows is confirmed.  *)
LEMMA ConfirmCommitAgrees ==
  ASSUME Typed, Agreement, CommitConfirm
  PROVE  Agreement'
<1> DEFINE new == IF RowsOf(items, tx.order, FALSE) = {} THEN "confirmed" ELSE "partial"
           st == [status EXCEPT ![tx.order] = new]
<1>1. Commit(st) /\ tx.pc = "confirm" /\ status \in [Orders -> Statuses]
  BY DEF CommitConfirm, After, Typed
<1>2. \A o \in Orders : o # tx.order => st[o] = status[o]
  BY <1>1
<1>3. tx.order \in Orders => st[tx.order] = new
  BY <1>1
<1>4. HasSold(items, tx.order) \/ HasUnsold(items, tx.order)
  BY <1>1 DEF Agreement, Knows, KnowsConfirm, HasSold, HasUnsold
<1>5. RowsOf(items, tx.order, FALSE) = {} <=> ~HasUnsold(items, tx.order)
  BY RowsOfHas
<1>6. /\ new \in {"confirmed", "partial"}
      /\ new = "confirmed" <=> ~HasUnsold(items, tx.order)
  BY <1>5
<1> HIDE DEF new, st
<1>7. tx.order \in Orders => StatusOf(items, st, tx.order)
  BY <1>3, <1>4, <1>6, StatusOfHas
<1> QED BY <1>1, <1>2, <1>7, Commits DEF Idle

(* Returning leaves no sold row.                                             *)
LEMMA ReturnCommitAgrees ==
  ASSUME Typed, Agreement, CommitReturn
  PROVE  Agreement'
<1>1. /\ tx.pc = "return" /\ ~InLoop /\ status \in [Orders -> Statuses]
      /\ Commit(IF RowsOf(committed.items, tx.order, TRUE) = {} THEN status
                ELSE [status EXCEPT ![tx.order] = "waiting"])
  BY DEF CommitReturn, After, Typed
<1>2. KnowsReturn
  BY DEF Agreement, Knows
<1>3. ~HasSold(items, tx.order)
  BY <1>1, <1>2, LoopOver DEF KnowsReturn, HasSold
<1>4. CASE RowsOf(committed.items, tx.order, TRUE) = {}
  <2>1. ~HasSold(committed.items, tx.order)
    BY <1>4, RowsOfHas
  <2>2. items = committed.items /\ status = committed.status
    BY <1>1, <1>2, <2>1 DEF KnowsReturn
  <2>3. tx.order \in Orders => StatusOf(items, status, tx.order)
    BY <2>2 DEF Agreement, StatusAgrees
  <2>4. Commit(status)
    BY <1>1, <1>4
  <2> QED BY <1>1, <2>3, <2>4, Commits DEF Idle
<1>5. CASE RowsOf(committed.items, tx.order, TRUE) # {}
  <2> DEFINE st == [status EXCEPT ![tx.order] = "waiting"]
  <2>1. Commit(st)
    BY <1>1, <1>5
  <2>2. \A o \in Orders : o # tx.order => st[o] = status[o]
    BY <1>1
  <2>3. tx.order \in Orders => st[tx.order] = "waiting"
    BY <1>1
  <2> HIDE DEF st
  <2>4. tx.order \in Orders => StatusOf(items, st, tx.order)
    BY <1>3, <2>3, StatusOfHas
  <2> QED BY <1>1, <2>1, <2>2, <2>4, Commits DEF Idle
<1> QED BY <1>4, <1>5

(* Merging leaves the source no row and the target unsold rows.              *)
LEMMA MergeCommitAgrees ==
  ASSUME Typed, Arguments, Agreement, CommitMerge
  PROVE  Agreement'
<1>1. /\ tx.pc = "merge" /\ ~InLoop /\ status \in [Orders -> Statuses]
      /\ items' = items \o tx.rows /\ status' = [status EXCEPT ![tx.order] = "none"]
      /\ tx' = NoTx /\ committed' = Database'
  BY DEF CommitMerge, After, Typed, Database
<1>2. items \in Seq(Item) /\ tx.rows \in Seq(Item)
  BY DEF Typed, Tx
<1>3. KnowsMerge
  BY DEF Agreement, Knows
<1>4. \A o : /\ HasSold(items', o) <=> HasSold(items, o) \/ HasSold(tx.rows, o)
             /\ HasUnsold(items', o) <=> HasUnsold(items, o) \/ HasUnsold(tx.rows, o)
  BY <1>1, <1>2, AddedRows
<1>5. \A o : ~HasSold(tx.rows, o) /\ (o # tx.into => ~HasUnsold(tx.rows, o))
  BY <1>1, <1>3 DEF KnowsMerge, HasSold, HasUnsold
<1>6. ~HasSold(items, tx.order) /\ ~HasUnsold(items, tx.order) /\ ~HasSold(items, tx.into)
  BY <1>1, <1>3, LoopOver DEF KnowsMerge, HasSold, HasUnsold
<1>7. tx.order # tx.into /\ status[tx.into] = "waiting"
  BY <1>1, <1>3 DEF KnowsMerge, Waiting
<1>8. ASSUME NEW o \in Orders PROVE StatusOf(items', status', o)
  <2>1. CASE o = tx.order
    <3>1. status'[o] = "none"
      BY <1>1, <2>1
    <3>2. ~HasSold(items', o) /\ ~HasUnsold(items', o)
      BY <1>4, <1>5, <1>6, <1>7, <2>1
    <3> QED BY <3>1, <3>2, StatusOfHas
  <2>2. CASE o = tx.into
    <3>1. status'[o] = "waiting"
      BY <1>1, <1>7, <2>2
    <3>2. ~HasSold(items', o)
      BY <1>4, <1>5, <1>6, <2>2
    <3> QED BY <3>1, <3>2, StatusOfHas
  <2>3. CASE o # tx.order /\ o # tx.into
    <3>1. StatusOf(items, status, o) /\ status'[o] = status[o]
      BY <1>1, <2>3 DEF Agreement, OthersAgree, Touches, Idle
    <3>2. SameRows(items, items', o)
      BY <1>4, <1>5, <2>3 DEF SameRows
    <3> QED BY <3>1, <3>2, StatusSame
  <2> QED BY <2>1, <2>2, <2>3
<1> QED BY <1>1, <1>8, Settles

LEMMA AgreementStart == Init => Agreement
<1> SUFFICES ASSUME Init PROVE Agreement
  OBVIOUS
<1>1. /\ tx.pc = "idle" /\ committed = Database /\ committed.items = << >>
      /\ committed.status = [o \in Orders |-> "none"]
  BY DEF Init, NoTx, Database
<1>2. StatusAgrees
  BY <1>1, StatusOfHas DEF StatusAgrees, HasSold, HasUnsold
<1> QED BY <1>1, <1>2 DEF Agreement, OthersAgree, Settled, Idle, Knows, KnowsSave, KnowsConfirm,
                           KnowsReturn, KnowsMerge, KnowsRepair

LEMMA AgreementStep == TypeOK /\ Agreement /\ [Next]_vars => Agreement'
<1> SUFFICES ASSUME Typed, Arguments, Agreement, [Next]_vars PROVE Agreement'
  BY DEF TypeOK
<1>1. CASE UserStep
  <2>1. Carts \subseteq Submitted
    BY DEF Submitted
  <2>2. ASSUME NEW o \in Orders, NEW cart \in Submitted, NEW loc \in Staging,
               BeginRegister(o, cart, loc) \/ BeginEdit(o, cart, loc)
        PROVE  Agreement'
    BY <2>2, BeginsAgree
  <2>3. ASSUME NEW o \in Orders, NEW S \in SUBSET DOMAIN items, NEW c \in Customers,
               BeginConfirm(o, S, c) \/ UpdateSale(o, S, c)
        PROVE  Agreement'
    BY <2>3, BeginsAgree, StoresAgree
  <2>4. ASSUME NEW o \in Orders, BeginCancel(o) \/ BeginReturn(o) \/ BeginRepair(o) PROVE Agreement'
    BY <2>4, BeginsAgree
  <2>5. ASSUME NEW s \in Orders, NEW t \in Orders, BeginMerge(s, t) PROVE Agreement'
    BY <2>5, BeginsAgree
  <2> QED BY <1>1, <2>1, <2>2, <2>3, <2>4, <2>5, StoresAgree DEF UserStep
<1>2. CASE TxStep
  <2>1. CASE PassOver \/ KeepStaged \/ SkipEntry \/ LeaveReservation
    <3>1. /\ ~Idle /\ tx' = Advanced /\ UNCHANGED <<items, status, committed>>
          /\ tx.pc \in {"return", "merge"} => InLoop /\ ~Visits(Here)
      BY <2>1 DEF PassOver, KeepStaged, SkipEntry, LeaveReservation, At, Taking, Idle
    <3> QED BY <3>1, CursorAgrees
  <2>2. CASE UnstageFails \/ RelinkFails \/ ReduceFails \/ TakeFails \/ CancelFails \/ ConfirmFails
    BY <2>2, RollsBack DEF UnstageFails, RelinkFails, ReduceFails, TakeFails, CancelFails, ConfirmFails
  <2>3. CASE \/ NextLoop \/ Unstage \/ DropOrphan \/ ReduceSold \/ ReduceUnsold \/ TakeEntry
             \/ CancelRow \/ ConfirmRow \/ ReturnRow \/ MergeRow \/ Restage \/ Gather
    BY <2>3, StockMovesAgree, UnstageAgrees, ReduceAgrees, TakeAgrees, CustomerAgrees, MergeAgrees
  <2>4. CASE CommitSave \/ CommitCancel \/ CommitConfirm \/ CommitReturn \/ CommitMerge \/ CommitRepair
    BY <2>4, SaveCommitAgrees, ConfirmCommitAgrees, ReturnCommitAgrees, MergeCommitAgrees
  <2> QED BY <1>2, <2>1, <2>2, <2>3, <2>4 DEF TxStep
<1>3. CASE Crash
  BY <1>3, RollsBack DEF Crash
<1>4. CASE UNCHANGED vars
  <2>1. UNCHANGED <<inv, items, status, tx, committed>>
    BY <1>4 DEF vars
  <2> QED BY <2>1 DEF Agreement, StatusAgrees, OthersAgree, Settled, Knows, KnowsSave, KnowsConfirm,
                      KnowsReturn, KnowsMerge, KnowsRepair, Waiting, HasSold, Idle, Database, Touches,
                      StatusOf, RowsOf
<1> QED BY <1>1, <1>2, <1>3, <1>4 DEF Next

(* Whatever happens -- calls, failures half way, crashes -- the status an    *)
(* order is left with agrees with its rows, for every set of keys,           *)
(* locations, orders and carts.                                              *)
THEOREM StatusCorrect == Spec => []StatusAgrees
<1>1. Agreement => StatusAgrees
  BY DEF Agreement
<1> QED BY <1>1, AgreementStart, AgreementStep, TypeCorrect, PTL DEF Spec

-----------------------------------------------------------------------------
(* Quantities: what calls do to them.                                        *)

(* Weighing a table of rows.                                                 *)

Total(w, table) == Weigh(w, table, Len(table))

LEMMA TableFacts ==
  ASSUME NEW table \in Seq(Item)
  PROVE  /\ Len(table) \in Nat /\ DOMAIN table = 1 .. Len(table)
         /\ \A i \in 1 .. Len(table) : table[i] \in Item
  BY LenProperties, ElementOfSeq

LEMMA Weighed ==
  ASSUME NEW w \in [Item -> Nat], NEW table \in Seq(Item)
  PROVE  /\ Weighs(w, table, Len(table)) /\ Total(w, table) \in Nat
         /\ \A i \in DOMAIN table : w[table[i]] \in Nat
         /\ \A m \in 0 .. Len(table) : Weigh(w, table, m) \in Nat
<1>1. Weighs(w, table, Len(table))
  BY TableFacts DEF Weighs
<1>2. \A i \in DOMAIN table : w[table[i]] \in Nat
  BY TableFacts
<1> QED BY <1>1, <1>2, WeighIn, WeighSteps DEF Total

(* A row is changed. *)
LEMMA PutRow ==
  ASSUME NEW w \in [Item -> Nat], NEW table \in Seq(Item), NEW n \in DOMAIN table, NEW it \in Item
  PROVE  /\ Total(w, table) - w[table[n]] \in Nat
         /\ Total(w, [table EXCEPT ![n] = it]) = Total(w, table) - w[table[n]] + w[it]
         /\ \A m \in 0 .. n - 1 : Weigh(w, [table EXCEPT ![n] = it], m) = Weigh(w, table, m)
         /\ Len([table EXCEPT ![n] = it]) = Len(table)
<1> DEFINE u == [table EXCEPT ![n] = it]
           len == Len(table)
<1>1. /\ len \in Nat /\ n \in 1 .. len /\ Weighs(w, table, len) /\ w[table[n]] \in Nat /\ w[it] \in Nat
      /\ Len(u) = len
  BY TableFacts, Weighed, UpdateRow
<1>2. u[n] = it /\ \A i \in 1 .. len : i # n => u[i] = table[i]
  BY TableFacts
<1>3. Replaced(table, u, len, n)
  BY <1>1, <1>2 DEF Replaced
<1>4. w[u[n]] \in Nat /\ Weighs(w, table, len)
  BY <1>1, <1>2
<1> HIDE DEF u, len
<1>5. Reweighed(w, table, u, len, n)
  BY ONLY <1>3, <1>4, WeighPut
<1> QED BY <1>1, <1>2, <1>5 DEF Reweighed, Total, u, len

(* A row is deleted. *)
LEMMA CutRow ==
  ASSUME NEW w \in [Item -> Nat], NEW table \in Seq(Item), NEW n \in DOMAIN table
  PROVE  /\ Total(w, RemoveAt(table, n)) \in Nat
         /\ Total(w, table) = Total(w, RemoveAt(table, n)) + w[table[n]]
         /\ \A m \in 0 .. n - 1 : Weigh(w, RemoveAt(table, n), m) = Weigh(w, table, m)
         /\ Len(RemoveAt(table, n)) = Len(table) - 1
<1> DEFINE u == RemoveAt(table, n)
           len == Len(table)
<1>1. /\ len \in Nat /\ n \in 1 .. len /\ Weighs(w, table, len) /\ Len(u) = len - 1
      /\ \A i \in 1 .. len - 1 : u[i] = IF i < n THEN table[i] ELSE table[i + 1]
  BY TableFacts, Weighed, RemoveAtFacts
<1>4. Without(table, u, len, n) /\ Weighs(w, table, len)
  BY <1>1 DEF Without
<1> HIDE DEF u, len
<1>2. Weigh(w, table, len) = Weigh(w, u, len - 1) + w[table[n]] /\ Weigh(w, u, len - 1) \in Nat
  BY ONLY <1>4, WeighLess
<1>3. \A m \in 0 .. n - 1 : Weigh(w, u, m) = Weigh(w, table, m)
  BY ONLY <1>1, <1>4, WeighBefore
<1> QED BY <1>1, <1>2, <1>3 DEF Total, u, len

(* Rows are added at the end. *)
LEMMA AddTable ==
  ASSUME NEW w \in [Item -> Nat], NEW table \in Seq(Item), NEW more \in Seq(Item)
  PROVE  Total(w, table \o more) = Total(w, table) + Total(w, more)
<1> DEFINE u == table \o more
           n == Len(table)
           m == Len(more)
<1>1. /\ Weighs(w, table, n) /\ Weighs(w, more, m) /\ Len(u) = n + m
      /\ \A i \in 1 .. n + m : u[i] = IF i <= n THEN table[i] ELSE more[i - n]
  BY Weighed, ConcatProperties
<1> HIDE DEF u, n, m
<1>2. Weigh(w, u, n + m) = Weigh(w, table, n) + Weigh(w, more, m)
  BY <1>1, WeighBoth
<1> QED BY <1>1, <1>2 DEF Total, u, n, m

LEMMA AddRow ==
  ASSUME NEW w \in [Item -> Nat], NEW table \in Seq(Item), NEW it \in Item
  PROVE  Total(w, Append(table, it)) = Total(w, table) + w[it]
<1> DEFINE u == Append(table, it)
           n == Len(table)
<1>1. /\ n \in Nat /\ Len(u) = n + 1 /\ u \in Seq(Item) /\ u[n + 1] = it
      /\ \A i \in 1 .. n : u[i] = table[i]
  BY AppendProperties, TableFacts
<1> DEFINE l == Len(u)
<1>2. Weighs(w, u, l)
  BY <1>1, Weighed
<1> HIDE DEF u, n, l
<1>5. \A j \in 0 .. l : j # l => Weigh(w, u, j + 1) = Weigh(w, u, j) + w[u[j + 1]]
  BY ONLY <1>2, WeighSteps
<1>7. n \in 0 .. l /\ n # l
  BY <1>1 DEF l
<1>8. Weigh(w, u, n + 1) = Weigh(w, u, n) + w[u[n + 1]]
  BY ONLY <1>5, <1>7
<1>3. Weigh(w, u, n + 1) = Weigh(w, u, n) + w[it]
  BY ONLY <1>1, <1>8
<1>4. n \in Nat /\ \A i \in 1 .. n : w[u[i]] = w[table[i]]
  BY <1>1
<1>6. Weigh(w, u, n) = Weigh(w, table, n)
  BY ONLY <1>4, WeighSame
<1> QED BY <1>1, <1>3, <1>6 DEF Total, u, n, l

-----------------------------------------------------------------------------
(* What is on hand of a key.                                                 *)

HandOf(stock, k) == SumFunction([l \in Locs |-> stock[<<k, l>>]])

LEMMA HandNat ==
  ASSUME NEW stock \in [Rows -> Nat], NEW k \in Keys
  PROVE  HandOf(stock, k) \in Nat
<1> DEFINE f == [l \in Locs |-> stock[<<k, l>>]]
<1>1. IsFiniteSet(Locs) /\ DOMAIN f = Locs /\ \A l \in Locs : f[l] \in Nat
  BY ConstantsOK DEF Rows
<1> HIDE DEF f
<1>2. SumFunctionOnSet(f, Locs) \in Nat
  BY ONLY <1>1, SumNat
<1> QED BY <1>1, <1>2 DEF HandOf, SumFunction, f

(* One row is written. *)
LEMMA HandRow ==
  ASSUME NEW t \in [Rows -> Nat], NEW u \in [Rows -> Nat], NEW a \in Rows,
         \A r \in Rows : r # a => u[r] = t[r], NEW k \in Keys
  PROVE  /\ k = a[1] => HandOf(t, k) - t[a] \in Nat /\ HandOf(u, k) = HandOf(t, k) - t[a] + u[a]
         /\ k # a[1] => HandOf(u, k) = HandOf(t, k)
<1> DEFINE f == [l \in Locs |-> t[<<k, l>>]]
           g == [l \in Locs |-> u[<<k, l>>]]
<1>1. /\ IsFiniteSet(Locs) /\ DOMAIN f = Locs /\ DOMAIN g = Locs
      /\ \A l \in Locs : f[l] \in Nat /\ g[l] \in Nat
  BY ConstantsOK DEF Rows
<1>2. HandOf(t, k) = SumFunctionOnSet(f, Locs) /\ HandOf(u, k) = SumFunctionOnSet(g, Locs)
  BY <1>1 DEF HandOf, SumFunction
<1>3. CASE k # a[1]
  <2>1. \A l \in Locs : f[l] = g[l]
    BY <1>3 DEF Rows
  <2> HIDE DEF f, g
  <2>2. SumFunctionOnSet(f, Locs) = SumFunctionOnSet(g, Locs)
    BY ONLY <1>1, <2>1, SumSame
  <2> QED BY <1>2, <1>3, <2>2
<1>4. CASE k = a[1]
  <2> DEFINE e == a[2]
             R == Locs \ {e}
  <2>1. e \in Locs /\ a = <<k, e>> /\ f[e] = t[a] /\ g[e] = u[a]
    BY <1>4 DEF Rows
  <2>2. \A l \in R : f[l] = g[l] /\ f[l] \in Nat
    BY <1>1, <2>1 DEF Rows
  <2>3. IsFiniteSet(R)
    BY <1>1, FS_Subset
  <2> HIDE DEF f, g, e
  <2>4. (\A l \in Locs : f[l] \in Int) /\ \A l \in Locs : g[l] \in Int
    BY <1>1
  <2>5. /\ SumFunctionOnSet(f, Locs) = f[e] + SumFunctionOnSet(f, R)
        /\ SumFunctionOnSet(g, Locs) = g[e] + SumFunctionOnSet(g, R)
    BY <1>1, <2>1, <2>4, SumSplit
  <2> HIDE DEF R
  <2>6. SumFunctionOnSet(f, R) = SumFunctionOnSet(g, R) /\ SumFunctionOnSet(f, R) \in Nat
    BY <2>2, <2>3, SumSame, SumNat
  <2>7. t[a] \in Nat /\ u[a] \in Nat
    OBVIOUS
  <2> QED BY <1>2, <1>4, <2>1, <2>5, <2>6, <2>7
<1> QED BY <1>3, <1>4

(* Stock that is moved within its key stays on hand.                         *)
MovedRow(stock, from, to, q, r) ==
  IF r = from /\ r # to THEN stock[r] - q ELSE IF r = to /\ r # from THEN stock[r] + q ELSE stock[r]

LEMMA MoveRows ==
  ASSUME NEW stock \in [Rows -> Nat], NEW from \in Rows, NEW to \in Rows, NEW q \in Nat,
         q <= stock[from]
  PROVE  /\ MoveQty(stock, from, to, q) \in [Rows -> Nat]
         /\ \A r \in Rows : MoveQty(stock, from, to, q)[r] = MovedRow(stock, from, to, q, r)
<1>1. MoveQty(stock, from, to, q) \in [Rows -> Nat]
  BY MoveQtyType
<1> DEFINE less == [stock EXCEPT ![from] = @ - q]
<1>2. less \in [Rows -> Nat] /\ \A r \in Rows : less[r] = IF r = from THEN stock[r] - q ELSE stock[r]
  OBVIOUS
<1> HIDE DEF less
<1>3. \A r \in Rows : [less EXCEPT ![to] = @ + q][r] = IF r = to THEN less[r] + q ELSE less[r]
  BY <1>2
<1>4. MoveQty(stock, from, to, q) = [less EXCEPT ![to] = @ + q]
  BY DEF MoveQty, less
<1>5. stock[from] \in Nat /\ stock[from] - q + q = stock[from]
  OBVIOUS
<1> QED BY <1>1, <1>2, <1>3, <1>4, <1>5 DEF MovedRow

LEMMA HandMoved ==
  ASSUME NEW stock \in [Rows -> Nat], NEW from \in Rows, NEW to \in Rows, NEW q \in Nat,
         q <= stock[from], from[1] = to[1], NEW k \in Keys
  PROVE  HandOf(MoveQty(stock, from, to, q), k) = HandOf(stock, k)
<1> DEFINE new == MoveQty(stock, from, to, q)
           less == [stock EXCEPT ![from] = @ - q]
<1>1. new \in [Rows -> Nat] /\ \A r \in Rows : new[r] = MovedRow(stock, from, to, q, r)
  BY MoveRows
<1>2. less \in [Rows -> Nat] /\ \A r \in Rows : less[r] = IF r = from THEN stock[r] - q ELSE stock[r]
  OBVIOUS
<1> HIDE DEF new, less
<1>3. CASE from = to
  <2>1. \A r \in Rows : r # to => new[r] = stock[r]
    BY <1>1, <1>3 DEF MovedRow
  <2>2. new[to] = stock[to]
    BY <1>1, <1>3 DEF MovedRow
  <2> QED BY <1>1, <2>1, <2>2, HandRow, HandNat DEF new
<1>4. CASE from # to
  <2>1. \A r \in Rows : r # from => less[r] = stock[r]
    BY <1>2
  <2>2. \A r \in Rows : r # to => new[r] = less[r]
    BY <1>1, <1>2, <1>4 DEF MovedRow
  <2>3. less[from] = stock[from] - q /\ new[to] = less[to] + q
    BY <1>1, <1>2, <1>4 DEF MovedRow
  <2>4. /\ k = from[1] => HandOf(stock, k) - stock[from] \in Nat
                          /\ HandOf(less, k) = HandOf(stock, k) - stock[from] + less[from]
        /\ k # from[1] => HandOf(less, k) = HandOf(stock, k)
    BY <1>2, <2>1, HandRow
  <2>5. /\ k = to[1] => HandOf(less, k) - less[to] \in Nat /\ HandOf(new, k) = HandOf(less, k) - less[to] + new[to]
        /\ k # to[1] => HandOf(new, k) = HandOf(less, k)
    BY <1>1, <1>2, <2>2, HandRow
  <2>6. less[to] \in Nat /\ stock[from] \in Nat /\ HandOf(stock, k) \in Nat /\ HandOf(less, k) \in Nat
    BY <1>2, HandNat
  <2> QED BY <2>3, <2>4, <2>5, <2>6 DEF new
<1> QED BY <1>3, <1>4

(* The calls put stock elsewhere only within its key.                        *)
LEMMA RestoredHand ==
  ASSUME inv \in [Rows -> Nat], NEW it \in Item, NEW q \in Nat, CanRestore(it, q), NEW k \in Keys
  PROVE  HandOf(Restored(it, q), k) = HandOf(inv, k)
<1>1. /\ StagedAt(it) \in Rows /\ <<it.key, it.source_location>> \in Rows
      /\ StagedAt(it)[1] = it.key /\ <<it.key, it.source_location>>[1] = it.key
  BY DEF Item, Rows, Locs, StagedAt
<1>2. CASE InStaging(it, q)
  <2>1. q <= inv[StagedAt(it)]
    BY <1>1, <1>2 DEF InStaging
  <2>2. HandOf(MoveQty(inv, StagedAt(it), <<it.key, it.source_location>>, q), k) = HandOf(inv, k)
    BY <1>1, <2>1, HandMoved
  <2> QED BY <1>2, <2>2 DEF Restored
<1> QED BY <1>2 DEF Restored

LEMMA StagedHand ==
  ASSUME inv \in [Rows -> Nat], NEW k \in Keys, NEW l, NEW q \in Nat, NEW to \in Staging,
         l \in Locs \cup {NoLoc}, CanTake(k, l, q), NEW key \in Keys
  PROVE  HandOf(Staged(k, l, q, to), key) = HandOf(inv, key)
<1>1. CASE l \in Staging
  BY <1>1 DEF Staged
<1>2. CASE l \notin Staging
  <2>1. /\ <<k, l>> \in Rows /\ <<k, to>> \in Rows /\ <<k, l>>[1] = <<k, to>>[1]
        /\ q <= inv[<<k, l>>]
    BY <1>2 DEF Rows, Locs, CanTake
  <2>2. HandOf(MoveQty(inv, <<k, l>>, <<k, to>>, q), key) = HandOf(inv, key)
    BY <2>1, HandMoved
  <2> QED BY <1>2, <2>2 DEF Staged
<1> QED BY <1>1, <1>2

-----------------------------------------------------------------------------
(* What is sold.                                                             *)

SoldIn(o, k) == [it \in Item |-> IF it.order = o /\ it.customer # Unsold /\ it.key = k THEN it.qty ELSE 0]

LEMMA SoldInType ==
  ASSUME NEW o, NEW k
  PROVE  SoldIn(o, k) \in [Item -> Nat]
<1>1. \A it \in Item : it.qty \in Nat
  BY DEF Item
<1> QED BY <1>1 DEF SoldIn

LEMMA SoldInRow ==
  ASSUME NEW o, NEW k, NEW it \in Item
  PROVE  SoldIn(o, k)[it] = IF it.order = o /\ it.customer # Unsold /\ it.key = k THEN it.qty ELSE 0
  BY DEF SoldIn

(* A sum over some rows weighs the table.                                    *)
LEMMA SumIsTotal ==
  ASSUME NEW w \in [Item -> Nat], NEW table \in Seq(Item), NEW S, S \subseteq DOMAIN table,
         \A i \in DOMAIN table : w[table[i]] = IF i \in S THEN table[i].qty ELSE 0
  PROVE  SumQty(table, S) = Total(w, table)
<1> DEFINE f == [i \in S |-> table[i].qty]
           n == Len(table)
<1>1. n \in Nat /\ DOMAIN table = 1 .. n /\ \A i \in 1 .. n : table[i].qty \in Nat
  <2>1. \A it \in Item : it.qty \in Nat
    BY DEF Item
  <2> QED BY <2>1, TableFacts
<1>2. DOMAIN f = S /\ WeighsAs(w, table, n, f, S)
  BY <1>1 DEF WeighsAs
<1> HIDE DEF f, n
<1>3. WeighsAs(w, table, n, f, S)
  BY <1>2
<1>4. SumFunctionOnSet(f, S) = Weigh(w, table, n)
  BY ONLY <1>3, WeighSome
<1> QED BY <1>2, <1>4 DEF SumQty, SumFunction, Total, f, n

LEMMA QtyIsTotal ==
  ASSUME NEW table \in Seq(Item), NEW o, NEW k
  PROVE  QtyBy(table, o, TRUE, k) = Total(SoldIn(o, k), table)
<1> DEFINE S == {i \in RowsOf(table, o, TRUE) : table[i].key = k}
<1>1. /\ S \subseteq DOMAIN table
      /\ \A i \in DOMAIN table : i \in S <=> table[i].order = o /\ table[i].customer # Unsold /\ table[i].key = k
  BY DEF RowsOf
<1>2. \A i \in DOMAIN table : table[i] \in Item
  BY TableFacts
<1>3. QtyBy(table, o, TRUE, k) = SumQty(table, S)
  BY DEF QtyBy
<1> HIDE DEF S
<1>4. \A i \in DOMAIN table : SoldIn(o, k)[table[i]] = IF i \in S THEN table[i].qty ELSE 0
  BY <1>1, <1>2, SoldInRow
<1> QED BY <1>1, <1>3, <1>4, SoldInType, SumIsTotal

-----------------------------------------------------------------------------
(* The account of a call: what its tables hold against those last committed. *)

Hand(k) == HandOf(inv, k)
HandC(k) == HandOf(committed.inv, k)
Sold(o, k) == Total(SoldIn(o, k), items)
SoldC(o, k) == Total(SoldIn(o, k), committed.items)

(* Calls that neither sell nor take back.                                    *)
Quiet == {"register", "unstage", "restage", "cancel", "repair", "merge"}

OthersSold == \A o \in Orders, k \in Keys : o # tx.order => Sold(o, k) = SoldC(o, k)
QuietAccount ==
  tx.pc \in Quiet => \A k \in Keys : Hand(k) = HandC(k) /\ Sold(tx.order, k) = SoldC(tx.order, k)
ConfirmAccount ==
  tx.pc = "confirm" =>
    /\ \A k \in Keys : /\ Hand(k) + Sold(tx.order, k) = HandC(k) + SoldC(tx.order, k)
                        /\ Sold(tx.order, k) >= SoldC(tx.order, k)
    /\ \A i \in tx.selected : i >= tx.at => items[i].customer = Unsold
    /\ tx.customer # Unsold
ReturnAccount ==
  tx.pc = "return" => \A k \in Keys : Hand(k) + Sold(tx.order, k) = HandC(k) + SoldC(tx.order, k)

(* While an order is adjusted: what left the shelves again for the sales     *)
(* that are kept, in the rows the loop has passed.                           *)
SoldUpto(k) == Weigh(SoldIn(tx.order, k), items, tx.at - 1)
Relinks(k, most) ==
  /\ Sold(tx.order, k) <= SoldC(tx.order, k)
  /\ Hand(k) + Sold(tx.order, k) <= HandC(k) + SoldC(tx.order, k)
  /\ HandC(k) + SoldC(tx.order, k) <= Hand(k) + Sold(tx.order, k) + most
SoldAccount ==
  tx.pc = "sold" => tx.at - 1 \in 0 .. Len(items) /\ \A k \in Keys : Relinks(k, SoldUpto(k))
AdjustAccount ==
  tx.pc \in {"unsold", "add"} => \A k \in Keys : Relinks(k, Sold(tx.order, k))

Accounts ==
  ~Idle => /\ OthersSold /\ QuietAccount /\ ConfirmAccount
           /\ ReturnAccount /\ SoldAccount /\ AdjustAccount

LEMMA AccountTypes ==
  ASSUME Typed, NEW k \in Keys
  PROVE  /\ Hand(k) \in Nat /\ HandC(k) \in Nat
         /\ \A o : Sold(o, k) \in Nat /\ SoldC(o, k) \in Nat
  BY HandNat, SoldInType, Weighed DEF Typed, Databases, Hand, HandC, Sold, SoldC

LEMMA CommittedStays ==
  UNCHANGED committed => \A k \in Keys : HandC(k)' = HandC(k) /\ \A o : SoldC(o, k)' = SoldC(o, k)
  BY DEF HandC, SoldC

(* Nothing runs.                                                             *)
LEMMA AtRest == ASSUME tx' = NoTx PROVE Accounts'
  BY DEF Accounts, Idle, NoTx

(* A step that moves no unit across.                                         *)
HandStill == \A k \in Keys : Hand(k)' = Hand(k)
SoldStill == \A o \in Orders, k \in Keys : Sold(o, k)' = Sold(o, k)

(* More than that: no weight of sold rows changes, whatever it tells apart.  *)
SaleWeights == {w \in [Item -> Nat] : \A it \in Item : it.customer = Unsold => w[it] = 0}
SalesStill == \A w \in SaleWeights : Total(w, items)' = Total(w, items)

LEMMA SalesAreSold == SalesStill => SoldStill
<1>1. \A o, k : SoldIn(o, k) \in SaleWeights
  BY SoldInType, SoldInRow DEF SaleWeights
<1> QED BY <1>1 DEF SalesStill, SoldStill, Sold

LEMMA Steady ==
  ASSUME Typed, Arguments, Accounts, ~Idle, HandStill, SoldStill, UNCHANGED committed,
         tx'.order = tx.order, tx.pc # "sold",
         tx'.pc = tx.pc \/ (tx.pc \in Quiet /\ tx'.pc \in Quiet) \/ (tx.pc = "unsold" /\ tx'.pc = "add"),
         tx.pc = "confirm" => /\ tx'.selected = tx.selected /\ tx'.customer = tx.customer
                              /\ items' = items /\ tx'.at = tx.at + 1
  PROVE  Accounts'
<1>0. tx.order \in Orders /\ tx.at \in Nat /\ tx.selected \in SUBSET Nat
  BY DEF Typed, Tx, Arguments
<1>1. \A k \in Keys : HandC(k)' = HandC(k) /\ \A o : SoldC(o, k)' = SoldC(o, k)
  BY DEF HandC, SoldC
<1>2. OthersSold'
  BY <1>1 DEF Accounts, OthersSold, SoldStill
<1>3. QuietAccount'
  BY <1>0, <1>1 DEF Accounts, QuietAccount, HandStill, SoldStill, Quiet
<1>4. ConfirmAccount'
  <2> SUFFICES ASSUME tx.pc = "confirm" PROVE ConfirmAccount'
    BY DEF ConfirmAccount, Quiet
  <2>1. \A i \in tx'.selected : i >= tx'.at => items'[i].customer = Unsold
    BY <1>0 DEF Accounts, ConfirmAccount
  <2>2. \A k \in Keys : /\ Hand(k)' + Sold(tx.order, k)' = HandC(k)' + SoldC(tx.order, k)'
                         /\ Sold(tx.order, k)' >= SoldC(tx.order, k)'
    BY <1>0, <1>1 DEF Accounts, ConfirmAccount, HandStill, SoldStill
  <2>3. tx'.customer # Unsold
    BY DEF Accounts, ConfirmAccount
  <2> QED BY <2>1, <2>2, <2>3 DEF ConfirmAccount
<1>5. ReturnAccount'
  BY <1>0, <1>1 DEF Accounts, ReturnAccount, HandStill, SoldStill, Quiet
<1>6. SoldAccount'
  BY DEF SoldAccount, Quiet
<1>7. AdjustAccount'
  BY <1>0, <1>1 DEF Accounts, AdjustAccount, HandStill, SoldStill, Quiet, Relinks
<1> QED BY <1>2, <1>3, <1>4, <1>5, <1>6, <1>7 DEF Accounts
-----------------------------------------------------------------------------
(* What a change of one row does to the sales.                               *)

LEMMA PutSold ==
  ASSUME Typed, NEW n \in DOMAIN items, NEW it \in Item, items' = [items EXCEPT ![n] = it],
         NEW o, NEW k
  PROVE  /\ Sold(o, k) - SoldIn(o, k)[items[n]] \in Nat
         /\ Sold(o, k)' = Sold(o, k) - SoldIn(o, k)[items[n]] + SoldIn(o, k)[it]
         /\ \A m \in 0 .. n - 1 : Weigh(SoldIn(o, k), items', m) = Weigh(SoldIn(o, k), items, m)
         /\ Len(items') = Len(items)
<1> DEFINE w == SoldIn(o, k)
<1>1. w \in [Item -> Nat] /\ items \in Seq(Item)
  BY SoldInType DEF Typed
<1> HIDE DEF w
<1>2. /\ Total(w, items) - w[items[n]] \in Nat
      /\ Total(w, items') = Total(w, items) - w[items[n]] + w[it]
      /\ \A m \in 0 .. n - 1 : Weigh(w, items', m) = Weigh(w, items, m)
      /\ Len(items') = Len(items)
  BY <1>1, PutRow
<1> QED BY <1>2 DEF Sold, w

LEMMA CutSold ==
  ASSUME Typed, NEW n \in DOMAIN items, items' = RemoveAt(items, n), NEW o, NEW k
  PROVE  /\ Sold(o, k)' \in Nat /\ Sold(o, k) = Sold(o, k)' + SoldIn(o, k)[items[n]]
         /\ \A m \in 0 .. n - 1 : Weigh(SoldIn(o, k), items', m) = Weigh(SoldIn(o, k), items, m)
         /\ Len(items') = Len(items) - 1
<1> DEFINE w == SoldIn(o, k)
<1>1. w \in [Item -> Nat] /\ items \in Seq(Item)
  BY SoldInType DEF Typed
<1> HIDE DEF w
<1>2. /\ Total(w, items') \in Nat /\ Total(w, items) = Total(w, items') + w[items[n]]
      /\ \A m \in 0 .. n - 1 : Weigh(w, items', m) = Weigh(w, items, m)
      /\ Len(items') = Len(items) - 1
  BY <1>1, CutRow
<1> QED BY <1>2 DEF Sold, w

(* Unsold rows that change, come and go.                                     *)
LEMMA PutStill ==
  ASSUME Typed, NEW n \in DOMAIN items, NEW it \in Item, items' = [items EXCEPT ![n] = it],
         it.customer = Unsold, items[n].customer = Unsold
  PROVE  SalesStill
<1>1. items[n] \in Item /\ items \in Seq(Item)
  BY TableFacts DEF Typed
<1>2. ASSUME NEW w \in SaleWeights PROVE Total(w, items)' = Total(w, items)
  <2>1. w \in [Item -> Nat] /\ w[it] = 0 /\ w[items[n]] = 0
    BY <1>1 DEF SaleWeights
  <2>2. Total(w, [items EXCEPT ![n] = it]) = Total(w, items) - w[items[n]] + w[it]
    BY <1>1, <2>1, PutRow
  <2>3. Total(w, items) \in Nat
    BY <1>1, <2>1, Weighed
  <2> QED BY <2>1, <2>2, <2>3
<1> QED BY <1>2 DEF SalesStill

LEMMA CutStill ==
  ASSUME Typed, NEW n \in DOMAIN items, items' = RemoveAt(items, n), items[n].customer = Unsold
  PROVE  SalesStill
<1>1. items[n] \in Item /\ items \in Seq(Item)
  BY TableFacts DEF Typed
<1>2. ASSUME NEW w \in SaleWeights PROVE Total(w, items)' = Total(w, items)
  <2>1. w \in [Item -> Nat] /\ w[items[n]] = 0
    BY <1>1 DEF SaleWeights
  <2>2. Total(w, RemoveAt(items, n)) \in Nat /\ Total(w, items) = Total(w, RemoveAt(items, n)) + w[items[n]]
    BY <1>1, <2>1, CutRow
  <2> QED BY <2>1, <2>2
<1> QED BY <1>2 DEF SalesStill

LEMMA AddStill ==
  ASSUME Typed, NEW it \in Item, items' = Append(items, it), it.customer = Unsold
  PROVE  SalesStill
<1>1. ASSUME NEW w \in SaleWeights PROVE Total(w, items)' = Total(w, items)
  <2>1. w \in [Item -> Nat] /\ w[it] = 0 /\ items \in Seq(Item)
    BY DEF SaleWeights, Typed
  <2>2. Total(w, Append(items, it)) = Total(w, items) + w[it] /\ Total(w, items) \in Nat
    BY <2>1, AddRow, Weighed
  <2> QED BY <2>1, <2>2
<1> QED BY <1>1 DEF SalesStill

LEMMA SameStill ==
  /\ UNCHANGED items => SoldStill /\ SalesStill
  /\ UNCHANGED inv => HandStill
  BY DEF SoldStill, Sold, SalesStill, HandStill, Hand

(* Stock that is moved within its key.                                       *)
LEMMA MovedStill ==
  ASSUME Typed
  PROVE  /\ \A it \in Item, q \in Nat : CanRestore(it, q) /\ inv' = Restored(it, q) => HandStill
         /\ \A k \in Keys, l \in Locs \cup {NoLoc}, q \in Nat, to \in Staging :
              CanTake(k, l, q) /\ inv' = Staged(k, l, q, to) => HandStill
<1>0. inv \in [Rows -> Nat]
  BY DEF Typed
<1>1. ASSUME NEW it \in Item, NEW q \in Nat, CanRestore(it, q), inv' = Restored(it, q) PROVE HandStill
  <2>1. \A k \in Keys : HandOf(Restored(it, q), k) = HandOf(inv, k)
    BY <1>0, <1>1, RestoredHand
  <2> QED BY <1>1, <2>1 DEF HandStill, Hand
<1>2. ASSUME NEW k \in Keys, NEW l \in Locs \cup {NoLoc}, NEW q \in Nat, NEW to \in Staging,
             CanTake(k, l, q), inv' = Staged(k, l, q, to)
      PROVE  HandStill
  <2>1. \A key \in Keys : HandOf(Staged(k, l, q, to), key) = HandOf(inv, key)
    BY <1>0, <1>2, StagedHand
  <2> QED BY <1>2, <2>1 DEF HandStill, Hand
<1> QED BY <1>1, <1>2
-----------------------------------------------------------------------------
(* Calls keep their account: the cursor.                                     *)

(* Only the rows of the call's order change sides.                           *)
LEMMA OthersStay ==
  ASSUME Accounts, ~Idle, UNCHANGED committed, tx'.order = tx.order,
         \A o \in Orders, k \in Keys : o # tx.order => Sold(o, k)' = Sold(o, k)
  PROVE  OthersSold'
  BY CommittedStays DEF Accounts, OthersSold

(* An adjustment passes over a row that is not a sale of its order.          *)
LEMMA PassOverSale ==
  ASSUME Typed, Arguments, Accounts, PassOver, tx.pc = "sold"
  PROVE  Accounts'
<1>1. /\ tx' = [tx EXCEPT !.at = @ + 1] /\ UNCHANGED <<inv, items, committed>> /\ ~Idle
      /\ tx.at \in DOMAIN items /\ ~(Here.order = tx.order /\ Here.customer # Unsold)
  BY DEF PassOver, Advanced, InLoop, Visits, Idle
<1>2. tx'.pc = "sold" /\ tx'.order = tx.order /\ tx'.at = tx.at + 1 /\ tx.at \in Nat \ {0}
  BY <1>1 DEF Typed, Tx
<1>3. OthersSold'
  BY <1>1, <1>2, SameStill, OthersStay DEF SoldStill
<1>4. Len(items) \in Nat /\ tx.at \in 1 .. Len(items) /\ Here \in Item
  BY <1>1, TableFacts DEF Typed, Here
<1>5. ASSUME NEW k \in Keys
      PROVE  SoldUpto(k)' = SoldUpto(k)
  <2> DEFINE w == SoldIn(tx.order, k)
             n == tx.at - 1
  <2>1. w[Here] = 0
    BY <1>1, <1>4, SoldInRow
  <2>7. w \in [Item -> Nat] /\ items \in Seq(Item)
    BY SoldInType DEF Typed
  <2>2. Weighs(w, items, Len(items)) /\ n \in 0 .. Len(items) /\ n # Len(items) /\ tx.at = n + 1
    <3> HIDE DEF w
    <3>1. Weighs(w, items, Len(items))
      BY <2>7, Weighed
    <3>2. Len(items) \in Nat /\ tx.at \in 1 .. Len(items)
      BY <1>4
    <3> QED BY <3>1, <3>2
  <2>3. \A m \in 0 .. Len(items) : Weigh(w, items, m) \in Nat
    BY SoldInType, Weighed DEF Typed
  <2> HIDE DEF w
  <2>4. \A j \in 0 .. Len(items) : j # Len(items) => Weigh(w, items, j + 1) = Weigh(w, items, j) + w[items[j + 1]]
    BY ONLY <2>2, WeighSteps
  <2>5. Weigh(w, items, tx.at) = Weigh(w, items, n) + w[Here]
    BY <2>2, <2>4 DEF Here
  <2>6. SoldUpto(k)' = Weigh(w, items, tx.at)
    BY <1>1, <1>2 DEF SoldUpto, w
  <2> QED BY <2>1, <2>2, <2>3, <2>5, <2>6 DEF SoldUpto, w
<1>6. \A k \in Keys : Relinks(k, SoldUpto(k))'
  <2> TAKE k \in Keys
  <2>1. Relinks(k, SoldUpto(k))
    BY <1>1 DEF Accounts, SoldAccount
  <2>2. tx.order \in Orders /\ Sold(tx.order, k)' = Sold(tx.order, k) /\ Hand(k)' = Hand(k)
    BY <1>1, SameStill DEF SoldStill, HandStill, Arguments
  <2> QED BY <1>1, <1>2, <1>5, <2>1, <2>2, CommittedStays DEF Relinks
<1>7. SoldAccount'
  BY <1>1, <1>2, <1>4, <1>6 DEF SoldAccount
<1> QED BY <1>2, <1>3, <1>7 DEF Accounts, QuietAccount, ConfirmAccount, ReturnAccount, AdjustAccount, Quiet

LEMMA CursorAccounts ==
  ASSUME Typed, Arguments, Accounts, PassOver \/ KeepStaged \/ SkipEntry \/ LeaveReservation
  PROVE  Accounts'
<1>1. /\ tx' = [tx EXCEPT !.at = @ + 1] /\ UNCHANGED <<inv, items, committed>> /\ ~Idle
      /\ tx.pc = "sold" => PassOver
  BY DEF PassOver, KeepStaged, SkipEntry, LeaveReservation, At, Taking, Advanced, Idle
<1>2. /\ tx'.pc = tx.pc /\ tx'.order = tx.order /\ tx'.at = tx.at + 1
      /\ tx'.selected = tx.selected /\ tx'.customer = tx.customer
  BY <1>1 DEF Typed, Tx
<1> QED BY <1>1, <1>2, SameStill, Steady, PassOverSale

LEMMA NextLoopAccounts ==
  ASSUME Typed, Arguments, Accounts, NextLoop
  PROVE  Accounts'
<1>1. UNCHANGED <<inv, items, committed>> /\ ~Idle
  BY DEF NextLoop, After, Idle
<1>2. CASE tx.pc # "sold"
  <2>1. \/ tx.pc = "unstage" /\ tx' = [tx EXCEPT !.pc = "restage", !.at = 1]
        \/ tx.pc = "unsold" /\ tx' = [tx EXCEPT !.pc = "add", !.at = 1]
    BY <1>2 DEF NextLoop, After
  <2>2. /\ tx'.order = tx.order
        /\ \/ tx.pc = "unstage" /\ tx'.pc = "restage"
           \/ tx.pc = "unsold" /\ tx'.pc = "add"
    BY <2>1 DEF Typed, Tx
  <2> QED BY <1>1, <1>2, <2>2, SameStill, Steady DEF Quiet
<1>3. CASE tx.pc = "sold"
  <2>1. tx' = [tx EXCEPT !.pc = "unsold", !.at = 1] /\ ~InLoop
    BY <1>3 DEF NextLoop, After
  <2>2. tx'.order = tx.order /\ tx'.pc = "unsold"
    BY <2>1 DEF Typed, Tx
  <2>3. OthersSold'
    BY <1>1, <2>2, SameStill, OthersStay DEF SoldStill
  <2>4. tx.at - 1 = Len(items)
    <3>1. tx.at - 1 \in 0 .. Len(items)
      BY <1>1, <1>3 DEF Accounts, SoldAccount
    <3>2. tx.at \in Nat \ {0} /\ tx.at \notin 1 .. Len(items) /\ Len(items) \in Nat
      BY <2>1, TableFacts DEF Typed, Tx, InLoop
    <3> QED BY <3>1, <3>2
  <2>5. \A k \in Keys : Relinks(k, Sold(tx.order, k))'
    <3> TAKE k \in Keys
    <3>1. Relinks(k, SoldUpto(k)) /\ SoldUpto(k) = Sold(tx.order, k)
      BY <1>1, <1>3, <2>4 DEF Accounts, SoldAccount, SoldUpto, Sold, Total
    <3>3. tx.order \in Orders
      BY <1>1 DEF Arguments
    <3>2. Sold(tx.order, k)' = Sold(tx.order, k) /\ Hand(k)' = Hand(k)
      BY <1>1, <2>2, <3>3, SameStill DEF SoldStill, HandStill
    <3> QED BY <1>1, <2>2, <3>1, <3>2, CommittedStays DEF Relinks
  <2>6. AdjustAccount'
    BY <2>2, <2>5 DEF AdjustAccount
  <2> QED BY <2>2, <2>3, <2>6 DEF Accounts, QuietAccount, ConfirmAccount, ReturnAccount, SoldAccount, Quiet
<1> QED BY <1>2, <1>3
-----------------------------------------------------------------------------
(* What the steps write, row by row.                                         *)

(* A row is left with q units of stock row r, or deleted.                    *)
LeftRow(it, q, r) == [it EXCEPT !.qty = q, !.source = r[2]]

LEMMA Leaves ==
  ASSUME Typed, InLoop, NEW r \in Rows, r[1] = Here.key, NEW l \in Locs,
         NEW q \in Nat, LeaveQty(q, r, l)
  PROVE  /\ tx'.pc = tx.pc /\ tx'.order = tx.order
         /\ q > 0 => /\ items' = [items EXCEPT ![tx.at] = LeftRow(Here, q, r)]
                     /\ LeftRow(Here, q, r) \in Item /\ tx'.at = tx.at + 1
         /\ q = 0 => items' = RemoveAt(items, tx.at) /\ tx'.at = tx.at
<1>1. Here \in Item /\ tx.at \in DOMAIN items /\ items[tx.at] = Here /\ r[2] \in Locs
  BY HereType DEF Here, Rows
<1>2. tx'.pc = tx.pc /\ tx'.order = tx.order /\ tx'.at = IF q > 0 THEN tx.at + 1 ELSE tx.at
  BY DEF LeaveQty, Typed, Tx
<1>3. q > 0 => items' = [items EXCEPT ![tx.at].qty = q, ![tx.at].source = r[2]]
  BY DEF LeaveQty
<1>4. [items EXCEPT ![tx.at].qty = q, ![tx.at].source = r[2]] = [items EXCEPT ![tx.at] = LeftRow(items[tx.at], q, r)]
  BY <1>1 DEF LeftRow
<1>5. q > 0 => LeftRow(Here, q, r) \in Item
  <2>1. \A it \in Item, n \in Nat \ {0}, loc \in Locs : [it EXCEPT !.qty = n, !.source = loc] \in Item
    BY DEF Item
  <2>2. \A b \in Rows : b[2] \in Locs
    BY DEF Rows
  <2>3. \A it \in Item, n \in Nat \ {0}, b \in Rows : LeftRow(it, n, b) \in Item
    BY <2>1, <2>2 DEF LeftRow
  <2> QED BY <1>1, <2>3
<1>6. q = 0 => items' = RemoveAt(items, tx.at)
  BY DEF LeaveQty
<1> QED BY <1>1, <1>2, <1>3, <1>4, <1>5, <1>6

LEMMA LeftFields ==
  ASSUME NEW it \in Item, NEW q, NEW r
  PROVE  /\ LeftRow(it, q, r).order = it.order /\ LeftRow(it, q, r).key = it.key
         /\ LeftRow(it, q, r).source_location = it.source_location
         /\ LeftRow(it, q, r).waiting_location = it.waiting_location
         /\ LeftRow(it, q, r).customer = it.customer
         /\ LeftRow(it, q, r).qty = q /\ LeftRow(it, q, r).source = r[2]
  BY DEF LeftRow, Item

(* What an adjustment does at a sale.                                        *)
SaleCut(r, kept) ==
  /\ r \in Rows /\ r[1] = Here.key /\ r = MatchedRow(Here) /\ kept = KeptQty(Here, r)
  /\ kept \in Nat /\ Here.qty \in Nat /\ kept <= Here.qty
  /\ TakesFromOther(Here, r) => inv[r] >= kept
  /\ inv' = [Relinked(Here, r) EXCEPT ![<<Here.key, Here.source_location>>] = @ + (Here.qty - kept)]
  /\ LeaveQty(kept, r, Here.source_location)

LEMMA SaleCuts ==
  ASSUME Typed, ReduceSold
  PROVE  /\ tx.pc = "sold" /\ InLoop /\ Here.order = tx.order /\ Here.customer # Unsold
         /\ UNCHANGED <<status, committed>>
         /\ \E r \in Rows, kept \in Nat : SaleCut(r, kept)
<1> DEFINE r == MatchedRow(Here)
           kept == KeptQty(Here, r)
<1>1. /\ tx.pc = "sold" /\ InLoop /\ Here.order = tx.order /\ Here.customer # Unsold
      /\ UNCHANGED <<status, committed>>
  BY DEF ReduceSold, At, Visits
<1>2. r \in Rows /\ r[1] = Here.key /\ Here \in Item /\ Here.qty \in Nat
  BY <1>1, MatchedRowType, HereType DEF Item
<1>3. /\ Relinkable(Here, r)
      /\ inv' = [Relinked(Here, r) EXCEPT ![<<Here.key, Here.source_location>>] = @ + (Here.qty - kept)]
      /\ LeaveQty(kept, r, Here.source_location)
  BY DEF ReduceSold
<1>7. r = MatchedRow(Here)
  OBVIOUS
<1> HIDE DEF r
<1>4. kept \in Nat /\ Here.qty - kept \in Nat
  BY <1>2, KeptQtyType
<1>5. TakesFromOther(Here, r) => inv[r] >= kept
  BY <1>3 DEF Relinkable
<1> HIDE DEF kept
<1>6. SaleCut(r, kept)
  BY <1>2, <1>3, <1>4, <1>5, <1>7 DEF SaleCut, kept
<1> QED BY <1>1, <1>2, <1>4, <1>6

(* What it does at a reservation.                                            *)
ReserveCut(kept) ==
  /\ kept = KeptQty(Here, RowOf(Here)) /\ Here.qty \in Nat /\ kept <= Here.qty
  /\ kept < Here.qty => CanRestore(Here, Here.qty - kept)
  /\ inv' = IF kept < Here.qty THEN Restored(Here, Here.qty - kept) ELSE inv
  /\ \E l \in Locs : LeaveQty(kept, RowOf(Here), l)

LEMMA ReserveCuts ==
  ASSUME Typed, ReduceUnsold
  PROVE  /\ tx.pc = "unsold" /\ InLoop /\ Here.order = tx.order /\ Here.customer = Unsold
         /\ UNCHANGED <<status, committed>>
         /\ \E kept \in Nat : ReserveCut(kept)
<1> DEFINE kept == KeptQty(Here, RowOf(Here))
<1>1. /\ tx.pc = "unsold" /\ InLoop /\ Here.order = tx.order /\ Here.customer = Unsold
      /\ UNCHANGED <<status, committed>>
  BY DEF ReduceUnsold, At, Visits
<1>2. Here \in Item /\ RowOf(Here) \in Rows /\ Here.qty \in Nat
  BY <1>1, HereType DEF Item
<1>3. kept \in Nat /\ Here.qty - kept \in Nat
  BY <1>2, KeptQtyType
<1>4. /\ kept < Here.qty => CanRestore(Here, Here.qty - kept)
      /\ inv' = IF kept < Here.qty THEN Restored(Here, Here.qty - kept) ELSE inv
      /\ LeaveQty(kept, RowOf(Here), RestoredLoc(Here, Here.qty - kept))
  BY DEF ReduceUnsold
<1> HIDE DEF kept
<1>5. RestoredLoc(Here, Here.qty - kept) \in Locs
  <2>1. CASE kept < Here.qty
    BY <1>2, <1>3, <1>4, <2>1, RestoredType DEF Typed
  <2>2. CASE ~(kept < Here.qty)
    <3>1. Here.qty - kept = 0 /\ inv[StagedAt(Here)] \in Nat
      BY <1>1, <1>2, <1>3, <2>2, HereType DEF Item, Typed
    <3> QED BY <1>1, <3>1, HereType DEF RestoredLoc, InStaging, Item
  <2> QED BY <2>1, <2>2
<1>6. ReserveCut(kept)
  BY <1>2, <1>3, <1>4, <1>5 DEF ReserveCut, kept
<1> QED BY <1>1, <1>3, <1>6

(* What taking a cart entry does.                                            *)
NewRow(k, l, q, to) == [order |-> tx.order, key |-> k, source |-> l, source_location |-> l,
                        waiting_location |-> to, qty |-> q, customer |-> Unsold]
GrownRow(it, q, to) == [it EXCEPT !.qty = @ + q, !.waiting_location = to]

Take(k, l, q, to) ==
  /\ k = Entry[1] /\ q = tx.want[Entry] /\ l = Resolve(Entry, tx.hint[Entry], q)
  /\ CanTake(k, l, q)
  /\ inv' = Staged(k, l, q, to)
  /\ \/ /\ items' = Append(items, NewRow(k, l, q, StagedLoc(l, to)))
        /\ NewRow(k, l, q, StagedLoc(l, to)) \in Item
     \/ /\ tx.pc = "add"
        /\ \E n \in DOMAIN items :
             /\ items[n].order = tx.order /\ items[n].customer = Unsold /\ RowOf(items[n]) = <<k, l>>
             /\ GrownRow(items[n], q, StagedLoc(l, to)) \in Item
             /\ items' = [items EXCEPT ![n] = GrownRow(items[n], q, StagedLoc(l, to))]

LEMMA GrownFields ==
  ASSUME NEW it \in Item, NEW q, NEW to
  PROVE  /\ GrownRow(it, q, to).order = it.order /\ GrownRow(it, q, to).key = it.key
         /\ GrownRow(it, q, to).source = it.source
         /\ GrownRow(it, q, to).waiting_location = to
         /\ GrownRow(it, q, to).customer = it.customer
         /\ GrownRow(it, q, to).qty = it.qty + q
  BY DEF GrownRow, Item

LEMMA Enlists ==
  ASSUME Typed, tx.order \in Orders, NEW k \in Keys, NEW l \in Locs, NEW q \in Nat \ {0},
         NEW to \in Staging
  PROVE  \/ Enlisted(k, l, q, to) = Append(items, NewRow(k, l, q, to)) /\ NewRow(k, l, q, to) \in Item
         \/ /\ tx.pc = "add"
            /\ \E n \in DOMAIN items :
                 /\ items[n].order = tx.order /\ items[n].customer = Unsold /\ RowOf(items[n]) = <<k, l>>
                 /\ GrownRow(items[n], q, to) \in Item
                 /\ Enlisted(k, l, q, to) = [items EXCEPT ![n] = GrownRow(items[n], q, to)]
<1> DEFINE S == {i \in RowsOf(items, tx.order, FALSE) : RowOf(items[i]) = <<k, l>>}
<1>1. NewRow(k, l, q, to) \in Item
  BY DEF NewRow, Item
<1>2. S \subseteq DOMAIN items /\ S \subseteq Nat
  BY LenProperties DEF RowsOf, Typed
<1>3. \A i \in S : items[i].order = tx.order /\ items[i].customer = Unsold /\ RowOf(items[i]) = <<k, l>>
  BY DEF RowsOf
<1>4. Enlisted(k, l, q, to) =
        IF tx.pc = "add" /\ S # {}
        THEN [items EXCEPT ![Min(S)].qty = @ + q, ![Min(S)].waiting_location = to]
        ELSE Append(items, NewRow(k, l, q, to))
  BY DEF Enlisted, NewRow
<1> HIDE DEF S
<1>5. CASE tx.pc = "add" /\ S # {}
  <2> DEFINE n == Min(S)
  <2>1. n \in S
    BY <1>2, <1>5, MinIn
  <2> HIDE DEF n
  <2>2. n \in DOMAIN items /\ items[n] \in Item
    BY <1>2, <2>1, TableFacts DEF Typed
  <2>3. [items EXCEPT ![n].qty = @ + q, ![n].waiting_location = to] = [items EXCEPT ![n] = GrownRow(items[n], q, to)]
    BY <2>2 DEF GrownRow
  <2>4. items[n].qty + q \in Nat \ {0}
    BY <2>2 DEF Item
  <2>5. GrownRow(items[n], q, to) \in Item
    BY <2>2, <2>4 DEF GrownRow, Item
  <2>6. Enlisted(k, l, q, to) = [items EXCEPT ![n] = GrownRow(items[n], q, to)]
    BY <1>4, <1>5, <2>3 DEF n
  <2> QED BY <1>3, <1>5, <2>1, <2>2, <2>5, <2>6
<1>6. CASE ~(tx.pc = "add" /\ S # {})
  BY <1>1, <1>4, <1>6
<1> QED BY <1>5, <1>6

LEMMA Takes ==
  ASSUME Typed, Arguments, TakeEntry
  PROVE  /\ tx.pc \in {"register", "restage", "add"} /\ tx.order \in Orders
         /\ tx.at \in DOMAIN tx.cart /\ Entry \in Rows
         /\ tx' = Advanced /\ UNCHANGED <<status, committed>>
         /\ \E k \in Keys, l \in Locs, q \in Nat \ {0}, to \in Staging : Take(k, l, q, to)
<1>1. /\ Taking /\ tx.at \in DOMAIN tx.cart /\ Pending(Entry)
      /\ tx.pc \in {"register", "restage", "add"} /\ tx.order \in Orders /\ tx.loc \in Staging
  BY DEF TakeEntry, Taking, Arguments, Idle
<1>2. tx.cart \in Submitted /\ tx.want \in [Rows -> Nat] /\ tx.hint \in [Rows -> Locs]
  BY DEF Typed, Tx
<1>3. Entry \in Rows /\ Entry[1] \in Keys
  BY <1>1, <1>2, WantedPositive DEF Entry, Rows
<1> DEFINE k == Entry[1]
           q == tx.want[Entry]
           l == Resolve(Entry, tx.hint[Entry], q)
           to == Target(Entry)
<1>4. q \in Nat \ {0}
  <2>1. CASE tx.pc = "add"
    BY <1>1, <1>2, <1>3, <2>1 DEF Pending
  <2>2. CASE tx.pc # "add"
    BY <1>1, <1>2, <2>2, WantedPositive DEF Arguments, Entry
  <2> QED BY <2>1, <2>2
<1>5. l \in Locs \cup {NoLoc}
  BY <1>2, <1>3, ResolveType
<1>6. /\ CanTake(k, l, q) /\ inv' = Staged(k, l, q, to) /\ items' = Enlisted(k, l, q, StagedLoc(l, to))
      /\ tx' = Advanced /\ UNCHANGED <<status, committed>>
  BY DEF TakeEntry
<1>7. to \in Staging
  BY <1>1, <1>3, TargetType
<1>8. k \in Keys
  BY <1>3
<1>9. k = Entry[1] /\ q = tx.want[Entry] /\ l = Resolve(Entry, tx.hint[Entry], q)
  OBVIOUS
<1> HIDE DEF k, q, l, to
<1>10. l \in Locs /\ StagedLoc(l, to) \in Staging
  BY <1>4, <1>5, <1>6, <1>7, <1>8, StagedType DEF Typed
<1>11. Take(k, l, q, to)
  <2> DEFINE at == StagedLoc(l, to)
  <2>1. at \in Staging /\ items' = Enlisted(k, l, q, at)
    BY <1>6, <1>10
  <2> HIDE DEF at
  <2>2. \/ Enlisted(k, l, q, at) = Append(items, NewRow(k, l, q, at)) /\ NewRow(k, l, q, at) \in Item
        \/ /\ tx.pc = "add"
           /\ \E n \in DOMAIN items :
                /\ items[n].order = tx.order /\ items[n].customer = Unsold /\ RowOf(items[n]) = <<k, l>>
                /\ GrownRow(items[n], q, at) \in Item
                /\ Enlisted(k, l, q, at) = [items EXCEPT ![n] = GrownRow(items[n], q, at)]
    BY <1>1, <1>4, <1>8, <1>10, <2>1, Enlists
  <2>3. \/ items' = Append(items, NewRow(k, l, q, at)) /\ NewRow(k, l, q, at) \in Item
        \/ /\ tx.pc = "add"
           /\ \E n \in DOMAIN items :
                /\ items[n].order = tx.order /\ items[n].customer = Unsold /\ RowOf(items[n]) = <<k, l>>
                /\ GrownRow(items[n], q, at) \in Item
                /\ items' = [items EXCEPT ![n] = GrownRow(items[n], q, at)]
    BY ONLY <2>1, <2>2, Zenon
  <2> QED BY <1>6, <1>9, <2>3 DEF Take, at
<1> QED BY <1>1, <1>3, <1>4, <1>6, <1>7, <1>8, <1>10, <1>11

-----------------------------------------------------------------------------
(* Steps that leave the sold rows as they are.                               *)

LEMMA GiveBackStill ==
  ASSUME Typed, Unstage \/ DropOrphan \/ CancelRow
  PROVE  SalesStill
<1>1. InLoop /\ Here.customer = Unsold
  BY DEF Unstage, DropOrphan, CancelRow, At, Visits
<1>2. tx.at \in DOMAIN items /\ items[tx.at] = Here
  BY <1>1, HereType DEF Here
<1>3. CASE Unstage \/ DropOrphan
  <2>1. items' = RemoveAt(items, tx.at)
    BY <1>3 DEF Unstage, DropOrphan
  <2> QED BY <1>1, <1>2, <2>1, CutStill
<1>4. CASE CancelRow
  BY <1>4, SameStill DEF CancelRow
<1> QED BY <1>3, <1>4

(* A row to be merged is not sold.                                           *)
LEMMA MergesUnsold ==
  ASSUME Typed, Agreement, MergeRow
  PROVE  /\ tx.pc = "merge" /\ InLoop /\ Here.order \in {tx.order, tx.into} /\ Here.customer = Unsold
<1>1. tx.pc = "merge" /\ InLoop /\ Here.order \in {tx.order, tx.into}
  BY DEF MergeRow, At, Visits
<1>2. tx.at \in DOMAIN items
  BY <1>1, HereType
<1>3. KnowsMerge
  BY DEF Agreement, Knows
<1> QED BY <1>1, <1>2, <1>3 DEF KnowsMerge, Waiting, HasSold, Here

LEMMA MergeRowStill ==
  ASSUME Typed, Agreement, MergeRow
  PROVE  SalesStill
<1>1. InLoop /\ Here.customer = Unsold /\ items' = RemoveAt(items, tx.at)
  BY MergesUnsold DEF MergeRow
<1>2. tx.at \in DOMAIN items /\ items[tx.at].customer = Unsold
  BY <1>1, HereType DEF Here
<1> QED BY <1>1, <1>2, CutStill

(* The repair.                                                               *)
RestagedRow(it, l, to) == [it EXCEPT !.source = l, !.source_location = l, !.waiting_location = to]

LEMMA RestagedFields ==
  ASSUME NEW it \in Item, NEW l, NEW to
  PROVE  /\ RestagedRow(it, l, to).order = it.order /\ RestagedRow(it, l, to).key = it.key
         /\ RestagedRow(it, l, to).qty = it.qty /\ RestagedRow(it, l, to).customer = it.customer
         /\ RestagedRow(it, l, to).source = l /\ RestagedRow(it, l, to).waiting_location = to
  BY DEF RestagedRow, Item

LEMMA Restages ==
  ASSUME Typed, Restage
  PROVE  /\ tx.pc = "repair" /\ InLoop /\ Here.order = tx.order /\ Here.customer = Unsold
         /\ ~InStaging(Here, Here.qty)
         /\ tx' = Advanced /\ UNCHANGED <<status, committed>>
         /\ \E l \in Locs :
              /\ l = RepairLoc(Here)
              /\ CanTake(Here.key, l, Here.qty)
              /\ inv' = Staged(Here.key, l, Here.qty, Here.waiting_location)
              /\ RestagedRow(Here, l, StagedLoc(l, Here.waiting_location)) \in Item
              /\ items' = [items EXCEPT ![tx.at] = RestagedRow(Here, l, StagedLoc(l, Here.waiting_location))]
<1>1. /\ tx.pc = "repair" /\ InLoop /\ Here.order = tx.order /\ Here.customer = Unsold
      /\ ~InStaging(Here, Here.qty)
  BY DEF Restage, At, Visits
<1>2. /\ Here \in Item /\ tx.at \in DOMAIN items /\ RowOf(Here) \in Rows
      /\ Here.key \in Keys /\ Here.qty \in Nat /\ Here.source_location \in Locs
      /\ Here.waiting_location \in Staging
  BY <1>1, HereType DEF Item
<1> DEFINE l == RepairLoc(Here)
           to == StagedLoc(l, Here.waiting_location)
<1>3. l \in Locs \cup {NoLoc}
  BY <1>2, ResolveType DEF RepairLoc
<1>4. /\ CanTake(Here.key, l, Here.qty)
      /\ inv' = Staged(Here.key, l, Here.qty, Here.waiting_location)
      /\ tx' = Advanced /\ UNCHANGED <<status, committed>>
  BY DEF Restage
<1>5. items' = [items EXCEPT ![tx.at] = RestagedRow(Here, l, to)]
  BY <1>2 DEF Restage, Here, Typed, RestagedRow
<1>8. l = RepairLoc(Here)
  OBVIOUS
<1> HIDE DEF l
<1>6. l \in Locs /\ to \in Staging
  BY <1>2, <1>3, <1>4, StagedType DEF Typed
<1>7. RestagedRow(Here, l, to) \in Item
  <2>1. \A it \in Item, a \in Locs, b \in Staging : RestagedRow(it, a, b) \in Item
    BY DEF RestagedRow, Item
  <2> QED BY <1>2, <1>6, <2>1
<1> QED BY <1>1, <1>4, <1>5, <1>6, <1>7, <1>8

LEMMA Gathers ==
  ASSUME Typed, Gather
  PROVE  /\ tx.pc = "repair" /\ InLoop /\ UNCHANGED <<items, status, tx, committed>>
         /\ StagedAt(Here) \in Rows
         /\ \E l \in Spare(Here), take \in Nat :
              /\ <<Here.key, l>> \in Rows /\ take <= inv[<<Here.key, l>>]
              /\ take = Lesser(Free(Here, l), Shortfall(Here))
              /\ inv' = MoveQty(inv, <<Here.key, l>>, StagedAt(Here), take)
<1>1. tx.pc = "repair" /\ InLoop /\ UNCHANGED <<items, status, tx, committed>>
  BY DEF Gather, At
<1>2. Here \in Item /\ StagedAt(Here) \in Rows /\ Here.key \in Keys
  BY <1>1, HereType DEF Item
<1>3. PICK l \in Spare(Here) : \E take \in 1 .. inv[<<Here.key, l>>] :
         /\ take = Lesser(Free(Here, l), Shortfall(Here))
         /\ inv' = MoveQty(inv, <<Here.key, l>>, StagedAt(Here), take)
  BY DEF Gather
<1>4. PICK take \in 1 .. inv[<<Here.key, l>>] :
         /\ take = Lesser(Free(Here, l), Shortfall(Here))
         /\ inv' = MoveQty(inv, <<Here.key, l>>, StagedAt(Here), take)
  BY <1>3
<1>5. <<Here.key, l>> \in Rows
  BY <1>2 DEF Spare, Rows, Locs
<1>6. inv[<<Here.key, l>>] \in Nat
  BY <1>5 DEF Typed
<1>7. take \in Nat /\ take <= inv[<<Here.key, l>>]
  BY <1>4, <1>6
<1> QED BY <1>1, <1>2, <1>4, <1>5, <1>7

LEMMA RestageStill ==
  ASSUME Typed, Restage
  PROVE  SalesStill
<1>1. /\ Here.customer = Unsold /\ InLoop
      /\ \E l \in Locs :
           /\ RestagedRow(Here, l, StagedLoc(l, Here.waiting_location)) \in Item
           /\ items' = [items EXCEPT ![tx.at] = RestagedRow(Here, l, StagedLoc(l, Here.waiting_location))]
  BY Restages
<1>2. tx.at \in DOMAIN items /\ Here \in Item /\ items[tx.at] = Here
  BY <1>1, HereType DEF Here
<1>3. PICK l \in Locs :
        /\ RestagedRow(Here, l, StagedLoc(l, Here.waiting_location)) \in Item
        /\ items' = [items EXCEPT ![tx.at] = RestagedRow(Here, l, StagedLoc(l, Here.waiting_location))]
  BY <1>1
<1> DEFINE it == RestagedRow(Here, l, StagedLoc(l, Here.waiting_location))
<1>4. it.customer = Here.customer
  BY <1>2, RestagedFields
<1>5. it \in Item /\ items' = [items EXCEPT ![tx.at] = it]
  BY <1>3
<1> HIDE DEF it
<1> QED BY <1>1, <1>2, <1>4, <1>5, PutStill

LEMMA ReserveStill ==
  ASSUME Typed, ReduceUnsold
  PROVE  SalesStill
<1>1. tx.pc = "unsold" /\ InLoop /\ Here.customer = Unsold
  BY ReserveCuts
<1>2. PICK kept \in Nat : ReserveCut(kept)
  BY ReserveCuts
<1>3. /\ tx.at \in DOMAIN items /\ Here \in Item /\ items[tx.at] = Here
      /\ RowOf(Here) \in Rows /\ RowOf(Here)[1] = Here.key
  BY <1>1, HereType DEF Here, RowOf
<1>5. PICK l \in Locs : LeaveQty(kept, RowOf(Here), l)
  BY <1>2 DEF ReserveCut
<1> DEFINE r == RowOf(Here)
<1>6. /\ kept > 0 => /\ items' = [items EXCEPT ![tx.at] = LeftRow(Here, kept, r)]
                     /\ LeftRow(Here, kept, r) \in Item
      /\ kept = 0 => items' = RemoveAt(items, tx.at)
  BY <1>1, <1>3, <1>5, Leaves
<1>7. CASE kept > 0
  <2> DEFINE it == LeftRow(Here, kept, r)
  <2>1. it.customer = Unsold
    BY <1>1, <1>3, LeftFields
  <2>2. it \in Item /\ items' = [items EXCEPT ![tx.at] = it]
    BY <1>6, <1>7
  <2> HIDE DEF it
  <2> QED BY <1>1, <1>3, <2>1, <2>2, PutStill
<1>8. CASE kept = 0
  BY <1>1, <1>3, <1>6, <1>8, CutStill
<1> QED BY <1>7, <1>8

LEMMA TakeStill ==
  ASSUME Typed, Arguments, TakeEntry
  PROVE  SalesStill
<1>1. PICK k \in Keys, l \in Locs, q \in Nat \ {0}, to \in Staging : Take(k, l, q, to)
  BY Takes
<1>2. CASE /\ items' = Append(items, NewRow(k, l, q, StagedLoc(l, to)))
           /\ NewRow(k, l, q, StagedLoc(l, to)) \in Item
  <2>1. NewRow(k, l, q, StagedLoc(l, to)).customer = Unsold
    BY DEF NewRow
  <2> QED BY <1>2, <2>1, AddStill
<1>3. ASSUME NEW n \in DOMAIN items,
             /\ items[n].customer = Unsold
             /\ GrownRow(items[n], q, StagedLoc(l, to)) \in Item
             /\ items' = [items EXCEPT ![n] = GrownRow(items[n], q, StagedLoc(l, to))]
      PROVE  SalesStill
  <2>1. items[n] \in Item
    BY TableFacts DEF Typed
  <2> DEFINE it == GrownRow(items[n], q, StagedLoc(l, to))
  <2>2. it.customer = Unsold
    BY <1>3, <2>1, GrownFields
  <2>3. it \in Item /\ items' = [items EXCEPT ![n] = it]
    BY <1>3
  <2> HIDE DEF it
  <2> QED BY <1>3, <2>2, <2>3, PutStill
<1> QED BY <1>1, <1>2, <1>3 DEF Take
-----------------------------------------------------------------------------
(* Calls keep their account: stock moves, rows come and go.                  *)

(* A row in staging is given back, or deleted.                               *)
LEMMA GiveBackAccounts ==
  ASSUME Typed, Arguments, Accounts, Unstage \/ DropOrphan \/ CancelRow
  PROVE  Accounts'
<1>1. /\ tx.pc \in {"unstage", "cancel"} /\ InLoop /\ Here.customer = Unsold
      /\ UNCHANGED committed /\ ~Idle
  BY DEF Unstage, DropOrphan, CancelRow, At, Visits, Idle
<1>2. tx'.pc = tx.pc /\ tx'.order = tx.order
  BY DEF Unstage, DropOrphan, CancelRow, Advanced, Typed, Tx
<1>3. tx.at \in DOMAIN items /\ Here \in Item /\ Here.qty \in Nat /\ items[tx.at] = Here
  BY <1>1, HereType DEF Item, Here
<1>4. HandStill
  <2>1. CASE Unstage \/ CancelRow
    <3>1. CanRestore(Here, Here.qty) /\ inv' = Restored(Here, Here.qty)
      BY <2>1 DEF Unstage, CancelRow
    <3> QED BY <1>3, <3>1, MovedStill
  <2>2. CASE DropOrphan
    BY <2>2, SameStill DEF DropOrphan
  <2> QED BY <2>1, <2>2
<1>5. SoldStill
  BY GiveBackStill, SalesAreSold
<1> QED BY <1>1, <1>2, <1>4, <1>5, Steady

LEMMA MergeRowAccounts ==
  ASSUME Typed, Arguments, Agreement, Accounts, MergeRow
  PROVE  Accounts'
<1>1. tx.pc = "merge" /\ InLoop /\ Here.customer = Unsold
  BY MergesUnsold
<1>2. /\ UNCHANGED <<inv, committed>> /\ ~Idle /\ items' = RemoveAt(items, tx.at)
      /\ tx'.pc = tx.pc /\ tx'.order = tx.order
  BY <1>1 DEF MergeRow, Typed, Tx, Idle
<1>4. SoldStill
  BY MergeRowStill, SalesAreSold
<1> QED BY <1>1, <1>2, <1>4, SameStill, Steady

LEMMA RepairAccounts ==
  ASSUME Typed, Arguments, Accounts, Restage \/ Gather
  PROVE  Accounts'
<1>1. /\ tx.pc = "repair" /\ ~Idle /\ InLoop /\ UNCHANGED committed
      /\ tx'.pc = tx.pc /\ tx'.order = tx.order
  BY DEF Restage, Gather, At, Advanced, Typed, Tx, Idle
<1>2. tx.at \in DOMAIN items /\ Here \in Item /\ Here.qty \in Nat /\ Here.key \in Keys
      /\ Here.waiting_location \in Staging /\ items[tx.at] = Here
  BY <1>1, HereType DEF Item, Here
<1>3. CASE Restage
  <2>1. PICK l \in Locs :
          /\ CanTake(Here.key, l, Here.qty)
          /\ inv' = Staged(Here.key, l, Here.qty, Here.waiting_location)
          /\ RestagedRow(Here, l, StagedLoc(l, Here.waiting_location)) \in Item
          /\ items' = [items EXCEPT ![tx.at] = RestagedRow(Here, l, StagedLoc(l, Here.waiting_location))]
    BY <1>3, Restages
  <2>2. HandStill
    BY <1>2, <2>1, MovedStill
  <2>5. SoldStill
    BY <1>3, RestageStill, SalesAreSold
  <2> QED BY <1>1, <2>2, <2>5, Steady
<1>4. CASE Gather
  <2>1. PICK l \in Spare(Here), take \in Nat :
          /\ <<Here.key, l>> \in Rows /\ take <= inv[<<Here.key, l>>]
          /\ inv' = MoveQty(inv, <<Here.key, l>>, StagedAt(Here), take)
    BY <1>4, Gathers
  <2>2. StagedAt(Here) \in Rows /\ <<Here.key, l>>[1] = StagedAt(Here)[1] /\ inv \in [Rows -> Nat]
    BY <1>1, HereType DEF StagedAt, Typed
  <2> DEFINE from == <<Here.key, l>>
             to == StagedAt(Here)
  <2>3. from \in Rows /\ to \in Rows /\ take <= inv[from] /\ from[1] = to[1] /\ inv' = MoveQty(inv, from, to, take)
    BY <2>1, <2>2
  <2> HIDE DEF from, to
  <2>4. \A k \in Keys : HandOf(MoveQty(inv, from, to, take), k) = HandOf(inv, k)
    BY <2>1, <2>2, <2>3, HandMoved
  <2>5. HandStill
    BY <2>3, <2>4 DEF HandStill, Hand
  <2>6. SoldStill
    BY <1>4, SameStill DEF Gather
  <2> QED BY <1>1, <2>5, <2>6, Steady
<1> QED BY <1>3, <1>4

(* A reservation of an adjusted order is cut.                                *)
LEMMA ReduceUnsoldAccounts ==
  ASSUME Typed, Arguments, Accounts, ReduceUnsold
  PROVE  Accounts'
<1>1. /\ tx.pc = "unsold" /\ InLoop /\ Here.customer = Unsold /\ UNCHANGED committed /\ ~Idle
  BY ReserveCuts DEF Idle
<1>2. PICK kept \in Nat : ReserveCut(kept)
  BY ReserveCuts
<1>3. /\ tx.at \in DOMAIN items /\ Here \in Item /\ items[tx.at] = Here
      /\ RowOf(Here) \in Rows /\ RowOf(Here)[1] = Here.key
  BY <1>1, HereType DEF Here, RowOf
<1>4. HandStill
  <2>1. CASE kept < Here.qty
    <3>1. Here.qty - kept \in Nat /\ CanRestore(Here, Here.qty - kept) /\ inv' = Restored(Here, Here.qty - kept)
      BY <1>2, <2>1 DEF ReserveCut
    <3> QED BY <1>3, <3>1, MovedStill
  <2>2. CASE ~(kept < Here.qty)
    BY <1>2, <2>2, SameStill DEF ReserveCut
  <2> QED BY <2>1, <2>2
<1>5. PICK l \in Locs : LeaveQty(kept, RowOf(Here), l)
  BY <1>2 DEF ReserveCut
<1>6. tx'.pc = tx.pc /\ tx'.order = tx.order
  BY <1>1, <1>2, <1>3, <1>5, Leaves
<1>7. SoldStill
  BY ReserveStill, SalesAreSold
<1> QED BY <1>1, <1>4, <1>6, <1>7, Steady

(* A cart entry is taken.                                                    *)
LEMMA TakeEntryAccounts ==
  ASSUME Typed, Arguments, Accounts, TakeEntry
  PROVE  Accounts'
<1>1. /\ tx.pc \in {"register", "restage", "add"} /\ UNCHANGED committed /\ ~Idle
      /\ tx'.pc = tx.pc /\ tx'.order = tx.order
  BY Takes DEF Idle, Advanced, Typed, Tx
<1>2. PICK k \in Keys, l \in Locs, q \in Nat \ {0}, to \in Staging : Take(k, l, q, to)
  BY Takes
<1>3. HandStill
  BY <1>2, MovedStill DEF Take
<1>4. SoldStill
  BY TakeStill, SalesAreSold
<1> QED BY <1>1, <1>3, <1>4, Steady
-----------------------------------------------------------------------------
(* Calls keep their account: units change sides.                             *)

(* A row whose customer changes changes what is sold of its own key only.    *)
LEMMA SideSold ==
  ASSUME Typed, InLoop, NEW h \in Item, h = Here, NEW c \in Customers \cup {Unsold},
         items' = [items EXCEPT ![tx.at].customer = c]
  PROVE  \A o \in Orders, k \in Keys :
           /\ Sold(o, k)' \in Nat
           /\ o # h.order \/ k # h.key => Sold(o, k)' = Sold(o, k)
           /\ h.customer = Unsold /\ c # Unsold /\ o = h.order /\ k = h.key =>
                Sold(o, k)' = Sold(o, k) + h.qty
           /\ h.customer # Unsold /\ c = Unsold /\ o = h.order /\ k = h.key =>
                Sold(o, k)' = Sold(o, k) - h.qty
<1>1. PICK n \in DOMAIN items : n = tx.at /\ items[n] = h
  BY HereType DEF Here
<1>2. PICK it \in Item : it = [h EXCEPT !.customer = c]
  BY DEF Item
<1>3. /\ items' = [items EXCEPT ![n] = it]
      /\ it.order = h.order /\ it.key = h.key /\ it.qty = h.qty
      /\ it.customer = c /\ h.qty \in Nat
  BY <1>1, <1>2 DEF Item
<1>5. /\ Typed /\ n \in DOMAIN items /\ it \in Item /\ items' = [items EXCEPT ![n] = it]
  BY <1>3
<1>6. \A o, k : /\ Sold(o, k) - SoldIn(o, k)[items[n]] \in Nat
                /\ Sold(o, k)' = Sold(o, k) - SoldIn(o, k)[items[n]] + SoldIn(o, k)[it]
  BY ONLY <1>5, PutSold
<1>4. ASSUME NEW o \in Orders, NEW k \in Keys
      PROVE  /\ Sold(o, k) - SoldIn(o, k)[h] \in Nat
             /\ Sold(o, k)' = Sold(o, k) - SoldIn(o, k)[h] + SoldIn(o, k)[it]
             /\ Sold(o, k) \in Nat
             /\ SoldIn(o, k)[h] = IF h.order = o /\ h.customer # Unsold /\ h.key = k THEN h.qty ELSE 0
             /\ SoldIn(o, k)[it] = IF h.order = o /\ c # Unsold /\ h.key = k THEN h.qty ELSE 0
  <2>1. /\ Sold(o, k) - SoldIn(o, k)[items[n]] \in Nat
        /\ Sold(o, k)' = Sold(o, k) - SoldIn(o, k)[items[n]] + SoldIn(o, k)[it]
    BY <1>6
  <2> QED BY <1>1, <1>3, <2>1, SoldInRow, AccountTypes
<1> QED BY <1>3, <1>4

(* A row of the stock table written by the transaction. *)
LEMMA SideHand ==
  ASSUME Typed, inv' \in [Rows -> Nat], NEW a \in Rows, \A r \in Rows : r # a => inv'[r] = inv[r]
  PROVE  \A k \in Keys :
           /\ k # a[1] => Hand(k)' = Hand(k)
           /\ k = a[1] => Hand(k) - inv[a] \in Nat /\ Hand(k)' = Hand(k) - inv[a] + inv'[a]
<1>1. inv \in [Rows -> Nat]
  BY DEF Typed
<1>2. \A k \in Keys : /\ k = a[1] => HandOf(inv, k) - inv[a] \in Nat /\ HandOf(inv', k) = HandOf(inv, k) - inv[a] + inv'[a]
                      /\ k # a[1] => HandOf(inv', k) = HandOf(inv, k)
  BY <1>1, HandRow
<1> QED BY <1>2 DEF Hand

LEMMA ConfirmRowAccounts ==
  ASSUME Typed, Arguments, Agreement, Accounts, ConfirmRow
  PROVE  Accounts'
<1>1. /\ tx.pc = "confirm" /\ InLoop /\ tx.at \in tx.selected /\ ~Idle /\ tx' = Advanced
      /\ inv' = [inv EXCEPT ![StagedAt(Here)] = @ - Here.qty] /\ inv[StagedAt(Here)] >= Here.qty
      /\ items' = [items EXCEPT ![tx.at].customer = tx.customer] /\ UNCHANGED committed
  BY DEF ConfirmRow, At, Visits, Idle, InStaging
<1>2. /\ tx'.pc = tx.pc /\ tx'.order = tx.order /\ tx'.selected = tx.selected /\ tx'.customer = tx.customer
      /\ tx'.at = tx.at + 1 /\ tx.at \in Nat \ {0} /\ tx.selected \in SUBSET Nat
      /\ tx.customer \in Customers \cup {Unsold}
  BY <1>1 DEF Advanced, Typed, Tx
<1>3. PICK h \in Item : h = Here /\ tx.at \in DOMAIN items
  BY <1>1, HereType
<1>4. PICK u \in Orders : u = tx.order
  BY <1>1 DEF Arguments
<1>5. h.order = u /\ tx.customer # Unsold /\ h.customer = Unsold
  BY <1>1, <1>2, <1>3, <1>4 DEF Accounts, ConfirmAccount, Agreement, Knows, KnowsConfirm, Here
<1>6. PICK a \in Rows : a = StagedAt(h)
  BY DEF StagedAt, Item, Rows, Locs
<1>7. a[1] = h.key /\ h.qty \in Nat /\ h.key \in Keys
  BY <1>6 DEF StagedAt, Item
<1>8. ASSUME NEW o \in Orders, NEW k \in Keys
      PROVE  Sold(o, k)' = IF o = u /\ k = h.key THEN Sold(o, k) + h.qty ELSE Sold(o, k)
  <2> PICK c \in Customers \cup {Unsold} : c = tx.customer
    BY <1>2
  <2>1. items' = [items EXCEPT ![tx.at].customer = c] /\ c # Unsold /\ InLoop /\ h = Here
    BY <1>1, <1>3, <1>5
  <2>3. \A p \in Orders, j \in Keys :
           /\ p # h.order \/ j # h.key => Sold(p, j)' = Sold(p, j)
           /\ h.customer = Unsold /\ c # Unsold /\ p = h.order /\ j = h.key => Sold(p, j)' = Sold(p, j) + h.qty
    BY <2>1, SideSold
  <2>2. /\ o # h.order \/ k # h.key => Sold(o, k)' = Sold(o, k)
        /\ h.customer = Unsold /\ c # Unsold /\ o = h.order /\ k = h.key => Sold(o, k)' = Sold(o, k) + h.qty
    BY <2>3
  <2> QED BY <1>5, <2>1, <2>2
<1>9. ASSUME NEW k \in Keys
      PROVE  /\ k = h.key => Hand(k) - h.qty \in Nat /\ Hand(k)' = Hand(k) - h.qty
             /\ k # h.key => Hand(k)' = Hand(k)
  <2>1. /\ inv' \in [Rows -> Nat] /\ \A r \in Rows : r # a => inv'[r] = inv[r]
        /\ inv'[a] = inv[a] - h.qty /\ inv[a] \in Nat /\ inv[a] >= h.qty
    BY <1>1, <1>3, <1>6, <1>7 DEF Typed
  <2>3. /\ k # a[1] => Hand(k)' = Hand(k)
        /\ k = a[1] => Hand(k) - inv[a] \in Nat /\ Hand(k)' = Hand(k) - inv[a] + inv'[a]
    BY <2>1, SideHand
  <2>4. Hand(k) \in Nat
    BY AccountTypes
  <2> QED BY <1>7, <2>1, <2>3, <2>4
<1>10. OthersSold'
  BY <1>1, <1>2, <1>4, <1>8, OthersStay
<1>11. \A k \in Keys :
         /\ Hand(k)' + Sold(u, k)' = HandC(k)' + SoldC(u, k)'
         /\ Sold(u, k)' >= SoldC(u, k)'
  <2> TAKE k \in Keys
  <2>1. Hand(k) + Sold(u, k) = HandC(k) + SoldC(u, k) /\ Sold(u, k) >= SoldC(u, k)
    BY <1>1, <1>4 DEF Accounts, ConfirmAccount
  <2>2. Hand(k) \in Nat /\ HandC(k) \in Nat /\ Sold(u, k) \in Nat /\ SoldC(u, k) \in Nat
    BY AccountTypes
  <2>3. HandC(k)' = HandC(k) /\ SoldC(u, k)' = SoldC(u, k)
    BY <1>1, CommittedStays
  <2>4. Sold(u, k)' = IF k = h.key THEN Sold(u, k) + h.qty ELSE Sold(u, k)
    BY <1>8
  <2> QED BY <1>7, <1>9, <2>1, <2>2, <2>3, <2>4
<1>12. \A i \in tx'.selected : i >= tx'.at => items'[i].customer = Unsold
  <2> TAKE i \in tx'.selected
  <2> HAVE i >= tx'.at
  <2>1. i \in Nat /\ i # tx.at /\ i >= tx.at /\ i \in tx.selected
    BY <1>2
  <2>2. i \in DOMAIN items /\ items[i].customer = Unsold
    BY <1>1, <2>1 DEF Accounts, ConfirmAccount, Agreement, Knows, KnowsConfirm
  <2>3. items'[i] = items[i]
    BY <1>1, <2>1, <2>2
  <2> QED BY <2>2, <2>3
<1>13. ConfirmAccount'
  BY <1>2, <1>4, <1>5, <1>11, <1>12 DEF ConfirmAccount
<1> QED BY <1>1, <1>2, <1>10, <1>13 DEF Accounts, QuietAccount, ReturnAccount, SoldAccount, AdjustAccount, Quiet

LEMMA ReturnRowAccounts ==
  ASSUME Typed, Arguments, Accounts, ReturnRow
  PROVE  Accounts'
<1>1. /\ tx.pc = "return" /\ InLoop /\ Here.order = tx.order /\ Here.customer # Unsold /\ ~Idle /\ tx' = Advanced
      /\ inv' = [inv EXCEPT ![StagedAt(Here)] = @ + Here.qty]
      /\ items' = [items EXCEPT ![tx.at].customer = Unsold] /\ UNCHANGED committed
  BY DEF ReturnRow, At, Visits, Idle
<1>2. tx'.pc = tx.pc /\ tx'.order = tx.order
  BY <1>1 DEF Advanced, Typed, Tx
<1>3. PICK h \in Item : h = Here
  BY <1>1, HereType
<1>4. PICK u \in Orders : u = tx.order
  BY <1>1 DEF Arguments
<1>6. PICK a \in Rows : a = StagedAt(h)
  BY DEF StagedAt, Item, Rows, Locs
<1>7. a[1] = h.key /\ h.qty \in Nat /\ h.key \in Keys
  BY <1>6 DEF StagedAt, Item
<1>8. ASSUME NEW o \in Orders, NEW k \in Keys
      PROVE  Sold(o, k)' = IF o = u /\ k = h.key THEN Sold(o, k) - h.qty ELSE Sold(o, k)
  <2>2. /\ o # h.order \/ k # h.key => Sold(o, k)' = Sold(o, k)
        /\ h.customer # Unsold /\ Unsold = Unsold /\ o = h.order /\ k = h.key => Sold(o, k)' = Sold(o, k) - h.qty
    BY <1>1, <1>3, SideSold
  <2> QED BY <1>1, <1>3, <1>4, <2>2
<1>9. ASSUME NEW k \in Keys
      PROVE  Hand(k)' = IF k = h.key THEN Hand(k) + h.qty ELSE Hand(k)
  <2>1. /\ inv' \in [Rows -> Nat] /\ \A r \in Rows : r # a => inv'[r] = inv[r]
        /\ inv'[a] = inv[a] + h.qty /\ inv[a] \in Nat
    BY <1>1, <1>3, <1>6, <1>7 DEF Typed
  <2>3. /\ k # a[1] => Hand(k)' = Hand(k)
        /\ k = a[1] => Hand(k) - inv[a] \in Nat /\ Hand(k)' = Hand(k) - inv[a] + inv'[a]
    BY <2>1, SideHand
  <2>4. Hand(k) \in Nat
    BY AccountTypes
  <2> QED BY <1>7, <2>1, <2>3, <2>4
<1>10. OthersSold'
  BY <1>1, <1>2, <1>4, <1>8, OthersStay
<1>11. \A k \in Keys : Hand(k)' + Sold(u, k)' = HandC(k)' + SoldC(u, k)'
  <2> TAKE k \in Keys
  <2>1. Hand(k) + Sold(u, k) = HandC(k) + SoldC(u, k)
    BY <1>1, <1>4 DEF Accounts, ReturnAccount
  <2>2. Hand(k) \in Nat /\ HandC(k) \in Nat /\ Sold(u, k) \in Nat /\ SoldC(u, k) \in Nat
    BY AccountTypes
  <2>3. HandC(k)' = HandC(k) /\ SoldC(u, k)' = SoldC(u, k)
    BY <1>1, CommittedStays
  <2>4. Sold(u, k)' = IF k = h.key THEN Sold(u, k) - h.qty ELSE Sold(u, k)
    BY <1>8
  <2> QED BY <1>7, <1>9, <2>1, <2>2, <2>3, <2>4
<1>13. ReturnAccount'
  BY <1>2, <1>4, <1>11 DEF ReturnAccount
<1> QED BY <1>1, <1>2, <1>10, <1>13 DEF Accounts, QuietAccount, ConfirmAccount, SoldAccount, AdjustAccount, Quiet
-----------------------------------------------------------------------------
(* An adjustment cuts a sale.                                                *)

LEMMA SaleHand ==
  ASSUME Typed, InLoop, NEW h \in Item, h = Here, NEW r, NEW kept, SaleCut(r, kept)
  PROVE  \E x \in 0 .. kept : \A k \in Keys :
           /\ k # h.key => Hand(k)' = Hand(k)
           /\ k = h.key => Hand(k) - x \in Nat /\ Hand(k)' = Hand(k) - x + (h.qty - kept)
<1> PICK a \in Rows : a = <<h.key, h.source_location>>
  BY DEF Item, Rows
<1>1. /\ r \in Rows /\ r[1] = h.key /\ kept \in Nat /\ h.qty \in Nat /\ kept <= h.qty
      /\ TakesFromOther(h, r) => inv[r] >= kept
      /\ inv' = [Relinked(h, r) EXCEPT ![a] = @ + (h.qty - kept)] /\ kept = KeptQty(h, r)
      /\ a[1] = h.key
  BY DEF SaleCut
<1>2. inv \in [Rows -> Nat] /\ h.qty - kept \in Nat
  BY <1>1 DEF Typed
<1> PICK x \in 0 .. kept : x = IF TakesFromOther(h, r) THEN kept ELSE 0
  BY <1>1
<1> DEFINE rel == Relinked(h, r)
<1>3. rel \in [Rows -> Nat] /\ (\A b \in Rows : b # r => rel[b] = inv[b]) /\ rel[r] = inv[r] - x
      /\ inv[r] \in Nat /\ inv[r] - x \in Nat
  <2>1. CASE TakesFromOther(h, r)
    <3>1. rel = [inv EXCEPT ![r] = @ - kept] /\ x = kept /\ inv[r] - kept \in Nat
      BY <1>1, <1>2, <2>1 DEF Relinked
    <3> HIDE DEF rel
    <3> QED BY <1>1, <1>2, <3>1
  <2>2. CASE ~TakesFromOther(h, r)
    <3>1. rel = inv /\ x = 0
      BY <2>2 DEF Relinked
    <3> HIDE DEF rel
    <3> QED BY <1>1, <1>2, <3>1
  <2> QED BY <2>1, <2>2
<1>4. inv' = [rel EXCEPT ![a] = @ + (h.qty - kept)]
  BY <1>1
<1> HIDE DEF rel
<1>5. inv' \in [Rows -> Nat] /\ (\A b \in Rows : b # a => inv'[b] = rel[b])
      /\ inv'[a] = rel[a] + (h.qty - kept) /\ rel[a] \in Nat
  BY <1>2, <1>3, <1>4
<1>6. ASSUME NEW k \in Keys
      PROVE  /\ k # h.key => Hand(k)' = Hand(k)
             /\ k = h.key => Hand(k) - x \in Nat /\ Hand(k)' = Hand(k) - x + (h.qty - kept)
  <2>1. /\ k = r[1] => HandOf(inv, k) - inv[r] \in Nat /\ HandOf(rel, k) = HandOf(inv, k) - inv[r] + rel[r]
        /\ k # r[1] => HandOf(rel, k) = HandOf(inv, k)
    BY <1>1, <1>2, <1>3, HandRow
  <2>2. /\ k = a[1] => HandOf(rel, k) - rel[a] \in Nat /\ HandOf(inv', k) = HandOf(rel, k) - rel[a] + inv'[a]
        /\ k # a[1] => HandOf(inv', k) = HandOf(rel, k)
    BY <1>3, <1>5, HandRow
  <2>3. HandOf(inv, k) \in Nat /\ HandOf(rel, k) \in Nat
    BY <1>2, <1>3, HandNat
  <2> QED BY <1>1, <1>2, <1>3, <1>5, <2>1, <2>2, <2>3 DEF Hand
<1> QED BY <1>6

(* What it does to any weight: x is what is left of the row.                 *)
LEMMA SaleWeighs ==
  ASSUME Typed, InLoop, NEW h \in Item, h = Here, NEW r \in Rows, NEW kept \in Nat, SaleCut(r, kept),
         NEW w \in [Item -> Nat], NEW x \in Nat,
         kept > 0 => w[LeftRow(h, kept, r)] = x, kept = 0 => x = 0
  PROVE  /\ tx'.pc = tx.pc /\ tx'.order = tx.order
         /\ tx.at - 1 \in 0 .. Len(items) /\ tx'.at - 1 \in 0 .. Len(items')
         /\ Total(w, items) - w[h] \in Nat /\ Total(w, items') = Total(w, items) - w[h] + x
         /\ Weigh(w, items, tx.at - 1) \in Nat
         /\ Weigh(w, items', tx'.at - 1) = Weigh(w, items, tx.at - 1) + x
<1>1. PICK n \in DOMAIN items : n = tx.at /\ items[n] = h
  BY HereType DEF Here
<1>2. n \in 1 .. Len(items) /\ Len(items) \in Nat /\ items \in Seq(Item)
  BY TableFacts DEF Typed
<1>3. /\ tx'.pc = tx.pc /\ tx'.order = tx.order /\ kept \in Nat
      /\ kept > 0 => /\ items' = [items EXCEPT ![n] = LeftRow(h, kept, r)]
                     /\ LeftRow(h, kept, r) \in Item /\ tx'.at = n + 1
      /\ kept = 0 => items' = RemoveAt(items, n) /\ tx'.at = n
  <2>1. /\ r \in Rows /\ r[1] = Here.key /\ kept \in Nat /\ LeaveQty(kept, r, Here.source_location)
        /\ Here.source_location \in Locs
    BY DEF SaleCut, Item
  <2> PICK l \in Locs : l = Here.source_location
    BY <2>1
  <2>2. LeaveQty(kept, r, l)
    BY <2>1
  <2> QED BY <1>1, <2>1, <2>2, Leaves
<1>4. Weigh(w, items, n - 1) \in Nat /\ Total(w, items) \in Nat /\ w[h] \in Nat
  <2>1. n - 1 \in 0 .. Len(items)
    BY ONLY <1>2
  <2>2. Total(w, items) \in Nat /\ \A m \in 0 .. Len(items) : Weigh(w, items, m) \in Nat
    BY <1>2, Weighed
  <2> QED BY <2>1, <2>2
<1>5. CASE kept > 0
  <2>1. PICK it \in Item : it = LeftRow(h, kept, r)
    BY <1>3, <1>5
  <2>2. items' = [items EXCEPT ![n] = it] /\ tx'.at = n + 1 /\ w[it] = x
    BY <1>3, <1>5, <2>1
  <2>3. /\ Total(w, items) - w[items[n]] \in Nat
        /\ Total(w, items') = Total(w, items) - w[items[n]] + w[it]
        /\ \A m \in 0 .. n - 1 : Weigh(w, items', m) = Weigh(w, items, m)
        /\ Len(items') = Len(items)
    BY <1>2, <2>2, PutRow
  <2>4. items' \in Seq(Item) /\ items'[n] = it
    BY <1>2, <2>2, UpdateRow
  <2> DEFINE len == Len(items')
             u == items'
  <2>5. Weighs(w, u, len) /\ len = Len(items)
    BY <2>3, <2>4, Weighed
  <2> HIDE DEF len, u
  <2>6. \A j \in 0 .. len : j # len => Weigh(w, u, j + 1) = Weigh(w, u, j) + w[u[j + 1]]
    BY ONLY <2>5, WeighSteps
  <2>7. Weigh(w, u, n) = Weigh(w, u, n - 1) + w[u[n]]
    <3>1. n - 1 \in 0 .. len /\ n - 1 # len /\ (n - 1) + 1 = n
      BY <1>2, <2>5
    <3> QED BY <2>6, <3>1
  <2>8. Weigh(w, items', tx'.at - 1) = Weigh(w, items, n - 1) + x
    <3>1. tx'.at - 1 = n /\ n - 1 \in 0 .. n - 1
      BY <1>2, <2>2
    <3>2. Weigh(w, items', n - 1) = Weigh(w, items, n - 1)
      BY <2>3, <3>1
    <3> QED BY <2>2, <2>4, <2>7, <3>1, <3>2 DEF u
  <2>9. tx.at - 1 \in 0 .. Len(items) /\ tx'.at - 1 \in 0 .. Len(items')
    <3>1. n - 1 \in 0 .. Len(items) /\ (n + 1) - 1 \in 0 .. Len(items)
      BY ONLY <1>2
    <3> QED BY <1>1, <2>2, <2>3, <3>1
  <2> QED BY <1>1, <1>3, <1>4, <2>2, <2>3, <2>8, <2>9
<1>6. CASE kept = 0
  <2>1. items' = RemoveAt(items, n) /\ tx'.at = n /\ x = 0
    BY <1>3, <1>6
  <2>2. /\ Total(w, items') \in Nat /\ Total(w, items) = Total(w, items') + w[h]
        /\ \A m \in 0 .. n - 1 : Weigh(w, items', m) = Weigh(w, items, m)
        /\ Len(items') = Len(items) - 1
    BY <1>1, <1>2, <2>1, CutRow
  <2>3. tx.at - 1 \in 0 .. Len(items) /\ tx'.at - 1 \in 0 .. Len(items') /\ n - 1 \in 0 .. n - 1
    BY <1>1, <1>2, <2>1, <2>2
  <2> QED BY <1>1, <1>3, <1>4, <2>1, <2>2, <2>3
<1> QED BY <1>3, <1>5, <1>6

LEMMA SaleSold ==
  ASSUME Typed, InLoop, NEW h \in Item, h = Here, h.order = tx.order, h.customer # Unsold,
         NEW r \in Rows, NEW kept \in Nat, SaleCut(r, kept), NEW k \in Keys
  PROVE  /\ tx'.pc = tx.pc /\ tx'.order = tx.order
         /\ tx.at - 1 \in 0 .. Len(items) /\ tx'.at - 1 \in 0 .. Len(items')
         /\ SoldUpto(k) \in Nat
         /\ SoldUpto(k)' = IF k = h.key THEN SoldUpto(k) + kept ELSE SoldUpto(k)
         /\ \A o \in Orders :
              /\ Sold(o, k)' \in Nat
              /\ Sold(o, k)' = IF o = h.order /\ k = h.key THEN Sold(o, k) - h.qty + kept ELSE Sold(o, k)
<1>1. kept \in Nat /\ h.qty \in Nat /\ h.order \in Orders
  BY DEF SaleCut, Item
<1>2. kept > 0 => LeftRow(h, kept, r) \in Item
  <2>1. /\ r \in Rows /\ r[1] = Here.key /\ LeaveQty(kept, r, Here.source_location) /\ Here.source_location \in Locs
    BY DEF SaleCut, Item
  <2> PICK l \in Locs : l = Here.source_location
    BY <2>1
  <2>2. LeaveQty(kept, r, l)
    BY <2>1
  <2> QED BY <1>1, <2>1, <2>2, Leaves
<1>3. ASSUME NEW o \in Orders
      PROVE  /\ tx'.pc = tx.pc /\ tx'.order = tx.order
             /\ tx.at - 1 \in 0 .. Len(items) /\ tx'.at - 1 \in 0 .. Len(items')
             /\ Sold(o, k)' \in Nat
             /\ Sold(o, k)' = IF o = h.order /\ k = h.key THEN Sold(o, k) - h.qty + kept ELSE Sold(o, k)
             /\ o = h.order => /\ SoldUpto(k) \in Nat
                               /\ SoldUpto(k)' = IF k = h.key THEN SoldUpto(k) + kept ELSE SoldUpto(k)
  <2>1. PICK w \in [Item -> Nat] : w = SoldIn(o, k)
    BY SoldInType
  <2>2. PICK x \in Nat : x = IF o = h.order /\ k = h.key THEN kept ELSE 0
    BY <1>1
  <2>3. /\ w[h] = IF o = h.order /\ k = h.key THEN h.qty ELSE 0
        /\ kept > 0 => w[LeftRow(h, kept, r)] = x
        /\ kept = 0 => x = 0
    BY <1>2, <2>1, <2>2, SoldInRow, LeftFields
  <2>4. /\ tx'.pc = tx.pc /\ tx'.order = tx.order
        /\ tx.at - 1 \in 0 .. Len(items) /\ tx'.at - 1 \in 0 .. Len(items')
        /\ Total(w, items) - w[h] \in Nat /\ Total(w, items') = Total(w, items) - w[h] + x
        /\ Weigh(w, items, tx.at - 1) \in Nat
        /\ Weigh(w, items', tx'.at - 1) = Weigh(w, items, tx.at - 1) + x
    <3>1. kept > 0 => w[LeftRow(h, kept, r)] = x
      BY <2>3
    <3>2. kept = 0 => x = 0
      BY <2>3
    <3> QED BY <3>1, <3>2, SaleWeighs
  <2>5. Sold(o, k) = Total(w, items) /\ Sold(o, k)' = Total(w, items') /\ Sold(o, k) \in Nat
    BY <2>1, AccountTypes DEF Sold
  <2>6. o = h.order => SoldUpto(k) = Weigh(w, items, tx.at - 1) /\ SoldUpto(k)' = Weigh(w, items', tx'.at - 1)
    BY <2>1, <2>4 DEF SoldUpto
  <2> QED BY <1>1, <2>2, <2>3, <2>4, <2>5, <2>6
<1> QED BY <1>1, <1>3

LEMMA ReduceSoldAccounts ==
  ASSUME Typed, Arguments, Accounts, ReduceSold
  PROVE  Accounts'
<1>1. /\ tx.pc = "sold" /\ InLoop /\ Here.order = tx.order /\ Here.customer # Unsold
      /\ UNCHANGED committed /\ ~Idle
  BY SaleCuts DEF Idle
<1>2. PICK r \in Rows, kept \in Nat : SaleCut(r, kept)
  BY SaleCuts
<1>3. PICK h \in Item : h = Here
  BY <1>1, HereType
<1>4. PICK u \in Orders : u = tx.order
  BY <1>1 DEF Arguments
<1>5. h.key \in Keys /\ h.qty \in Nat /\ kept <= h.qty
  BY <1>2, <1>3 DEF SaleCut, Item
<1>6. PICK x \in 0 .. kept : \A k \in Keys :
           /\ k # h.key => Hand(k)' = Hand(k)
           /\ k = h.key => Hand(k) - x \in Nat /\ Hand(k)' = Hand(k) - x + (h.qty - kept)
  BY <1>1, <1>2, <1>3, SaleHand
<1>7. \A k \in Keys :
         /\ tx'.pc = tx.pc /\ tx'.order = tx.order
         /\ tx'.at - 1 \in 0 .. Len(items')
         /\ SoldUpto(k) \in Nat
         /\ SoldUpto(k)' = IF k = h.key THEN SoldUpto(k) + kept ELSE SoldUpto(k)
         /\ \A o \in Orders :
              /\ Sold(o, k)' \in Nat
              /\ Sold(o, k)' = IF o = u /\ k = h.key THEN Sold(o, k) - h.qty + kept ELSE Sold(o, k)
  BY <1>1, <1>2, <1>3, <1>4, SaleSold
<1>8. OthersSold'
  BY <1>1, <1>4, <1>5, <1>7, OthersStay
<1>9. \A k \in Keys : Relinks(k, SoldUpto(k))'
  <2> TAKE k \in Keys
  <2>1. /\ Sold(u, k) <= SoldC(u, k)
        /\ Hand(k) + Sold(u, k) <= HandC(k) + SoldC(u, k)
        /\ HandC(k) + SoldC(u, k) <= Hand(k) + Sold(u, k) + SoldUpto(k)
    BY <1>1, <1>4 DEF Accounts, SoldAccount, Relinks
  <2>2. Hand(k) \in Nat /\ HandC(k) \in Nat /\ Sold(u, k) \in Nat /\ SoldC(u, k) \in Nat
    BY AccountTypes
  <2>3. HandC(k)' = HandC(k) /\ SoldC(u, k)' = SoldC(u, k)
    BY <1>1, CommittedStays
  <2>4. /\ SoldUpto(k) \in Nat
        /\ SoldUpto(k)' = IF k = h.key THEN SoldUpto(k) + kept ELSE SoldUpto(k)
        /\ Sold(u, k)' = IF k = h.key THEN Sold(u, k) - h.qty + kept ELSE Sold(u, k)
    BY <1>7
  <2>5. x \in Nat /\ x <= kept
    OBVIOUS
  <2>6. /\ Sold(u, k)' <= SoldC(u, k)'
        /\ Hand(k)' + Sold(u, k)' <= HandC(k)' + SoldC(u, k)'
        /\ HandC(k)' + SoldC(u, k)' <= Hand(k)' + Sold(u, k)' + SoldUpto(k)'
    BY <1>5, <1>6, <2>1, <2>2, <2>3, <2>4, <2>5
  <2> QED BY <1>4, <1>7, <2>6 DEF Relinks
<1>10. tx'.at - 1 \in 0 .. Len(items') /\ tx'.pc = "sold"
  BY <1>1, <1>5, <1>7
<1>11. SoldAccount'
  BY <1>9, <1>10 DEF SoldAccount
<1> QED BY <1>8, <1>10, <1>11 DEF Accounts, QuietAccount, ConfirmAccount, ReturnAccount, AdjustAccount, Quiet
-----------------------------------------------------------------------------
(* Every call keeps its account.                                             *)

(* A call begins with the tables as they were committed.                     *)
LEMMA OpensAccount ==
  ASSUME Typed, Agreement, Idle, UNCHANGED <<inv, items, committed>>, tx'.at = 1,
         tx'.pc = "confirm" => /\ tx'.customer # Unsold
                               /\ \A i \in tx'.selected : items[i].customer = Unsold
  PROVE  Accounts'
<1>1. committed.inv = inv /\ committed.items = items
  BY DEF Agreement, Settled, Database
<1>2. \A k \in Keys : Hand(k)' = HandC(k)' /\ HandC(k)' = Hand(k)
  BY <1>1 DEF Hand, HandC
<1>3. \A o, k : Sold(o, k)' = SoldC(o, k)' /\ SoldC(o, k)' = Sold(o, k)
  BY <1>1 DEF Sold, SoldC
<1>4. \A k \in Keys : \A o : /\ Hand(k) \in Nat /\ Sold(o, k) \in Nat
                          /\ Weigh(SoldIn(o, k), items, 0) = 0
  <2> TAKE k \in Keys
  <2> TAKE o
  <2> PICK w \in [Item -> Nat] : w = SoldIn(o, k)
    BY SoldInType
  <2>1. Weighs(w, items, Len(items))
    BY Weighed DEF Typed
  <2>2. Weigh(w, items, 0) = 0
    BY <2>1, WeighSteps
  <2> QED BY <2>2, AccountTypes
<1> DEFINE u == tx'.order
<1>5. \A k \in Keys : Hand(k)' = HandC(k)' /\ Sold(tx.order, k)' = SoldC(tx.order, k)'
  BY <1>2, <1>3
<1>6. \A k \in Keys : Hand(k)' \in Nat /\ Sold(tx.order, k)' \in Nat /\ SoldUpto(k)' = 0
  <2> TAKE k \in Keys
  <2>1. SoldUpto(k)' = Weigh(SoldIn(u, k), items, 0)
    BY DEF SoldUpto
  <2>2. Sold(tx.order, k)' = Sold(u, k) /\ Hand(k)' = Hand(k)
    BY DEF Sold, Hand
  <2> QED BY <1>4, <2>1, <2>2
<1>7. OthersSold'
  BY <1>3 DEF OthersSold
<1>8. QuietAccount' /\ ReturnAccount'
  BY <1>5 DEF QuietAccount, ReturnAccount
<1>9. ConfirmAccount'
  BY <1>5, <1>6 DEF ConfirmAccount
<1>10. SoldAccount'
  <2>1. tx'.at - 1 \in 0 .. Len(items')
    BY TableFacts DEF Typed
  <2>2. \A k \in Keys : Relinks(k, SoldUpto(k))'
    BY <1>5, <1>6 DEF Relinks
  <2> QED BY <2>1, <2>2 DEF SoldAccount
<1>11. AdjustAccount'
  <2>2. \A k \in Keys : Relinks(k, Sold(tx.order, k))'
    BY <1>5, <1>6 DEF Relinks
  <2> QED BY <2>2 DEF AdjustAccount
<1> QED BY <1>7, <1>8, <1>9, <1>10, <1>11 DEF Accounts

LEMMA BeginAccounts ==
  ASSUME Typed, Agreement
  PROVE  /\ \A o \in Orders, cart \in Submitted, loc \in Staging :
              BeginRegister(o, cart, loc) \/ BeginEdit(o, cart, loc) => Accounts'
         /\ \A o \in Orders : BeginCancel(o) \/ BeginReturn(o) \/ BeginRepair(o) => Accounts'
         /\ \A o \in Orders, S \in SUBSET DOMAIN items, c \in Customers : BeginConfirm(o, S, c) => Accounts'
         /\ \A s, t \in Orders : BeginMerge(s, t) => Accounts'
<1>1. ASSUME NEW o \in Orders, NEW cart \in Submitted, NEW loc \in Staging,
             BeginRegister(o, cart, loc) \/ BeginEdit(o, cart, loc)
      PROVE  Accounts'
  <2>1. /\ Idle /\ UNCHANGED <<inv, items, committed>>
        /\ \E pc \in {"register", "unstage", "sold"} : tx' = Saving(pc, o, cart, loc)
    BY <1>1 DEF BeginRegister, BeginEdit
  <2>2. tx'.at = 1 /\ tx'.pc # "confirm"
    BY <2>1 DEF Saving, NoTx
  <2> QED BY <2>1, <2>2, OpensAccount
<1>2. ASSUME NEW o \in Orders, BeginCancel(o) \/ BeginReturn(o) \/ BeginRepair(o) PROVE Accounts'
  <2>1. Idle /\ UNCHANGED <<inv, items, committed>> /\ tx'.at = 1 /\ tx'.pc # "confirm"
    BY <1>2 DEF BeginCancel, BeginReturn, BeginRepair, NoTx
  <2> QED BY <2>1, OpensAccount
<1>3. ASSUME NEW o \in Orders, NEW S \in SUBSET DOMAIN items, NEW c \in Customers, BeginConfirm(o, S, c)
      PROVE  Accounts'
  <2>1. /\ Idle /\ UNCHANGED <<inv, items, committed>> /\ tx'.at = 1 /\ tx'.customer = c /\ tx'.selected = S
        /\ S \subseteq RowsOf(items, o, FALSE)
    BY <1>3 DEF BeginConfirm, NoTx
  <2>2. c # Unsold /\ \A i \in S : items[i].customer = Unsold
    BY <2>1, ConstantsOK DEF RowsOf
  <2> QED BY <2>1, <2>2, OpensAccount
<1>4. ASSUME NEW s \in Orders, NEW t \in Orders, BeginMerge(s, t) PROVE Accounts'
  <2>1. Idle /\ UNCHANGED <<inv, items, committed>> /\ tx'.at = 1 /\ tx'.pc # "confirm"
    BY <1>4 DEF BeginMerge, NoTx
  <2> QED BY <2>1, OpensAccount
<1> QED BY <1>1, <1>2, <1>3, <1>4

LEMMA AccountsStep ==
  ASSUME Typed, Arguments, Agreement, Accounts, [Next]_vars
  PROVE  Accounts'
<1>1. CASE UserStep
  <2>1. Carts \subseteq Submitted
    BY DEF Submitted
  <2>2. ASSUME NEW o \in Orders, NEW cart \in Submitted, NEW loc \in Staging,
               BeginRegister(o, cart, loc) \/ BeginEdit(o, cart, loc)
        PROVE  Accounts'
    BY <2>2, BeginAccounts
  <2>3. ASSUME NEW o \in Orders, NEW S \in SUBSET DOMAIN items, NEW c \in Customers, BeginConfirm(o, S, c)
        PROVE  Accounts'
    BY <2>3, BeginAccounts
  <2>4. ASSUME NEW o \in Orders, BeginCancel(o) \/ BeginReturn(o) \/ BeginRepair(o) PROVE Accounts'
    BY <2>4, BeginAccounts
  <2>5. ASSUME NEW s \in Orders, NEW t \in Orders, BeginMerge(s, t) PROVE Accounts'
    BY <2>5, BeginAccounts
  <2>6. ASSUME \/ \E o \in Orders, S \in SUBSET DOMAIN items, c \in Customers : UpdateSale(o, S, c)
               \/ \E r \in Rows, q \in ReceivedQty : Receive(r, q)
               \/ \E r \in Rows, q \in CountedQty : Count(r, q)
               \/ \E r, to \in Rows : \E q \in 1 .. inv[r] : Move(r, to, q)
        PROVE  Accounts'
    <3>1. Idle /\ UNCHANGED tx
      BY <2>6 DEF UpdateSale, Receive, Count, Move, Store
    <3> QED BY <3>1 DEF Accounts, Idle
  <2> QED BY <1>1, <2>1, <2>2, <2>3, <2>4, <2>5, <2>6 DEF UserStep
<1>2. CASE TxStep
  <2>1. CASE PassOver \/ KeepStaged \/ SkipEntry \/ LeaveReservation \/ NextLoop
    BY <2>1, CursorAccounts, NextLoopAccounts
  <2>2. CASE UnstageFails \/ RelinkFails \/ ReduceFails \/ TakeFails \/ CancelFails \/ ConfirmFails
    BY <2>2, AtRest DEF UnstageFails, RelinkFails, ReduceFails, TakeFails, CancelFails, ConfirmFails, Rollback
  <2>3. CASE \/ Unstage \/ DropOrphan \/ ReduceSold \/ ReduceUnsold \/ TakeEntry
             \/ CancelRow \/ ConfirmRow \/ ReturnRow \/ MergeRow \/ Restage \/ Gather
    BY <2>3, GiveBackAccounts, ReduceSoldAccounts, ReduceUnsoldAccounts, TakeEntryAccounts,
       ConfirmRowAccounts, ReturnRowAccounts, MergeRowAccounts, RepairAccounts
  <2>4. CASE CommitSave \/ CommitCancel \/ CommitConfirm \/ CommitReturn \/ CommitMerge \/ CommitRepair
    BY <2>4, AtRest DEF CommitSave, CommitCancel, CommitConfirm, CommitReturn, CommitMerge, CommitRepair, Commit
  <2> QED BY <1>2, <2>1, <2>2, <2>3, <2>4 DEF TxStep
<1>3. CASE Crash
  BY <1>3, AtRest DEF Crash, Rollback
<1>4. CASE UNCHANGED vars
  <2>1. UNCHANGED <<inv, items, status, tx, committed>>
    BY <1>4 DEF vars
  <2> QED BY <2>1 DEF Accounts, OthersSold, QuietAccount, ConfirmAccount, ReturnAccount, SoldAccount,
                      AdjustAccount, Relinks, SoldUpto, Hand, HandC, Sold, SoldC, Idle
<1> QED BY <1>1, <1>2, <1>3, <1>4 DEF Next
-----------------------------------------------------------------------------
(* The ledger.                                                               *)

(* Tables that sell the same, row by row, and tables that sell nothing.      *)
LEMMA TotalSame ==
  ASSUME NEW w, NEW table \in Seq(Item), NEW other \in Seq(Item), Len(other) = Len(table),
         \A i \in DOMAIN table : w[other[i]] = w[table[i]]
  PROVE  Total(w, other) = Total(w, table)
<1> PICK n \in Nat : n = Len(table) /\ DOMAIN table = 1 .. n
  BY TableFacts
<1>1. \A i \in 1 .. n : w[other[i]] = w[table[i]]
  OBVIOUS
<1>2. Weigh(w, other, n) = Weigh(w, table, n)
  BY <1>1, WeighSame
<1> QED BY <1>2 DEF Total

LEMMA NoneSold ==
  ASSUME NEW table \in Seq(Item), NEW o, ~HasSold(table, o), NEW k
  PROVE  Total(SoldIn(o, k), table) = 0
<1>1. \A i \in DOMAIN table : SoldIn(o, k)[table[i]] = IF i \in {} THEN table[i].qty ELSE 0
  BY TableFacts, SoldInRow DEF HasSold
<1>2. SumQty(table, {}) = Total(SoldIn(o, k), table)
  BY <1>1, SoldInType, SumIsTotal
<1>3. SumQty(table, {}) = 0
  BY SumEmpty DEF SumQty, SumFunction
<1> QED BY <1>2, <1>3

(* What the ledger reads in the committed tables.                            *)
LEMMA LedgerReads ==
  ASSUME NEW db \in Databases
  PROVE  /\ \A k \in Keys : OnHand(db, k) = HandOf(db.inv, k) /\ OnHand(db, k) \in Nat
         /\ \A o \in Orders, k \in Keys : /\ QtyBy(db.items, o, TRUE, k) = Total(SoldIn(o, k), db.items)
                                          /\ QtyBy(db.items, o, TRUE, k) \in Nat
<1>1. db.inv \in [Rows -> Nat] /\ db.items \in Seq(Item)
  BY DEF Databases
<1>2. \A k : OnHand(db, k) = HandOf(db.inv, k)
  BY DEF OnHand, HandOf
<1>3. \A k \in Keys : HandOf(db.inv, k) \in Nat
  BY <1>1, HandNat
<1>4. \A o, k : QtyBy(db.items, o, TRUE, k) = Total(SoldIn(o, k), db.items)
  BY <1>1, QtyIsTotal
<1>5. \A o, k : Total(SoldIn(o, k), db.items) \in Nat
  BY <1>1, SoldInType, Weighed
<1> QED BY <1>2, <1>3, <1>4, <1>5

HandNow == [k \in Keys |-> HandC(k)]
SoldNow == [o \in Orders |-> [k \in Keys |-> SoldC(o, k)]]

LEMMA LedgerNow ==
  ASSUME Typed
  PROVE  /\ [k \in Keys |-> OnHand(committed, k)] = HandNow
         /\ [o \in Orders |-> [k \in Keys |-> QtyBy(committed.items, o, TRUE, k)]] = SoldNow
         /\ HandNow \in [Keys -> Nat] /\ SoldNow \in [Orders -> [Keys -> Nat]]
<1>1. committed \in Databases
  BY DEF Typed
<1>2. \A k \in Keys : OnHand(committed, k) = HandC(k) /\ HandC(k) \in Nat
  BY <1>1, LedgerReads DEF HandC
<1>3. \A o \in Orders, k \in Keys : QtyBy(committed.items, o, TRUE, k) = SoldC(o, k) /\ SoldC(o, k) \in Nat
  BY <1>1, LedgerReads DEF SoldC
<1> QED BY <1>2, <1>3 DEF HandNow, SoldNow

LEMMA LedgerThen ==
  ASSUME Typed'
  PROVE  /\ [k \in Keys |-> OnHand(committed', k)] = HandNow'
         /\ [o \in Orders |-> [k \in Keys |-> QtyBy(committed'.items, o, TRUE, k)]] = SoldNow'
         /\ HandNow' \in [Keys -> Nat] /\ SoldNow' \in [Orders -> [Keys -> Nat]]
<1>1. committed' \in Databases
  BY DEF Typed
<1>2. \A k \in Keys : OnHand(committed', k) = HandC(k)' /\ HandC(k)' \in Nat
  BY <1>1, LedgerReads DEF HandC
<1>3. \A o \in Orders, k \in Keys : QtyBy(committed'.items, o, TRUE, k) = SoldC(o, k)' /\ SoldC(o, k)' \in Nat
  BY <1>1, LedgerReads DEF SoldC
<1> QED BY <1>2, <1>3 DEF HandNow, SoldNow

(* A step of the ledger, or none.                                            *)
Ledged == Ledger!Next \/ UNCHANGED Ledger!ledger

LEMMA LedgerAre ==
  ASSUME Typed, Typed'
  PROVE  /\ Ledger!ledger = <<HandNow, SoldNow>> /\ Ledger!ledger' = <<HandNow', SoldNow'>>
         /\ \A k \in Keys : HandNow[k] = HandC(k) /\ HandNow'[k] = HandC(k)'
                            /\ HandC(k) \in Nat /\ HandC(k)' \in Nat
         /\ \A o \in Orders, k \in Keys : SoldNow[o][k] = SoldC(o, k) /\ SoldNow'[o][k] = SoldC(o, k)'
                                          /\ SoldC(o, k) \in Nat /\ SoldC(o, k)' \in Nat
<1>1. Ledger!ledger = <<HandNow, SoldNow>> /\ Ledger!ledger' = <<HandNow', SoldNow'>>
  BY LedgerNow, LedgerThen DEF Ledger!ledger
<1>2. \A k \in Keys : HandNow[k] = HandC(k) /\ HandNow'[k] = HandC(k)'
  BY DEF HandNow
<1>3. \A o \in Orders, k \in Keys : SoldNow[o][k] = SoldC(o, k) /\ SoldNow'[o][k] = SoldC(o, k)'
  BY DEF SoldNow
<1>4. HandNow \in [Keys -> Nat] /\ HandNow' \in [Keys -> Nat]
  BY LedgerNow, LedgerThen
<1>5. SoldNow \in [Orders -> [Keys -> Nat]] /\ SoldNow' \in [Orders -> [Keys -> Nat]]
  BY LedgerNow, LedgerThen
<1>6. \A k \in Keys : HandC(k) \in Nat /\ HandC(k)' \in Nat
  BY <1>2, <1>4
<1>7. \A o \in Orders, k \in Keys : SoldC(o, k) \in Nat /\ SoldC(o, k)' \in Nat
  BY <1>3, <1>5
<1> QED BY <1>1, <1>2, <1>3, <1>6, <1>7

(* The tables change in no way the ledger sees.                              *)
LEMMA LedgerStill ==
  ASSUME Typed, Typed', \A k \in Keys : HandC(k)' = HandC(k),
         \A o \in Orders, k \in Keys : SoldC(o, k)' = SoldC(o, k)
  PROVE  Ledged
<1>1. HandNow' = HandNow /\ SoldNow' = SoldNow
  BY DEF HandNow, SoldNow
<1> QED BY <1>1, LedgerAre DEF Ledged

(* A sale, a return and an edit of one order, in the words of the account.   *)
OthersKept(o) == \A p \in Orders, k \in Keys : p # o => SoldC(p, k)' = SoldC(p, k)

LEMMA LedgerOrder ==
  ASSUME Typed, Typed', NEW o \in Orders, OthersKept(o)
  PROVE  /\ (\A k \in Keys : /\ SoldC(o, k)' >= SoldC(o, k)
                              /\ HandC(k)' + SoldC(o, k)' = HandC(k) + SoldC(o, k)) => Ledger!Sell(o)
         /\ (\A k \in Keys : SoldC(o, k)' = 0 /\ HandC(k)' = HandC(k) + SoldC(o, k)) => Ledger!Return(o)
         /\ (\A k \in Keys : /\ SoldC(o, k)' <= SoldC(o, k)
                              /\ HandC(k)' + SoldC(o, k)' <= HandC(k) + SoldC(o, k)
                              /\ HandC(k) + SoldC(o, k) <= HandC(k)' + SoldC(o, k)' + SoldC(o, k)')
              => Ledger!Edit(o)
<1> DEFINE hand == [k \in Keys |-> OnHand(committed, k)]
           hand2 == [k \in Keys |-> OnHand(committed', k)]
           sold == [p \in Orders |-> [k \in Keys |-> QtyBy(committed.items, p, TRUE, k)]]
           sold2 == [p \in Orders |-> [k \in Keys |-> QtyBy(committed'.items, p, TRUE, k)]]
<1>1. hand = HandNow /\ sold = SoldNow /\ hand2 = HandNow' /\ sold2 = SoldNow'
  BY LedgerNow, LedgerThen
<1>2. /\ Ledger!OnlySale(o) <=> \A p \in Orders \ {o} : sold2[p] = sold[p]
      /\ Ledger!Sell(o) <=> /\ Ledger!OnlySale(o)
                            /\ \A k \in Keys : /\ sold2[o][k] >= sold[o][k]
                                                /\ hand2[k] + sold2[o][k] = hand[k] + sold[o][k]
      /\ Ledger!Return(o) <=> /\ Ledger!OnlySale(o)
                              /\ \A k \in Keys : sold2[o][k] = 0 /\ hand2[k] = hand[k] + sold[o][k]
      /\ Ledger!Edit(o) <=> /\ Ledger!OnlySale(o)
                            /\ \A k \in Keys : /\ sold2[o][k] <= sold[o][k]
                                                /\ hand[k] + sold[o][k] - sold2[o][k] - hand2[k] \in 0 .. sold2[o][k]
  BY DEF Ledger!OnlySale, Ledger!Sell, Ledger!Return, Ledger!Edit
<1> HIDE DEF hand, hand2, sold, sold2
<1>3. /\ \A k \in Keys : hand[k] = HandC(k) /\ hand2[k] = HandC(k)'
                         /\ HandC(k) \in Nat /\ HandC(k)' \in Nat
      /\ \A p \in Orders, k \in Keys : sold[p][k] = SoldC(p, k) /\ sold2[p][k] = SoldC(p, k)'
                                       /\ SoldC(p, k) \in Nat /\ SoldC(p, k)' \in Nat
  BY <1>1, LedgerAre
<1>4. \A p \in Orders \ {o} : sold2[p] = sold[p]
  <2> TAKE p \in Orders \ {o}
  <2>1. sold2[p] \in [Keys -> Nat] /\ sold[p] \in [Keys -> Nat]
    BY <1>1, LedgerNow, LedgerThen
  <2>2. \A k \in Keys : sold2[p][k] = sold[p][k]
    BY <1>3 DEF OthersKept
  <2> QED BY <2>1, <2>2
<1>5. Ledger!OnlySale(o)
  BY <1>2, <1>4
<1>6. \A k \in Keys : /\ HandC(k) \in Nat /\ HandC(k)' \in Nat /\ SoldC(o, k) \in Nat /\ SoldC(o, k)' \in Nat
                      /\ hand[k] = HandC(k) /\ hand2[k] = HandC(k)'
                      /\ sold[o][k] = SoldC(o, k) /\ sold2[o][k] = SoldC(o, k)'
  BY <1>3
<1> QED BY <1>2, <1>5, <1>6

(* What a commit makes of the account.                                       *)
LEMMA CommitReads ==
  ASSUME NEW st, Commit(st)
  PROVE  \A k \in Keys : HandC(k)' = Hand(k) /\ \A o : SoldC(o, k)' = Sold(o, k)
  BY DEF Commit, HandC, Hand, SoldC, Sold

LEMMA QuietLedger ==
  ASSUME Typed, Typed', Accounts, CommitCancel \/ CommitRepair \/ CommitSave, tx.pc # "add"
  PROVE  Ledged
<1>1. tx.pc \in Quiet /\ ~Idle /\ \E st : Commit(st)
  BY DEF CommitCancel, CommitRepair, CommitSave, After, Taking, Quiet, Idle
<1>2. \A k \in Keys : HandC(k)' = Hand(k) /\ \A o : SoldC(o, k)' = Sold(o, k)
  BY <1>1, CommitReads
<1>3. \A k \in Keys : Hand(k) = HandC(k) /\ \A o \in Orders : Sold(o, k) = SoldC(o, k)
  BY <1>1 DEF Accounts, QuietAccount, OthersSold
<1> QED BY <1>2, <1>3, LedgerStill

LEMMA MergeLedger ==
  ASSUME Typed, Typed', Agreement, Accounts, CommitMerge
  PROVE  Ledged
<1>1. /\ tx.pc = "merge" /\ ~Idle /\ committed'.inv = inv /\ committed'.items = items \o tx.rows
      /\ items \in Seq(Item) /\ tx.rows \in Seq(Item)
  BY DEF CommitMerge, After, Idle, Typed, Tx
<1>2. \A o : ~HasSold(tx.rows, o)
  BY <1>1 DEF Agreement, Knows, KnowsMerge, HasSold
<1>3. ASSUME NEW o \in Orders, NEW k \in Keys PROVE SoldC(o, k)' = Sold(o, k)
  <2>1. Total(SoldIn(o, k), tx.rows) = 0
    BY <1>1, <1>2, NoneSold
  <2>2. Total(SoldIn(o, k), items \o tx.rows) = Total(SoldIn(o, k), items) + Total(SoldIn(o, k), tx.rows)
    BY <1>1, SoldInType, AddTable
  <2>3. Sold(o, k) \in Nat
    BY AccountTypes
  <2> QED BY <1>1, <2>1, <2>2, <2>3 DEF SoldC, Sold
<1>4. \A k \in Keys : HandC(k)' = Hand(k)
  BY <1>1 DEF HandC, Hand
<1>5. \A k \in Keys : Hand(k) = HandC(k) /\ \A o \in Orders : Sold(o, k) = SoldC(o, k)
  BY <1>1 DEF Accounts, QuietAccount, OthersSold, Quiet
<1> QED BY <1>3, <1>4, <1>5, LedgerStill

LEMMA OrderLedger ==
  ASSUME Typed, Typed', Arguments, Agreement, Accounts,
         CommitConfirm \/ CommitReturn \/ (CommitSave /\ tx.pc = "add")
  PROVE  Ledged
<1>1. ~Idle /\ \E st : Commit(st)
  BY DEF CommitConfirm, CommitReturn, CommitSave, After, Taking, Idle
<1>2. PICK u \in Orders : u = tx.order
  BY <1>1 DEF Arguments
<1>3. \A k \in Keys : HandC(k)' = Hand(k) /\ \A o : SoldC(o, k)' = Sold(o, k)
  BY <1>1, CommitReads
<1>4. OthersKept(u)
  BY <1>1, <1>2, <1>3 DEF Accounts, OthersSold, OthersKept
<1>5. CASE CommitConfirm
  <2>1. \A k \in Keys : Hand(k) + Sold(u, k) = HandC(k) + SoldC(u, k) /\ Sold(u, k) >= SoldC(u, k)
    BY <1>1, <1>2, <1>5 DEF Accounts, ConfirmAccount, CommitConfirm, After
  <2>2. Ledger!Sell(u)
    BY <1>3, <1>4, <2>1, LedgerOrder
  <2> QED BY <2>2 DEF Ledged, Ledger!Next
<1>6. CASE CommitReturn
  <2>1. tx.pc = "return" /\ ~InLoop
    BY <1>6 DEF CommitReturn, After
  <2>2. ~HasSold(items, u)
    BY <1>2, <2>1, LoopOver DEF Agreement, Knows, KnowsReturn, HasSold
  <2>3. \A k \in Keys : Sold(u, k) = 0
    BY <2>2, NoneSold DEF Sold, Typed
  <2>4. \A k \in Keys : Hand(k) + Sold(u, k) = HandC(k) + SoldC(u, k) /\ Hand(k) \in Nat
    BY <1>1, <1>2, <2>1, AccountTypes DEF Accounts, ReturnAccount
  <2>5. \A k \in Keys : SoldC(u, k)' = 0 /\ HandC(k)' = HandC(k) + SoldC(u, k)
    BY <1>3, <2>3, <2>4
  <2>6. Ledger!Return(u)
    BY <1>4, <2>5, LedgerOrder
  <2> QED BY <2>6 DEF Ledged, Ledger!Next
<1>7. CASE CommitSave /\ tx.pc = "add"
  <2>1. \A k \in Keys : /\ Sold(u, k) <= SoldC(u, k)
                        /\ Hand(k) + Sold(u, k) <= HandC(k) + SoldC(u, k)
                        /\ HandC(k) + SoldC(u, k) <= Hand(k) + Sold(u, k) + Sold(u, k)
    BY <1>1, <1>2, <1>7 DEF Accounts, AdjustAccount, Relinks
  <2>2. Ledger!Edit(u)
    BY <1>3, <1>4, <2>1, LedgerOrder
  <2> QED BY <2>2 DEF Ledged, Ledger!Next
<1> QED BY <1>5, <1>6, <1>7

(* The calls of services/inventory.py, which write stock only.               *)
LEMMA StoreReads ==
  ASSUME Typed, Agreement, Idle, NEW stock \in [Rows -> Nat], Store(stock)
  PROVE  /\ committed.inv = inv
         /\ \A k \in Keys : HandC(k) = HandOf(inv, k) /\ HandC(k)' = HandOf(stock, k)
         /\ \A o \in Orders, k \in Keys : SoldC(o, k)' = SoldC(o, k)
<1>1. committed.inv = inv
  BY DEF Agreement, Settled, Database
<1>2. committed'.inv = stock /\ committed'.items = committed.items
  BY DEF Store, Typed, Databases
<1> QED BY <1>1, <1>2 DEF HandC, SoldC

(* The same, in the words of the ledger.                                     *)
LEMMA StoreLedger ==
  ASSUME Typed, Typed', \A o \in Orders, k \in Keys : SoldC(o, k)' = SoldC(o, k), NEW k \in Keys
  PROVE  /\ (\A m \in Keys : m # k => HandC(m)' = HandC(m)) => Ledger!Correct(k)
         /\ \A m \in Keys :
              /\ k # m /\ <<k, m>> \in CompanyMoves /\ HandC(k)' <= HandC(k)
              /\ HandC(k)' + HandC(m)' = HandC(k) + HandC(m)
              /\ \A p \in Keys : p # k /\ p # m => HandC(p)' = HandC(p)
              => Ledger!Transfer(k, m)
<1> DEFINE hand == [p \in Keys |-> OnHand(committed, p)]
           hand2 == [p \in Keys |-> OnHand(committed', p)]
           sold == [o \in Orders |-> [p \in Keys |-> QtyBy(committed.items, o, TRUE, p)]]
           sold2 == [o \in Orders |-> [p \in Keys |-> QtyBy(committed'.items, o, TRUE, p)]]
<1>1. hand = HandNow /\ sold = SoldNow /\ hand2 = HandNow' /\ sold2 = SoldNow'
  BY LedgerNow, LedgerThen
<1>2. /\ Ledger!Correct(k) <=> hand2 = [hand EXCEPT ![k] = hand2[k]] /\ hand2[k] >= 0 /\ sold2 = sold
      /\ \A m : Ledger!Transfer(k, m) <=>
           /\ <<k, m>> \in CompanyMoves /\ hand2[k] \in 0 .. hand[k]
           /\ hand2 = [[hand EXCEPT ![k] = hand2[k]] EXCEPT ![m] = @ + (hand[k] - hand2[k])]
           /\ sold2 = sold
  BY DEF Ledger!Correct, Ledger!Transfer
<1> HIDE DEF hand, hand2, sold, sold2
<1>3. \A p \in Keys : hand[p] = HandC(p) /\ hand2[p] = HandC(p)' /\ HandC(p) \in Nat /\ HandC(p)' \in Nat
  BY <1>1, LedgerAre
<1>4. sold2 = sold
  <2>1. SoldNow' = SoldNow
    BY DEF SoldNow
  <2> QED BY <1>1, <2>1
<1>5. hand \in [Keys -> Nat] /\ hand2 \in [Keys -> Nat]
  BY <1>1, LedgerNow, LedgerThen
<1>6. ASSUME \A m \in Keys : m # k => HandC(m)' = HandC(m) PROVE Ledger!Correct(k)
  <2>1. \A m \in Keys : m # k => hand2[m] = hand[m]
    BY <1>3, <1>6
  <2>2. hand2 = [hand EXCEPT ![k] = hand2[k]] /\ hand2[k] >= 0
    BY <1>5, <2>1
  <2> QED BY <1>2, <1>4, <2>2
<1>7. ASSUME NEW m \in Keys, k # m, <<k, m>> \in CompanyMoves, HandC(k)' <= HandC(k),
             HandC(k)' + HandC(m)' = HandC(k) + HandC(m),
             \A p \in Keys : p # k /\ p # m => HandC(p)' = HandC(p)
      PROVE  Ledger!Transfer(k, m)
  <2>1. /\ hand2[k] \in Nat /\ hand[k] \in Nat /\ hand2[m] \in Nat /\ hand[m] \in Nat
        /\ hand2[k] <= hand[k] /\ hand2[k] + hand2[m] = hand[k] + hand[m]
        /\ \A p \in Keys : p # k /\ p # m => hand2[p] = hand[p]
    BY <1>3, <1>7
  <2>2. hand2[k] \in 0 .. hand[k] /\ hand2[m] = hand[m] + (hand[k] - hand2[k])
    BY <2>1
  <2>3. hand2 = [[hand EXCEPT ![k] = hand2[k]] EXCEPT ![m] = @ + (hand[k] - hand2[k])]
    BY <1>5, <1>7, <2>1, <2>2
  <2> QED BY <1>2, <1>4, <1>7, <2>2, <2>3
<1> QED BY <1>6, <1>7

LEMMA CountLedger ==
  ASSUME Typed, Typed', Agreement, Idle, NEW r \in Rows, NEW q \in Nat, Store([inv EXCEPT ![r] = q])
  PROVE  Ledged
<1> DEFINE stock == [inv EXCEPT ![r] = q]
<1>1. inv \in [Rows -> Nat] /\ stock \in [Rows -> Nat] /\ \A s \in Rows : s # r => stock[s] = inv[s]
  BY DEF Typed
<1> HIDE DEF stock
<1>2. \A k \in Keys : k # r[1] => HandOf(stock, k) = HandOf(inv, k)
  BY <1>1, HandRow
<1>3. Store(stock)
  BY DEF stock
<1>4. /\ \A k \in Keys : HandC(k) = HandOf(inv, k) /\ HandC(k)' = HandOf(stock, k)
      /\ \A o \in Orders, k \in Keys : SoldC(o, k)' = SoldC(o, k)
  BY <1>1, <1>3, StoreReads
<1>5. PICK k \in Keys : k = r[1]
  BY DEF Rows
<1>6. Ledger!Correct(k)
  BY <1>2, <1>4, <1>5, StoreLedger
<1> QED BY <1>6 DEF Ledged, Ledger!Next

LEMMA MoveLedger ==
  ASSUME Typed, Typed', Agreement, NEW r \in Rows, NEW to \in Rows, NEW q \in Nat, Move(r, to, q)
  PROVE  Ledged
<1> DEFINE stock == MoveQty(inv, r, to, q)
           less == [inv EXCEPT ![r] = @ - q]
<1>1. /\ Idle /\ r # to /\ q <= inv[r] /\ (r[1] = to[1] \/ <<r[1], to[1]>> \in CompanyMoves)
      /\ Store(stock) /\ inv \in [Rows -> Nat]
  BY DEF Move, Typed
<1>2. stock \in [Rows -> Nat] /\ \A s \in Rows : stock[s] = MovedRow(inv, r, to, q, s)
  BY <1>1, MoveRows
<1>3. less \in [Rows -> Nat] /\ \A s \in Rows : less[s] = IF s = r THEN inv[s] - q ELSE inv[s]
  BY <1>1
<1> HIDE DEF stock, less
<1>4. /\ \A k \in Keys : HandC(k) = HandOf(inv, k) /\ HandC(k)' = HandOf(stock, k)
      /\ \A o \in Orders, k \in Keys : SoldC(o, k)' = SoldC(o, k)
  BY <1>1, <1>2, StoreReads
<1>5. CASE r[1] = to[1]
  <2>1. \A k \in Keys : HandOf(stock, k) = HandOf(inv, k)
    BY <1>1, <1>5, HandMoved DEF stock
  <2> QED BY <1>4, <2>1, LedgerStill
<1>6. CASE r[1] # to[1]
  <2>1. PICK k \in Keys, m \in Keys : k = r[1] /\ m = to[1]
    BY DEF Rows
  <2>2. \A s \in Rows : s # r => less[s] = inv[s]
    BY <1>3
  <2>3. \A s \in Rows : s # to => stock[s] = less[s]
    BY <1>1, <1>2, <1>3 DEF MovedRow
  <2>4. less[r] = inv[r] - q /\ stock[to] = less[to] + q
    BY <1>1, <1>2, <1>3 DEF MovedRow
  <2>5. \A p \in Keys : /\ p = k => /\ HandOf(inv, p) - inv[r] \in Nat
                                    /\ HandOf(less, p) = HandOf(inv, p) - inv[r] + less[r]
                        /\ p # k => HandOf(less, p) = HandOf(inv, p)
    BY <1>1, <1>3, <2>1, <2>2, HandRow
  <2>6. \A p \in Keys : /\ p = m => /\ HandOf(less, p) - less[to] \in Nat
                                    /\ HandOf(stock, p) = HandOf(less, p) - less[to] + stock[to]
                        /\ p # m => HandOf(stock, p) = HandOf(less, p)
    BY <1>2, <1>3, <2>1, <2>3, HandRow
  <2>7. /\ HandOf(inv, k) \in Nat /\ HandOf(inv, m) \in Nat /\ inv[r] \in Nat /\ less[to] \in Nat
    BY <1>1, <1>3, HandNat
  <2>8. k # m /\ <<k, m>> \in CompanyMoves
    BY <1>1, <1>6, <2>1
  <2>9. /\ HandOf(stock, k) = HandOf(inv, k) - q /\ HandOf(stock, m) = HandOf(inv, m) + q
        /\ \A p \in Keys : p # k /\ p # m => HandOf(stock, p) = HandOf(inv, p)
    BY <2>4, <2>5, <2>6, <2>7, <2>8
  <2>10. /\ HandC(k) = HandOf(inv, k) /\ HandC(k)' = HandOf(stock, k)
         /\ HandC(m) = HandOf(inv, m) /\ HandC(m)' = HandOf(stock, m)
         /\ \A p \in Keys : p # k /\ p # m => HandC(p)' = HandC(p)
    BY <1>4, <2>9
  <2>11. HandC(k)' <= HandC(k) /\ HandC(k)' + HandC(m)' = HandC(k) + HandC(m)
    BY <2>7, <2>9, <2>10
  <2>12. Ledger!Transfer(k, m)
    BY <1>4, <2>8, <2>10, <2>11, StoreLedger
  <2> QED BY <2>12 DEF Ledged, Ledger!Next
<1> QED BY <1>5, <1>6

(* Changing the customer of sold rows sells nothing and takes nothing back.  *)
LEMMA SaleLedger ==
  ASSUME Typed, Typed', Agreement,
         NEW o \in Orders, NEW S \in SUBSET DOMAIN items, NEW c \in Customers, UpdateSale(o, S, c)
  PROVE  Ledged
<1>1. /\ Idle /\ S \subseteq RowsOf(items, o, TRUE)
      /\ items' = [i \in DOMAIN items |-> IF i \in S THEN [items[i] EXCEPT !.customer = c] ELSE items[i]]
      /\ committed' = [committed EXCEPT !.items = items']
  BY DEF UpdateSale
<1>2. /\ committed.items = items /\ committed'.items = items' /\ committed'.inv = committed.inv
      /\ items \in Seq(Item) /\ items' \in Seq(Item)
  BY <1>1 DEF Agreement, Settled, Database, Typed, Databases
<1>3. DOMAIN items' = DOMAIN items /\ Len(items') = Len(items)
  BY <1>1, <1>2, LenProperties
<1>4. ASSUME NEW p, NEW k, NEW i \in DOMAIN items
      PROVE  SoldIn(p, k)[items'[i]] = SoldIn(p, k)[items[i]]
  <2>1. PICK h \in Item : h = items[i]
    BY <1>2, TableFacts
  <2>2. PICK g \in Item : g = items'[i]
    BY <1>2, <1>3, TableFacts
  <2>3. CASE i \notin S
    BY <1>1, <2>3
  <2>4. CASE i \in S
    <3>1. g = [h EXCEPT !.customer = c]
      BY <1>1, <2>1, <2>2, <2>4
    <3>2. g.order = h.order /\ g.key = h.key /\ g.qty = h.qty /\ g.customer = c
      BY <3>1 DEF Item
    <3>3. c # Unsold /\ h.customer # Unsold
      BY <1>1, <2>1, <2>4, ConstantsOK DEF RowsOf
    <3> QED BY <2>1, <2>2, <3>2, <3>3, SoldInRow
  <2> QED BY <2>3, <2>4
<1>5. ASSUME NEW p, NEW k PROVE Total(SoldIn(p, k), items') = Total(SoldIn(p, k), items)
  BY <1>2, <1>3, <1>4, TotalSame
<1>6. \A p \in Orders, k \in Keys : SoldC(p, k)' = SoldC(p, k)
  BY <1>2, <1>5 DEF SoldC
<1>7. \A k \in Keys : HandC(k)' = HandC(k)
  BY <1>2 DEF HandC
<1> QED BY <1>6, <1>7, LedgerStill

LEMMA LedgerStep ==
  ASSUME Typed, Typed', Arguments, Agreement, Accounts, [Next]_vars
  PROVE  Ledged
<1>1. ASSUME UNCHANGED committed PROVE Ledged
  BY <1>1, CommittedStays, LedgerStill
<1>2. CASE UserStep
  <2>1. ASSUME NEW o \in Orders, NEW S \in SUBSET DOMAIN items, NEW c \in Customers, UpdateSale(o, S, c)
        PROVE  Ledged
    BY <2>1, SaleLedger
  <2>2. ASSUME NEW r \in Rows, NEW q \in ReceivedQty, Receive(r, q) PROVE Ledged
    <3>1. inv[r] + q \in Nat /\ Idle /\ [inv EXCEPT ![r] = @ + q] = [inv EXCEPT ![r] = inv[r] + q]
      BY <2>2, ConstantsOK DEF Typed, Receive
    <3>2. Store([inv EXCEPT ![r] = inv[r] + q])
      BY <2>2, <3>1 DEF Receive
    <3> QED BY <3>1, <3>2, CountLedger
  <2>3. ASSUME NEW r \in Rows, NEW q \in CountedQty, Count(r, q) PROVE Ledged
    <3>1. q \in Nat /\ Idle /\ Store([inv EXCEPT ![r] = q])
      BY <2>3, ConstantsOK DEF Count
    <3> QED BY <3>1, CountLedger
  <2>4. ASSUME NEW r \in Rows, NEW to \in Rows, NEW q \in 1 .. inv[r], Move(r, to, q) PROVE Ledged
    <3>1. q \in Nat
      BY DEF Typed
    <3> QED BY <2>4, <3>1, MoveLedger
  <2>5. ASSUME \/ \E o \in Orders, cart \in Carts, loc \in Staging : BeginRegister(o, cart, loc)
               \/ \E o \in Orders, cart \in Submitted, loc \in Staging : BeginEdit(o, cart, loc)
               \/ \E o \in Orders : BeginCancel(o) \/ BeginReturn(o) \/ BeginRepair(o)
               \/ \E o \in Orders, S \in SUBSET DOMAIN items, c \in Customers : BeginConfirm(o, S, c)
               \/ \E s, t \in Orders : BeginMerge(s, t)
        PROVE  Ledged
    <3>1. UNCHANGED committed
      BY <2>5 DEF BeginRegister, BeginEdit, BeginCancel, BeginReturn, BeginRepair, BeginConfirm, BeginMerge
    <3> QED BY <1>1, <3>1
  <2> QED BY <1>2, <2>1, <2>2, <2>3, <2>4, <2>5 DEF UserStep
<1>3. CASE TxStep
  <2>1. CASE \/ PassOver \/ KeepStaged \/ SkipEntry \/ LeaveReservation \/ NextLoop
             \/ UnstageFails \/ RelinkFails \/ ReduceFails \/ TakeFails \/ CancelFails \/ ConfirmFails
    <3>1. UNCHANGED committed
      BY <2>1 DEF PassOver, KeepStaged, SkipEntry, LeaveReservation, NextLoop, UnstageFails, RelinkFails,
                  ReduceFails, TakeFails, CancelFails, ConfirmFails, Rollback
    <3> QED BY <1>1, <3>1
  <2>2. CASE \/ Unstage \/ DropOrphan \/ ReduceSold \/ ReduceUnsold \/ TakeEntry
             \/ CancelRow \/ ConfirmRow \/ ReturnRow \/ MergeRow \/ Restage \/ Gather
    <3>1. UNCHANGED committed
      BY <2>2 DEF Unstage, DropOrphan, ReduceSold, ReduceUnsold, TakeEntry, CancelRow, ConfirmRow,
                  ReturnRow, MergeRow, Restage, Gather
    <3> QED BY <1>1, <3>1
  <2>3. CASE CommitSave \/ CommitCancel \/ CommitConfirm \/ CommitReturn \/ CommitMerge \/ CommitRepair
    <3>1. CASE CommitMerge
      BY <3>1, MergeLedger
    <3>2. CASE CommitConfirm \/ CommitReturn \/ (CommitSave /\ tx.pc = "add")
      BY <3>2, OrderLedger
    <3>3. CASE (CommitCancel \/ CommitRepair \/ CommitSave) /\ tx.pc # "add"
      BY <3>3, QuietLedger
    <3>4. CommitCancel \/ CommitRepair => tx.pc # "add"
      BY DEF CommitCancel, CommitRepair, After
    <3> QED BY <2>3, <3>1, <3>2, <3>3, <3>4
  <2> QED BY <1>3, <2>1, <2>2, <2>3 DEF TxStep
<1>4. CASE Crash
  BY <1>1, <1>4 DEF Crash, Rollback
<1>5. CASE UNCHANGED vars
  BY <1>1, <1>5 DEF vars
<1> QED BY <1>2, <1>3, <1>4, <1>5 DEF Next

(* At the start nothing is sold. *)
LEMMA LedgerStart == Init => Accounts /\ Ledger!Init
<1> SUFFICES ASSUME Init PROVE Accounts /\ Ledger!Init
  OBVIOUS
<1>1. Accounts
  BY DEF Init, NoTx, Idle, Accounts
<1>2. Typed /\ committed.items = << >>
  BY InitType DEF Init
<1>3. \A o, k : SoldC(o, k) = 0
  <2>1. \A o : ~HasSold(<< >>, o)
    BY DEF HasSold
  <2>2. << >> \in Seq(Item)
    BY EmptySeq
  <2>3. \A o, k : Total(SoldIn(o, k), << >>) = 0
    BY <2>1, <2>2, NoneSold
  <2> QED BY <1>2, <2>3 DEF SoldC
<1>4. SoldNow = [o \in Orders |-> [k \in Keys |-> 0]]
  BY <1>3 DEF SoldNow
<1>5. Ledger!Init
  BY <1>2, <1>4, LedgerNow DEF Ledger!Init
<1> QED BY <1>1, <1>5

(* The warehouse keeps the ledger of StockLedger, for every set of keys,     *)
(* locations, orders, carts and quantities: whatever rows an order is split  *)
(* into, wherever its stock is found, and whether its calls end, fail half   *)
(* way or are cut by a crash, a unit of a key is on hand or sold to one      *)
(* order, and passes from one side to the other by a confirmation, a return  *)
(* or an edit of that order alone.                                           *)
THEOREM WarehouseKeepsLedger == Spec => LedgerKept
<1> DEFINE Good == TypeOK /\ Agreement /\ Accounts
<1>1. Init => Good /\ Ledger!Init
  BY TypeStart, AgreementStart, LedgerStart
<1>2. Good /\ [Next]_vars => Good'
  BY TypeStep, AgreementStep, AccountsStep DEF TypeOK
<1>3. Good /\ [Next]_vars => [Ledger!Next]_(Ledger!ledger)
  <2> SUFFICES ASSUME Good, [Next]_vars PROVE Ledged
    BY DEF Ledged
  <2>1. Typed'
    BY TypeStep DEF TypeOK
  <2> QED BY <2>1, LedgerStep DEF TypeOK
<1> QED BY <1>1, <1>2, <1>3, PTL DEF Spec, LedgerKept, Ledger!Spec
-----------------------------------------------------------------------------
(* A cancellation puts stock back.                                           *)

StagedIn(o, r) ==
  [it \in Item |-> IF it.order = o /\ it.customer = Unsold /\ StagedAt(it) = r THEN it.qty ELSE 0]
TakenIn(o, r) ==
  [it \in Item |-> IF it.order = o /\ it.customer = Unsold /\ TakenFrom(it) = r THEN it.qty ELSE 0]

LEMMA PlacedIn ==
  ASSUME NEW o, NEW r
  PROVE  /\ StagedIn(o, r) \in [Item -> Nat] /\ TakenIn(o, r) \in [Item -> Nat]
         /\ \A it \in Item :
              /\ StagedIn(o, r)[it] = IF it.order = o /\ it.customer = Unsold /\ StagedAt(it) = r THEN it.qty ELSE 0
              /\ TakenIn(o, r)[it] = IF it.order = o /\ it.customer = Unsold /\ TakenFrom(it) = r THEN it.qty ELSE 0
<1>1. \A it \in Item : it.qty \in Nat
  BY DEF Item
<1> QED BY <1>1 DEF StagedIn, TakenIn

(* The sums of the property weigh the committed table.                       *)
LEMMA PlacedFor ==
  ASSUME Typed, NEW o, NEW r
  PROVE  /\ StagedFor(o, r) = Total(StagedIn(o, r), committed.items)
         /\ TakenFor(o, r) = Total(TakenIn(o, r), committed.items)
<1> PICK table \in Seq(Item) : table = committed.items
  BY DEF Typed, Databases
<1> DEFINE own == RowsOf(table, o, FALSE)
<1>1. /\ own \subseteq DOMAIN table
      /\ \A i \in DOMAIN table : i \in own <=> table[i].order = o /\ table[i].customer = Unsold
  BY DEF RowsOf
<1>2. \A i \in DOMAIN table : table[i] \in Item
  BY TableFacts
<1> HIDE DEF own
<1>3. SumQty(table, {i \in own : StagedAt(table[i]) = r}) = Total(StagedIn(o, r), table)
  <2> DEFINE S == {i \in own : StagedAt(table[i]) = r}
  <2>1. S \subseteq DOMAIN table /\ \A i \in DOMAIN table : i \in S <=> i \in own /\ StagedAt(table[i]) = r
    BY <1>1
  <2> HIDE DEF S
  <2>2. \A i \in DOMAIN table : StagedIn(o, r)[table[i]] = IF i \in S THEN table[i].qty ELSE 0
    BY <1>1, <1>2, <2>1, PlacedIn
  <2>3. SumQty(table, S) = Total(StagedIn(o, r), table)
    BY <2>1, <2>2, PlacedIn, SumIsTotal
  <2> QED BY <2>3 DEF S
<1>4. SumQty(table, {i \in own : TakenFrom(table[i]) = r}) = Total(TakenIn(o, r), table)
  <2> DEFINE S == {i \in own : TakenFrom(table[i]) = r}
  <2>1. S \subseteq DOMAIN table /\ \A i \in DOMAIN table : i \in S <=> i \in own /\ TakenFrom(table[i]) = r
    BY <1>1
  <2> HIDE DEF S
  <2>2. \A i \in DOMAIN table : TakenIn(o, r)[table[i]] = IF i \in S THEN table[i].qty ELSE 0
    BY <1>1, <1>2, <2>1, PlacedIn
  <2>3. SumQty(table, S) = Total(TakenIn(o, r), table)
    BY <2>1, <2>2, PlacedIn, SumIsTotal
  <2> QED BY <2>3 DEF S
<1> QED BY <1>3, <1>4 DEF StagedFor, TakenFor, own

(* While an order is cancelled: the rows the loop has passed are back.       *)
StagedUpto(r, n) == Weigh(StagedIn(tx.order, r), items, n)
TakenUpto(r, n) == Weigh(TakenIn(tx.order, r), items, n)
InPlace == \A r \in Rows : StagedUpto(r, Len(items)) <= committed.inv[r]
PutBack ==
  tx.pc = "cancel" =>
    /\ items = committed.items /\ tx.at - 1 \in 0 .. Len(items)
    /\ InPlace => \A r \in Rows :
                    inv[r] = committed.inv[r] - StagedUpto(r, tx.at - 1) + TakenUpto(r, tx.at - 1)

(* What the rows before the cursor have moved, and what the next one adds.   *)
LEMMA UptoNext ==
  ASSUME Typed, InLoop, NEW r
  PROVE  /\ tx.at \in 1 .. Len(items) /\ Len(items) \in Nat
         /\ StagedUpto(r, tx.at) = StagedUpto(r, tx.at - 1) + StagedIn(tx.order, r)[Here]
         /\ TakenUpto(r, tx.at) = TakenUpto(r, tx.at - 1) + TakenIn(tx.order, r)[Here]
         /\ StagedUpto(r, tx.at) <= StagedUpto(r, Len(items))
         /\ StagedUpto(r, tx.at - 1) \in Nat /\ TakenUpto(r, tx.at - 1) \in Nat
         /\ StagedUpto(r, Len(items)) \in Nat
<1> PICK s \in [Item -> Nat] : s = StagedIn(tx.order, r)
  BY PlacedIn
<1> PICK t \in [Item -> Nat] : t = TakenIn(tx.order, r)
  BY PlacedIn
<1> PICK table \in Seq(Item) : table = items
  BY DEF Typed
<1> PICK l \in Nat : l = Len(table)
  BY TableFacts
<1>0. tx.at \in 1 .. l
  BY HereType, TableFacts
<1>1. PICK n \in 0 .. l : n = tx.at - 1 /\ n # l /\ n + 1 = tx.at
  <2>1. tx.at - 1 \in 0 .. l /\ tx.at - 1 # l /\ tx.at - 1 + 1 = tx.at
    BY <1>0
  <2> QED BY ONLY <2>1
<1>2. Weighs(s, table, l) /\ Weighs(t, table, l)
  BY Weighed
<1>3. /\ \A j \in 0 .. l : Weigh(s, table, j) \in Nat /\ Weigh(t, table, j) \in Nat
      /\ \A j \in 0 .. l : j # l => Weigh(s, table, j + 1) = Weigh(s, table, j) + s[table[j + 1]]
      /\ \A j \in 0 .. l : j # l => Weigh(t, table, j + 1) = Weigh(t, table, j) + t[table[j + 1]]
  BY <1>2, WeighSteps
<1>4. \A j \in 0 .. l : Weigh(s, table, j) <= Weigh(s, table, l)
  BY <1>2, WeighGrows
<1>5. n + 1 \in 0 .. l /\ l \in 0 .. l /\ n + 1 \in 1 .. l
  BY <1>1
<1>6. /\ Weigh(s, table, n + 1) = Weigh(s, table, n) + s[table[n + 1]]
      /\ Weigh(t, table, n + 1) = Weigh(t, table, n) + t[table[n + 1]]
      /\ Weigh(s, table, n + 1) <= Weigh(s, table, l)
      /\ Weigh(s, table, n) \in Nat /\ Weigh(t, table, n) \in Nat /\ Weigh(s, table, l) \in Nat
  BY <1>1, <1>3, <1>4, <1>5
<1> QED BY <1>1, <1>5, <1>6 DEF StagedUpto, TakenUpto, Here

LEMMA CancelRowPutsBack ==
  ASSUME Typed, PutBack, CancelRow
  PROVE  PutBack'
<1>1. /\ tx.pc = "cancel" /\ InLoop /\ Here.order = tx.order /\ Here.customer = Unsold
      /\ inv' = Restored(Here, Here.qty) /\ tx' = [tx EXCEPT !.at = @ + 1]
      /\ UNCHANGED <<items, committed>>
  BY DEF CancelRow, At, Visits, Advanced
<1>2. tx'.order = tx.order /\ tx'.pc = tx.pc /\ tx'.at = tx.at + 1 /\ tx.at \in Nat \ {0}
  BY <1>1 DEF Typed, Tx
<1>3. PICK h \in Item : h = Here
  BY <1>1, HereType
<1>4. PICK from \in Rows, to \in Rows : from = StagedAt(h) /\ to = TakenFrom(h)
  BY <1>1, <1>3, HereType DEF TakenFrom
<1>5. tx.at \in 1 .. Len(items) /\ Len(items) \in Nat /\ tx'.at - 1 = tx.at
  BY <1>1, <1>2, UptoNext
<1>6. \A r, n : StagedUpto(r, n)' = Weigh(StagedIn(tx.order, r), items, n')
  BY <1>1, <1>2 DEF StagedUpto
<1>10. ASSUME NEW r PROVE /\ StagedUpto(r, Len(items))' = StagedUpto(r, Len(items))
                          /\ StagedUpto(r, tx.at - 1)' = StagedUpto(r, tx.at)
                          /\ TakenUpto(r, tx.at - 1)' = TakenUpto(r, tx.at)
  BY <1>1, <1>2, <1>5 DEF StagedUpto, TakenUpto
<1>11. ASSUME InPlace, NEW r \in Rows
       PROVE  inv'[r] = committed.inv[r] - StagedUpto(r, tx.at) + TakenUpto(r, tx.at)
  <2>1. \A q \in Rows : /\ inv[q] = committed.inv[q] - StagedUpto(q, tx.at - 1) + TakenUpto(q, tx.at - 1)
                        /\ StagedUpto(q, Len(items)) <= committed.inv[q]
                        /\ inv[q] \in Nat /\ committed.inv[q] \in Nat
    BY <1>1, <1>11 DEF PutBack, InPlace, Typed, Databases
  <2>2. \A q \in Rows :
          /\ StagedUpto(q, tx.at) = StagedUpto(q, tx.at - 1) + (IF q = from THEN h.qty ELSE 0)
          /\ TakenUpto(q, tx.at) = TakenUpto(q, tx.at - 1) + (IF q = to THEN h.qty ELSE 0)
          /\ StagedUpto(q, tx.at) <= StagedUpto(q, Len(items))
          /\ StagedUpto(q, tx.at - 1) \in Nat /\ TakenUpto(q, tx.at - 1) \in Nat
          /\ StagedUpto(q, Len(items)) \in Nat
    <3> TAKE q \in Rows
    <3>1. /\ StagedIn(tx.order, q)[h] = IF q = from THEN h.qty ELSE 0
          /\ TakenIn(tx.order, q)[h] = IF q = to THEN h.qty ELSE 0
      BY <1>1, <1>3, <1>4, PlacedIn
    <3> QED BY <1>1, <1>3, <3>1, UptoNext
  <2>3. h.qty \in Nat
    BY DEF Item
  <2>4. h.qty <= inv[from]
    <3>1. /\ inv[from] = committed.inv[from] - StagedUpto(from, tx.at - 1) + TakenUpto(from, tx.at - 1)
          /\ StagedUpto(from, Len(items)) <= committed.inv[from] /\ committed.inv[from] \in Nat
      BY <2>1
    <3>2. /\ StagedUpto(from, tx.at) = StagedUpto(from, tx.at - 1) + h.qty
          /\ StagedUpto(from, tx.at) <= StagedUpto(from, Len(items))
          /\ StagedUpto(from, tx.at - 1) \in Nat /\ TakenUpto(from, tx.at - 1) \in Nat
          /\ StagedUpto(from, Len(items)) \in Nat
      BY <2>2
    <3> QED BY <2>3, <3>1, <3>2
  <2>5. inv' = MoveQty(inv, from, to, h.qty)
    BY <1>1, <1>3, <1>4, <2>4 DEF Restored, InStaging, TakenFrom
  <2>6. inv'[r] = MovedRow(inv, from, to, h.qty, r)
    BY <2>3, <2>4, <2>5, MoveRows DEF Typed
  <2>7. inv'[r] = inv[r] + (IF r = to THEN h.qty ELSE 0) - (IF r = from THEN h.qty ELSE 0)
    <3>1. inv[r] \in Nat
      BY <2>1
    <3> QED BY ONLY <2>3, <2>6, <3>1 DEF MovedRow
  <2>8. inv[r] = committed.inv[r] - StagedUpto(r, tx.at - 1) + TakenUpto(r, tx.at - 1)
        /\ inv[r] \in Nat /\ committed.inv[r] \in Nat
    BY <2>1
  <2>9. /\ StagedUpto(r, tx.at) = StagedUpto(r, tx.at - 1) + (IF r = from THEN h.qty ELSE 0)
        /\ TakenUpto(r, tx.at) = TakenUpto(r, tx.at - 1) + (IF r = to THEN h.qty ELSE 0)
        /\ StagedUpto(r, tx.at - 1) \in Nat /\ TakenUpto(r, tx.at - 1) \in Nat
    BY <2>2
  <2> QED BY ONLY <2>3, <2>7, <2>8, <2>9
<1>12. items' = committed'.items /\ tx'.at - 1 \in 0 .. Len(items')
  BY <1>1, <1>5 DEF PutBack
<1>13. InPlace' => InPlace
  BY <1>1, <1>10 DEF InPlace
<1> QED BY <1>1, <1>10, <1>11, <1>12, <1>13 DEF PutBack

(* Rows of other orders, and sold rows, are not in the sums.                 *)
LEMMA PassOverPutsBack ==
  ASSUME Typed, PutBack, PassOver, tx.pc = "cancel"
  PROVE  PutBack'
<1>1. /\ InLoop /\ ~(Here.order = tx.order /\ Here.customer = Unsold)
      /\ tx' = [tx EXCEPT !.at = @ + 1] /\ UNCHANGED <<inv, items, committed>>
  BY DEF PassOver, Visits, Advanced
<1>2. tx'.order = tx.order /\ tx'.pc = tx.pc /\ tx'.at = tx.at + 1 /\ tx.at \in Nat \ {0}
  BY <1>1 DEF Typed, Tx
<1>3. tx.at \in 1 .. Len(items) /\ Len(items) \in Nat /\ tx'.at - 1 = tx.at
  BY <1>1, <1>2, UptoNext
<1>4. ASSUME NEW r PROVE /\ StagedUpto(r, Len(items))' = StagedUpto(r, Len(items))
                         /\ StagedUpto(r, tx.at - 1)' = StagedUpto(r, tx.at)
                         /\ TakenUpto(r, tx.at - 1)' = TakenUpto(r, tx.at)
  BY <1>1, <1>2, <1>3 DEF StagedUpto, TakenUpto
<1>5. ASSUME NEW r PROVE /\ StagedUpto(r, tx.at) = StagedUpto(r, tx.at - 1)
                         /\ TakenUpto(r, tx.at) = TakenUpto(r, tx.at - 1)
  <2>1. StagedIn(tx.order, r)[Here] = 0 /\ TakenIn(tx.order, r)[Here] = 0
    BY <1>1, HereType, PlacedIn
  <2> QED BY <1>1, <2>1, UptoNext
<1>6. items' = committed'.items /\ tx'.at - 1 \in 0 .. Len(items')
  BY <1>1, <1>3 DEF PutBack
<1>7. InPlace' => InPlace
  BY <1>1, <1>4 DEF InPlace
<1> QED BY <1>1, <1>4, <1>5, <1>6, <1>7 DEF PutBack

LEMMA BeginCancelPutsBack ==
  ASSUME Typed, Agreement, NEW o \in Orders, BeginCancel(o)
  PROVE  PutBack'
<1>1. /\ Idle /\ UNCHANGED <<inv, items, committed>> /\ tx'.at = 1 /\ tx'.order = o
  BY DEF BeginCancel, NoTx
<1>2. committed.inv = inv /\ committed.items = items
  BY <1>1 DEF Agreement, Settled, Database
<1>3. ASSUME NEW r \in Rows PROVE Weigh(StagedIn(o, r), items, 0) = 0 /\ Weigh(TakenIn(o, r), items, 0) = 0
  <2>1. Weighs(StagedIn(o, r), items, Len(items)) /\ Weighs(TakenIn(o, r), items, Len(items))
    BY PlacedIn, Weighed DEF Typed
  <2> QED BY <2>1, WeighSteps
<1>4. \A r \in Rows : StagedUpto(r, tx.at - 1)' = 0 /\ TakenUpto(r, tx.at - 1)' = 0
  BY <1>1, <1>3 DEF StagedUpto, TakenUpto
<1>5. \A r \in Rows : inv[r] \in Nat
  BY DEF Typed
<1>6. tx'.at - 1 \in 0 .. Len(items')
  BY <1>1, TableFacts DEF Typed
<1> QED BY <1>1, <1>2, <1>4, <1>5, <1>6 DEF PutBack

LEMMA PutBackStep ==
  ASSUME Typed, Agreement, PutBack, [Next]_vars
  PROVE  PutBack'
<1>0. ASSUME tx'.pc # "cancel" PROVE PutBack'
  BY <1>0 DEF PutBack
<1>1. CASE UserStep
  <2>1. ASSUME NEW o \in Orders, BeginCancel(o) PROVE PutBack'
    BY <2>1, BeginCancelPutsBack
  <2>2. ASSUME \/ \E o \in Orders, cart \in Carts, loc \in Staging : BeginRegister(o, cart, loc)
               \/ \E o \in Orders, cart \in Submitted, loc \in Staging : BeginEdit(o, cart, loc)
               \/ \E o \in Orders : BeginReturn(o) \/ BeginRepair(o)
               \/ \E o \in Orders, S \in SUBSET DOMAIN items, c \in Customers : BeginConfirm(o, S, c)
               \/ \E s, t \in Orders : BeginMerge(s, t)
        PROVE  PutBack'
    <3>1. tx'.pc # "cancel"
      BY <2>2 DEF BeginRegister, BeginEdit, BeginReturn, BeginRepair, BeginConfirm, BeginMerge, Saving, NoTx
    <3> QED BY <1>0, <3>1
  <2>3. ASSUME \/ \E o \in Orders, S \in SUBSET DOMAIN items, c \in Customers : UpdateSale(o, S, c)
               \/ \E r \in Rows, q \in ReceivedQty : Receive(r, q)
               \/ \E r \in Rows, q \in CountedQty : Count(r, q)
               \/ \E r, to \in Rows : \E q \in 1 .. inv[r] : Move(r, to, q)
        PROVE  PutBack'
    <3>1. tx'.pc # "cancel"
      BY <2>3 DEF UpdateSale, Receive, Count, Move, Store, Idle
    <3> QED BY <1>0, <3>1
  <2> QED BY <1>1, <2>1, <2>2, <2>3 DEF UserStep
<1>2. CASE TxStep
  <2>1. CASE CancelRow \/ (PassOver /\ tx.pc = "cancel")
    BY <2>1, CancelRowPutsBack, PassOverPutsBack
  <2>2. CASE \/ PassOver \/ KeepStaged \/ Unstage \/ DropOrphan \/ ReduceSold \/ ReduceUnsold
             \/ TakeEntry \/ SkipEntry \/ ConfirmRow \/ ReturnRow \/ MergeRow
             \/ LeaveReservation \/ Restage \/ Gather
    <3>1. tx'.pc = tx.pc
      BY <2>2 DEF PassOver, KeepStaged, Unstage, DropOrphan, ReduceSold, ReduceUnsold, TakeEntry, SkipEntry,
                  ConfirmRow, ReturnRow, MergeRow, LeaveReservation, Restage, Gather, LeaveQty, Advanced,
                  Typed, Tx
    <3>2. CASE tx.pc # "cancel"
      BY <1>0, <3>1, <3>2
    <3>3. CASE tx.pc = "cancel"
      <4>1. PassOver
        BY <2>2, <3>3 DEF KeepStaged, Unstage, DropOrphan, ReduceSold, ReduceUnsold, TakeEntry, SkipEntry,
                  ConfirmRow, ReturnRow, MergeRow, LeaveReservation, Restage, Gather, At, Taking
      <4> QED BY <3>3, <4>1, PassOverPutsBack
    <3> QED BY <3>2, <3>3
  <2>3. CASE \/ UnstageFails \/ RelinkFails \/ ReduceFails \/ TakeFails \/ CancelFails \/ ConfirmFails
             \/ CommitSave \/ CommitCancel \/ CommitConfirm \/ CommitReturn \/ CommitMerge \/ CommitRepair
    <3>1. tx' = NoTx
      BY <2>3 DEF UnstageFails, RelinkFails, ReduceFails, TakeFails, CancelFails, ConfirmFails, Rollback,
                  CommitSave, CommitCancel, CommitConfirm, CommitReturn, CommitMerge, CommitRepair, Commit
    <3> QED BY <1>0, <3>1 DEF NoTx
  <2>4. CASE NextLoop
    <3>1. tx'.pc # "cancel"
      BY <2>4 DEF NextLoop, Typed, Tx
    <3> QED BY <1>0, <3>1
  <2> QED BY <1>2, <2>1, <2>2, <2>3, <2>4 DEF TxStep
<1>3. CASE Crash
  BY <1>0, <1>3 DEF Crash, Rollback, NoTx
<1>4. CASE UNCHANGED vars
  <2>1. UNCHANGED <<inv, items, tx, committed>>
    BY <1>4 DEF vars
  <2> QED BY <2>1 DEF PutBack, InPlace, StagedUpto, TakenUpto
<1> QED BY <1>1, <1>2, <1>3, <1>4 DEF Next

(* A cancelled order's stock is back where it was taken from, and every      *)
(* other row of the stock is as it was, for every set of keys, locations,    *)
(* orders and carts: also when rows share a place, or go back to the place   *)
(* they are in.                                                              *)
THEOREM CancellationReturnsStock == Spec => CancelReturnsStock
<1> DEFINE Good == TypeOK /\ Agreement /\ PutBack
           Back == CommitCancel /\ (\A r \in Rows : StagedFor(tx.order, r) <= committed.inv[r]) =>
                     \A r \in Rows : inv[r] = committed.inv[r] - StagedFor(tx.order, r) + TakenFor(tx.order, r)
<1>1. Init => Good
  <2>1. Init => PutBack
    BY DEF Init, NoTx, PutBack
  <2> QED BY <2>1, TypeStart, AgreementStart
<1>2. Good /\ [Next]_vars => Good'
  BY TypeStep, AgreementStep, PutBackStep DEF TypeOK
<1>3. Good => Back
  <2> SUFFICES ASSUME Good, CommitCancel, \A r \in Rows : StagedFor(tx.order, r) <= committed.inv[r],
                      NEW r \in Rows
               PROVE  inv[r] = committed.inv[r] - StagedFor(tx.order, r) + TakenFor(tx.order, r)
    OBVIOUS
  <2>1. tx.pc = "cancel" /\ ~InLoop
    BY DEF CommitCancel, After
  <2>2. Typed /\ items = committed.items /\ tx.at - 1 \in 0 .. Len(items)
    BY <2>1 DEF TypeOK, PutBack
  <2>3. tx.at - 1 = Len(items)
    <3>1. tx.at \in Nat \ {0} /\ tx.at \notin 1 .. Len(items) /\ Len(items) \in Nat
      BY <2>1, <2>2, TableFacts DEF Typed, Tx, InLoop
    <3> QED BY <2>2, <3>1
  <2>4. \A q : StagedFor(tx.order, q) = StagedUpto(q, Len(items)) /\ TakenFor(tx.order, q) = TakenUpto(q, Len(items))
    BY <2>2, PlacedFor DEF Total, StagedUpto, TakenUpto
  <2>5. InPlace
    BY <2>4 DEF InPlace
  <2> QED BY <2>1, <2>3, <2>4, <2>5 DEF PutBack
<1>4. Good /\ [Next]_vars => [Back]_vars
  BY <1>3
<1> QED BY <1>1, <1>2, <1>4, PTL DEF Spec, CancelReturnsStock

-----------------------------------------------------------------------------
(* What is sold of a stock row comes back only as SoldKept says.             *)

SaleIn(o, r) == [it \in Item |-> IF it.order = o /\ it.customer # Unsold /\ RowOf(it) = r THEN it.qty ELSE 0]
SaleAt(o, r) == Total(SaleIn(o, r), items)
SaleAtC(o, r) == Total(SaleIn(o, r), committed.items)

LEMMA SaleInType ==
  ASSUME NEW o, NEW r
  PROVE  /\ SaleIn(o, r) \in SaleWeights
         /\ \A it \in Item : SaleIn(o, r)[it] = IF it.order = o /\ it.customer # Unsold /\ RowOf(it) = r
                                                THEN it.qty ELSE 0
<1>1. \A it \in Item : it.qty \in Nat
  BY DEF Item
<1> QED BY <1>1 DEF SaleIn, SaleWeights

LEMMA SaleTypes ==
  ASSUME Typed
  PROVE  \A o, r : SaleAt(o, r) \in Nat /\ SaleAtC(o, r) \in Nat
<1>1. items \in Seq(Item) /\ committed.items \in Seq(Item)
  BY DEF Typed, Databases
<1>2. \A o, r : SaleIn(o, r) \in [Item -> Nat]
  BY SaleInType DEF SaleWeights
<1> QED BY <1>1, <1>2, Weighed DEF SaleAt, SaleAtC

(* SoldFrom, as a weight of the table.                                       *)
LEMMA SoldFromIs ==
  ASSUME NEW db \in Databases, NEW o, NEW r
  PROVE  SoldFrom(db, o, r) = Total(SaleIn(o, r), db.items)
<1> DEFINE table == db.items
           S == {i \in RowsOf(table, o, TRUE) : RowOf(table[i]) = r}
<1>1. table \in Seq(Item)
  BY DEF Databases
<1>2. /\ S \subseteq DOMAIN table
      /\ \A i \in DOMAIN table : i \in S <=> table[i].order = o /\ table[i].customer # Unsold /\ RowOf(table[i]) = r
  BY DEF RowsOf
<1>3. SoldFrom(db, o, r) = SumQty(table, S)
  BY DEF SoldFrom
<1> HIDE DEF S, table
<1>4. \A i \in DOMAIN table : SaleIn(o, r)[table[i]] = IF i \in S THEN table[i].qty ELSE 0
  BY <1>1, <1>2, TableFacts, SaleInType
<1>5. SumQty(table, S) = Total(SaleIn(o, r), table)
  BY <1>1, <1>2, <1>4, SaleInType, SumIsTotal DEF SaleWeights
<1> QED BY <1>3, <1>5 DEF table

(* While a call runs: other orders' sales are as committed, its own order's  *)
(* are no fewer, but in a return; an edit holds, in the rows its loop has    *)
(* passed, what it no longer wants, and cuts only what is wanted no more.    *)
SaleUpto(r) == Weigh(SaleIn(tx.order, r), items, tx.at - 1)
OthersKeep == \A o \in Orders, r \in Rows : o # tx.order => SaleAt(o, r) = SaleAtC(o, r)
OwnKeeps ==
  tx.pc \in Quiet \cup {"confirm"} => \A r \in Rows : SaleAt(tx.order, r) >= SaleAtC(tx.order, r)
CutKeeps ==
  tx.pc = "sold" =>
    /\ tx.at - 1 \in 0 .. Len(items)
    /\ \A r \in Rows : /\ SaleUpto(r) + tx.want[r] = Wanted(tx.cart)[r]
                       /\ tx.want[r] > 0 => SaleAt(tx.order, r) >= SaleAtC(tx.order, r)
AddKeeps ==
  tx.pc \in {"unsold", "add"} =>
    \A r \in Rows : SaleAt(tx.order, r) >= Lesser(SaleAtC(tx.order, r), Wanted(tx.cart)[r])
Keeps == ~Idle => OthersKeep /\ OwnKeeps /\ CutKeeps /\ AddKeeps

(* Steps that leave the sold rows alone.                                     *)
LEMMA SalesStand ==
  ASSUME SalesStill, UNCHANGED committed
  PROVE  \A o, r : SaleAt(o, r)' = SaleAt(o, r) /\ SaleAtC(o, r)' = SaleAtC(o, r)
<1>1. \A o, r : SaleIn(o, r) \in SaleWeights
  BY SaleInType
<1> QED BY <1>1 DEF SalesStill, SaleAt, SaleAtC

LEMMA StillKeeps ==
  ASSUME Typed, Arguments, Keeps, ~Idle, SalesStill, UNCHANGED committed,
         tx'.order = tx.order, tx'.cart = tx.cart, tx.pc # "sold", tx'.pc # "sold",
         \/ tx'.pc = tx.pc
         \/ tx.pc \in Quiet /\ tx'.pc \in Quiet
         \/ tx.pc = "unsold" /\ tx'.pc = "add"
  PROVE  Keeps'
<1>1. tx.order \in Orders
  BY DEF Arguments
<1>2. \A o, r : SaleAt(o, r)' = SaleAt(o, r) /\ SaleAtC(o, r)' = SaleAtC(o, r)
  BY SalesStand
<1>3. OthersKeep'
  BY <1>2 DEF Keeps, OthersKeep
<1>4. OwnKeeps'
  <2> SUFFICES ASSUME tx'.pc \in Quiet \cup {"confirm"}, NEW r \in Rows
               PROVE  SaleAt(tx.order, r)' >= SaleAtC(tx.order, r)'
    BY DEF OwnKeeps
  <2>1. tx.pc \in Quiet \cup {"confirm"}
    BY DEF Quiet
  <2>2. SaleAt(tx.order, r) >= SaleAtC(tx.order, r)
    BY <2>1 DEF Keeps, OwnKeeps
  <2>3. SaleAt(tx.order, r)' = SaleAt(tx.order, r) /\ SaleAtC(tx.order, r)' = SaleAtC(tx.order, r)
    BY <1>2
  <2> QED BY <2>2, <2>3
<1>5. AddKeeps'
  <2> SUFFICES ASSUME tx'.pc \in {"unsold", "add"}, NEW r \in Rows
               PROVE  SaleAt(tx.order, r)' >= Lesser(SaleAtC(tx.order, r)', Wanted(tx'.cart)[r])
    BY DEF AddKeeps, Lesser
  <2>1. tx.pc \in {"unsold", "add"}
    BY DEF Quiet
  <2>2. SaleAt(tx.order, r) >= Lesser(SaleAtC(tx.order, r), Wanted(tx.cart)[r])
    BY <2>1 DEF Keeps, AddKeeps
  <2>3. SaleAt(tx.order, r)' = SaleAt(tx.order, r) /\ SaleAtC(tx.order, r)' = SaleAtC(tx.order, r)
    BY <1>2
  <2> QED BY <2>2, <2>3
<1> QED BY <1>3, <1>4, <1>5 DEF Keeps, CutKeeps

(* A call begins with the tables as they were committed.                     *)
LEMMA BeginKeeps ==
  ASSUME Typed, Agreement, Idle, UNCHANGED <<items, committed>>, tx'.at = 1,
         tx'.pc \in {"unsold", "add"} => FALSE,
         tx'.pc = "sold" => tx'.want = Wanted(tx'.cart) /\ tx'.cart \in Submitted
  PROVE  Keeps'
<1>1. committed.items = items /\ items \in Seq(Item)
  BY DEF Agreement, Settled, Database, Typed
<1>2. \A o, r : SaleAt(o, r)' = SaleAtC(o, r)' /\ SaleAt(o, r)' = SaleAt(o, r) /\ SaleAt(o, r) \in Nat
  BY <1>1, SaleTypes DEF SaleAt, SaleAtC
<1>3. OthersKeep' /\ OwnKeeps'
  BY <1>2 DEF OthersKeep, OwnKeeps
<1>4. CutKeeps'
  <2> SUFFICES ASSUME tx'.pc = "sold" PROVE CutKeeps'
    BY DEF CutKeeps
  <2>1. tx'.at - 1 \in 0 .. Len(items')
    BY <1>1, TableFacts
  <2>2. ASSUME NEW r \in Rows
        PROVE  SaleUpto(r)' + tx'.want[r] = Wanted(tx'.cart)[r] /\ SaleAt(tx.order, r)' >= SaleAtC(tx.order, r)'
    <3> DEFINE w == SaleIn(tx'.order, r)
    <3>1. w \in [Item -> Nat] /\ items \in Seq(Item)
      BY <1>1, SaleInType DEF SaleWeights
    <3> HIDE DEF w
    <3>2. Weighs(w, items, Len(items))
      BY <3>1, Weighed
    <3>3. Weigh(w, items, 0) = 0
      BY ONLY <3>2, WeighSteps
    <3>4. SaleUpto(r)' = Weigh(w, items, 0)
      BY DEF SaleUpto, w
    <3>5. tx'.want[r] = Wanted(tx'.cart)[r] /\ tx'.want[r] \in Nat
      BY WantedType
    <3>6. SaleAt(tx.order, r)' = SaleAtC(tx.order, r)' /\ SaleAt(tx.order, r)' \in Nat
      BY <1>2
    <3> QED BY <3>3, <3>4, <3>5, <3>6
  <2> QED BY <2>1, <2>2 DEF CutKeeps
<1> QED BY <1>3, <1>4 DEF Keeps, AddKeeps

LEMMA BeginsKeep ==
  ASSUME Typed, Agreement
  PROVE  /\ \A o \in Orders, cart \in Submitted, loc \in Staging :
              BeginRegister(o, cart, loc) \/ BeginEdit(o, cart, loc) => Keeps'
         /\ \A o \in Orders : BeginCancel(o) \/ BeginReturn(o) \/ BeginRepair(o) => Keeps'
         /\ \A o \in Orders, S \in SUBSET DOMAIN items, c \in Customers : BeginConfirm(o, S, c) => Keeps'
         /\ \A s, t \in Orders : BeginMerge(s, t) => Keeps'
<1>1. ASSUME NEW o \in Orders, NEW cart \in Submitted, NEW loc \in Staging,
             BeginRegister(o, cart, loc) \/ BeginEdit(o, cart, loc)
      PROVE  Keeps'
  <2>1. /\ Idle /\ UNCHANGED <<items, committed>>
        /\ \E pc \in {"register", "unstage", "sold"} : tx' = Saving(pc, o, cart, loc)
    BY <1>1 DEF BeginRegister, BeginEdit
  <2>2. tx'.at = 1 /\ tx'.pc \in {"register", "unstage", "sold"} /\ tx'.want = Wanted(cart) /\ tx'.cart = cart
    BY <2>1 DEF Saving, NoTx
  <2> QED BY <2>1, <2>2, BeginKeeps
<1>2. ASSUME NEW o \in Orders, BeginCancel(o) \/ BeginReturn(o) \/ BeginRepair(o) PROVE Keeps'
  <2>1. Idle /\ UNCHANGED <<items, committed>> /\ tx'.at = 1 /\ tx'.pc \in {"cancel", "return", "repair"}
    BY <1>2 DEF BeginCancel, BeginReturn, BeginRepair, NoTx
  <2> QED BY <2>1, BeginKeeps
<1>3. ASSUME NEW o \in Orders, NEW S \in SUBSET DOMAIN items, NEW c \in Customers, BeginConfirm(o, S, c)
      PROVE  Keeps'
  <2>1. Idle /\ UNCHANGED <<items, committed>> /\ tx'.at = 1 /\ tx'.pc = "confirm"
    BY <1>3 DEF BeginConfirm, NoTx
  <2> QED BY <2>1, BeginKeeps
<1>4. ASSUME NEW s \in Orders, NEW t \in Orders, BeginMerge(s, t) PROVE Keeps'
  <2>1. Idle /\ UNCHANGED <<items, committed>> /\ tx'.at = 1 /\ tx'.pc = "merge"
    BY <1>4 DEF BeginMerge, NoTx
  <2> QED BY <2>1, BeginKeeps
<1> QED BY <1>1, <1>2, <1>3, <1>4

(* The loop of an edit passes a row that is no sale of its order, and ends.  *)
LEMMA PassOverKeeps ==
  ASSUME Typed, Arguments, Keeps, PassOver, tx.pc = "sold"
  PROVE  Keeps'
<1>1. /\ tx' = [tx EXCEPT !.at = @ + 1] /\ UNCHANGED <<inv, items, committed>> /\ ~Idle
      /\ tx.at \in DOMAIN items /\ ~(Here.order = tx.order /\ Here.customer # Unsold)
  BY DEF PassOver, Advanced, InLoop, Visits, Idle
<1>2. /\ tx'.pc = "sold" /\ tx'.order = tx.order /\ tx'.at = tx.at + 1 /\ tx.at \in Nat \ {0}
      /\ tx'.want = tx.want /\ tx'.cart = tx.cart
  BY <1>1 DEF Typed, Tx
<1>3. \A o, r : SaleAt(o, r)' = SaleAt(o, r) /\ SaleAtC(o, r)' = SaleAtC(o, r)
  BY <1>1 DEF SaleAt, SaleAtC
<1>4. Len(items) \in Nat /\ tx.at \in 1 .. Len(items) /\ Here \in Item /\ items \in Seq(Item)
  BY <1>1, TableFacts DEF Typed, Here
<1>5. ASSUME NEW r \in Rows PROVE SaleUpto(r)' = SaleUpto(r)
  <2> DEFINE w == SaleIn(tx.order, r)
             n == tx.at - 1
  <2>1. w[Here] = 0 /\ w \in [Item -> Nat]
    BY <1>1, <1>4, SaleInType DEF SaleWeights
  <2>2. SaleUpto(r)' = Weigh(w, items, tx.at) /\ SaleUpto(r) = Weigh(w, items, n)
    BY <1>1, <1>2 DEF SaleUpto
  <2> HIDE DEF w
  <2>3. n \in 0 .. Len(items) /\ n # Len(items) /\ tx.at = n + 1
    BY ONLY <1>4
  <2>4. Weighs(w, items, Len(items)) /\ \A m \in 0 .. Len(items) : Weigh(w, items, m) \in Nat
    BY <1>4, <2>1, Weighed
  <2>5. \A j \in 0 .. Len(items) : j # Len(items) => Weigh(w, items, j + 1) = Weigh(w, items, j) + w[items[j + 1]]
    BY ONLY <2>4, WeighSteps
  <2>6. Weigh(w, items, tx.at) = Weigh(w, items, n) + w[Here]
    BY <2>3, <2>5 DEF Here
  <2>7. Weigh(w, items, n) \in Nat
    BY <2>3, <2>4
  <2> QED BY <2>1, <2>2, <2>6, <2>7
<1>6. CutKeeps'
  <2>1. tx'.at - 1 \in 0 .. Len(items')
    BY <1>1, <1>2, <1>4
  <2>2. ASSUME NEW r \in Rows
        PROVE  /\ SaleUpto(r)' + tx'.want[r] = Wanted(tx'.cart)[r]
               /\ tx'.want[r] > 0 => SaleAt(tx.order, r)' >= SaleAtC(tx.order, r)'
    <3>1. /\ SaleUpto(r) + tx.want[r] = Wanted(tx.cart)[r]
          /\ tx.want[r] > 0 => SaleAt(tx.order, r) >= SaleAtC(tx.order, r)
      BY <1>1 DEF Keeps, CutKeeps
    <3>2. SaleAt(tx.order, r)' = SaleAt(tx.order, r) /\ SaleAtC(tx.order, r)' = SaleAtC(tx.order, r)
      BY <1>2, <1>3
    <3> QED BY <1>2, <1>5, <3>1, <3>2
  <2> QED BY <2>1, <2>2 DEF CutKeeps
<1>7. OthersKeep'
  BY <1>1, <1>2, <1>3 DEF Keeps, OthersKeep
<1> QED BY <1>2, <1>6, <1>7 DEF Keeps, OwnKeeps, AddKeeps, Quiet

LEMMA NextLoopKeeps ==
  ASSUME Typed, Arguments, Keeps, NextLoop
  PROVE  Keeps'
<1>1. UNCHANGED <<inv, items, committed>> /\ ~Idle /\ SalesStill
  BY SameStill DEF NextLoop, After, Idle
<1>2. CASE tx.pc # "sold"
  <2>1. \/ tx.pc = "unstage" /\ tx' = [tx EXCEPT !.pc = "restage", !.at = 1]
        \/ tx.pc = "unsold" /\ tx' = [tx EXCEPT !.pc = "add", !.at = 1]
    BY <1>2 DEF NextLoop, After
  <2>2. /\ tx'.order = tx.order /\ tx'.cart = tx.cart
        /\ \/ tx.pc = "unstage" /\ tx'.pc = "restage"
           \/ tx.pc = "unsold" /\ tx'.pc = "add"
    BY <2>1 DEF Typed, Tx
  <2> QED BY <1>1, <1>2, <2>2, StillKeeps DEF Quiet
<1>3. CASE tx.pc = "sold"
  <2>1. tx' = [tx EXCEPT !.pc = "unsold", !.at = 1] /\ ~InLoop
    BY <1>3 DEF NextLoop, After
  <2>2. tx'.order = tx.order /\ tx'.pc = "unsold" /\ tx'.cart = tx.cart
    BY <2>1 DEF Typed, Tx
  <2>3. \A o, r : SaleAt(o, r)' = SaleAt(o, r) /\ SaleAtC(o, r)' = SaleAtC(o, r)
    BY <1>1 DEF SaleAt, SaleAtC
  <2>4. tx.at - 1 = Len(items)
    <3>1. tx.at - 1 \in 0 .. Len(items)
      BY <1>1, <1>3 DEF Keeps, CutKeeps
    <3>2. tx.at \in Nat \ {0} /\ tx.at \notin 1 .. Len(items) /\ Len(items) \in Nat
      BY <2>1, TableFacts DEF Typed, Tx, InLoop
    <3> QED BY <3>1, <3>2
  <2>5. AddKeeps'
    <3> SUFFICES ASSUME NEW r \in Rows
                 PROVE  SaleAt(tx.order, r)' >= Lesser(SaleAtC(tx.order, r)', Wanted(tx'.cart)[r])
      BY DEF AddKeeps, Lesser
    <3>1. /\ SaleAt(tx.order, r) + tx.want[r] = Wanted(tx.cart)[r]
          /\ tx.want[r] > 0 => SaleAt(tx.order, r) >= SaleAtC(tx.order, r)
      BY <1>1, <1>3, <2>4 DEF Keeps, CutKeeps, SaleUpto, SaleAt, Total
    <3>2. SaleAt(tx.order, r)' = SaleAt(tx.order, r) /\ SaleAtC(tx.order, r)' = SaleAtC(tx.order, r)
      BY <2>2, <2>3
    <3>3. SaleAt(tx.order, r) \in Nat /\ SaleAtC(tx.order, r) \in Nat /\ tx.want[r] \in Nat
      BY SaleTypes DEF Typed, Tx
    <3>4. SaleAt(tx.order, r) >= Lesser(SaleAtC(tx.order, r), Wanted(tx.cart)[r])
      BY <3>1, <3>3 DEF Lesser
    <3> QED BY <2>2, <3>2, <3>4
  <2>6. OthersKeep'
    BY <1>1, <2>2, <2>3 DEF Keeps, OthersKeep
  <2> QED BY <2>2, <2>5, <2>6 DEF Keeps, OwnKeeps, CutKeeps, Quiet
<1> QED BY <1>2, <1>3

(* The edit cuts a sale: from a stock row it wants less of, or that it wants *)
(* nothing of any more.                                                      *)
LEMMA LeavesWant ==
  ASSUME Typed, NEW r \in Rows, NEW q, NEW l, LeaveQty(q, r, l)
  PROVE  /\ tx'.cart = tx.cart /\ tx'.want[r] = tx.want[r] - q
         /\ \A b \in Rows : b # r => tx'.want[b] = tx.want[b]
  BY DEF LeaveQty, Typed, Tx

LEMMA SaleCutRow ==
  ASSUME Typed, InLoop, NEW h \in Item, h = Here, h.order = tx.order, h.customer # Unsold,
         NEW r \in Rows, NEW kept \in Nat, SaleCut(r, kept), NEW b \in Rows
  PROVE  /\ \A o \in Orders :
              /\ SaleAt(o, b)' \in Nat
              /\ o # h.order => SaleAt(o, b)' = SaleAt(o, b)
              /\ o = h.order => SaleAt(o, b)' = SaleAt(o, b) - (IF b = RowOf(h) THEN h.qty ELSE 0)
                                                            + (IF b = r THEN kept ELSE 0)
         /\ SaleUpto(b) \in Nat /\ SaleUpto(b)' = SaleUpto(b) + (IF b = r THEN kept ELSE 0)
         /\ tx'.at - 1 \in 0 .. Len(items')
<1>1. h.qty \in Nat /\ h.order \in Orders /\ r[1] = h.key
  BY DEF SaleCut, Item
<1>2. kept > 0 => LeftRow(h, kept, r) \in Item
  <2>1. LeaveQty(kept, r, Here.source_location) /\ Here.source_location \in Locs
    BY DEF SaleCut, Item
  <2> PICK l \in Locs : l = Here.source_location
    BY <2>1
  <2>2. LeaveQty(kept, r, l)
    BY <2>1
  <2> QED BY <1>1, <2>2, Leaves
<1>3. RowOf(LeftRow(h, kept, r)) = r
  <2>1. LeftRow(h, kept, r).key = h.key /\ LeftRow(h, kept, r).source = r[2]
    BY LeftFields
  <2>2. r = <<r[1], r[2]>>
    BY DEF Rows
  <2> QED BY <1>1, <2>1, <2>2 DEF RowOf
<1>4. ASSUME NEW o \in Orders
      PROVE  /\ SaleAt(o, b)' \in Nat
             /\ o # h.order => SaleAt(o, b)' = SaleAt(o, b)
             /\ o = h.order => /\ SaleAt(o, b)' = SaleAt(o, b) - (IF b = RowOf(h) THEN h.qty ELSE 0)
                                                              + (IF b = r THEN kept ELSE 0)
                               /\ SaleUpto(b) \in Nat
                               /\ SaleUpto(b)' = SaleUpto(b) + (IF b = r THEN kept ELSE 0)
             /\ tx'.at - 1 \in 0 .. Len(items')
  <2>1. PICK w \in [Item -> Nat] : w = SaleIn(o, b)
    BY SaleInType DEF SaleWeights
  <2>2. PICK x \in Nat : x = IF o = h.order /\ b = r THEN kept ELSE 0
    OBVIOUS
  <2>3. w[h] = IF o = h.order /\ b = RowOf(h) THEN h.qty ELSE 0
    BY <2>1, SaleInType
  <2>4. kept > 0 => w[LeftRow(h, kept, r)] = x
    <3>1. LeftRow(h, kept, r).order = h.order /\ LeftRow(h, kept, r).customer = h.customer
          /\ LeftRow(h, kept, r).qty = kept
      BY LeftFields
    <3> QED BY <1>2, <1>3, <2>1, <2>2, <3>1, SaleInType
  <2>5. kept = 0 => x = 0
    BY <2>2
  <2>6. /\ tx'.pc = tx.pc /\ tx'.order = tx.order
        /\ tx.at - 1 \in 0 .. Len(items) /\ tx'.at - 1 \in 0 .. Len(items')
        /\ Total(w, items) - w[h] \in Nat /\ Total(w, items') = Total(w, items) - w[h] + x
        /\ Weigh(w, items, tx.at - 1) \in Nat
        /\ Weigh(w, items', tx'.at - 1) = Weigh(w, items, tx.at - 1) + x
    BY <2>4, <2>5, SaleWeighs
  <2>7. SaleAt(o, b) = Total(w, items) /\ SaleAt(o, b)' = Total(w, items') /\ SaleAt(o, b) \in Nat
    BY <2>1, SaleTypes DEF SaleAt
  <2>8. o = h.order => SaleUpto(b) = Weigh(w, items, tx.at - 1) /\ SaleUpto(b)' = Weigh(w, items', tx'.at - 1)
    BY <2>1, <2>6 DEF SaleUpto
  <2> QED BY <1>1, <2>2, <2>3, <2>6, <2>7, <2>8
<1> QED BY <1>1, <1>4

LEMMA ReduceSoldKeeps ==
  ASSUME Typed, Arguments, Keeps, ReduceSold
  PROVE  Keeps'
<1>1. /\ tx.pc = "sold" /\ InLoop /\ Here.order = tx.order /\ Here.customer # Unsold
      /\ UNCHANGED committed /\ ~Idle
  BY SaleCuts DEF Idle
<1>2. PICK r \in Rows, kept \in Nat : SaleCut(r, kept)
  BY SaleCuts
<1>3. PICK h \in Item : h = Here
  BY <1>1, HereType
<1>4. PICK u \in Orders : u = tx.order
  BY <1>1 DEF Arguments
<1>5. PICK own \in Rows : own = RowOf(h)
  BY <1>1, <1>3, HereType
<1>6. h.qty \in Nat /\ h.order = u /\ h.customer # Unsold
  BY <1>1, <1>3, <1>4 DEF Item
<1>7. /\ tx.want \in [Rows -> Nat] /\ kept = Lesser(h.qty, tx.want[r])
      /\ r # own => tx.want[own] = 0
  <2>1. tx.want \in [Rows -> Nat] /\ kept = KeptQty(h, r) /\ r = MatchedRow(h)
    BY <1>2, <1>3 DEF SaleCut, Typed, Tx
  <2>2. r # own => ~(tx.want[own] > 0)
    BY <1>5, <2>1 DEF MatchedRow
  <2> QED BY <2>1, <2>2 DEF KeptQty
<1>8. /\ tx'.pc = "sold" /\ tx'.order = tx.order /\ tx'.cart = tx.cart
      /\ tx'.want[r] = tx.want[r] - kept
      /\ \A b \in Rows : b # r => tx'.want[b] = tx.want[b]
  <2>1. /\ LeaveQty(kept, r, Here.source_location) /\ Here.source_location \in Locs /\ r[1] = Here.key
    BY <1>2, <1>3 DEF SaleCut, Item
  <2> PICK l \in Locs : l = Here.source_location
    BY <2>1
  <2>2. LeaveQty(kept, r, l)
    BY <2>1
  <2>3. tx'.pc = tx.pc /\ tx'.order = tx.order
    BY <1>1, <2>1, <2>2, Leaves
  <2> QED BY <1>1, <2>2, <2>3, LeavesWant
<1>9. \A b \in Rows :
        /\ \A o \in Orders :
              /\ SaleAt(o, b)' \in Nat
              /\ o # u => SaleAt(o, b)' = SaleAt(o, b)
              /\ o = u => SaleAt(o, b)' = SaleAt(o, b) - (IF b = own THEN h.qty ELSE 0) + (IF b = r THEN kept ELSE 0)
        /\ SaleUpto(b) \in Nat /\ SaleUpto(b)' = SaleUpto(b) + (IF b = r THEN kept ELSE 0)
        /\ tx'.at - 1 \in 0 .. Len(items')
  BY <1>1, <1>2, <1>3, <1>4, <1>5, <1>6, SaleCutRow
<1>10. \A o, b : SaleAtC(o, b)' = SaleAtC(o, b)
  BY <1>1 DEF SaleAtC
<1>11. OthersKeep'
  BY <1>1, <1>4, <1>8, <1>9, <1>10 DEF Keeps, OthersKeep
<1>12. \A b \in Rows :
         /\ SaleUpto(b)' + tx'.want[b] = Wanted(tx'.cart)[b]
         /\ tx'.want[b] > 0 => SaleAt(u, b)' >= SaleAtC(u, b)'
  <2> TAKE b \in Rows
  <2>1. /\ SaleUpto(b) + tx.want[b] = Wanted(tx.cart)[b]
        /\ tx.want[b] > 0 => SaleAt(u, b) >= SaleAtC(u, b)
    BY <1>1, <1>4 DEF Keeps, CutKeeps
  <2>2. SaleAt(u, b) \in Nat /\ SaleAtC(u, b) \in Nat /\ SaleAtC(u, b)' = SaleAtC(u, b)
        /\ tx.want[b] \in Nat /\ tx.want[r] \in Nat
    BY <1>7, <1>10, SaleTypes
  <2>3. /\ SaleAt(u, b)' = SaleAt(u, b) - (IF b = own THEN h.qty ELSE 0) + (IF b = r THEN kept ELSE 0)
        /\ SaleUpto(b) \in Nat /\ SaleUpto(b)' = SaleUpto(b) + (IF b = r THEN kept ELSE 0)
    BY <1>9
  <2>4. tx'.want[b] = tx.want[b] - (IF b = r THEN kept ELSE 0)
    BY <1>8, <2>2
  <2>5. kept <= h.qty /\ (kept = h.qty \/ kept = tx.want[r])
    BY <1>6, <1>7, <2>2 DEF Lesser
  <2>6. SaleUpto(b)' + tx'.want[b] = Wanted(tx'.cart)[b]
    BY <1>8, <2>1, <2>2, <2>3, <2>4
  <2>7. CASE b = r
    BY <1>6, <2>1, <2>2, <2>3, <2>4, <2>5, <2>6, <2>7
  <2>8. CASE b # r
    BY <1>6, <1>7, <2>1, <2>2, <2>3, <2>4, <2>6, <2>8
  <2> QED BY <2>7, <2>8
<1>13. tx'.at - 1 \in 0 .. Len(items')
  BY <1>2, <1>9
<1>14. CutKeeps'
  <2>1. \A b \in Rows : tx'.want[b] > 0 => SaleAt(tx.order, b)' >= SaleAtC(tx.order, b)'
    BY <1>4, <1>8, <1>12
  <2> QED BY <1>12, <1>13, <2>1 DEF CutKeeps
<1> QED BY <1>8, <1>11, <1>14 DEF Keeps, OwnKeeps, AddKeeps, Quiet

(* A row is sold, or taken back.                                             *)
LEMMA SideRow ==
  ASSUME Typed, InLoop, NEW h \in Item, h = Here, NEW c \in Customers \cup {Unsold},
         items' = [items EXCEPT ![tx.at].customer = c]
  PROVE  \A o \in Orders, b \in Rows :
           /\ o # h.order => SaleAt(o, b)' = SaleAt(o, b)
           /\ h.customer = Unsold => SaleAt(o, b)' >= SaleAt(o, b)
<1>1. PICK n \in DOMAIN items : n = tx.at /\ items[n] = h
  BY HereType DEF Here
<1>2. PICK it \in Item : it = [h EXCEPT !.customer = c]
  BY DEF Item
<1>3. items' = [items EXCEPT ![n] = it] /\ it.order = h.order /\ items \in Seq(Item)
  BY <1>1, <1>2 DEF Item, Typed
<1>4. ASSUME NEW o \in Orders, NEW b \in Rows
      PROVE  /\ o # h.order => SaleAt(o, b)' = SaleAt(o, b)
             /\ h.customer = Unsold => SaleAt(o, b)' >= SaleAt(o, b)
  <2>1. PICK w \in [Item -> Nat] : w = SaleIn(o, b)
    BY SaleInType DEF SaleWeights
  <2>2. w[it] \in Nat /\ w[h] \in Nat /\ (h.customer = Unsold => w[h] = 0)
        /\ (o # h.order => w[h] = 0 /\ w[it] = 0)
    BY <1>3, <2>1, SaleInType
  <2>3. Total(w, items) - w[h] \in Nat /\ Total(w, items') = Total(w, items) - w[h] + w[it]
    <3>1. /\ Total(w, items) - w[items[n]] \in Nat
          /\ Total(w, [items EXCEPT ![n] = it]) = Total(w, items) - w[items[n]] + w[it]
      <4>1. w \in [Item -> Nat] /\ items \in Seq(Item) /\ n \in DOMAIN items /\ it \in Item
        BY <1>3
      <4> QED BY ONLY <4>1, PutRow
    <3> QED BY <1>1, <1>3, <3>1
  <2>4. SaleAt(o, b) = Total(w, items) /\ SaleAt(o, b)' = Total(w, items') /\ SaleAt(o, b) \in Nat
    BY <2>1, SaleTypes DEF SaleAt
  <2> QED BY <2>2, <2>3, <2>4
<1> QED BY <1>4

LEMMA SideKeeps ==
  ASSUME Typed, Arguments, Agreement, Accounts, Keeps, ConfirmRow \/ ReturnRow
  PROVE  Keeps'
<1>1. /\ tx.pc \in {"confirm", "return"} /\ InLoop /\ tx' = Advanced /\ UNCHANGED committed /\ ~Idle
      /\ items' = [items EXCEPT ![tx.at].customer = IF tx.pc = "confirm" THEN tx.customer ELSE Unsold]
      /\ tx.pc = "confirm" => ConfirmRow
  BY DEF ConfirmRow, ReturnRow, At, Idle
<1>2. tx'.pc = tx.pc /\ tx'.order = tx.order
  BY <1>1 DEF Advanced, Typed, Tx
<1>3. PICK h \in Item : h = Here /\ tx.at \in DOMAIN items
  BY <1>1, HereType
<1>4. PICK u \in Orders : u = tx.order
  BY <1>1 DEF Arguments
<1>5. PICK c \in Customers \cup {Unsold} : c = IF tx.pc = "confirm" THEN tx.customer ELSE Unsold
  BY DEF Typed, Tx
<1>6. h.order = u /\ (tx.pc = "confirm" => h.customer = Unsold)
  <2>1. CASE tx.pc = "confirm"
    <3>1. tx.at \in tx.selected /\ tx.at \in Nat
      BY <1>1, <2>1 DEF ConfirmRow, At, Visits, Typed, Tx
    <3>2. \A i \in tx.selected : i >= tx.at => items[i].customer = Unsold
      BY <1>1, <2>1 DEF Accounts, ConfirmAccount
    <3>3. items[tx.at].customer = Unsold
      BY <3>1, <3>2
    <3> QED BY <1>3, <1>4, <2>1, <3>1, <3>3 DEF Agreement, Knows, KnowsConfirm, Here
  <2>2. CASE tx.pc = "return"
    BY <1>1, <1>3, <1>4, <2>2 DEF ConfirmRow, ReturnRow, At, Visits
  <2> QED BY <1>1, <2>1, <2>2
<1>7. \A o \in Orders, b \in Rows :
        /\ o # u => SaleAt(o, b)' = SaleAt(o, b)
        /\ tx.pc = "confirm" => SaleAt(o, b)' >= SaleAt(o, b)
  BY <1>1, <1>3, <1>5, <1>6, SideRow
<1>8. \A o, b : /\ SaleAtC(o, b)' = SaleAtC(o, b) /\ SaleAt(o, b) \in Nat /\ SaleAtC(o, b) \in Nat
  BY <1>1, SaleTypes DEF SaleAtC
<1>9. OthersKeep'
  BY <1>1, <1>2, <1>4, <1>7, <1>8 DEF Keeps, OthersKeep
<1>10. OwnKeeps'
  <2>1. PICK table \in Seq(Item) : table = items'
    <3>1. PICK it \in Item : it = [h EXCEPT !.customer = c]
      BY DEF Item
    <3>2. items' = [items EXCEPT ![tx.at] = it]
      BY <1>1, <1>3, <1>5, <3>1 DEF Here
    <3> QED BY <1>3, <3>2, UpdateRow DEF Typed
  <2>2. \A o, b : SaleAt(o, b)' \in Nat
    BY <2>1, SaleInType, Weighed DEF SaleAt, SaleWeights
  <2> SUFFICES ASSUME tx.pc = "confirm", NEW b \in Rows
               PROVE  SaleAt(u, b)' >= SaleAtC(u, b)'
    BY <1>1, <1>2, <1>4 DEF OwnKeeps, Quiet
  <2>3. SaleAt(u, b) >= SaleAtC(u, b)
    BY <1>1, <1>4 DEF Keeps, OwnKeeps
  <2> QED BY <1>7, <1>8, <2>2, <2>3
<1> QED BY <1>1, <1>2, <1>9, <1>10 DEF Keeps, CutKeeps, AddKeeps

LEMMA KeepsStep ==
  ASSUME Typed, Arguments, Agreement, Accounts, Keeps, [Next]_vars
  PROVE  Keeps'
<1>0. tx' = NoTx => Keeps'
  BY DEF Keeps, Idle, NoTx
<1>1. CASE UserStep
  <2>1. Carts \subseteq Submitted
    BY DEF Submitted
  <2>2. ASSUME NEW o \in Orders, NEW cart \in Submitted, NEW loc \in Staging,
               BeginRegister(o, cart, loc) \/ BeginEdit(o, cart, loc)
        PROVE  Keeps'
    BY <2>2, BeginsKeep
  <2>3. ASSUME NEW o \in Orders, NEW S \in SUBSET DOMAIN items, NEW c \in Customers, BeginConfirm(o, S, c)
        PROVE  Keeps'
    BY <2>3, BeginsKeep
  <2>4. ASSUME NEW o \in Orders, BeginCancel(o) \/ BeginReturn(o) \/ BeginRepair(o) PROVE Keeps'
    BY <2>4, BeginsKeep
  <2>5. ASSUME NEW s \in Orders, NEW t \in Orders, BeginMerge(s, t) PROVE Keeps'
    BY <2>5, BeginsKeep
  <2>6. ASSUME \/ \E o \in Orders, S \in SUBSET DOMAIN items, c \in Customers : UpdateSale(o, S, c)
               \/ \E r \in Rows, q \in ReceivedQty : Receive(r, q)
               \/ \E r \in Rows, q \in CountedQty : Count(r, q)
               \/ \E r, to \in Rows : \E q \in 1 .. inv[r] : Move(r, to, q)
        PROVE  Keeps'
    <3>1. Idle /\ UNCHANGED tx
      BY <2>6 DEF UpdateSale, Receive, Count, Move, Store
    <3> QED BY <3>1 DEF Keeps, Idle
  <2> QED BY <1>1, <2>1, <2>2, <2>3, <2>4, <2>5, <2>6 DEF UserStep
<1>2. CASE TxStep
  <2>1. CASE (PassOver /\ tx.pc # "sold") \/ KeepStaged \/ SkipEntry \/ LeaveReservation \/ Gather
    <3>1. /\ UNCHANGED <<items, committed>> /\ ~Idle /\ tx.pc # "sold"
          /\ tx' = [tx EXCEPT !.at = @ + 1] \/ tx' = tx
      BY <2>1 DEF PassOver, KeepStaged, SkipEntry, LeaveReservation, Gather, At, Taking, Advanced, Idle
    <3>2. tx'.pc = tx.pc /\ tx'.order = tx.order /\ tx'.cart = tx.cart
      BY <3>1 DEF Typed, Tx
    <3> QED BY <3>1, <3>2, SameStill, StillKeeps
  <2>2. CASE Unstage \/ DropOrphan \/ CancelRow \/ MergeRow \/ Restage
    <3>1. SalesStill
      BY <2>2, GiveBackStill, MergeRowStill, RestageStill
    <3>2. UNCHANGED committed /\ ~Idle /\ tx.pc \in {"unstage", "cancel", "merge", "repair"}
      BY <2>2 DEF Unstage, DropOrphan, CancelRow, MergeRow, Restage, At, Idle
    <3>3. tx'.pc = tx.pc /\ tx'.order = tx.order /\ tx'.cart = tx.cart
      BY <2>2 DEF Unstage, DropOrphan, CancelRow, MergeRow, Restage, Advanced, Typed, Tx
    <3> QED BY <3>1, <3>2, <3>3, StillKeeps
  <2>3. CASE ReduceUnsold
    <3>1. SalesStill /\ UNCHANGED committed /\ ~Idle /\ tx.pc = "unsold"
      BY <2>3, ReserveStill DEF ReduceUnsold, At, Idle
    <3>2. tx'.pc = tx.pc /\ tx'.order = tx.order /\ tx'.cart = tx.cart
      BY <2>3 DEF ReduceUnsold, LeaveQty, Typed, Tx
    <3> QED BY <3>1, <3>2, StillKeeps
  <2>4. CASE TakeEntry
    <3>1. SalesStill /\ UNCHANGED committed /\ ~Idle /\ tx.pc # "sold" /\ tx' = Advanced
      BY <2>4, TakeStill DEF TakeEntry, Taking, Idle
    <3>2. tx'.pc = tx.pc /\ tx'.order = tx.order /\ tx'.cart = tx.cart
      BY <3>1 DEF Advanced, Typed, Tx
    <3> QED BY <3>1, <3>2, StillKeeps
  <2>5. CASE (PassOver /\ tx.pc = "sold") \/ NextLoop \/ ReduceSold \/ ConfirmRow \/ ReturnRow
    BY <2>5, PassOverKeeps, NextLoopKeeps, ReduceSoldKeeps, SideKeeps
  <2>6. CASE UnstageFails \/ RelinkFails \/ ReduceFails \/ TakeFails \/ CancelFails \/ ConfirmFails
    BY <1>0, <2>6 DEF UnstageFails, RelinkFails, ReduceFails, TakeFails, CancelFails, ConfirmFails, Rollback
  <2>7. CASE CommitSave \/ CommitCancel \/ CommitConfirm \/ CommitReturn \/ CommitMerge \/ CommitRepair
    BY <1>0, <2>7 DEF CommitSave, CommitCancel, CommitConfirm, CommitReturn, CommitMerge, CommitRepair, Commit
  <2> QED BY <1>2, <2>1, <2>2, <2>3, <2>4, <2>5, <2>6, <2>7 DEF TxStep
<1>3. CASE Crash
  BY <1>0, <1>3 DEF Crash, Rollback
<1>4. CASE UNCHANGED vars
  <2>1. UNCHANGED <<inv, items, status, tx, committed>>
    BY <1>4 DEF vars
  <2> QED BY <2>1 DEF Keeps, OthersKeep, OwnKeeps, CutKeeps, AddKeeps, SaleUpto, SaleAt, SaleAtC, Idle
<1> QED BY <1>1, <1>2, <1>3, <1>4 DEF Next

(* What SoldKept says of a step, in weights.                                 *)
SaleBack(o, r) ==
  SaleAtC(o, r)' < SaleAtC(o, r) =>
    /\ tx.order = o
    /\ \/ tx.pc = "return"
       \/ tx.pc = "add" /\ SaleAtC(o, r)' >= Wanted(tx.cart)[r]

(* The customer of sold rows changes: they stay sold. *)
LEMMA UpdateSaleBack ==
  ASSUME Typed, Agreement, NEW u \in Orders, NEW S \in SUBSET DOMAIN items, NEW c \in Customers,
         UpdateSale(u, S, c), NEW o \in Orders, NEW r \in Rows
  PROVE  SaleBack(o, r)
<1>1. /\ Idle /\ S \subseteq RowsOf(items, u, TRUE) /\ committed'.items = items' /\ items \in Seq(Item)
      /\ items' = [i \in DOMAIN items |-> IF i \in S THEN [items[i] EXCEPT !.customer = c] ELSE items[i]]
  BY DEF UpdateSale, Typed, Databases
<1>2. committed.items = items
  BY <1>1 DEF Agreement, Settled, Database
<1>3. PICK n \in Nat : n = Len(items) /\ DOMAIN items = 1 .. n
  BY <1>1, TableFacts
<1>4. \A i \in 1 .. n : items'[i] \in Item /\ SaleIn(o, r)[items'[i]] = SaleIn(o, r)[items[i]]
  <2> TAKE i \in 1 .. n
  <2>1. items[i] \in Item
    BY <1>1, <1>3, TableFacts
  <2>2. CASE i \in S
    <3>1. items'[i] = [items[i] EXCEPT !.customer = c] /\ items[i].customer # Unsold /\ c # Unsold
      BY <1>1, <1>3, <2>2, ConstantsOK DEF RowsOf
    <3>2. /\ items'[i] \in Item /\ items'[i].order = items[i].order /\ items'[i].customer = c
          /\ RowOf(items'[i]) = RowOf(items[i]) /\ items'[i].qty = items[i].qty
      <4>1. \A it \in Item : /\ [it EXCEPT !.customer = c] \in Item
                              /\ [it EXCEPT !.customer = c].order = it.order
                              /\ [it EXCEPT !.customer = c].customer = c
                              /\ [it EXCEPT !.customer = c].key = it.key
                              /\ [it EXCEPT !.customer = c].source = it.source
                              /\ [it EXCEPT !.customer = c].qty = it.qty
        BY DEF Item
      <4> QED BY <2>1, <3>1, <4>1 DEF RowOf
    <3>3. PICK x, y \in Item : x = items[i] /\ y = items'[i]
      BY <2>1, <3>2
    <3>4. /\ SaleIn(o, r)[x] = IF x.order = o /\ x.customer # Unsold /\ RowOf(x) = r THEN x.qty ELSE 0
          /\ SaleIn(o, r)[y] = IF y.order = o /\ y.customer # Unsold /\ RowOf(y) = r THEN y.qty ELSE 0
      BY SaleInType
    <3> QED BY <3>1, <3>2, <3>3, <3>4
  <2>3. CASE i \notin S
    BY <1>1, <1>3, <2>1, <2>3
  <2> QED BY <2>2, <2>3
<1>5. \A i \in 1 .. n : SaleIn(o, r)[items'[i]] = SaleIn(o, r)[items[i]]
  BY <1>4
<1>6. Weigh(SaleIn(o, r), items', n) = Weigh(SaleIn(o, r), items, n)
  BY <1>5, WeighSame
<1>7. Len(items') = n
  <2>1. items' \in Seq(Item)
    <3>1. items' = [i \in 1 .. n |-> items'[i]]
      BY <1>1, <1>3
    <3> QED BY <1>4, <3>1
  <2>2. DOMAIN items' = 1 .. n
    BY <1>1, <1>3
  <2> QED BY <2>1, <2>2, TableFacts
<1>8. SaleAtC(o, r)' = SaleAtC(o, r)
  BY <1>1, <1>2, <1>3, <1>6, <1>7 DEF SaleAtC, Total
<1>9. SaleAtC(o, r) \in Nat
  BY SaleTypes
<1> QED BY <1>8, <1>9 DEF SaleBack

LEMMA CommitSaleBack ==
  ASSUME Typed, Arguments, Agreement, Keeps, NEW o \in Orders, NEW r \in Rows,
         \/ CommitSave \/ CommitCancel \/ CommitConfirm \/ CommitReturn \/ CommitMerge \/ CommitRepair
  PROVE  SaleBack(o, r)
<1>1. /\ ~Idle /\ tx.pc \in {"register", "restage", "add", "cancel", "confirm", "return", "merge", "repair"}
      /\ CommitMerge \/ \E st : Commit(st)
  BY DEF CommitSave, CommitCancel, CommitConfirm, CommitReturn, CommitMerge, CommitRepair, After, Taking, Idle
<1>2. SaleAt(o, r) \in Nat /\ SaleAtC(o, r) \in Nat
  BY SaleTypes
<1>3. SaleAtC(o, r)' \in Nat /\ SaleAtC(o, r)' >= SaleAt(o, r)
  <2>1. CASE \E st : Commit(st)
    <3>1. SaleAtC(o, r)' = SaleAt(o, r)
      BY <2>1 DEF Commit, SaleAtC, SaleAt
    <3> QED BY <1>2, <3>1
  <2>2. CASE CommitMerge
    <3>1. committed'.items = items \o tx.rows /\ items \in Seq(Item) /\ tx.rows \in Seq(Item)
      BY <2>2 DEF CommitMerge, Typed, Tx
    <3>2. SaleIn(o, r) \in [Item -> Nat]
      BY SaleInType DEF SaleWeights
    <3>3. /\ Total(SaleIn(o, r), items \o tx.rows) = Total(SaleIn(o, r), items) + Total(SaleIn(o, r), tx.rows)
          /\ Total(SaleIn(o, r), tx.rows) \in Nat
      BY <3>1, <3>2, AddTable, Weighed
    <3> QED BY <1>2, <3>1, <3>3 DEF SaleAtC, SaleAt
  <2> QED BY <1>1, <2>1, <2>2
<1>4. CASE o # tx.order
  <2>1. SaleAt(o, r) = SaleAtC(o, r)
    BY <1>1, <1>4 DEF Keeps, OthersKeep
  <2> QED BY <1>2, <1>3, <2>1 DEF SaleBack
<1>5. CASE o = tx.order
  <2>1. CASE tx.pc \in Quiet \cup {"confirm"}
    <3>1. SaleAt(o, r) >= SaleAtC(o, r)
      BY <1>1, <1>5, <2>1 DEF Keeps, OwnKeeps
    <3> QED BY <1>2, <1>3, <3>1 DEF SaleBack
  <2>2. CASE tx.pc = "return"
    BY <1>5, <2>2 DEF SaleBack
  <2>3. CASE tx.pc = "add"
    <3>1. SaleAt(o, r) >= Lesser(SaleAtC(o, r), Wanted(tx.cart)[r])
      BY <1>1, <1>5, <2>3 DEF Keeps, AddKeeps
    <3>2. Wanted(tx.cart)[r] \in Nat
      BY WantedType DEF Typed, Tx
    <3> QED BY <1>2, <1>3, <1>5, <2>3, <3>1, <3>2 DEF SaleBack, Lesser
  <2> QED BY <1>1, <2>1, <2>2, <2>3 DEF Quiet
<1> QED BY <1>4, <1>5

(* Sold units of a stock row come back in two ways only: the export is       *)
(* returned as a whole, or an edit asks for less of that row than was sold,  *)
(* and then no more than the difference comes back; for every set of keys,   *)
(* locations, orders and carts.                                              *)
THEOREM SalesComeBackAsTold == Spec => SoldKept
<1> DEFINE Good == TypeOK /\ Agreement /\ Accounts /\ Keeps
           Kept == \A o \in Orders, r \in Rows :
                     SoldFrom(committed', o, r) < SoldFrom(committed, o, r) =>
                       /\ tx.order = o
                       /\ \/ tx.pc = "return"
                          \/ tx.pc = "add" /\ SoldFrom(committed', o, r) >= Wanted(tx.cart)[r]
<1>1. Init => Good
  <2>1. Init => Keeps
    BY DEF Init, NoTx, Keeps, Idle
  <2> QED BY <2>1, TypeStart, AgreementStart, LedgerStart
<1>2. Good /\ [Next]_vars => Good'
  BY TypeStep, AgreementStep, AccountsStep, KeepsStep DEF TypeOK
<1>3. Good /\ Good' /\ [Next]_vars => Kept
  <2> SUFFICES ASSUME Good, Good', [Next]_vars, NEW o \in Orders, NEW r \in Rows
               PROVE  SoldFrom(committed', o, r) < SoldFrom(committed, o, r) =>
                       /\ tx.order = o
                       /\ \/ tx.pc = "return"
                          \/ tx.pc = "add" /\ SoldFrom(committed', o, r) >= Wanted(tx.cart)[r]
    OBVIOUS
  <2>1. SoldFrom(committed, o, r) = SaleAtC(o, r) /\ SoldFrom(committed', o, r) = SaleAtC(o, r)'
    <3>1. committed \in Databases /\ committed' \in Databases
      BY DEF TypeOK, Typed
    <3> QED BY <3>1, SoldFromIs DEF SaleAtC
  <2>2. UNCHANGED committed.items => SaleBack(o, r)
    <3>1. SaleAtC(o, r) \in Nat
      BY SaleTypes DEF TypeOK
    <3> QED BY <3>1 DEF SaleBack, SaleAtC
  <2>3. SaleBack(o, r)
    <3>1. CASE UserStep
      <4>1. ASSUME NEW u \in Orders, NEW S \in SUBSET DOMAIN items, NEW c \in Customers, UpdateSale(u, S, c)
            PROVE  SaleBack(o, r)
        BY <4>1, UpdateSaleBack DEF TypeOK
      <4>2. ASSUME ~\E u \in Orders, S \in SUBSET DOMAIN items, c \in Customers : UpdateSale(u, S, c)
            PROVE  UNCHANGED committed.items
        BY <3>1, <4>2 DEF UserStep, BeginRegister, BeginEdit, BeginCancel, BeginReturn, BeginRepair,
                          BeginConfirm, BeginMerge, Receive, Count, Move, Store, TypeOK, Typed, Databases
      <4> QED BY <2>2, <4>1, <4>2
    <3>2. CASE \/ CommitSave \/ CommitCancel \/ CommitConfirm \/ CommitReturn \/ CommitMerge \/ CommitRepair
      BY <3>2, CommitSaleBack DEF TypeOK
    <3>3. CASE TxStep /\ ~(\/ CommitSave \/ CommitCancel \/ CommitConfirm \/ CommitReturn \/ CommitMerge \/ CommitRepair)
      <4>1. UNCHANGED committed
        BY <3>3 DEF TxStep, PassOver, NextLoop, KeepStaged, Unstage, DropOrphan, UnstageFails, ReduceSold,
                    RelinkFails, ReduceUnsold, ReduceFails, TakeEntry, TakeFails, SkipEntry, CancelRow,
                    CancelFails, ConfirmRow, ConfirmFails, ReturnRow, MergeRow, LeaveReservation, Restage,
                    Gather, Rollback
      <4> QED BY <2>2, <4>1
    <3>4. CASE Crash \/ UNCHANGED vars
      <4>1. UNCHANGED committed
        BY <3>4 DEF Crash, Rollback, vars
      <4> QED BY <2>2, <4>1
    <3> QED BY <3>1, <3>2, <3>3, <3>4 DEF Next
  <2> QED BY <2>1, <2>3 DEF SaleBack
<1>4. Good /\ Good' /\ [Next]_vars => [Kept]_vars
  BY <1>3
<1> QED BY <1>1, <1>2, <1>4, PTL DEF Spec, SoldKept
=============================================================================
