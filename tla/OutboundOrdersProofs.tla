------------------------ MODULE OutboundOrdersProofs ------------------------
(****************************************************************************)
(* What holds of OutboundOrders for every set of rows, orders, sessions and  *)
(* carts, whichever stock keys the sessions share; and what the pages that    *)
(* make its calls (OutboundPages) hold between two clicks, for any number of  *)
(* sessions, orders, customers and days.                                    *)
(****************************************************************************)
EXTENDS Outbound, DataFacts

-----------------------------------------------------------------------------
(* Carts and sums.                                                           *)

(* The entries of a cart name rows and ask for a positive quantity.          *)
LEMMA CartFacts ==
  ASSUME NEW cart \in Seq(CartEntry)
  PROVE  /\ Len(cart) \in Nat /\ DOMAIN cart = 1 .. Len(cart)
         /\ \A i \in 1 .. Len(cart) : cart[i].row \in Rows /\ cart[i].qty \in Nat \ {0}
         /\ RowsIn(cart) \subseteq Rows
<1>1. Len(cart) \in Nat /\ DOMAIN cart = 1 .. Len(cart)
  BY LenProperties
<1>2. ASSUME NEW i \in 1 .. Len(cart) PROVE cart[i].row \in Rows /\ cart[i].qty \in Nat \ {0}
  <2>1. cart[i] \in CartEntry
    BY ElementOfSeq
  <2> QED BY <2>1 DEF CartEntry
<1> QED BY <1>1, <1>2 DEF RowsIn

(* A part of a cart adds up to a natural.                                    *)
LEMMA PartType ==
  ASSUME NEW cart \in Seq(CartEntry), NEW S, S \subseteq 1 .. Len(cart)
  PROVE  SumFunctionOnSet(Qty(cart), S) \in Nat
<1>1. IsFiniteSet(S)
  <2>1. IsFiniteSet(1 .. Len(cart))
    BY CartFacts, FS_Interval
  <2> QED BY <2>1, FS_Subset
<1>2. \A i \in S : Qty(cart)[i] \in Nat
  BY CartFacts DEF Qty
<1> QED BY <1>1, <1>2, SumIn

(* So what a cart, or its first entries, ask of a row or a key.             *)
LEMMA RequestedType ==
  ASSUME NEW cart \in Seq(CartEntry), NEW r
  PROVE  /\ Requested(cart, r) \in Nat
         /\ \A n \in 0 .. Len(cart) : Upto(cart, n, r) \in Nat /\ KeyUpto(cart, n, r) \in Nat
<1>1. ASSUME NEW n \in 0 .. Len(cart)
      PROVE  Upto(cart, n, r) \in Nat /\ KeyUpto(cart, n, r) \in Nat
  <2>1. Len(cart) \in Nat
    BY CartFacts
  <2>2. /\ {i \in 1 .. n : cart[i].row = r} \subseteq 1 .. Len(cart)
        /\ {i \in 1 .. n : KeyOf[cart[i].row] = r} \subseteq 1 .. Len(cart)
    BY <2>1
  <2> QED BY <2>2, PartType DEF Upto, KeyUpto
<1>2. Len(cart) \in 0 .. Len(cart)
  BY CartFacts
<1> QED BY <1>1, <1>2 DEF Requested

(* So does what the rows of a key hold.                                               *)
LEMMA OnHandType ==
  ASSUME NEW table \in [Rows -> Nat], NEW k
  PROVE  OnHand(table, k) \in Nat
<1>1. IsFiniteSet({r \in Rows : KeyOf[r] = k})
  <2>1. {r \in Rows : KeyOf[r] = k} \subseteq Rows
    OBVIOUS
  <2> QED BY <2>1, OutboundConstants, FS_Subset
<1>2. \A r \in {r \in Rows : KeyOf[r] = k} : table[r] \in Nat
  OBVIOUS
<1> QED BY <1>1, <1>2, SumIn DEF OnHand

(* A session reads a natural from every row.                                 *)
LEMMA ReadRowsType ==
  ASSUME stock \in [Rows -> Nat], NEW S
  PROVE  ReadRows(S) \in [Rows -> Nat]
  BY DEF ReadRows

-----------------------------------------------------------------------------
(* What a session is doing.                                                  *)

(* A session that runs no call.                                            *)
LEMMA NoCallType == NoCall \in Calls
<1> DEFINE O == Orders \cup {NoOrder}
           C == Seq(CartEntry)
           Z == [Rows -> Nat]
           T == [Keys -> Nat]
           P == Phases
           t == CHOOSE r \in Rows : TRUE
<1>1. NoOrder \in O /\ << >> \in C /\ Zero \in Z /\ [k \in Keys |-> 0] \in T /\ "idle" \in P /\ t \in Rows
  BY OutboundConstants, EmptySeq DEF Zero, Phases
<1>2. /\ Calls = [pc : P, order : O, cart : C, old : C, seen : Z, total : T, to : Rows]
      /\ NoCall = [pc |-> "idle", order |-> NoOrder, cart |-> << >>, old |-> << >>,
                   seen |-> Zero, total |-> [k \in Keys |-> 0], to |-> t]
  BY DEF Calls, NoCall
<1> HIDE DEF O, C, Z, T, P, t
<1> QED BY <1>1, <1>2

(* A call stays a call when its fields are given values of their types.      *)
LEMMA CallUpdate ==
  ASSUME NEW c \in Calls
  PROVE  /\ \A pc \in Phases : [c EXCEPT !.pc = pc] \in Calls
         /\ \A o \in Orders : [c EXCEPT !.order = o] \in Calls
         /\ \A cart \in Seq(CartEntry) : [c EXCEPT !.cart = cart] \in Calls /\ [c EXCEPT !.old = cart] \in Calls
         /\ \A seen \in [Rows -> Nat] : [c EXCEPT !.seen = seen] \in Calls
         /\ \A total \in [Keys -> Nat] : [c EXCEPT !.total = total] \in Calls
         /\ \A to \in Rows : [c EXCEPT !.to = to] \in Calls
<1> DEFINE O == Orders \cup {NoOrder}
           C == Seq(CartEntry)
           Z == [Rows -> Nat]
           T == [Keys -> Nat]
           P == Phases
<1>1. Calls = [pc : P, order : O, cart : C, old : C, seen : Z, total : T, to : Rows]
  BY DEF Calls
<1>2. Orders \subseteq O
  OBVIOUS
<1> HIDE DEF O, C, Z, T, P
<1>3. /\ \A pc \in P : [c EXCEPT !.pc = pc] \in Calls
      /\ \A o \in O : [c EXCEPT !.order = o] \in Calls
  BY <1>1
<1>4. /\ \A cart \in C : [c EXCEPT !.cart = cart] \in Calls /\ [c EXCEPT !.old = cart] \in Calls
  BY <1>1
<1>5. /\ \A seen \in Z : [c EXCEPT !.seen = seen] \in Calls
      /\ \A total \in T : [c EXCEPT !.total = total] \in Calls
      /\ \A to \in Rows : [c EXCEPT !.to = to] \in Calls
  BY <1>1
<1> QED BY <1>2, <1>3, <1>4, <1>5 DEF O, C, Z, T, P
-----------------------------------------------------------------------------
(* Three ways a step changes the tables.                                     *)

(* A call that only reads keeps the types if what it has read has them.      *)
LEMMA Reads ==
  ASSUME TypeOK, NEW s \in Sessions, NEW c \in Calls, Covered(c), Goto(s, c)
  PROVE  TypeOK'
<1>1. call' = [call EXCEPT ![s] = c] /\ UNCHANGED <<stock, status, items, log>>
  BY DEF Goto
<1>2. call' \in [Sessions -> Calls] /\ \A t \in Sessions : call'[t] = IF t = s THEN c ELSE call[t]
  BY <1>1 DEF TypeOK
<1>3. \A t \in Sessions : Covered(call'[t])
  BY <1>2 DEF TypeOK
<1>4. \A t \in Sessions : Covered(call[t])'
  BY <1>1, <1>3 DEF Covered
<1> QED BY <1>1, <1>2, <1>4 DEF TypeOK

(* What the other calls have read still covers what they will write, as long *)
(* as no order disappears: Covered promises nothing about the stock itself.  *)
LEMMA CoveredKept ==
  ASSUME TypeOK, \A o \in Orders : status[o] # "none" => status'[o] # "none",
         NEW s \in Sessions, call'[s] \in {call[s], NoCall}
  PROVE  Covered(call[s])'
<1>1. CASE call'[s] = call[s]
  <2>1. Covered(call[s])
    BY DEF TypeOK
  <2> QED BY <1>1, <2>1 DEF Covered
<1>2. CASE call'[s] = NoCall
  <2>1. call'[s].pc = "idle"
    BY <1>2 DEF NoCall
  <2> QED BY <2>1 DEF Covered
<1> QED BY <1>1, <1>2

(* A call that writes, and then is over or was one transaction, keeps them   *)
(* if what it writes has them.                                               *)
LEMMA Writes ==
  ASSUME TypeOK, NEW s \in Sessions, End(s) \/ UNCHANGED call,
         stock' \in [Rows -> Nat], status' \in [Orders -> Statuses],
         items' \in [Orders -> Seq(CartEntry)], log' \in Seq(Entries),
         \A o \in Orders : status[o] # "none" => status'[o] # "none"
  PROVE  TypeOK'
<1>1. call' \in [Sessions -> Calls] /\ \A t \in Sessions : call'[t] \in {call[t], NoCall}
  BY NoCallType DEF TypeOK, End
<1>2. \A t \in Sessions : Covered(call[t])'
  BY <1>1, CoveredKept
<1> QED BY <1>1, <1>2 DEF TypeOK

(* Setting an order's status to another than "none".                         *)
LEMMA Marks ==
  ASSUME status \in [Orders -> Statuses], NEW o, NEW v \in Statuses \ {"none"},
         status' = [status EXCEPT ![o] = v]
  PROVE  status' \in [Orders -> Statuses] /\ \A p \in Orders : status[p] # "none" => status'[p] # "none"
  OBVIOUS

(* History rows are written at the end of the history.                       *)
LEMMA WriteType ==
  ASSUME log \in Seq(Entries), NEW entries \in Seq(Entries), Write(entries)
  PROVE  log' \in Seq(Entries)
  BY ConcatProperties DEF Write

(* A history row has its columns' types.                                     *)
LEMMA EntryType ==
  ASSUME NEW kind \in Kinds, NEW o \in Orders \cup {NoOrder}, NEW r \in Rows, NEW to \in Rows,
         NEW q \in Int, NEW final \in Int
  PROVE  Entry(kind, o, r, to, q, final) \in Entries
<1> DEFINE O == Orders \cup {NoOrder}
<1>1. Entries = [kind : Kinds, order : O, row : Rows, to : Rows, qty : Int, final : Int] /\ o \in O
  BY DEF Entries
<1> HIDE DEF O
<1> QED BY <1>1 DEF Entry

(* What is known of a session's call.                                        *)
LEMMA CallFields ==
  ASSUME TypeOK, NEW s \in Sessions
  PROVE  /\ call[s] \in Calls /\ Covered(call[s])
         /\ call[s].order \in Orders \cup {NoOrder} /\ call[s].to \in Rows
         /\ call[s].cart \in Seq(CartEntry) /\ call[s].old \in Seq(CartEntry)
         /\ call[s].seen \in [Rows -> Nat] /\ call[s].total \in [Keys -> Nat]
<1>1. call[s] \in Calls /\ Covered(call[s])
  BY DEF TypeOK
<1> QED BY <1>1 DEF Calls

(* A cart as one of the configured carts.                                    *)
LEMMA CartsType == \A cart \in Carts : cart \in Seq(CartEntry)
  BY OutboundConstants

-----------------------------------------------------------------------------
(* The steps that only read.                                                 *)

(* Saving goes on only with a cart that the rows read cover.                 *)
LEMMA SaveReadsRowsType ==
  ASSUME TypeOK, NEW s \in Sessions, NEW cart \in Carts, SaveReadsRows(s, cart)
  PROVE  TypeOK'
<1> DEFINE c1 == [NoCall EXCEPT !.pc = "save_total"]
           c2 == [c1 EXCEPT !.cart = cart]
           c == [c2 EXCEPT !.seen = ReadRows(RowsIn(cart))]
<1>1. cart \in Seq(CartEntry) /\ ReadRows(RowsIn(cart)) \in [Rows -> Nat] /\ RowsIn(cart) \subseteq Rows
  BY CartsType, CartFacts, ReadRowsType DEF TypeOK
<1>2. c1 \in Calls
  BY NoCallType, CallUpdate DEF Phases
<1>3. c2 \in Calls
  <2> HIDE DEF c1
  <2> QED BY <1>1, <1>2, CallUpdate
<1>4. c \in Calls
  <2> HIDE DEF c2
  <2> QED BY <1>1, <1>3, CallUpdate
<1>5. c = [NoCall EXCEPT !.pc = "save_total", !.cart = cart, !.seen = ReadRows(RowsIn(cart))]
  BY DEF NoCall
<1>6. c.pc = "save_total" /\ c.cart = cart /\ c.seen = ReadRows(RowsIn(cart))
  BY DEF NoCall
<1>7. Covered(c)
  <2> HIDE DEF c
  <2>1. \A r \in RowsIn(cart) : Requested(cart, r) <= ReadRows(RowsIn(cart))[r]
    BY <1>1 DEF SaveReadsRows, ReadRows
  <2> QED BY <1>6, <2>1 DEF Covered
<1>8. Goto(s, c)
  BY <1>5 DEF SaveReadsRows
<1> HIDE DEF c
<1> QED BY <1>4, <1>7, <1>8, Reads

(* It then reads a natural for every stock key.                              *)
LEMMA SaveReadsTotalType ==
  ASSUME TypeOK, NEW s \in Sessions, SaveReadsTotal(s)
  PROVE  TypeOK'
<1> DEFINE keys == {KeyOf[r] : r \in RowsIn(call[s].cart)}
           total == [k \in Keys |-> IF k \in keys THEN OnHand(stock, k) ELSE 0]
           c1 == [call[s] EXCEPT !.pc = "save"]
           c == [c1 EXCEPT !.total = total]
<1>1. total \in [Keys -> Nat]
  BY OnHandType DEF TypeOK
<1> HIDE DEF total
<1>2. call[s] \in Calls /\ Covered(call[s]) /\ call[s].pc = "save_total"
  BY CallFields DEF SaveReadsTotal, At
<1>3. c \in Calls
  <2>1. c1 \in Calls
    BY <1>2, CallUpdate DEF Phases
  <2> HIDE DEF c1
  <2> QED BY <1>1, <2>1, CallUpdate
<1>4. c = [call[s] EXCEPT !.pc = "save", !.total = total]
      /\ c.pc = "save" /\ c.cart = call[s].cart /\ c.seen = call[s].seen
  BY <1>2 DEF Calls
<1> HIDE DEF c
<1>5. Covered(c)
  BY <1>2, <1>4 DEF Covered
<1>6. Goto(s, c)
  BY <1>4 DEF SaveReadsTotal, total
<1> QED BY <1>3, <1>5, <1>6, Reads
(* An edit and a cancellation carry an order that exists through their reads. *)
HasOrder == {"edit_items", "edit_rows", "edit_check", "edit", "cancel_log", "cancel_mark",
             "cancel_items", "cancel_row", "cancel"}

(* A step of a call that keeps its order keeps the types.                    *)
LEMMA OrderKept ==
  ASSUME TypeOK, NEW s \in Sessions, NEW c \in Calls, call[s].pc \in HasOrder, c.pc \in HasOrder,
         c.order = call[s].order, Goto(s, c)
  PROVE  TypeOK'
<1>1. Covered(c)
  BY CallFields DEF Covered, HasOrder
<1> QED BY <1>1, Reads

(* It starts with one.                                                       *)
LEMMA OrderTaken ==
  ASSUME TypeOK, NEW s \in Sessions, NEW o \in Orders, status[o] # "none",
         NEW c \in Calls, c.pc \in HasOrder, c.order = o, Goto(s, c)
  PROVE  TypeOK'
<1>1. Covered(c)
  BY DEF Covered, HasOrder
<1> QED BY <1>1, Reads

(* An edit starts with an order that was saved.                              *)
LEMMA EditReadsStatusType ==
  ASSUME TypeOK, NEW s \in Sessions, NEW o \in Orders, NEW cart \in Carts, EditReadsStatus(s, o, cart)
  PROVE  TypeOK'
<1> DEFINE c1 == [NoCall EXCEPT !.pc = "edit_items"]
           c2 == [c1 EXCEPT !.order = o]
           c == [c2 EXCEPT !.cart = cart]
<1>1. c1 \in Calls
  BY NoCallType, CallUpdate DEF Phases
<1>2. c2 \in Calls
  <2> HIDE DEF c1
  <2> QED BY <1>1, CallUpdate
<1>3. c \in Calls
  <2> HIDE DEF c2
  <2> QED BY <1>2, CallUpdate, CartsType
<1>4. /\ c = [NoCall EXCEPT !.pc = "edit_items", !.order = o, !.cart = cart]
      /\ c.pc = "edit_items" /\ c.order = o
  BY DEF NoCall
<1> HIDE DEF c
<1>5. Goto(s, c) /\ status[o] # "none" /\ c.pc \in HasOrder
  BY <1>4 DEF EditReadsStatus, HasOrder
<1> QED BY <1>3, <1>4, <1>5, OrderTaken

(* It reads the order's cart.                                                *)
LEMMA EditReadsItemsType ==
  ASSUME TypeOK, NEW s \in Sessions, EditReadsItems(s)
  PROVE  TypeOK'
<1> DEFINE c1 == [call[s] EXCEPT !.pc = "edit_rows"]
           c == [c1 EXCEPT !.old = items[call[s].order]]
<1>1. call[s] \in Calls /\ call[s].pc = "edit_items" /\ call[s].order \in Orders
  BY CallFields DEF EditReadsItems, At, Covered
<1>2. items[call[s].order] \in Seq(CartEntry)
  BY <1>1 DEF TypeOK
<1>3. c1 \in Calls
  BY <1>1, CallUpdate DEF Phases
<1>4. c \in Calls
  <2> HIDE DEF c1
  <2> QED BY <1>2, <1>3, CallUpdate
<1>5. /\ c = [call[s] EXCEPT !.pc = "edit_rows", !.old = items[call[s].order]]
      /\ c.pc = "edit_rows" /\ c.order = call[s].order
  BY <1>1 DEF Calls
<1> HIDE DEF c
<1>6. Goto(s, c) /\ c.pc \in HasOrder /\ call[s].pc \in HasOrder
  BY <1>1, <1>5 DEF EditReadsItems, HasOrder
<1> QED BY <1>4, <1>5, <1>6, OrderKept

(* It reads the rows of both carts.                                          *)
LEMMA EditReadsRowsType ==
  ASSUME TypeOK, NEW s \in Sessions, EditReadsRows(s)
  PROVE  TypeOK'
<1> DEFINE read == ReadRows(RowsIn(call[s].cart) \cup RowsIn(call[s].old))
           c1 == [call[s] EXCEPT !.pc = "edit_check"]
           c == [c1 EXCEPT !.seen = read]
<1>1. call[s] \in Calls /\ call[s].pc = "edit_rows" /\ read \in [Rows -> Nat]
  BY CallFields, ReadRowsType DEF EditReadsRows, At, TypeOK
<1>2. Goto(s, [call[s] EXCEPT !.pc = "edit_check", !.seen = read])
  BY DEF EditReadsRows
<1> HIDE DEF read
<1>3. c1 \in Calls
  BY <1>1, CallUpdate DEF Phases
<1>4. c \in Calls
  <2> HIDE DEF c1
  <2> QED BY <1>1, <1>3, CallUpdate
<1>5. /\ c = [call[s] EXCEPT !.pc = "edit_check", !.seen = read]
      /\ c.pc = "edit_check" /\ c.order = call[s].order
  BY <1>1 DEF Calls
<1> HIDE DEF c
<1>6. Goto(s, c) /\ c.pc \in HasOrder /\ call[s].pc \in HasOrder
  BY <1>1, <1>2, <1>5 DEF HasOrder
<1> QED BY <1>4, <1>5, <1>6, OrderKept

(* A step that only moves an edit or a cancellation on.                      *)
LEMMA MovesOn ==
  ASSUME TypeOK, NEW s \in Sessions, NEW pc \in HasOrder, call[s].pc \in HasOrder,
         Goto(s, [call[s] EXCEPT !.pc = pc])
  PROVE  TypeOK'
<1> DEFINE c == [call[s] EXCEPT !.pc = pc]
<1>1. c \in Calls /\ c.pc \in HasOrder /\ c.order = call[s].order
  <2>1. call[s] \in Calls /\ pc \in Phases
    BY CallFields DEF HasOrder, Phases
  <2>2. c \in Calls
    BY <2>1, CallUpdate
  <2> QED BY <2>1, <2>2 DEF Calls
<1> HIDE DEF c
<1> QED BY <1>1, OrderKept DEF c

(* It checks the history and moves on.                                       *)
LEMMA EditChecksHistoryType ==
  ASSUME TypeOK, NEW s \in Sessions, EditChecksHistory(s)
  PROVE  TypeOK'
  BY MovesOn DEF EditChecksHistory, At, HasOrder

(* A cancellation looks for an earlier restoration and moves on.             *)
LEMMA CancelReadsLogType ==
  ASSUME TypeOK, NEW s \in Sessions, CancelReadsLog(s)
  PROVE  TypeOK'
  BY MovesOn DEF CancelReadsLog, At, HasOrder

(* A cancellation starts with an order that was saved.                       *)
LEMMA CancelReadsStatusType ==
  ASSUME TypeOK, NEW s \in Sessions, NEW o \in Orders, CancelReadsStatus(s, o)
  PROVE  TypeOK'
<1> DEFINE c1 == [NoCall EXCEPT !.pc = "cancel_log"]
           c == [c1 EXCEPT !.order = o]
<1>1. c1 \in Calls
  BY NoCallType, CallUpdate DEF Phases
<1>2. c \in Calls
  <2> HIDE DEF c1
  <2> QED BY <1>1, CallUpdate
<1>3. c = [NoCall EXCEPT !.pc = "cancel_log", !.order = o] /\ c.pc = "cancel_log" /\ c.order = o
  BY DEF NoCall
<1> HIDE DEF c
<1>4. Goto(s, c) /\ status[o] # "none" /\ c.pc \in HasOrder
  BY <1>3 DEF CancelReadsStatus, HasOrder
<1> QED BY <1>2, <1>3, <1>4, OrderTaken

(* It reads the order's cart.                                                *)
LEMMA CancelReadsItemsType ==
  ASSUME TypeOK, NEW s \in Sessions, CancelReadsItems(s)
  PROVE  TypeOK'
<1> DEFINE c1 == [call[s] EXCEPT !.pc = "cancel_row"]
           c == [c1 EXCEPT !.old = items[call[s].order]]
<1>1. call[s] \in Calls /\ call[s].pc = "cancel_items" /\ call[s].order \in Orders
  BY CallFields DEF CancelReadsItems, At, Covered
<1>2. items[call[s].order] \in Seq(CartEntry)
  BY <1>1 DEF TypeOK
<1>3. c1 \in Calls
  BY <1>1, CallUpdate DEF Phases
<1>4. c \in Calls
  <2> HIDE DEF c1
  <2> QED BY <1>2, <1>3, CallUpdate
<1>5. /\ c = [call[s] EXCEPT !.pc = "cancel_row", !.old = items[call[s].order]]
      /\ c.pc = "cancel_row" /\ c.order = call[s].order
  BY <1>1 DEF Calls
<1> HIDE DEF c
<1>6. Goto(s, c) /\ c.pc \in HasOrder /\ call[s].pc \in HasOrder
  BY <1>1, <1>5 DEF CancelReadsItems, HasOrder
<1> QED BY <1>4, <1>5, <1>6, OrderKept

(* It reads the first row of the cart.                                       *)
LEMMA CancelReadsRowType ==
  ASSUME TypeOK, NEW s \in Sessions, CancelReadsRow(s)
  PROVE  TypeOK'
<1> DEFINE read == ReadRows({call[s].old[1].row})
           c1 == [call[s] EXCEPT !.pc = "cancel"]
           c == [c1 EXCEPT !.seen = read]
<1>1. call[s] \in Calls /\ call[s].pc = "cancel_row" /\ read \in [Rows -> Nat]
  BY CallFields, ReadRowsType DEF CancelReadsRow, At, TypeOK
<1>2. Goto(s, [call[s] EXCEPT !.pc = "cancel", !.seen = read])
  BY DEF CancelReadsRow
<1> HIDE DEF read
<1>3. c1 \in Calls
  BY <1>1, CallUpdate DEF Phases
<1>4. c \in Calls
  <2> HIDE DEF c1
  <2> QED BY <1>1, <1>3, CallUpdate
<1>5. /\ c = [call[s] EXCEPT !.pc = "cancel", !.seen = read]
      /\ c.pc = "cancel" /\ c.order = call[s].order
  BY <1>1 DEF Calls
<1> HIDE DEF c
<1>6. Goto(s, c) /\ c.pc \in HasOrder /\ call[s].pc \in HasOrder
  BY <1>1, <1>2, <1>5 DEF HasOrder
<1> QED BY <1>4, <1>5, <1>6, OrderKept

(* One entry asks of its row what it asks for.                               *)
LEMMA SingleCart ==
  ASSUME NEW e \in CartEntry
  PROVE  /\ << e >> \in Seq(CartEntry) /\ Len(<< e >>) = 1 /\ RowsIn(<< e >>) = {e.row}
         /\ Requested(<< e >>, e.row) = e.qty
<1>1. << e >> \in Seq(CartEntry) /\ Len(<< e >>) = 1 /\ << e >>[1] = e /\ DOMAIN << e >> = {1}
  OBVIOUS
<1>2. RowsIn(<< e >>) = {e.row}
  BY <1>1 DEF RowsIn
<1>3. {i \in 1 .. 1 : << e >>[i].row = e.row} = {1}
  BY <1>1
<1> DEFINE f == Qty(<< e >>)
<1>4. f[1] = e.qty /\ e.qty \in Nat
  BY <1>1 DEF Qty, CartEntry
<1> HIDE DEF f
<1>5. SumFunctionOnSet(f, {1}) = e.qty
  <2>1. IsFiniteSet({1}) /\ {1} \ {1} = {} /\ 1 \in {1}
    BY FS_Singleton
  <2>2. \A x \in {1} : f[x] \in Int
    BY <1>4
  <2>3. SumFunctionOnSet(f, {1}) = f[1] + SumFunctionOnSet(f, {1} \ {1})
    BY <2>1, <2>2, SumSplit
  <2> QED BY <1>4, <2>1, <2>3, SumEmpty
<1> QED BY <1>1, <1>2, <1>3, <1>5 DEF Requested, Upto, f
(* A receipt reads the row it adds to.                                       *)
LEMMA ReceiveReadsType ==
  ASSUME TypeOK, NEW s \in Sessions, NEW r \in Rows, NEW q \in ReceivedQty, ReceiveReads(s, r, q)
  PROVE  TypeOK'
<1> DEFINE e == [row |-> r, qty |-> q]
           c1 == [NoCall EXCEPT !.pc = "in"]
           c2 == [c1 EXCEPT !.cart = << e >>]
           c == [c2 EXCEPT !.seen = ReadRows({r})]
<1>1. << e >> \in Seq(CartEntry) /\ Len(<< e >>) = 1
  <2>1. e \in CartEntry
    BY OutboundConstants DEF CartEntry
  <2> QED BY <2>1, SingleCart
<1>2. c1 \in Calls /\ ReadRows({r}) \in [Rows -> Nat]
  BY NoCallType, CallUpdate, ReadRowsType DEF Phases, TypeOK
<1>3. c2 \in Calls
  <2> HIDE DEF c1
  <2> QED BY <1>1, <1>2, CallUpdate
<1>4. c \in Calls
  <2> HIDE DEF c2
  <2> QED BY <1>2, <1>3, CallUpdate
<1>5. /\ c = [NoCall EXCEPT !.pc = "in", !.cart = << e >>, !.seen = ReadRows({r})]
      /\ c.pc = "in" /\ c.cart = << e >>
  BY DEF NoCall
<1> HIDE DEF c
<1>6. Covered(c)
  BY <1>1, <1>5 DEF Covered
<1>7. Goto(s, c)
  BY <1>5 DEF ReceiveReads
<1> QED BY <1>4, <1>6, <1>7, Reads

(* A move goes on only with what its source row holds.                       *)
LEMMA MoveReadsType ==
  ASSUME TypeOK, NEW s \in Sessions, NEW r \in Rows, NEW to \in Rows, NEW q, MoveReads(s, r, to, q)
  PROVE  TypeOK'
<1> DEFINE e == [row |-> r, qty |-> q]
           c1 == [NoCall EXCEPT !.pc = "move"]
           c2 == [c1 EXCEPT !.cart = << e >>]
           c3 == [c2 EXCEPT !.to = to]
           c == [c3 EXCEPT !.seen = ReadRows({r})]
<1>1. q \in 1 .. stock[r] /\ stock[r] \in Nat /\ q \in Nat \ {0} /\ q <= stock[r]
  BY DEF MoveReads, TypeOK
<1>2. << e >> \in Seq(CartEntry) /\ Len(<< e >>) = 1 /\ RowsIn(<< e >>) = {r} /\ Requested(<< e >>, r) = q
  <2>1. e \in CartEntry /\ e.row = r /\ e.qty = q
    BY <1>1 DEF CartEntry
  <2> HIDE DEF e
  <2> QED BY <2>1, SingleCart
<1>3. c1 \in Calls /\ ReadRows({r}) \in [Rows -> Nat]
  BY NoCallType, CallUpdate, ReadRowsType DEF Phases, TypeOK
<1>4. c2 \in Calls
  <2> HIDE DEF c1
  <2> QED BY <1>2, <1>3, CallUpdate
<1>5. c3 \in Calls
  <2> HIDE DEF c2
  <2> QED BY <1>4, CallUpdate
<1>6. c \in Calls
  <2> HIDE DEF c3
  <2> QED BY <1>3, <1>5, CallUpdate
<1>7. /\ c = [NoCall EXCEPT !.pc = "move", !.cart = << e >>, !.to = to, !.seen = ReadRows({r})]
      /\ c.pc = "move" /\ c.cart = << e >> /\ c.seen = ReadRows({r})
  BY DEF NoCall
<1> HIDE DEF c
<1>8. Covered(c)
  <2>1. ReadRows({r})[r] = stock[r]
    BY DEF ReadRows
  <2> QED BY <1>1, <1>2, <1>7, <2>1 DEF Covered
<1>9. Goto(s, c)
  BY <1>7 DEF MoveReads
<1> QED BY <1>6, <1>8, <1>9, Reads

(* A call that fails has written nothing.                                    *)
LEMMA AbandonType ==
  ASSUME TypeOK, NEW s \in Sessions, Abandon(s)
  PROVE  TypeOK'
<1>1. Covered(NoCall)
  BY DEF Covered, NoCall
<1> QED BY <1>1, NoCallType, Reads DEF Abandon

-----------------------------------------------------------------------------
(* The steps that write.                                                     *)

(* Saving writes the stock it compared the cart with less what the cart asks *)
(* for: never below zero, whatever the stock is by then.                     *)
LEMMA SaveWritesType ==
  ASSUME TypeOK, NEW s \in Sessions, NEW o \in Orders, SaveWrites(s, o)
  PROVE  TypeOK'
<1> DEFINE c == call[s]
           final(i) == c.total[KeyOf[c.cart[i].row]] - KeyUpto(c.cart, i, KeyOf[c.cart[i].row])
           entries == [i \in DOMAIN c.cart |->
                         Entry("ship", o, c.cart[i].row, c.cart[i].row, c.cart[i].qty, final(i))]
<1>1. /\ c.cart \in Seq(CartEntry) /\ c.seen \in [Rows -> Nat] /\ c.total \in [Keys -> Nat]
      /\ \A r \in RowsIn(c.cart) : Requested(c.cart, r) <= c.seen[r]
  BY CallFields DEF SaveWrites, At, Covered
<1>2. stock' \in [Rows -> Nat]
  <2>1. stock' = [r \in Rows |-> IF r \in RowsIn(c.cart) THEN c.seen[r] - Requested(c.cart, r) ELSE stock[r]]
    BY DEF SaveWrites
  <2>2. ASSUME NEW r \in Rows
        PROVE  (IF r \in RowsIn(c.cart) THEN c.seen[r] - Requested(c.cart, r) ELSE stock[r]) \in Nat
    <3>1. Requested(c.cart, r) \in Nat /\ c.seen[r] \in Nat /\ stock[r] \in Nat
      BY <1>1, RequestedType DEF TypeOK
    <3> QED BY <1>1, <3>1
  <2> QED BY <2>1, <2>2
<1>3. entries \in Seq(Entries)
  <2>1. Len(c.cart) \in Nat /\ DOMAIN c.cart = 1 .. Len(c.cart)
    BY <1>1, CartFacts
  <2>2. ASSUME NEW i \in 1 .. Len(c.cart) PROVE entries[i] \in Entries
    <3>1. c.cart[i].row \in Rows /\ c.cart[i].qty \in Int /\ KeyOf[c.cart[i].row] \in Keys
      BY <1>1, CartFacts, OutboundConstants
    <3>2. KeyUpto(c.cart, i, KeyOf[c.cart[i].row]) \in Nat
      <4> DEFINE k == KeyOf[c.cart[i].row]
      <4>1. i \in 0 .. Len(c.cart)
        BY <2>1
      <4> HIDE DEF k
      <4>2. KeyUpto(c.cart, i, k) \in Nat
        BY <1>1, <4>1, RequestedType
      <4> QED BY <4>2 DEF k
    <3>3. final(i) \in Int
      BY <1>1, <3>1, <3>2
    <3>4. entries[i] = Entry("ship", o, c.cart[i].row, c.cart[i].row, c.cart[i].qty, final(i))
      BY <2>1
    <3> HIDE DEF final, entries, c
    <3> QED BY <3>1, <3>3, <3>4, EntryType DEF Kinds
  <2> HIDE DEF c, final
  <2>3. entries \in [1 .. Len(c.cart) -> Entries]
    BY <2>1, <2>2
  <2> HIDE DEF entries
  <2> QED BY <2>1, <2>3, SeqDef
<1>4. Write(entries) /\ End(s) /\ items' = [items EXCEPT ![o] = c.cart]
  BY DEF SaveWrites
<1>5. /\ status' \in [Orders -> Statuses] /\ \A p \in Orders : status[p] # "none" => status'[p] # "none"
  BY Marks DEF SaveWrites, TypeOK, Statuses
<1>6. log' \in Seq(Entries)
  <2> HIDE DEF entries
  <2> QED BY <1>3, <1>4, WriteType DEF TypeOK
<1>7. items' \in [Orders -> Seq(CartEntry)]
  BY <1>1, <1>4 DEF TypeOK
<1> QED BY <1>2, <1>4, <1>5, <1>6, <1>7, Writes
(* An edit checks, before it writes, that no row goes below zero.            *)
LEMMA EditWritesType ==
  ASSUME TypeOK, NEW s \in Sessions, EditWrites(s)
  PROVE  TypeOK'
<1> DEFINE c == call[s]
           rows == SetToSeq(Changed(c))
           after(n) == [r \in Rows |-> IF \E i \in 1 .. n : rows[i] = r THEN c.seen[r] - Delta(c, r)
                                                                        ELSE stock[r]]
           entries == [i \in DOMAIN rows |->
                         Entry("reship", c.order, rows[i], rows[i], Delta(c, rows[i]),
                               OnHand(after(i), KeyOf[rows[i]]))]
<1>1. /\ c.cart \in Seq(CartEntry) /\ c.old \in Seq(CartEntry) /\ c.seen \in [Rows -> Nat]
      /\ c.order \in Orders /\ stock \in [Rows -> Nat]
      /\ \A r \in Changed(c) : c.seen[r] >= Delta(c, r)
  BY CallFields DEF EditWrites, At, Covered, TypeOK
<1>2. \A r \in Rows : Delta(c, r) \in Int
  BY <1>1, RequestedType DEF Delta
<1>3. rows \in Seq(Changed(c)) /\ Changed(c) \subseteq Rows
  <2>1. IsFiniteSet(Changed(c)) /\ Changed(c) \subseteq Rows
    BY OutboundConstants, FS_Subset DEF Changed
  <2> QED BY <2>1, SetToSeqType
<1> HIDE DEF rows
<1>4. /\ Len(rows) \in Nat /\ DOMAIN rows = 1 .. Len(rows)
      /\ \A i \in 1 .. Len(rows) : rows[i] \in Changed(c)
  BY <1>3, LenProperties, ElementOfSeq
<1>5. ASSUME NEW n \in 0 .. Len(rows) PROVE after(n) \in [Rows -> Nat]
  <2> HIDE DEF c
  <2>1. ASSUME NEW r \in Rows, NEW i \in 1 .. n, rows[i] = r PROVE c.seen[r] - Delta(c, r) \in Nat
    <3>1. r \in Changed(c)
      BY <1>4, <2>1
    <3> QED BY <1>1, <1>2, <3>1
  <2> QED BY <1>1, <2>1
<1>6. /\ stock' = after(Len(rows))
      /\ items' = IF rows = << >> THEN items ELSE [items EXCEPT ![c.order] = c.cart]
      /\ Write(entries) /\ End(s) /\ status' = [status EXCEPT ![c.order] = "edited"]
  BY DEF EditWrites, rows
<1>7. entries \in Seq(Entries)
  <2> HIDE DEF after, c
  <2>1. ASSUME NEW i \in 1 .. Len(rows) PROVE entries[i] \in Entries
    <3>1. rows[i] \in Rows /\ Delta(c, rows[i]) \in Int
      BY <1>2, <1>3, <1>4
    <3>2. OnHand(after(i), KeyOf[rows[i]]) \in Int
      <4>1. after(i) \in [Rows -> Nat]
        BY <1>4, <1>5
      <4> QED BY <4>1, OnHandType
    <3>3. entries[i] = Entry("reship", c.order, rows[i], rows[i], Delta(c, rows[i]),
                             OnHand(after(i), KeyOf[rows[i]]))
      BY <1>4
    <3> HIDE DEF entries
    <3> QED BY <1>1, <3>1, <3>2, <3>3, EntryType DEF Kinds
  <2>2. entries \in [1 .. Len(rows) -> Entries]
    BY <1>4, <2>1
  <2> HIDE DEF entries
  <2> QED BY <1>4, <2>2, SeqDef
<1> HIDE DEF entries
<1>8. log' \in Seq(Entries)
  BY <1>6, <1>7, WriteType DEF TypeOK
<1>9. stock' \in [Rows -> Nat]
  <2> HIDE DEF after
  <2> QED BY <1>4, <1>5, <1>6
<1>10. /\ status' \in [Orders -> Statuses] /\ \A p \in Orders : status[p] # "none" => status'[p] # "none"
  BY <1>6, Marks DEF TypeOK, Statuses
<1>11. items' \in [Orders -> Seq(CartEntry)]
  BY <1>1, <1>6 DEF TypeOK
<1> QED BY <1>6, <1>8, <1>9, <1>10, <1>11, Writes

(* Marking an order cancelled leaves the stock alone.                        *)
LEMMA CancelMarksType ==
  ASSUME TypeOK, NEW s \in Sessions, CancelMarks(s)
  PROVE  TypeOK'
<1>1. /\ status' \in [Orders -> Statuses] /\ \A p \in Orders : status[p] # "none" => status'[p] # "none"
  BY Marks DEF CancelMarks, TypeOK, Statuses
<1> QED BY <1>1, Writes DEF CancelMarks, TypeOK

(* A cancellation only adds to the rows.                                     *)
LEMMA CancelWritesType ==
  ASSUME TypeOK, NEW s \in Sessions, CancelWrites(s)
  PROVE  TypeOK'
<1> DEFINE c == call[s]
           after(n) == [r \in Rows |->
                          (IF r = c.old[1].row THEN c.seen[r] ELSE stock[r]) + Upto(c.old, n, r)]
           entries == [i \in DOMAIN c.old |->
                         Entry("cancel", c.order, c.old[i].row, c.old[i].row, c.old[i].qty,
                               OnHand(after(i), KeyOf[c.old[i].row]))]
<1>1. /\ c.old \in Seq(CartEntry) /\ c.seen \in [Rows -> Nat] /\ stock \in [Rows -> Nat]
      /\ c.order \in Orders
  BY CallFields DEF CancelWrites, At, Covered, TypeOK
<1>2. /\ stock' = after(Len(c.old)) /\ Write(entries) /\ End(s) /\ UNCHANGED items
      /\ status' = [status EXCEPT ![c.order] = "cancelled"]
  BY DEF CancelWrites
<1> HIDE DEF c
<1>3. Len(c.old) \in Nat /\ DOMAIN c.old = 1 .. Len(c.old)
  BY <1>1, CartFacts
<1>4. ASSUME NEW n \in 0 .. Len(c.old) PROVE after(n) \in [Rows -> Nat]
  <2>1. \A r \in Rows : Upto(c.old, n, r) \in Nat
    BY <1>1, RequestedType
  <2> QED BY <1>1, <2>1
<1>5. entries \in Seq(Entries)
  <2> HIDE DEF after
  <2>1. ASSUME NEW i \in 1 .. Len(c.old) PROVE entries[i] \in Entries
    <3>1. c.old[i].row \in Rows /\ c.old[i].qty \in Int
      BY <1>1, CartFacts
    <3>2. OnHand(after(i), KeyOf[c.old[i].row]) \in Int
      <4>1. after(i) \in [Rows -> Nat]
        BY <1>3, <1>4
      <4> QED BY <4>1, OnHandType
    <3>3. entries[i] = Entry("cancel", c.order, c.old[i].row, c.old[i].row, c.old[i].qty,
                             OnHand(after(i), KeyOf[c.old[i].row]))
      BY <1>3
    <3> HIDE DEF entries
    <3> QED BY <1>1, <3>1, <3>2, <3>3, EntryType DEF Kinds
  <2>2. entries \in [1 .. Len(c.old) -> Entries]
    BY <1>3, <2>1
  <2> HIDE DEF entries
  <2> QED BY <1>3, <2>2, SeqDef
<1> HIDE DEF entries
<1>6. log' \in Seq(Entries)
  BY <1>2, <1>5, WriteType DEF TypeOK
<1>7. stock' \in [Rows -> Nat]
  <2> HIDE DEF after
  <2> QED BY <1>2, <1>3, <1>4
<1>8. /\ status' \in [Orders -> Statuses] /\ \A p \in Orders : status[p] # "none" => status'[p] # "none"
  BY <1>2, Marks DEF TypeOK, Statuses
<1> QED BY <1>2, <1>6, <1>7, <1>8, Writes DEF TypeOK

(* A call that writes one history row.                                       *)
LEMMA WritesOne ==
  ASSUME TypeOK, NEW s \in Sessions, End(s) \/ UNCHANGED call, UNCHANGED <<status, items>>,
         stock' \in [Rows -> Nat],
         NEW kind \in Kinds, NEW r \in Rows, NEW to \in Rows, NEW q \in Int,
         Write(<< Entry(kind, NoOrder, r, to, q, OnHand(stock', KeyOf[to])) >>)
  PROVE  TypeOK'
<1> DEFINE e == Entry(kind, NoOrder, r, to, q, OnHand(stock', KeyOf[to]))
<1>1. e \in Entries
  <2>1. OnHand(stock', KeyOf[to]) \in Int
    BY OnHandType
  <2> QED BY <2>1, EntryType
<1> HIDE DEF e
<1>2. << e >> \in Seq(Entries)
  BY <1>1
<1>3. log' \in Seq(Entries)
  BY <1>2, WriteType DEF TypeOK, e
<1> QED BY <1>3, Writes DEF TypeOK
(* The one entry of the cart of a receipt or a move.                         *)
LEMMA OneEntry ==
  ASSUME TypeOK, NEW s \in Sessions, call[s].pc \in {"in", "move"}
  PROVE  /\ call[s].cart[1].row \in Rows /\ call[s].cart[1].qty \in Nat \ {0}
         /\ call[s].pc = "move" => call[s].cart[1].qty <= call[s].seen[call[s].cart[1].row]
<1> DEFINE cart == call[s].cart
           e == cart[1]
<1>1. cart \in Seq(CartEntry) /\ Len(cart) = 1
  BY CallFields DEF Covered
<1>2. e \in CartEntry /\ cart = << e >>
  BY <1>1, ElementOfSeq
<1>3. e.row \in Rows /\ e.qty \in Nat \ {0}
  BY <1>2 DEF CartEntry
<1>4. CASE call[s].pc = "move"
  <2>1. \A r \in RowsIn(cart) : Requested(cart, r) <= call[s].seen[r]
    BY <1>4, CallFields DEF Covered
  <2> HIDE DEF e
  <2>2. RowsIn(cart) = {e.row} /\ Requested(cart, e.row) = e.qty
    BY <1>2, SingleCart
  <2> QED BY <1>3, <2>1, <2>2 DEF e
<1> QED BY <1>3, <1>4

(* A receipt adds to what it read.                                           *)
LEMMA ReceiveWritesType ==
  ASSUME TypeOK, NEW s \in Sessions, ReceiveWrites(s)
  PROVE  TypeOK'
<1>1. /\ call[s].cart[1].row \in Rows /\ call[s].cart[1].qty \in Nat
      /\ call[s].seen \in [Rows -> Nat] /\ stock \in [Rows -> Nat]
  BY OneEntry, CallFields DEF ReceiveWrites, At, TypeOK
<1>2. PICK r \in Rows, q \in Nat : r = call[s].cart[1].row /\ q = call[s].cart[1].qty
  BY <1>1
<1>3. /\ stock' = [stock EXCEPT ![r] = call[s].seen[r] + q]
      /\ Write(<< Entry("in", NoOrder, r, r, q, OnHand(stock', KeyOf[r])) >>)
      /\ End(s) /\ UNCHANGED <<status, items>>
  BY <1>2 DEF ReceiveWrites
<1>4. stock' \in [Rows -> Nat]
  BY <1>1, <1>3
<1>5. "in" \in Kinds /\ q \in Int
  BY DEF Kinds
<1> QED BY <1>3, <1>4, <1>5, WritesOne

(* A move takes from its source what it read there at most.                  *)
LEMMA MoveWritesType ==
  ASSUME TypeOK, NEW s \in Sessions, MoveWrites(s)
  PROVE  TypeOK'
<1>1. /\ call[s].cart[1].row \in Rows /\ call[s].cart[1].qty \in Nat /\ call[s].to \in Rows
      /\ call[s].cart[1].qty <= call[s].seen[call[s].cart[1].row]
      /\ call[s].seen \in [Rows -> Nat] /\ stock \in [Rows -> Nat]
  BY OneEntry, CallFields DEF MoveWrites, At, TypeOK
<1>2. PICK r \in Rows, to \in Rows, q \in Nat :
        r = call[s].cart[1].row /\ q = call[s].cart[1].qty /\ to = call[s].to
  BY <1>1
<1>3. /\ stock' = [stock EXCEPT ![r] = call[s].seen[r] - q, ![to] = @ + q]
      /\ Write(<< Entry("move", NoOrder, r, to, q, OnHand(stock', KeyOf[to])) >>)
      /\ End(s) /\ UNCHANGED <<status, items>>
  BY <1>2 DEF MoveWrites
<1>4. stock' \in [Rows -> Nat]
  <2>1. call[s].seen[r] - q \in Nat
    BY <1>1, <1>2
  <2> QED BY <1>1, <1>3, <2>1
<1>5. "move" \in Kinds /\ q \in Int
  BY DEF Kinds
<1> QED BY <1>3, <1>4, <1>5, WritesOne

(* A count replaces a quantity by a natural.                                 *)
LEMMA CountType ==
  ASSUME TypeOK, NEW s \in Sessions, NEW r \in Rows, NEW q \in CountedQty, Count(s, r, q)
  PROVE  TypeOK'
<1>1. q \in Nat /\ stock \in [Rows -> Nat]
  BY OutboundConstants DEF TypeOK
<1>2. stock' \in [Rows -> Nat] /\ q - stock[r] \in Int
  BY <1>1 DEF Count
<1> QED BY <1>2, WritesOne DEF Count, Kinds

(* A history row is not deleted where undoing it would go below zero.        *)
LEMMA DeleteHistoryType ==
  ASSUME TypeOK, NEW s \in Sessions, NEW i \in DOMAIN log, DeleteHistory(s, i)
  PROVE  TypeOK'
<1> DEFINE e == log[i]
<1>1. e \in Entries /\ log \in Seq(Entries)
  BY LenProperties, ElementOfSeq DEF TypeOK
<1>2. e.row \in Rows /\ e.to \in Rows /\ e.qty \in Int /\ stock \in [Rows -> Int]
  BY <1>1 DEF Entries, TypeOK
<1>3. stock' = Undone(e) /\ (\A r \in Rows : stock'[r] >= 0) /\ log' = RemoveAt(log, i)
      /\ UNCHANGED <<items, call>>
  BY DEF DeleteHistory
<1>4. \/ status' = [status EXCEPT ![e.order] = "deleted"]
      \/ UNCHANGED status
  BY DEF DeleteHistory
<1> HIDE DEF e
<1>5. Undone(e) \in [Rows -> Int]
  BY <1>2 DEF Undone
<1>6. stock' \in [Rows -> Nat]
  BY <1>3, <1>5
<1>7. log' \in Seq(Entries)
  BY <1>1, <1>3, RemoveAtFacts
<1>8. /\ status' \in [Orders -> Statuses] /\ \A p \in Orders : status[p] # "none" => status'[p] # "none"
  BY <1>4, Marks DEF TypeOK, Statuses
<1> QED BY <1>3, <1>6, <1>7, <1>8, Writes DEF TypeOK

(* Deleting a history row alone leaves the stock alone.                      *)
LEMMA DropHistoryType ==
  ASSUME TypeOK, NEW s \in Sessions, NEW i \in DOMAIN log, DropHistory(s, i)
  PROVE  TypeOK'
<1>1. log' \in Seq(Entries)
  BY RemoveAtFacts DEF DropHistory, TypeOK
<1> QED BY <1>1, Writes DEF DropHistory, TypeOK

-----------------------------------------------------------------------------
(* The tables start with their types.                                        *)
LEMMA StartType ==
  ASSUME Init
  PROVE  TypeOK
<1>1. /\ stock \in [Rows -> Nat] /\ status \in [Orders -> Statuses]
      /\ items \in [Orders -> Seq(CartEntry)] /\ log \in Seq(Entries)
  <2>1. << >> \in Seq(CartEntry) /\ << >> \in Seq(Entries)
    BY EmptySeq
  <2> QED BY <2>1, OutboundConstants DEF Init, Statuses
<1>2. call \in [Sessions -> Calls] /\ \A s \in Sessions : call[s] = NoCall
  BY NoCallType DEF Init
<1>3. Covered(NoCall)
  BY DEF Covered, NoCall
<1> QED BY <1>1, <1>2, <1>3 DEF TypeOK

(* Every step keeps them.                                                    *)
LEMMA StepType ==
  ASSUME TypeOK, [Next]_vars
  PROVE  TypeOK'
<1>1. ASSUME NEW s \in Sessions, CallStep(s) PROVE TypeOK'
  <2>1. CASE \E cart \in Carts : SaveReadsRows(s, cart)
    BY <2>1, SaveReadsRowsType
  <2>2. CASE SaveReadsTotal(s)
    BY <2>2, SaveReadsTotalType
  <2>3. CASE \E o \in Orders : SaveWrites(s, o)
    BY <2>3, SaveWritesType
  <2>4. CASE \E o \in Orders, cart \in Carts : EditReadsStatus(s, o, cart)
    BY <2>4, EditReadsStatusType
  <2>5. CASE EditReadsItems(s)
    BY <2>5, EditReadsItemsType
  <2>6. CASE EditReadsRows(s)
    BY <2>6, EditReadsRowsType
  <2>7. CASE EditChecksHistory(s)
    BY <2>7, EditChecksHistoryType
  <2>8. CASE EditWrites(s)
    BY <2>8, EditWritesType
  <2>9. CASE \E o \in Orders : CancelReadsStatus(s, o)
    BY <2>9, CancelReadsStatusType
  <2>10. CASE CancelReadsLog(s)
    BY <2>10, CancelReadsLogType
  <2>11. CASE CancelMarks(s)
    BY <2>11, CancelMarksType
  <2>12. CASE CancelReadsItems(s)
    BY <2>12, CancelReadsItemsType
  <2>13. CASE CancelReadsRow(s)
    BY <2>13, CancelReadsRowType
  <2>14. CASE CancelWrites(s)
    BY <2>14, CancelWritesType
  <2>15. CASE \E r \in Rows, q \in ReceivedQty : ReceiveReads(s, r, q)
    BY <2>15, ReceiveReadsType
  <2>16. CASE ReceiveWrites(s)
    BY <2>16, ReceiveWritesType
  <2>17. CASE \E r, to \in Rows : \E q \in 1 .. stock[r] : MoveReads(s, r, to, q)
    BY <2>17, MoveReadsType
  <2>18. CASE MoveWrites(s)
    BY <2>18, MoveWritesType
  <2>19. CASE \E r \in Rows, q \in CountedQty : Count(s, r, q)
    BY <2>19, CountType
  <2>20. CASE \E i \in DOMAIN log : DeleteHistory(s, i) \/ DropHistory(s, i)
    BY <2>20, DeleteHistoryType, DropHistoryType
  <2>21. CASE Abandon(s)
    BY <2>21, AbandonType
  <2> QED BY <1>1, <2>1, <2>2, <2>3, <2>4, <2>5, <2>6, <2>7, <2>8, <2>9, <2>10, <2>11, <2>12,
             <2>13, <2>14, <2>15, <2>16, <2>17, <2>18, <2>19, <2>20, <2>21 DEF CallStep
<1>2. CASE UNCHANGED vars
  BY <1>2 DEF vars, TypeOK, Covered
<1> QED BY <1>1, <1>2 DEF Next

(* Whatever the sessions do, and however their calls overlap, every table    *)
(* keeps its columns' types: no call ever leaves a stock row below zero,     *)
(* although it writes quantities computed from a stock that may have gone.   *)
THEOREM StockNeverNegative == Spec => []TypeOK
<1>1. Init => TypeOK
  BY StartType
<1>2. TypeOK /\ [Next]_vars => TypeOK'
  BY StepType
<1> QED BY <1>1, <1>2, PTL DEF Spec

-----------------------------------------------------------------------------
(* Sums over the rows of a key.                                              *)

KeyRows(k) == {r \in Rows : KeyOf[r] = k}

(* A key has finitely many rows.                                             *)
LEMMA KeyRowsFinite == \A k : IsFiniteSet(KeyRows(k)) /\ KeyRows(k) \subseteq Rows
  BY OutboundConstants, FS_Subset DEF KeyRows

(* A key whose rows did not change has what it had.                          *)
LEMMA HandSame ==
  ASSUME NEW t, NEW u, NEW k, \A r \in Rows : KeyOf[r] = k => u[r] = t[r]
  PROVE  OnHand(u, k) = OnHand(t, k)
<1>1. \A r \in KeyRows(k) : u[r] = t[r]
  BY DEF KeyRows
<1>2. SumFunctionOnSet(u, KeyRows(k)) = SumFunctionOnSet(t, KeyRows(k))
  BY ONLY <1>1, KeyRowsFinite, SumSame
<1> QED BY <1>2 DEF OnHand, KeyRows

(* Adding two tables adds what they say of a key.                            *)
LEMMA HandPlus ==
  ASSUME NEW t, NEW d, NEW u, NEW k,
         \A r \in Rows : t[r] \in Int /\ d[r] \in Int /\ u[r] = t[r] + d[r]
  PROVE  OnHand(u, k) = OnHand(t, k) + OnHand(d, k)
<1>1. \A r \in KeyRows(k) : t[r] \in Int /\ d[r] \in Int /\ u[r] = t[r] + d[r]
  BY KeyRowsFinite
<1>2. SumFunctionOnSet(u, KeyRows(k)) = SumFunctionOnSet(t, KeyRows(k)) + SumFunctionOnSet(d, KeyRows(k))
  BY ONLY <1>1, KeyRowsFinite, SumPlus
<1> QED BY <1>2 DEF OnHand, KeyRows

(* What changes one row changes its key by as much.                          *)
RowChanges(t, u, a) ==
  \A r \in Rows : t[r] \in Int /\ u[r] \in Int /\ (r # a => u[r] = t[r])
LEMMA OneRow ==
  ASSUME NEW t, NEW u, NEW a \in Rows, NEW k, RowChanges(t, u, a)
  PROVE  /\ OnHand(t, k) \in Int
         /\ KeyOf[a] = k => OnHand(u, k) = OnHand(t, k) + (u[a] - t[a])
         /\ KeyOf[a] # k => OnHand(u, k) = OnHand(t, k)
<1>0. \A r \in Rows : t[r] \in Int /\ u[r] \in Int /\ (r # a => u[r] = t[r])
  BY DEF RowChanges
<1>1. IsFiniteSet(KeyRows(k)) /\ \A r \in KeyRows(k) : t[r] \in Int /\ u[r] \in Int
  BY <1>0, KeyRowsFinite
<1>4. OnHand(t, k) \in Int
  <2>1. SumFunctionOnSet(t, KeyRows(k)) \in Int
    BY <1>1, SumIn
  <2> QED BY <2>1 DEF OnHand, KeyRows
<1>2. CASE KeyOf[a] = k
  <2> DEFINE rest == KeyRows(k) \ {a}
  <2>1. a \in KeyRows(k)
    BY <1>2 DEF KeyRows
  <2>2. /\ SumFunctionOnSet(t, KeyRows(k)) = t[a] + SumFunctionOnSet(t, rest)
        /\ SumFunctionOnSet(u, KeyRows(k)) = u[a] + SumFunctionOnSet(u, rest)
    BY <1>1, <2>1, SumSplit
  <2>3. IsFiniteSet(rest) /\ \A r \in rest : u[r] = t[r] /\ t[r] \in Int
    BY <1>0, <1>1, KeyRowsFinite, FS_Subset
  <2>4. SumFunctionOnSet(u, rest) = SumFunctionOnSet(t, rest) /\ SumFunctionOnSet(t, rest) \in Int
    <3> HIDE DEF rest
    <3> QED BY <2>3, SumSame, SumIn
  <2>5. u[a] \in Int /\ t[a] \in Int
    BY <1>0
  <2> HIDE DEF rest
  <2>6. SumFunctionOnSet(u, KeyRows(k)) = SumFunctionOnSet(t, KeyRows(k)) + (u[a] - t[a])
    BY <2>2, <2>4, <2>5
  <2> QED BY <1>2, <1>4, <2>6 DEF OnHand, KeyRows
<1>3. CASE KeyOf[a] # k
  <2>1. \A r \in Rows : KeyOf[r] = k => u[r] = t[r]
    BY <1>0, <1>3
  <2>2. OnHand(u, k) = OnHand(t, k)
    BY <2>1, HandSame
  <2> QED BY <1>3, <1>4, <2>2
<1> QED BY <1>2, <1>3

(* The next entry of a cart asks its row, and its key, for its quantity.     *)
LEMMA NextEntry ==
  ASSUME NEW cart \in Seq(CartEntry), NEW n \in Nat, n + 1 <= Len(cart), NEW r
  PROVE  /\ Upto(cart, n + 1, r) = Upto(cart, n, r) + (IF cart[n + 1].row = r THEN cart[n + 1].qty ELSE 0)
         /\ KeyUpto(cart, n + 1, r) =
              KeyUpto(cart, n, r) + (IF KeyOf[cart[n + 1].row] = r THEN cart[n + 1].qty ELSE 0)
<1>1. /\ Len(cart) \in Nat /\ DOMAIN cart = 1 .. Len(cart)
      /\ \A i \in 1 .. Len(cart) : cart[i].qty \in Nat
  BY CartFacts
<1>2. n + 1 \in 1 .. Len(cart) /\ Qty(cart)[n + 1] = cart[n + 1].qty /\ cart[n + 1].qty \in Nat
  BY <1>1 DEF Qty
<1>3. ASSUME NEW S, NEW T, S \subseteq 1 .. n, T = S \cup {n + 1}
      PROVE  SumFunctionOnSet(Qty(cart), T) = SumFunctionOnSet(Qty(cart), S) + cart[n + 1].qty
  <2>1. IsFiniteSet(T) /\ T \subseteq 1 .. Len(cart) /\ S \subseteq 1 .. Len(cart)
    <3>1. 1 .. n \subseteq 1 .. Len(cart)
      BY <1>1
    <3>2. T \subseteq 1 .. Len(cart) /\ S \subseteq 1 .. Len(cart)
      BY <1>2, <1>3, <3>1
    <3>3. IsFiniteSet(1 .. Len(cart))
      BY <1>1, FS_Interval
    <3> QED BY <3>2, <3>3, FS_Subset
  <2>2. \A i \in T : Qty(cart)[i] \in Int
    BY <1>1, <2>1 DEF Qty
  <2>3. n + 1 \in T /\ T \ {n + 1} = S
    BY <1>3
  <2>4. SumFunctionOnSet(Qty(cart), T) = Qty(cart)[n + 1] + SumFunctionOnSet(Qty(cart), S)
    <3>0. IsFiniteSet(T)
      BY <2>1
    <3>1. PICK p \in T : p = n + 1
      BY <2>3
    <3>2. SumFunctionOnSet(Qty(cart), T) = Qty(cart)[p] + SumFunctionOnSet(Qty(cart), T \ {p})
      BY ONLY p \in T, <3>0, <2>2, SumSplit
    <3> QED BY <2>3, <3>1, <3>2
  <2>5. SumFunctionOnSet(Qty(cart), S) \in Nat
    BY ONLY cart \in Seq(CartEntry), <2>1, PartType
  <2> QED BY <1>2, <2>4, <2>5
<1>4. ASSUME NEW S, S \subseteq 1 .. n
      PROVE  SumFunctionOnSet(Qty(cart), S) \in Nat
  <2>1. 1 .. n \subseteq 1 .. Len(cart)
    BY <1>1
  <2>2. S \subseteq 1 .. Len(cart)
    BY <1>4, <2>1
  <2> QED BY ONLY cart \in Seq(CartEntry), <2>2, PartType
<1> DEFINE R(m) == {i \in 1 .. m : cart[i].row = r}
           K(m) == {i \in 1 .. m : KeyOf[cart[i].row] = r}
<1>5. /\ R(n) \subseteq 1 .. n /\ K(n) \subseteq 1 .. n
      /\ R(n + 1) = IF cart[n + 1].row = r THEN R(n) \cup {n + 1} ELSE R(n)
      /\ K(n + 1) = IF KeyOf[cart[n + 1].row] = r THEN K(n) \cup {n + 1} ELSE K(n)
  OBVIOUS
<1>6. /\ Upto(cart, n, r) = SumFunctionOnSet(Qty(cart), R(n))
      /\ Upto(cart, n + 1, r) = SumFunctionOnSet(Qty(cart), R(n + 1))
      /\ KeyUpto(cart, n, r) = SumFunctionOnSet(Qty(cart), K(n))
      /\ KeyUpto(cart, n + 1, r) = SumFunctionOnSet(Qty(cart), K(n + 1))
  BY DEF Upto, KeyUpto
<1> HIDE DEF R, K
<1> QED BY <1>3, <1>4, <1>5, <1>6

(* Nothing is asked of a row that is not in the cart, nor by no entries.     *)
LEMMA NotAsked ==
  ASSUME NEW cart \in Seq(CartEntry), NEW n \in 0 .. Len(cart), NEW r, n = 0 \/ r \notin RowsIn(cart)
  PROVE  Upto(cart, n, r) = 0
<1>1. {i \in 1 .. n : cart[i].row = r} = {}
  BY CartFacts DEF RowsIn
<1> QED BY <1>1, SumEmpty DEF Upto

(* What a cart asks of the rows of a key is what it asks of the key.         *)
AskedOfRows(cart, n) == [r \in Rows |-> Upto(cart, n, r)]
LEMMA KeyAsked ==
  ASSUME NEW cart \in Seq(CartEntry), NEW k
  PROVE  OnHand(AskedOfRows(cart, Len(cart)), k) = KeyUpto(cart, Len(cart), k)
<1> DEFINE N == {n \in Nat : n <= Len(cart) => OnHand(AskedOfRows(cart, n), k) = KeyUpto(cart, n, k)}
<1>0. Len(cart) \in Nat
  BY CartFacts
<1>1. 0 \in N
  <2>1. AskedOfRows(cart, 0) = [r \in Rows |-> 0]
    BY <1>0, NotAsked DEF AskedOfRows
  <2> DEFINE z == [r \in Rows |-> 0]
  <2>2. OnHand(z, k) = OnHand(z, k) + OnHand(z, k)
    BY HandPlus
  <2>3. OnHand(z, k) \in Nat
    BY OnHandType
  <2>4. {i \in 1 .. 0 : KeyOf[cart[i].row] = k} = {}
    OBVIOUS
  <2>5. KeyUpto(cart, 0, k) = 0
    BY <2>4, SumEmpty DEF KeyUpto
  <2> HIDE DEF z
  <2>6. OnHand(z, k) = 0
    BY <2>2, <2>3
  <2> QED BY <2>1, <2>5, <2>6 DEF z
<1>2. ASSUME NEW n \in Nat, n \in N PROVE n + 1 \in N
  <2> SUFFICES ASSUME n + 1 <= Len(cart)
               PROVE  OnHand(AskedOfRows(cart, n + 1), k) = KeyUpto(cart, n + 1, k)
    OBVIOUS
  <2> DEFINE e == cart[n + 1]
             t == AskedOfRows(cart, n)
             u == AskedOfRows(cart, n + 1)
  <2>1. e.row \in Rows /\ e.qty \in Int
    BY <1>0, CartFacts
  <2>2. ASSUME NEW r \in Rows
        PROVE  t[r] \in Int /\ u[r] = IF r = e.row THEN t[r] + e.qty ELSE t[r]
    <3>1. n \in 0 .. Len(cart)
      BY <1>0
    <3>2. Upto(cart, n, r) \in Nat
      BY <3>1, RequestedType
    <3>3. Upto(cart, n + 1, r) = Upto(cart, n, r) + (IF e.row = r THEN e.qty ELSE 0)
      BY NextEntry
    <3> QED BY <2>1, <3>2, <3>3 DEF AskedOfRows
  <2>3. OnHand(t, k) = KeyUpto(cart, n, k)
    BY <1>0, <1>2
  <2>4. KeyUpto(cart, n + 1, k) = KeyUpto(cart, n, k) + (IF KeyOf[e.row] = k THEN e.qty ELSE 0)
    BY NextEntry
  <2> HIDE DEF e, t, u
  <2>5. OnHand(u, k) = OnHand(t, k) + (IF KeyOf[e.row] = k THEN e.qty ELSE 0)
    <3>1. RowChanges(t, u, e.row)
      BY <2>1, <2>2 DEF RowChanges
    <3>2. /\ OnHand(t, k) \in Int
          /\ KeyOf[e.row] = k => OnHand(u, k) = OnHand(t, k) + (u[e.row] - t[e.row])
          /\ KeyOf[e.row] # k => OnHand(u, k) = OnHand(t, k)
      BY ONLY <2>1, <3>1, OneRow
    <3>3. u[e.row] - t[e.row] = e.qty
      BY <2>1, <2>2
    <3> QED BY <2>1, <3>2, <3>3
  <2> QED BY <2>3, <2>4, <2>5 DEF u
<1>3. Nat \subseteq N
  <2> HIDE DEF N
  <2> QED BY <1>1, <1>2, NatSetInduction
<1> QED BY <1>0, <1>3

-----------------------------------------------------------------------------
(* Sessions that work on different stock keys.                               *)

Apart == \A s, t \in Sessions : s # t => Handles[s] \cap Handles[t] = {}

(* Between calls: an order that was saved and not cancelled names goods, no  *)
(* order counts as deleted, and a move moved a natural number of units from  *)
(* one row to another.                                                       *)
Upward(e) == e.kind = "move" => e.qty \in Nat /\ e.row # e.to
MovesUp(table) == \A i \in DOMAIN table : Upward(table[i])
Orderly ==
  /\ \A o \in Orders : /\ status[o] \in {"none", "cancelled"} \cup Active
                       /\ status[o] \in Active => items[o] # << >>
  /\ MovesUp(log)

(* What a call of a session has read is still so, and lies on its own keys.  *)
Fresh(c, S) == \A r \in S : c.seen[r] = stock[r]
SaveCurrent(s, c) ==
  c.pc \in {"save_total", "save"} =>
    /\ c.cart # << >> /\ Handled(s, c.cart) /\ Fresh(c, RowsIn(c.cart))
    /\ c.pc = "save" => \A r \in RowsIn(c.cart) : c.total[KeyOf[r]] = OnHand(stock, KeyOf[r])
OrderCurrent(s, c) ==
  c.pc \in HasOrder =>
    /\ status[c.order] \in Active /\ Handled(s, items[c.order])
    /\ c.pc \in {"edit_rows", "edit_check", "edit", "cancel_row", "cancel"} => c.old = items[c.order]
EditCurrent(s, c) ==
  /\ c.pc \in {"edit_items", "edit_rows", "edit_check", "edit"} => c.cart # << >> /\ Handled(s, c.cart)
  /\ c.pc \in {"edit_check", "edit"} => Fresh(c, RowsIn(c.cart) \cup RowsIn(c.old))
CancelCurrent(c) == c.pc = "cancel" => Fresh(c, {c.old[1].row})
MoveCurrent(s, c) ==
  /\ c.pc \in {"in", "move"} => KeyOf[c.cart[1].row] \in Handles[s]
  /\ c.pc = "move" => /\ KeyOf[c.to] \in Handles[s] /\ c.to # c.cart[1].row
                      /\ Fresh(c, {c.cart[1].row})
Current(s, c) ==
  SaveCurrent(s, c) /\ OrderCurrent(s, c) /\ EditCurrent(s, c) /\ CancelCurrent(c) /\ MoveCurrent(s, c)

(* The inductive invariant of sessions apart.                                *)
ReadsCurrent == TypeOK /\ Orderly /\ \A s \in Sessions : Current(s, call[s])

(* What a step of session s leaves alone: the calls of the others, the stock *)
(* of their keys and the orders that name it.                                *)
OwnStep(s) ==
  /\ \A t \in Sessions \ {s} : call'[t] = call[t]
  /\ \A r \in Rows : KeyOf[r] \notin Handles[s] => stock'[r] = stock[r]
  /\ \A o \in Orders : status[o] # "none" /\ ~Handled(s, items[o])
                       => status'[o] = status[o] /\ items'[o] = items[o]

LEMMA CallKept ==
  ASSUME TypeOK, Orderly, Apart, NEW s \in Sessions, NEW t \in Sessions \ {s}, OwnStep(s),
         NEW c, c = call[t], Current(t, c)
  PROVE  Current(t, c)'
<1>1. \A r \in Rows : KeyOf[r] \in Handles[t] => stock'[r] = stock[r]
  BY DEF OwnStep, Apart
<1>2. /\ c \in Calls /\ Covered(c) /\ c.cart \in Seq(CartEntry) /\ c.old \in Seq(CartEntry) /\ c.to \in Rows
      /\ RowsIn(c.cart) \subseteq Rows /\ RowsIn(c.old) \subseteq Rows
  BY CallFields, CartFacts
<1>3. ASSUME NEW k \in Handles[t] PROVE OnHand(stock', k) = OnHand(stock, k)
  BY <1>1, <1>3, HandSame
<1>4. ASSUME NEW o \in Orders, status[o] \in Active, Handled(t, items[o])
      PROVE  status'[o] = status[o] /\ items'[o] = items[o] /\ items[o] # << >>
  <2>1. items[o] \in Seq(CartEntry) /\ items[o] # << >> /\ status[o] # "none"
    BY <1>4 DEF Orderly, TypeOK, Active
  <2>2. 1 \in DOMAIN items[o]
    BY <2>1, EmptySeq, LenProperties
  <2>3. items[o][1].row \in RowsIn(items[o])
    BY <2>2 DEF RowsIn
  <2>4. KeyOf[items[o][1].row] \in Handles[t]
    BY <1>4, <2>3 DEF Handled
  <2>5. KeyOf[items[o][1].row] \notin Handles[s]
    BY <2>4 DEF Apart
  <2>6. ~Handled(s, items[o])
    BY <2>3, <2>5 DEF Handled
  <2> QED BY <2>1, <2>6 DEF OwnStep
<1>5. SaveCurrent(t, c)'
  <2>1. SaveCurrent(t, c)
    BY DEF Current
  <2>2. c.pc \in {"save_total", "save"} => \A r \in RowsIn(c.cart) : KeyOf[r] \in Handles[t]
    BY <2>1 DEF SaveCurrent, Handled
  <2> QED BY <1>1, <1>2, <1>3, <2>1, <2>2 DEF SaveCurrent, Fresh
<1>6. OrderCurrent(t, c)'
  <2>1. OrderCurrent(t, c) /\ (c.pc \in HasOrder => c.order \in Orders)
    BY <1>2 DEF Current, Covered, HasOrder
  <2> QED BY <1>4, <2>1 DEF OrderCurrent
<1>7. EditCurrent(t, c)'
  <2>1. EditCurrent(t, c) /\ OrderCurrent(t, c)
    BY DEF Current
  <2>2. c.pc \in {"edit_check", "edit"} =>
          \A r \in RowsIn(c.cart) \cup RowsIn(c.old) : KeyOf[r] \in Handles[t]
    BY <2>1 DEF EditCurrent, OrderCurrent, HasOrder, Handled
  <2> QED BY <1>1, <1>2, <2>1, <2>2 DEF EditCurrent, Fresh
<1>8. CancelCurrent(c)'
  <2>1. CancelCurrent(c) /\ OrderCurrent(t, c) /\ (c.pc \in HasOrder => c.order \in Orders)
    BY <1>2 DEF Current, Covered, HasOrder
  <2>2. c.pc = "cancel" => Handled(t, c.old) /\ c.old # << >>
    BY <1>4, <2>1 DEF OrderCurrent, HasOrder
  <2>3. c.old # << >> => c.old[1].row \in RowsIn(c.old)
    BY <1>2, EmptySeq, LenProperties DEF RowsIn
  <2> QED BY <1>1, <1>2, <2>1, <2>2, <2>3 DEF CancelCurrent, Fresh, Handled
<1>9. MoveCurrent(t, c)'
  <2>1. MoveCurrent(t, c)
    BY DEF Current
  <2>2. c.pc = "move" => c.cart[1].row \in Rows
    BY OneEntry
  <2> QED BY <1>1, <2>1, <2>2 DEF MoveCurrent, Fresh
<1> QED BY <1>5, <1>6, <1>7, <1>8, <1>9 DEF Current

(* A step of one session leaves what the calls of the others have read.      *)
LEMMA OthersCurrent ==
  ASSUME ReadsCurrent, Apart, NEW s \in Sessions, NEW t \in Sessions \ {s}, OwnStep(s)
  PROVE  Current(t, call[t])'
<1>1. PICK c : c = call[t]
  OBVIOUS
<1>2. call'[t] = c /\ Current(t, c) /\ TypeOK /\ Orderly
  BY <1>1 DEF OwnStep, ReadsCurrent
<1>3. Current(t, c)'
  BY <1>1, <1>2, CallKept
<1> QED BY <1>2, <1>3 DEF Current, SaveCurrent, OrderCurrent, EditCurrent, CancelCurrent, MoveCurrent, Fresh

-----------------------------------------------------------------------------
(* What a step keeps.                                                        *)

(* The history rows a step writes say what the key then has.                 *)
FiledNow(k) == \E i \in Len(log) + 1 .. Len(log') : FiledUnder(log'[i]) = k
Recorded == \A k \in Keys : FiledNow(k) => LatestFinal(log', k) = OnHand(stock', k)
StaysCancelled == \A o \in Orders : status[o] = "cancelled" => status'[o] = "cancelled"
Ledged == Ledger!Next \/ UNCHANGED Ledger!ledger
GoodStep(s) ==
  Orderly' /\ Current(s, call[s])' /\ OwnStep(s) /\ Recorded /\ StaysCancelled /\ Ledged

(* What an order with status st and items it takes of key k.                 *)
TakenIn(st, it, k) == IF st \in Active THEN KeyUpto(it, Len(it), k) ELSE 0

(* The variables of the ledger.                                              *)
LEMMA LedgerAre ==
  /\ Ledger!ledger = << [k \in Keys |-> OnHand(stock, k)],
                        [o \in Orders |-> [k \in Keys |-> TakenIn(status[o], items[o], k)]] >>
  /\ Ledger!ledger' = << [k \in Keys |-> OnHand(stock', k)],
                         [o \in Orders |-> [k \in Keys |-> TakenIn(status'[o], items'[o], k)]] >>
  BY DEF Ledger!ledger, TakenBy, TakenIn

(* A call that only reads keeps everything, if what it has read is so.       *)
LEMMA ReadOnly ==
  ASSUME ReadsCurrent, NEW s \in Sessions, NEW c, Goto(s, c), Current(s, c)
  PROVE  GoodStep(s)
<1>1. /\ UNCHANGED <<stock, status, items, log>> /\ call' = [call EXCEPT ![s] = c]
      /\ call \in [Sessions -> Calls] /\ Orderly /\ log \in Seq(Entries)
  BY DEF Goto, ReadsCurrent, TypeOK
<1>2. call'[s] = c /\ \A t \in Sessions \ {s} : call'[t] = call[t]
  BY <1>1
<1>3. Current(s, call[s])'
  BY <1>1, <1>2 DEF Current, SaveCurrent, OrderCurrent, EditCurrent, CancelCurrent, MoveCurrent, Fresh
<1>4. Orderly'
  BY <1>1 DEF Orderly, MovesUp
<1>5. Recorded
  BY <1>1, LenProperties DEF Recorded, FiledNow
<1>6. UNCHANGED Ledger!ledger
  BY <1>1, LedgerAre
<1> QED BY <1>1, <1>2, <1>3, <1>4, <1>5, <1>6 DEF GoodStep, OwnStep, StaysCancelled, Ledged

(* A call that is over has read nothing.                                     *)
LEMMA Over ==
  ASSUME ReadsCurrent, NEW s \in Sessions, End(s) \/ (Idle(s) /\ UNCHANGED call)
  PROVE  Current(s, call[s])' /\ \A t \in Sessions \ {s} : call'[t] = call[t]
<1>1. call \in [Sessions -> Calls]
  BY DEF ReadsCurrent, TypeOK
<1>2. call'[s].pc = "idle" /\ \A t \in Sessions \ {s} : call'[t] = call[t]
  BY <1>1 DEF End, Idle, NoCall
<1> QED BY <1>2 DEF Current, SaveCurrent, OrderCurrent, EditCurrent, CancelCurrent, MoveCurrent, HasOrder

(* Rows written at the end of the history: the last one of a key decides.    *)
Listing(entries, n) == entries = [i \in 1 .. n |-> entries[i]]
LastOf(entries, n, k, m) ==
  /\ FiledUnder(entries[m]) = k /\ LatestFinal(log', k) = entries[m].final
  /\ \A j \in m + 1 .. n : FiledUnder(entries[j]) # k
MovesIn(entries, n) == \A m \in 1 .. n : Upward(entries[m])
LEMMA Appended ==
  ASSUME TypeOK, NEW n \in Nat, NEW entries, Listing(entries, n), log' = log \o entries
  PROVE  /\ MovesUp(log) /\ MovesIn(entries, n) => MovesUp(log')
         /\ \A k : FiledNow(k) => \E m \in 1 .. n : LastOf(entries, n, k, m)
<1>0. entries = [i \in 1 .. n |-> entries[i]]
  BY DEF Listing
<1> DEFINE U == Entries \cup {entries[i] : i \in 1 .. n}
<1>1. /\ log \in Seq(U) /\ Len(log) \in Nat /\ DOMAIN log = 1 .. Len(log)
      /\ entries \in Seq(U) /\ Len(entries) = n
  <2>1. log \in Seq(Entries)
    BY DEF TypeOK
  <2>2. /\ Len(log) \in Nat /\ DOMAIN log = 1 .. Len(log) /\ \A i \in 1 .. Len(log) : log[i] \in U
        /\ log = [i \in 1 .. Len(log) |-> log[i]]
    BY <2>1, LenProperties, ElementOfSeq
  <2>3. log \in [1 .. Len(log) -> U] /\ entries \in [1 .. n -> U]
    BY <1>0, <2>2
  <2> HIDE DEF U
  <2>4. log \in Seq(U) /\ entries \in Seq(U)
    BY <2>2, <2>3, SeqDef
  <2>5. DOMAIN entries = 1 .. n /\ DOMAIN entries = 1 .. Len(entries) /\ Len(entries) \in Nat
    BY <2>3, <2>4, LenProperties
  <2> QED BY <2>2, <2>4, <2>5
<1> HIDE DEF U
<1>2. /\ Len(log') = Len(log) + n /\ log' \in Seq(U)
      /\ \A i \in 1 .. Len(log) + n : log'[i] = IF i <= Len(log) THEN log[i] ELSE entries[i - Len(log)]
  BY <1>1, ConcatProperties
<1>3. DOMAIN log' = 1 .. Len(log) + n
  BY <1>2, LenProperties
<1>4. ASSUME MovesUp(log), MovesIn(entries, n)
      PROVE  MovesUp(log')
  <2> SUFFICES ASSUME NEW i \in 1 .. Len(log) + n PROVE Upward(log'[i])
    BY <1>3 DEF MovesUp
  <2>1. CASE i <= Len(log)
    BY <1>1, <1>2, <1>4, <2>1 DEF MovesUp
  <2>2. CASE ~(i <= Len(log))
    <3>1. i - Len(log) \in 1 .. n
      BY <1>1, <2>2
    <3> QED BY <1>2, <1>4, <2>2, <3>1 DEF MovesIn
  <2> QED BY <2>1, <2>2
<1>5. ASSUME NEW k, NEW i \in Len(log) + 1 .. Len(log'), FiledUnder(log'[i]) = k
      PROVE  \E m \in 1 .. n : LastOf(entries, n, k, m)
  <2> DEFINE H == History(log', k)
             M == Max(H)
  <2>1. H = {j \in 1 .. Len(log) + n : FiledUnder(log'[j]) = k}
    BY <1>3 DEF History
  <2>2. H \subseteq 0 .. Len(log) + n /\ i \in H /\ Len(log) + n \in Nat
    BY <1>1, <1>2, <1>5, <2>1
  <2> HIDE DEF H
  <2>3. M \in H /\ \A y \in H : M >= y
    BY <2>2, MaxIn
  <2>4. M \in 1 .. Len(log) + n /\ M >= i /\ FiledUnder(log'[M]) = k
    BY <2>1, <2>2, <2>3
  <2>5. LatestFinal(log', k) = log'[M].final
    BY DEF LatestFinal, H
  <2> HIDE DEF M
  <2> DEFINE m == M - Len(log)
  <2>6. m \in 1 .. n /\ log'[M] = entries[m]
    BY <1>1, <1>2, <1>5, <2>4
  <2>7. ASSUME NEW j \in m + 1 .. n PROVE FiledUnder(entries[j]) # k
    <3>1. Len(log) + j \in 1 .. Len(log) + n /\ ~(Len(log) + j <= Len(log)) /\ M < Len(log) + j
          /\ (Len(log) + j) - Len(log) = j
      BY <1>1, <2>4, <2>6, <2>7
    <3>2. log'[Len(log) + j] = entries[j]
      BY <1>2, <3>1
    <3>3. Len(log) + j \notin H
      BY <1>1, <2>3, <2>4, <3>1
    <3> QED BY <2>1, <3>1, <3>2, <3>3
  <2>8. LastOf(entries, n, k, m)
    BY <2>4, <2>5, <2>6, <2>7 DEF LastOf
  <2> QED BY <2>6, <2>8
<1> QED BY <1>4, <1>5 DEF FiledNow

(* A history row that is deleted is not written.                             *)
LEMMA Shorter ==
  ASSUME TypeOK, NEW i \in DOMAIN log, log' = RemoveAt(log, i), MovesUp(log)
  PROVE  MovesUp(log') /\ Recorded
<1>1. /\ log \in Seq(Entries) /\ Len(log) \in Nat /\ DOMAIN log = 1 .. Len(log)
  BY LenProperties DEF TypeOK
<1>2. /\ log' \in Seq(Entries) /\ Len(log') = Len(log) - 1
      /\ \A j \in 1 .. Len(log) - 1 : log'[j] = IF j < i THEN log[j] ELSE log[j + 1]
  BY <1>1, RemoveAtFacts
<1>3. DOMAIN log' = 1 .. Len(log) - 1
  BY <1>2, LenProperties
<1>4. MovesUp(log')
  <2> SUFFICES ASSUME NEW j \in 1 .. Len(log) - 1 PROVE Upward(log'[j])
    BY <1>3 DEF MovesUp
  <2>1. j \in DOMAIN log /\ j + 1 \in DOMAIN log
    BY <1>1
  <2> QED BY <1>2, <2>1 DEF MovesUp
<1> QED BY <1>1, <1>2, <1>4 DEF Recorded, FiledNow

-----------------------------------------------------------------------------
(* Steps of the ledger.                                                      *)

(* A step that changes the stock of one key only and no order.               *)
LEMMA Corrected ==
  ASSUME stock' \in [Rows -> Nat], UNCHANGED <<status, items>>, NEW k \in Keys,
         \A r \in Rows : KeyOf[r] # k => stock'[r] = stock[r]
  PROVE  Ledged
<1> DEFINE H == [j \in Keys |-> OnHand(stock, j)]
           G == [j \in Keys |-> OnHand(stock', j)]
<1>1. ASSUME NEW j \in Keys, j # k PROVE OnHand(stock', j) = OnHand(stock, j)
  BY <1>1, HandSame
<1>2. OnHand(stock', k) >= 0
  BY OnHandType
<1>3. G = [H EXCEPT ![k] = G[k]] /\ G[k] >= 0
  BY <1>1, <1>2
<1>4. [o \in Orders |-> TakenBy(o)]' = [o \in Orders |-> TakenBy(o)]
  BY DEF TakenBy
<1>5. Ledger!Correct(k)
  BY <1>3, <1>4 DEF Ledger!Correct
<1> QED BY <1>5 DEF Ledged, Ledger!Next

(* A step that takes units off one row and puts them on another.             *)
LEMMA Transferred ==
  ASSUME stock \in [Rows -> Nat], stock' \in [Rows -> Nat], UNCHANGED <<status, items>>,
         NEW a \in Rows, NEW b \in Rows \ {a}, NEW q \in Nat,
         stock' = [stock EXCEPT ![a] = @ - q, ![b] = @ + q]
  PROVE  Ledged
<1> DEFINE mid == [r \in Rows |-> IF r = a THEN stock[r] - q ELSE stock[r]]
           H == [j \in Keys |-> OnHand(stock, j)]
           G == [j \in Keys |-> OnHand(stock', j)]
<1>1. /\ RowChanges(stock, mid, a) /\ RowChanges(mid, stock', b)
      /\ mid[a] - stock[a] = - q /\ stock'[b] - mid[b] = q
  BY DEF RowChanges
<1> HIDE DEF mid
<1>2. ASSUME NEW k
      PROVE  /\ OnHand(stock, k) \in Nat /\ OnHand(stock', k) \in Nat
             /\ KeyOf[a] = k => OnHand(mid, k) = OnHand(stock, k) - q
             /\ KeyOf[a] # k => OnHand(mid, k) = OnHand(stock, k)
             /\ KeyOf[b] = k => OnHand(stock', k) = OnHand(mid, k) + q
             /\ KeyOf[b] # k => OnHand(stock', k) = OnHand(mid, k)
  <2>1. OnHand(stock, k) \in Nat /\ OnHand(stock', k) \in Nat
    BY OnHandType
  <2>2. /\ KeyOf[a] = k => OnHand(mid, k) = OnHand(stock, k) + (mid[a] - stock[a])
        /\ KeyOf[a] # k => OnHand(mid, k) = OnHand(stock, k)
    BY ONLY a \in Rows, <1>1, OneRow
  <2>3. /\ OnHand(mid, k) \in Int
        /\ KeyOf[b] = k => OnHand(stock', k) = OnHand(mid, k) + (stock'[b] - mid[b])
        /\ KeyOf[b] # k => OnHand(stock', k) = OnHand(mid, k)
    BY ONLY b \in Rows, <1>1, OneRow
  <2> QED BY <1>1, <2>1, <2>2, <2>3
<1>3. PICK x \in Keys, y \in Keys : x = KeyOf[a] /\ y = KeyOf[b]
  BY OutboundConstants
<1>4. [o \in Orders |-> TakenBy(o)]' = [o \in Orders |-> TakenBy(o)]
  BY DEF TakenBy
<1>5. CASE x = y
  <2>1. ASSUME NEW k \in Keys PROVE OnHand(stock', k) = OnHand(stock, k)
    <3>1. CASE KeyOf[a] = k
      <4>1. KeyOf[b] = k
        BY <1>3, <1>5, <3>1
      <4>2. /\ OnHand(mid, k) = OnHand(stock, k) - q /\ OnHand(stock', k) = OnHand(mid, k) + q
            /\ OnHand(stock, k) \in Nat
        BY <1>2, <3>1, <4>1
      <4> QED BY <4>2
    <3>2. CASE KeyOf[a] # k
      BY <1>2, <1>3, <1>5, <3>2
    <3> QED BY <3>1, <3>2
  <2>2. G = H
    BY <2>1
  <2> QED BY <1>4, <2>2 DEF Ledged, Ledger!ledger
<1>6. CASE x # y
  <2>0. ASSUME NEW k \in Keys
        PROVE  /\ G[k] = IF k = x THEN H[k] - q ELSE IF k = y THEN H[k] + q ELSE H[k]
               /\ G[k] \in Nat /\ H[k] \in Nat
    <3>1. G[k] = OnHand(stock', k) /\ H[k] = OnHand(stock, k)
      OBVIOUS
    <3> HIDE DEF G, H
    <3> QED BY <1>2, <1>3, <1>6, <3>1
  <2>1. \A k \in Keys : G[k] = IF k = x THEN H[k] - q ELSE IF k = y THEN H[k] + q ELSE H[k]
    BY <2>0
  <2>2. G[x] \in 0 .. H[x] /\ H[x] - G[x] = q
    <3>1. G[x] = H[x] - q /\ G[x] \in Nat /\ H[x] \in Nat
      BY <2>0
    <3> HIDE DEF G, H
    <3> QED BY <3>1
  <2>3. G = [[H EXCEPT ![x] = G[x]] EXCEPT ![y] = @ + (H[x] - G[x])]
    <3> DEFINE F == [[H EXCEPT ![x] = G[x]] EXCEPT ![y] = @ + (H[x] - G[x])]
    <3>1. \A k \in Keys : F[k] = IF k = y THEN H[y] + (H[x] - G[x]) ELSE IF k = x THEN G[x] ELSE H[k]
      BY <1>3, <1>6
    <3>2. \A k \in Keys : F[k] = G[k]
      <4> HIDE DEF F, G, H
      <4> QED BY <1>3, <1>6, <2>1, <2>2, <3>1
    <3> QED BY <3>2
  <2>4. Ledger!Transfer(x, y)
    BY <1>3, <1>4, <2>2, <2>3 DEF Ledger!Transfer
  <2> QED BY <1>3, <2>4 DEF Ledged, Ledger!Next
<1> QED BY <1>5, <1>6

(* A step that passes units between the stock and one order.                 *)
LEMMA Exchanged ==
  ASSUME stock' \in [Rows -> Nat], items' \in [Orders -> Seq(CartEntry)], NEW o \in Orders,
         \A p \in Orders \ {o} : status'[p] = status[p] /\ items'[p] = items[p],
         \A k \in Keys : OnHand(stock', k) + TakenIn(status'[o], items'[o], k)
                           = OnHand(stock, k) + TakenIn(status[o], items[o], k)
  PROVE  Ledged
<1> DEFINE H == [k \in Keys |-> OnHand(stock, k)]
           T == [p \in Orders |-> TakenBy(p)]
<1>1. \A p \in Orders : T[p] = [k \in Keys |-> TakenIn(status[p], items[p], k)]
  BY DEF TakenBy, TakenIn
<1>2. \A p \in Orders : T'[p] = [k \in Keys |-> TakenIn(status'[p], items'[p], k)]
  BY DEF TakenBy, TakenIn
<1>3. \A k \in Keys : H[k] = OnHand(stock, k) /\ H'[k] = OnHand(stock', k)
  OBVIOUS
<1>4. ASSUME NEW k \in Keys PROVE OnHand(stock', k) >= 0 /\ TakenIn(status'[o], items'[o], k) >= 0
  <2>1. Len(items'[o]) \in 0 .. Len(items'[o])
    BY CartFacts
  <2>2. KeyUpto(items'[o], Len(items'[o]), k) \in Nat
    BY <2>1, RequestedType
  <2> QED BY <2>2, OnHandType DEF TakenIn
<1>5. \A p \in Orders \ {o} : T'[p] = T[p]
  BY <1>1, <1>2
<1>6. ASSUME NEW k \in Keys
      PROVE  /\ H'[k] >= 0 /\ T'[o][k] >= 0
             /\ H'[k] + T'[o][k] = H[k] + T[o][k]
  <2>1. /\ T[o][k] = TakenIn(status[o], items[o], k)
        /\ T'[o][k] = TakenIn(status'[o], items'[o], k)
    BY <1>1, <1>2
  <2>2. /\ OnHand(stock', k) >= 0 /\ TakenIn(status'[o], items'[o], k) >= 0
        /\ OnHand(stock', k) + TakenIn(status'[o], items'[o], k)
              = OnHand(stock, k) + TakenIn(status[o], items[o], k)
    BY <1>4
  <2> HIDE DEF H, T
  <2> QED BY <1>3, <2>1, <2>2
<1>7. Ledger!Exchange(o)
  BY <1>5, <1>6 DEF Ledger!Exchange
<1> QED BY <1>7 DEF Ledged, Ledger!Next

(* An order whose stock counts as restored takes nothing from then on.       *)
LEMMA Forgotten ==
  ASSUME UNCHANGED <<stock, items>>, status \in [Orders -> Statuses], NEW o \in Orders,
         status' = [status EXCEPT ![o] = "cancelled"]
  PROVE  Ledged
<1> DEFINE T == [p \in Orders |-> TakenBy(p)]
<1>1. \A p \in Orders : T'[p] = IF p = o THEN [k \in Keys |-> 0] ELSE T[p]
  BY DEF TakenBy, Active
<1>2. T' = [T EXCEPT ![o] = [k \in Keys |-> 0]]
  BY <1>1
<1>3. [k \in Keys |-> OnHand(stock, k)]' = [k \in Keys |-> OnHand(stock, k)]
  OBVIOUS
<1>4. Ledger!Forget(o)
  BY <1>2, <1>3 DEF Ledger!Forget
<1> QED BY <1>4 DEF Ledged, Ledger!Next

-----------------------------------------------------------------------------
(* The steps that only read.                                                 *)

LEMMA ReadSeen ==
  ASSUME NEW S, S \subseteq Rows
  PROVE  \A r \in S : ReadRows(S)[r] = stock[r]
  BY DEF ReadRows

(* Saving reads the rows of its cart ...                                     *)
LEMMA SaveReadsRowsGood ==
  ASSUME ReadsCurrent, NEW s \in Sessions, NEW cart \in Carts, SaveReadsRows(s, cart)
  PROVE  GoodStep(s)
<1> DEFINE c == [NoCall EXCEPT !.pc = "save_total", !.cart = cart, !.seen = ReadRows(RowsIn(cart))]
<1>1. c.pc = "save_total" /\ c.cart = cart /\ c.seen = ReadRows(RowsIn(cart))
  BY DEF NoCall
<1>2. Goto(s, c) /\ Handled(s, cart)
  BY DEF SaveReadsRows
<1> HIDE DEF c
<1>3. cart # << >> /\ RowsIn(cart) \subseteq Rows
  BY OutboundConstants, CartFacts
<1>4. Fresh(c, RowsIn(cart))
  BY <1>1, <1>3, ReadSeen DEF Fresh
<1>5. Current(s, c)
  BY <1>1, <1>2, <1>3, <1>4
     DEF Current, SaveCurrent, OrderCurrent, EditCurrent, CancelCurrent, MoveCurrent, HasOrder
<1> QED BY <1>2, <1>5, ReadOnly

(* ... and then the totals of their keys.                                    *)
LEMMA SaveReadsTotalGood ==
  ASSUME ReadsCurrent, NEW s \in Sessions, SaveReadsTotal(s)
  PROVE  GoodStep(s)
<1> DEFINE cart == call[s].cart
           keys == {KeyOf[r] : r \in RowsIn(cart)}
           total == [k \in Keys |-> IF k \in keys THEN OnHand(stock, k) ELSE 0]
           c == [call[s] EXCEPT !.pc = "save", !.total = total]
<1>1. /\ call[s] \in Calls /\ call[s].pc = "save_total" /\ SaveCurrent(s, call[s])
      /\ RowsIn(cart) \subseteq Rows
  BY CallFields, CartFacts DEF SaveReadsTotal, At, ReadsCurrent, Current
<1>2. c.pc = "save" /\ c.cart = cart /\ c.seen = call[s].seen /\ c.total = total
  <2> HIDE DEF total
  <2> QED BY <1>1 DEF Calls
<1>3. Goto(s, c)
  BY DEF SaveReadsTotal
<1>4. \A r \in RowsIn(cart) : total[KeyOf[r]] = OnHand(stock, KeyOf[r])
  BY <1>1, OutboundConstants
<1> HIDE DEF c, total
<1>5. cart # << >> /\ Handled(s, cart) /\ Fresh(c, RowsIn(cart))
  BY <1>1, <1>2 DEF SaveCurrent, Fresh
<1>6. Current(s, c)
  BY <1>2, <1>4, <1>5
     DEF Current, SaveCurrent, OrderCurrent, EditCurrent, CancelCurrent, MoveCurrent, HasOrder
<1> QED BY <1>3, <1>6, ReadOnly

(* An order that is neither free nor cancelled is active.                    *)
LEMMA OpenOrder ==
  ASSUME ReadsCurrent, NEW o \in Orders, status[o] \notin {"none", "cancelled"}
  PROVE  status[o] \in Active
  BY DEF ReadsCurrent, Orderly

(* An edit starts with an active order ...                                   *)
LEMMA EditReadsStatusGood ==
  ASSUME ReadsCurrent, NEW s \in Sessions, NEW o \in Orders, NEW cart \in Carts,
         EditReadsStatus(s, o, cart)
  PROVE  GoodStep(s)
<1> DEFINE c == [NoCall EXCEPT !.pc = "edit_items", !.order = o, !.cart = cart]
<1>1. c.pc = "edit_items" /\ c.order = o /\ c.cart = cart
  BY DEF NoCall
<1>2. Goto(s, c) /\ Handled(s, cart) /\ Handled(s, items[o]) /\ status[o] \in Active
  BY OpenOrder DEF EditReadsStatus
<1>3. cart # << >>
  BY OutboundConstants
<1> HIDE DEF c
<1>4. Current(s, c)
  BY <1>1, <1>2, <1>3
     DEF Current, SaveCurrent, OrderCurrent, EditCurrent, CancelCurrent, MoveCurrent, HasOrder
<1> QED BY <1>2, <1>4, ReadOnly

(* ... reads its items ...                                                   *)
LEMMA EditReadsItemsGood ==
  ASSUME ReadsCurrent, NEW s \in Sessions, EditReadsItems(s)
  PROVE  GoodStep(s)
<1> DEFINE c == [call[s] EXCEPT !.pc = "edit_rows", !.old = items[call[s].order]]
<1>1. /\ call[s] \in Calls /\ call[s].pc = "edit_items" /\ Current(s, call[s])
  BY CallFields DEF EditReadsItems, At, ReadsCurrent
<1>2. /\ c.pc = "edit_rows" /\ c.cart = call[s].cart /\ c.order = call[s].order
      /\ c.old = items[c.order]
  BY <1>1 DEF Calls
<1>3. Goto(s, c)
  BY DEF EditReadsItems
<1> HIDE DEF c
<1>4. Current(s, c)
  BY <1>1, <1>2
     DEF Current, SaveCurrent, OrderCurrent, EditCurrent, CancelCurrent, MoveCurrent, HasOrder
<1> QED BY <1>3, <1>4, ReadOnly

(* ... reads the rows of both carts ...                                      *)
LEMMA EditReadsRowsGood ==
  ASSUME ReadsCurrent, NEW s \in Sessions, EditReadsRows(s)
  PROVE  GoodStep(s)
<1> DEFINE S == RowsIn(call[s].cart) \cup RowsIn(call[s].old)
           c == [call[s] EXCEPT !.pc = "edit_check", !.seen = ReadRows(S)]
<1>1. /\ call[s] \in Calls /\ call[s].pc = "edit_rows" /\ Current(s, call[s]) /\ S \subseteq Rows
  BY CallFields, CartFacts DEF EditReadsRows, At, ReadsCurrent
<1>2. /\ c.pc = "edit_check" /\ c.cart = call[s].cart /\ c.order = call[s].order
      /\ c.old = call[s].old /\ c.seen = ReadRows(S)
  <2> HIDE DEF S
  <2> QED BY <1>1 DEF Calls
<1>3. Goto(s, c)
  BY DEF EditReadsRows
<1>4. \A r \in S : ReadRows(S)[r] = stock[r]
  BY <1>1, ReadSeen
<1> HIDE DEF c
<1>5. Fresh(c, RowsIn(c.cart) \cup RowsIn(c.old))
  BY <1>2, <1>4 DEF Fresh
<1>6. Current(s, c)
  BY <1>1, <1>2, <1>5
     DEF Current, SaveCurrent, OrderCurrent, EditCurrent, CancelCurrent, MoveCurrent, HasOrder
<1> QED BY <1>3, <1>6, ReadOnly

(* ... and checks the history.                                               *)
LEMMA EditChecksHistoryGood ==
  ASSUME ReadsCurrent, NEW s \in Sessions, EditChecksHistory(s)
  PROVE  GoodStep(s)
<1> DEFINE c == [call[s] EXCEPT !.pc = "edit"]
<1>1. /\ call[s] \in Calls /\ call[s].pc = "edit_check" /\ Current(s, call[s])
  BY CallFields DEF EditChecksHistory, At, ReadsCurrent
<1>2. /\ c.pc = "edit" /\ c.cart = call[s].cart /\ c.order = call[s].order
      /\ c.old = call[s].old /\ c.seen = call[s].seen
  BY <1>1 DEF Calls
<1>3. Goto(s, c)
  BY DEF EditChecksHistory
<1> HIDE DEF c
<1>4. Current(s, c)
  BY <1>1, <1>2
     DEF Current, SaveCurrent, OrderCurrent, EditCurrent, CancelCurrent, MoveCurrent, HasOrder, Fresh
<1> QED BY <1>3, <1>4, ReadOnly

(* A cancellation starts with an active order ...                            *)
LEMMA CancelReadsStatusGood ==
  ASSUME ReadsCurrent, NEW s \in Sessions, NEW o \in Orders, CancelReadsStatus(s, o)
  PROVE  GoodStep(s)
<1> DEFINE c == [NoCall EXCEPT !.pc = "cancel_log", !.order = o]
<1>1. c.pc = "cancel_log" /\ c.order = o
  BY DEF NoCall
<1>2. Goto(s, c) /\ Handled(s, items[o]) /\ status[o] \in Active
  BY OpenOrder DEF CancelReadsStatus
<1> HIDE DEF c
<1>3. Current(s, c)
  BY <1>1, <1>2
     DEF Current, SaveCurrent, OrderCurrent, EditCurrent, CancelCurrent, MoveCurrent, HasOrder
<1> QED BY <1>2, <1>3, ReadOnly

(* ... looks for an earlier restoration ...                                  *)
LEMMA CancelReadsLogGood ==
  ASSUME ReadsCurrent, NEW s \in Sessions, CancelReadsLog(s)
  PROVE  GoodStep(s)
<1> DEFINE pc == IF AlreadyRestored(call[s].order) THEN "cancel_mark" ELSE "cancel_items"
           c == [call[s] EXCEPT !.pc = pc]
<1>1. /\ call[s] \in Calls /\ call[s].pc = "cancel_log" /\ Current(s, call[s])
  BY CallFields DEF CancelReadsLog, At, ReadsCurrent
<1>2. c.pc \in {"cancel_mark", "cancel_items"} /\ c.order = call[s].order
  BY <1>1 DEF Calls
<1>3. Goto(s, c)
  BY DEF CancelReadsLog
<1> HIDE DEF c
<1>4. Current(s, c)
  BY <1>1, <1>2
     DEF Current, SaveCurrent, OrderCurrent, EditCurrent, CancelCurrent, MoveCurrent, HasOrder
<1> QED BY <1>3, <1>4, ReadOnly

(* ... reads the items ...                                                   *)
LEMMA CancelReadsItemsGood ==
  ASSUME ReadsCurrent, NEW s \in Sessions, CancelReadsItems(s)
  PROVE  GoodStep(s)
<1> DEFINE c == [call[s] EXCEPT !.pc = "cancel_row", !.old = items[call[s].order]]
<1>1. /\ call[s] \in Calls /\ call[s].pc = "cancel_items" /\ Current(s, call[s])
  BY CallFields DEF CancelReadsItems, At, ReadsCurrent
<1>2. c.pc = "cancel_row" /\ c.order = call[s].order /\ c.old = items[c.order]
  BY <1>1 DEF Calls
<1>3. Goto(s, c)
  BY DEF CancelReadsItems
<1> HIDE DEF c
<1>4. Current(s, c)
  BY <1>1, <1>2
     DEF Current, SaveCurrent, OrderCurrent, EditCurrent, CancelCurrent, MoveCurrent, HasOrder
<1> QED BY <1>3, <1>4, ReadOnly

(* The items of an active order begin with one.                              *)
LEMMA FirstItem ==
  ASSUME ReadsCurrent, NEW o \in Orders, status[o] \in Active
  PROVE  /\ items[o] \in Seq(CartEntry) /\ items[o] # << >> /\ 1 \in 1 .. Len(items[o])
         /\ items[o][1].row \in RowsIn(items[o]) /\ RowsIn(items[o]) \subseteq Rows
<1>1. items[o] \in Seq(CartEntry) /\ items[o] # << >>
  BY DEF ReadsCurrent, TypeOK, Orderly
<1>2. 1 \in 1 .. Len(items[o]) /\ DOMAIN items[o] = 1 .. Len(items[o])
  BY <1>1, EmptySeq, LenProperties
<1> QED BY <1>1, <1>2, CartFacts DEF RowsIn

(* ... and the row of the first.                                             *)
LEMMA CancelReadsRowGood ==
  ASSUME ReadsCurrent, NEW s \in Sessions, CancelReadsRow(s)
  PROVE  GoodStep(s)
<1> DEFINE S == {call[s].old[1].row}
           c == [call[s] EXCEPT !.pc = "cancel", !.seen = ReadRows(S)]
<1>1. /\ call[s] \in Calls /\ call[s].pc = "cancel_row" /\ Current(s, call[s]) /\ call[s].order \in Orders
  BY CallFields DEF CancelReadsRow, At, ReadsCurrent, Covered
<1>2. call[s].old = items[call[s].order] /\ status[call[s].order] \in Active
  BY <1>1 DEF Current, OrderCurrent, HasOrder
<1>3. S \subseteq Rows
  BY <1>1, <1>2, FirstItem
<1>4. /\ c.pc = "cancel" /\ c.order = call[s].order /\ c.old = call[s].old /\ c.seen = ReadRows(S)
  <2> HIDE DEF S
  <2> QED BY <1>1 DEF Calls
<1>5. Goto(s, c)
  BY DEF CancelReadsRow
<1>6. \A r \in S : ReadRows(S)[r] = stock[r]
  BY <1>3, ReadSeen
<1> HIDE DEF c
<1>7. Fresh(c, {c.old[1].row})
  BY <1>4, <1>6 DEF Fresh
<1>8. Current(s, c)
  BY <1>1, <1>4, <1>7
     DEF Current, SaveCurrent, OrderCurrent, EditCurrent, CancelCurrent, MoveCurrent, HasOrder
<1> QED BY <1>5, <1>8, ReadOnly

(* A receipt reads its row, a move its source.                               *)
LEMMA ReceiveReadsGood ==
  ASSUME ReadsCurrent, NEW s \in Sessions, NEW r \in Rows, NEW q, ReceiveReads(s, r, q)
  PROVE  GoodStep(s)
<1> DEFINE c == [NoCall EXCEPT !.pc = "in", !.cart = << [row |-> r, qty |-> q] >>, !.seen = ReadRows({r})]
<1>1. c.pc = "in" /\ c.cart[1].row = r
  BY DEF NoCall
<1>2. Goto(s, c) /\ KeyOf[r] \in Handles[s]
  BY DEF ReceiveReads
<1> HIDE DEF c
<1>3. Current(s, c)
  BY <1>1, <1>2
     DEF Current, SaveCurrent, OrderCurrent, EditCurrent, CancelCurrent, MoveCurrent, HasOrder
<1> QED BY <1>2, <1>3, ReadOnly

LEMMA MoveReadsGood ==
  ASSUME ReadsCurrent, NEW s \in Sessions, NEW r \in Rows, NEW to \in Rows, NEW q, MoveReads(s, r, to, q)
  PROVE  GoodStep(s)
<1> DEFINE c == [NoCall EXCEPT !.pc = "move", !.cart = << [row |-> r, qty |-> q] >>, !.to = to,
                               !.seen = ReadRows({r})]
<1>1. c.pc = "move" /\ c.cart[1].row = r /\ c.to = to /\ c.seen = ReadRows({r})
  BY DEF NoCall
<1>2. Goto(s, c) /\ KeyOf[r] \in Handles[s] /\ KeyOf[to] \in Handles[s] /\ r # to
  BY DEF MoveReads
<1> HIDE DEF c
<1>3. Fresh(c, {c.cart[1].row})
  BY <1>1, ReadSeen DEF Fresh
<1>4. Current(s, c)
  BY <1>1, <1>2, <1>3
     DEF Current, SaveCurrent, OrderCurrent, EditCurrent, CancelCurrent, MoveCurrent, HasOrder
<1> QED BY <1>2, <1>4, ReadOnly

LEMMA AbandonGood ==
  ASSUME ReadsCurrent, NEW s \in Sessions, Abandon(s)
  PROVE  GoodStep(s)
<1>1. NoCall.pc = "idle" /\ Goto(s, NoCall)
  BY DEF NoCall, Abandon
<1>2. Current(s, NoCall)
  BY <1>1 DEF Current, SaveCurrent, OrderCurrent, EditCurrent, CancelCurrent, MoveCurrent, HasOrder
<1> QED BY <1>1, <1>2, ReadOnly

-----------------------------------------------------------------------------
(* The steps that write.                                                     *)

(* Entries of other keys at a cart's end ask nothing of a key or its rows.   *)
LEMMA SameUpto ==
  ASSUME NEW cart \in Seq(CartEntry), NEW m \in 0 .. Len(cart), NEW k,
         \A j \in m + 1 .. Len(cart) : KeyOf[cart[j].row] # k
  PROVE  /\ KeyUpto(cart, Len(cart), k) = KeyUpto(cart, m, k)
         /\ \A r : KeyOf[r] = k => Upto(cart, Len(cart), r) = Upto(cart, m, r)
<1>1. Len(cart) \in Nat
  BY CartFacts
<1>2. ASSUME NEW j \in 1 .. Len(cart), KeyOf[cart[j].row] = k PROVE j \in 1 .. m
  BY <1>1, <1>2
<1>3. 1 .. m \subseteq 1 .. Len(cart)
  BY <1>1
<1>4. {i \in 1 .. Len(cart) : KeyOf[cart[i].row] = k} = {i \in 1 .. m : KeyOf[cart[i].row] = k}
  BY <1>2, <1>3
<1>5. ASSUME NEW r, KeyOf[r] = k
      PROVE  {i \in 1 .. Len(cart) : cart[i].row = r} = {i \in 1 .. m : cart[i].row = r}
  BY <1>2, <1>3, <1>5
<1> QED BY <1>4, <1>5 DEF KeyUpto, Upto

(* Saving an order takes from the stock what the order then holds, and its    *)
(* last history row of a key says what is left.                              *)
LEMMA SaveWritesGood ==
  ASSUME ReadsCurrent, NEW s \in Sessions, NEW o \in Orders, SaveWrites(s, o)
  PROVE  GoodStep(s)
<1> DEFINE c == call[s]
           n == Len(c.cart)
           final(i) == c.total[KeyOf[c.cart[i].row]] - KeyUpto(c.cart, i, KeyOf[c.cart[i].row])
           entries == [i \in DOMAIN c.cart |->
                         Entry("ship", o, c.cart[i].row, c.cart[i].row, c.cart[i].qty, final(i))]
<1>1. /\ TypeOK /\ Orderly /\ SaveCurrent(s, c) /\ c.pc = "save" /\ status[o] = "none"
      /\ stock \in [Rows -> Nat] /\ status \in [Orders -> Statuses] /\ items \in [Orders -> Seq(CartEntry)]
  BY DEF ReadsCurrent, Current, SaveWrites, At, TypeOK
<1>2. /\ c.cart \in Seq(CartEntry) /\ n \in Nat /\ DOMAIN c.cart = 1 .. n /\ RowsIn(c.cart) \subseteq Rows
      /\ \A i \in 1 .. n : c.cart[i].row \in Rows
  BY <1>1, CallFields, CartFacts
<1>3. /\ c.cart # << >> /\ Handled(s, c.cart) /\ \A r \in RowsIn(c.cart) : c.seen[r] = stock[r]
      /\ \A r \in RowsIn(c.cart) : c.total[KeyOf[r]] = OnHand(stock, KeyOf[r])
  BY <1>1 DEF SaveCurrent, Fresh
<1>4. /\ stock' = [r \in Rows |-> IF r \in RowsIn(c.cart) THEN c.seen[r] - Requested(c.cart, r) ELSE stock[r]]
      /\ items' = [items EXCEPT ![o] = c.cart] /\ status' = [status EXCEPT ![o] = "saved"]
      /\ log' = log \o entries /\ End(s)
  BY DEF SaveWrites, Write
<1>5. stock' \in [Rows -> Nat] /\ items' \in [Orders -> Seq(CartEntry)]
  BY <1>1, SaveWritesType DEF TypeOK
<1> HIDE DEF c
<1>6. ASSUME NEW k PROVE OnHand(stock, k) = OnHand(stock', k) + KeyUpto(c.cart, n, k)
  <2> DEFINE d == AskedOfRows(c.cart, n)
  <2>1. ASSUME NEW r \in Rows
        PROVE  stock'[r] \in Int /\ d[r] \in Int /\ stock[r] = stock'[r] + d[r]
    <3>1. n \in 0 .. Len(c.cart)
      BY <1>2
    <3>2. d[r] = Upto(c.cart, n, r) /\ d[r] \in Nat
      BY <1>2, <3>1, RequestedType DEF AskedOfRows
    <3>3. r \notin RowsIn(c.cart) => d[r] = 0
      BY <1>2, <3>1, <3>2, NotAsked
    <3>4. Requested(c.cart, r) = d[r]
      BY <3>2 DEF Requested
    <3> HIDE DEF d
    <3>5. stock[r] \in Nat /\ stock'[r] \in Nat
      BY <1>1, <1>5
    <3>6. stock'[r] = IF r \in RowsIn(c.cart) THEN c.seen[r] - Requested(c.cart, r) ELSE stock[r]
      BY <1>4
    <3> QED BY <1>3, <3>2, <3>3, <3>4, <3>5, <3>6
  <2>2. OnHand(d, k) = KeyUpto(c.cart, n, k)
    BY <1>2, KeyAsked
  <2> HIDE DEF d
  <2> QED BY <2>1, <2>2, HandPlus
<1>7. /\ status'[o] = "saved" /\ items'[o] = c.cart
      /\ \A p \in Orders \ {o} : status'[p] = status[p] /\ items'[p] = items[p]
  BY <1>1, <1>4
<1>8. Ledged
  <2>1. ASSUME NEW k \in Keys
        PROVE  OnHand(stock', k) + TakenIn(status'[o], items'[o], k)
                 = OnHand(stock, k) + TakenIn(status[o], items[o], k)
    <3>1. TakenIn(status'[o], items'[o], k) = KeyUpto(c.cart, n, k) /\ TakenIn(status[o], items[o], k) = 0
      BY <1>1, <1>7 DEF TakenIn, Active
    <3>2. OnHand(stock, k) \in Nat
      BY <1>1, OnHandType
    <3> QED BY <1>6, <3>1, <3>2
  <2> QED BY <1>5, <1>7, <2>1, Exchanged
<1>9. /\ Listing(entries, n) /\ MovesIn(entries, n)
      /\ \A i \in 1 .. n : /\ entries[i].kind = "ship" /\ FiledUnder(entries[i]) = KeyOf[c.cart[i].row]
                           /\ entries[i].final = c.total[KeyOf[c.cart[i].row]]
                                                   - KeyUpto(c.cart, i, KeyOf[c.cart[i].row])
  BY <1>2 DEF Entry, FiledUnder, Listing, MovesIn, Upward
<1> HIDE DEF entries, n
<1>10. MovesUp(log')
  BY <1>1, <1>2, <1>4, <1>9, Appended DEF Orderly
<1>11. Recorded
  <2> SUFFICES ASSUME NEW k \in Keys, FiledNow(k)
               PROVE  LatestFinal(log', k) = OnHand(stock', k)
    BY DEF Recorded
  <2>0. PICK m \in 1 .. n : LastOf(entries, n, k, m)
    BY <1>1, <1>2, <1>4, <1>9, Appended
  <2>1. /\ FiledUnder(entries[m]) = k /\ LatestFinal(log', k) = entries[m].final
        /\ \A j \in m + 1 .. n : FiledUnder(entries[j]) # k
    BY <2>0 DEF LastOf
  <2>2. KeyOf[c.cart[m].row] = k /\ c.cart[m].row \in RowsIn(c.cart)
    BY <1>2, <1>9, <2>1 DEF RowsIn
  <2>3. ASSUME NEW j \in m + 1 .. n PROVE KeyOf[c.cart[j].row] # k
    <3>1. j \in 1 .. n
      BY <1>2
    <3> QED BY <1>9, <2>1, <3>1
  <2>4. m \in 0 .. Len(c.cart) /\ n = Len(c.cart)
    BY <1>2 DEF n
  <2>5. KeyUpto(c.cart, n, k) = KeyUpto(c.cart, m, k) /\ KeyUpto(c.cart, n, k) \in Nat
    BY <1>2, <2>3, <2>4, SameUpto, RequestedType
  <2>6. LatestFinal(log', k) = OnHand(stock, k) - KeyUpto(c.cart, n, k)
    BY <1>3, <1>9, <2>1, <2>2, <2>5
  <2>7. OnHand(stock', k) \in Nat
    BY <1>5, OnHandType
  <2> QED BY <1>6, <2>5, <2>6, <2>7
<1>12. OwnStep(s) /\ Current(s, call[s])'
  <2>1. Current(s, call[s])' /\ \A t \in Sessions \ {s} : call'[t] = call[t]
    BY <1>4, Over
  <2>2. ASSUME NEW r \in Rows, KeyOf[r] \notin Handles[s] PROVE stock'[r] = stock[r]
    BY <1>3, <1>4, <2>2 DEF Handled
  <2> QED BY <1>1, <1>7, <2>1, <2>2 DEF OwnStep
<1>13. Orderly' /\ StaysCancelled
  <2>1. \A p \in Orders : /\ status'[p] \in {"none", "cancelled"} \cup Active
                          /\ status'[p] \in Active => items'[p] # << >>
    BY <1>1, <1>3, <1>7 DEF Orderly, Active
  <2> QED BY <1>1, <1>7, <1>10, <2>1 DEF Orderly, MovesUp, StaysCancelled
<1> QED BY <1>8, <1>11, <1>12, <1>13 DEF GoodStep

(* An edit passes the difference of the two carts from the stock to the       *)
(* order or back.                                                            *)
LEMMA EditWritesGood ==
  ASSUME ReadsCurrent, NEW s \in Sessions, EditWrites(s)
  PROVE  GoodStep(s)
<1> DEFINE c == call[s]
           o == c.order
           rows == SetToSeq(Changed(c))
           n == Len(rows)
           after(m) == [r \in Rows |-> IF \E i \in 1 .. m : rows[i] = r THEN c.seen[r] - Delta(c, r)
                                                                        ELSE stock[r]]
           entries == [i \in DOMAIN rows |->
                         Entry("reship", o, rows[i], rows[i], Delta(c, rows[i]),
                               OnHand(after(i), KeyOf[rows[i]]))]
<1>1. /\ TypeOK /\ Orderly /\ OrderCurrent(s, c) /\ EditCurrent(s, c) /\ c.pc = "edit" /\ o \in Orders
      /\ stock \in [Rows -> Nat] /\ status \in [Orders -> Statuses] /\ items \in [Orders -> Seq(CartEntry)]
  BY CallFields DEF ReadsCurrent, Current, EditWrites, At, TypeOK, Covered
<1>2. /\ c.cart \in Seq(CartEntry) /\ c.old \in Seq(CartEntry)
      /\ RowsIn(c.cart) \subseteq Rows /\ RowsIn(c.old) \subseteq Rows
      /\ Len(c.cart) \in Nat /\ Len(c.old) \in Nat
  BY <1>1, CallFields, CartFacts
<1>3. /\ status[o] \in Active /\ Handled(s, items[o]) /\ c.old = items[o]
      /\ c.cart # << >> /\ Handled(s, c.cart)
      /\ \A r \in RowsIn(c.cart) \cup RowsIn(c.old) : c.seen[r] = stock[r]
  BY <1>1 DEF OrderCurrent, EditCurrent, HasOrder, Fresh
<1>4. /\ stock' = after(n)
      /\ items' = IF rows = << >> THEN items ELSE [items EXCEPT ![o] = c.cart]
      /\ status' = [status EXCEPT ![o] = "edited"]
      /\ log' = log \o entries /\ End(s)
  BY DEF EditWrites, Write
<1>5. stock' \in [Rows -> Nat] /\ items' \in [Orders -> Seq(CartEntry)]
  BY <1>1, EditWritesType DEF TypeOK
<1>6. /\ Changed(c) \subseteq Rows /\ rows \in Seq(Changed(c)) /\ n \in Nat /\ DOMAIN rows = 1 .. n
      /\ \A i \in 1 .. n : rows[i] \in Changed(c)
      /\ \A r \in Changed(c) : \E i \in 1 .. n : rows[i] = r
  <2>1. Changed(c) \subseteq Rows /\ IsFiniteSet(Changed(c))
    BY OutboundConstants, FS_Subset DEF Changed
  <2>2. rows \in Seq(Changed(c))
    BY <2>1, SetToSeqType
  <2>3. n \in Nat /\ DOMAIN rows = 1 .. n /\ \A i \in 1 .. n : rows[i] \in Changed(c)
    <3> HIDE DEF rows
    <3> QED BY <2>2, LenProperties, ElementOfSeq
  <2>4. /\ DOMAIN rows = 1 .. Cardinality(Changed(c))
        /\ \A r \in Changed(c) : \E i \in 1 .. Cardinality(Changed(c)) : rows[i] = r
    BY <2>1, SetToSeqCovers
  <2> HIDE DEF rows
  <2> QED BY <2>1, <2>2, <2>3, <2>4
<1> HIDE DEF c, rows, n
<1> DEFINE b == AskedOfRows(c.old, Len(c.old))
           d == AskedOfRows(c.cart, Len(c.cart))
<1>7. ASSUME NEW r \in Rows
      PROVE  /\ b[r] \in Nat /\ d[r] \in Nat /\ Delta(c, r) = d[r] - b[r]
             /\ Delta(c, r) # 0 => c.seen[r] = stock[r] /\ KeyOf[r] \in Handles[s]
  <2>1. Len(c.cart) \in 0 .. Len(c.cart) /\ Len(c.old) \in 0 .. Len(c.old)
    BY <1>2
  <2>2. b[r] = Upto(c.old, Len(c.old), r) /\ d[r] = Upto(c.cart, Len(c.cart), r)
    BY DEF AskedOfRows
  <2> HIDE DEF b, d
  <2>3. b[r] \in Nat /\ d[r] \in Nat
    BY <1>2, <2>1, <2>2, RequestedType
  <2>4. Delta(c, r) = d[r] - b[r]
    BY <2>2 DEF Delta, Requested
  <2>5. (r \notin RowsIn(c.cart) => d[r] = 0) /\ (r \notin RowsIn(c.old) => b[r] = 0)
    BY <1>2, <2>1, <2>2, NotAsked
  <2>6. Delta(c, r) # 0 => r \in RowsIn(c.cart) \cup RowsIn(c.old)
    BY <2>3, <2>4, <2>5
  <2> QED BY <1>3, <2>3, <2>4, <2>6 DEF Handled
<1> HIDE DEF b, d
<1>8. ASSUME NEW r \in Rows PROVE stock'[r] = stock[r] - Delta(c, r)
  <2>1. stock'[r] = IF \E i \in 1 .. n : rows[i] = r THEN c.seen[r] - Delta(c, r) ELSE stock[r]
    BY <1>4
  <2>2. (\E i \in 1 .. n : rows[i] = r) <=> Delta(c, r) # 0
    BY <1>6 DEF Changed
  <2>3. stock[r] \in Nat
    BY <1>1
  <2> QED BY <1>7, <2>1, <2>2, <2>3
<1>9. ASSUME NEW k
      PROVE  OnHand(stock, k) + KeyUpto(c.old, Len(c.old), k) = OnHand(stock', k) + KeyUpto(c.cart, Len(c.cart), k)
  <2> DEFINE w == [r \in Rows |-> stock[r] + b[r]]
  <2>1. ASSUME NEW r \in Rows
        PROVE  /\ stock[r] \in Int /\ stock'[r] \in Int /\ b[r] \in Int /\ d[r] \in Int
               /\ w[r] = stock[r] + b[r] /\ w[r] = stock'[r] + d[r]
    <3>1. stock[r] \in Nat /\ stock'[r] \in Nat
      BY <1>1, <1>5
    <3> QED BY <1>7, <1>8, <3>1
  <2> HIDE DEF w
  <2>2. OnHand(w, k) = OnHand(stock, k) + OnHand(b, k)
    BY <2>1, HandPlus
  <2>3. OnHand(w, k) = OnHand(stock', k) + OnHand(d, k)
    BY <2>1, HandPlus
  <2>4. OnHand(b, k) = KeyUpto(c.old, Len(c.old), k) /\ OnHand(d, k) = KeyUpto(c.cart, Len(c.cart), k)
    BY <1>2, KeyAsked DEF b, d
  <2> QED BY <2>2, <2>3, <2>4
<1>10. /\ status'[o] = "edited"
       /\ \A p \in Orders \ {o} : status'[p] = status[p] /\ items'[p] = items[p]
       /\ items'[o] = IF rows = << >> THEN c.old ELSE c.cart
  BY <1>1, <1>3, <1>4
<1>11. Ledged
  <2>1. ASSUME NEW k \in Keys
        PROVE  OnHand(stock', k) + TakenIn(status'[o], items'[o], k)
                 = OnHand(stock, k) + TakenIn(status[o], items[o], k)
    <3>1. /\ TakenIn(status'[o], items'[o], k) = KeyUpto(items'[o], Len(items'[o]), k)
          /\ TakenIn(status[o], items[o], k) = KeyUpto(c.old, Len(c.old), k)
      BY <1>3, <1>10 DEF TakenIn, Active
    <3>2. CASE rows = << >>
      <4>1. n = 0
        BY <3>2, EmptySeq DEF n
      <4>2. \A r \in Rows : stock'[r] = stock[r]
        BY <1>4, <4>1
      <4>3. OnHand(stock', k) = OnHand(stock, k)
        BY <4>2, HandSame
      <4> QED BY <1>10, <3>1, <3>2, <4>3
    <3>3. CASE rows # << >>
      BY <1>9, <1>10, <3>1, <3>3
    <3> QED BY <3>2, <3>3
  <2> HIDE DEF o
  <2> QED BY <1>1, <1>5, <1>10, <2>1, Exchanged
<1>12. /\ Listing(entries, n) /\ MovesIn(entries, n)
       /\ \A i \in 1 .. n : /\ entries[i].kind = "reship" /\ FiledUnder(entries[i]) = KeyOf[rows[i]]
                            /\ entries[i].final = OnHand(after(i), KeyOf[rows[i]])
  <2> HIDE DEF after
  <2> QED BY <1>6 DEF Entry, FiledUnder, Listing, MovesIn, Upward
<1> HIDE DEF entries
<1>13. MovesUp(log')
  BY <1>1, <1>4, <1>6, <1>12, Appended DEF Orderly
<1>14. Recorded
  <2> SUFFICES ASSUME NEW k \in Keys, FiledNow(k)
               PROVE  LatestFinal(log', k) = OnHand(stock', k)
    BY DEF Recorded
  <2>0. PICK m \in 1 .. n : LastOf(entries, n, k, m)
    <3> HIDE DEF after
    <3> QED BY <1>1, <1>4, <1>6, <1>12, Appended
   <2>1. /\ FiledUnder(entries[m]) = k /\ LatestFinal(log', k) = entries[m].final
        /\ \A j \in m + 1 .. n : FiledUnder(entries[j]) # k
    BY <2>0 DEF LastOf
  <2>2. LatestFinal(log', k) = OnHand(after(m), k)
    BY <1>12, <2>1
  <2>3. ASSUME NEW j \in 1 .. n, KeyOf[rows[j]] = k PROVE j \in 1 .. m
    <3>1. ~(j \in m + 1 .. n)
      BY <1>12, <2>1, <2>3
    <3> QED BY <1>6, <3>1
  <2>4. \A r \in Rows : KeyOf[r] = k => after(n)[r] = after(m)[r]
    <3> SUFFICES ASSUME NEW r \in Rows, KeyOf[r] = k
                 PROVE  (\E i \in 1 .. n : rows[i] = r) <=> (\E i \in 1 .. m : rows[i] = r)
      OBVIOUS
    <3>1. 1 .. m \subseteq 1 .. n
      BY <1>6
    <3> QED BY <2>3, <3>1
  <2> HIDE DEF after
  <2>5. OnHand(after(n), k) = OnHand(after(m), k)
    BY <2>4, HandSame
  <2> QED BY <1>4, <2>2, <2>5
<1>15. OwnStep(s) /\ Current(s, call[s])'
  <2>1. Current(s, call[s])' /\ \A t \in Sessions \ {s} : call'[t] = call[t]
    BY <1>4, Over
  <2>2. ASSUME NEW r \in Rows, KeyOf[r] \notin Handles[s] PROVE stock'[r] = stock[r]
    BY <1>1, <1>7, <1>8, <2>2
  <2>3. ASSUME NEW p \in Orders, ~Handled(s, items[p]) PROVE status'[p] = status[p] /\ items'[p] = items[p]
    BY <1>3, <1>10, <2>3
  <2> QED BY <2>1, <2>2, <2>3 DEF OwnStep
<1>16. Orderly' /\ StaysCancelled
  <2>1. \A p \in Orders : /\ status'[p] \in {"none", "cancelled"} \cup Active
                          /\ status'[p] \in Active => items'[p] # << >>
    BY <1>1, <1>3, <1>10 DEF Orderly, Active
  <2>2. StaysCancelled
    BY <1>3, <1>10 DEF StaysCancelled, Active
  <2> QED BY <1>13, <2>1, <2>2 DEF Orderly, MovesUp
<1> QED BY <1>11, <1>14, <1>15, <1>16 DEF GoodStep

(* A cancellation gives the stock what the order held.                       *)
LEMMA CancelWritesGood ==
  ASSUME ReadsCurrent, NEW s \in Sessions, CancelWrites(s)
  PROVE  GoodStep(s)
<1> DEFINE c == call[s]
           o == c.order
           n == Len(c.old)
           after(m) == [r \in Rows |->
                          (IF r = c.old[1].row THEN c.seen[r] ELSE stock[r]) + Upto(c.old, m, r)]
           entries == [i \in DOMAIN c.old |->
                         Entry("cancel", o, c.old[i].row, c.old[i].row, c.old[i].qty,
                               OnHand(after(i), KeyOf[c.old[i].row]))]
<1>1. /\ TypeOK /\ Orderly /\ OrderCurrent(s, c) /\ CancelCurrent(c) /\ c.pc = "cancel" /\ o \in Orders
      /\ stock \in [Rows -> Nat] /\ status \in [Orders -> Statuses] /\ items \in [Orders -> Seq(CartEntry)]
  BY CallFields DEF ReadsCurrent, Current, CancelWrites, At, TypeOK, Covered
<1>2. /\ status[o] \in Active /\ Handled(s, items[o]) /\ c.old = items[o]
      /\ c.seen[c.old[1].row] = stock[c.old[1].row]
  BY <1>1 DEF OrderCurrent, CancelCurrent, HasOrder, Fresh
<1>3. /\ c.old \in Seq(CartEntry) /\ n \in Nat /\ DOMAIN c.old = 1 .. n /\ RowsIn(c.old) \subseteq Rows
      /\ \A i \in 1 .. n : c.old[i].row \in Rows
  BY <1>1, CallFields, CartFacts
<1>4. /\ stock' = after(n) /\ log' = log \o entries /\ End(s) /\ UNCHANGED items
      /\ status' = [status EXCEPT ![o] = "cancelled"]
  BY DEF CancelWrites, Write
<1>5. stock' \in [Rows -> Nat] /\ items' \in [Orders -> Seq(CartEntry)]
  BY <1>1, CancelWritesType DEF TypeOK
<1> HIDE DEF c
<1> DEFINE b == AskedOfRows(c.old, n)
<1>6. ASSUME NEW r \in Rows
      PROVE  /\ b[r] \in Nat /\ stock'[r] = stock[r] + b[r]
             /\ b[r] # 0 => KeyOf[r] \in Handles[s]
  <2>1. n \in 0 .. Len(c.old)
    BY <1>3
  <2>2. b[r] = Upto(c.old, n, r)
    BY DEF AskedOfRows
  <2> HIDE DEF b
  <2>3. b[r] \in Nat
    BY <1>3, <2>1, <2>2, RequestedType
  <2>4. r \notin RowsIn(c.old) => b[r] = 0
    BY <1>3, <2>1, <2>2, NotAsked
  <2>5. stock'[r] = stock[r] + b[r]
    BY <1>2, <1>4, <2>2
  <2> QED BY <1>2, <2>3, <2>4, <2>5 DEF Handled
<1> HIDE DEF b
<1>7. ASSUME NEW k PROVE OnHand(stock', k) = OnHand(stock, k) + KeyUpto(c.old, n, k)
  <2>1. ASSUME NEW r \in Rows PROVE stock[r] \in Int /\ b[r] \in Int /\ stock'[r] = stock[r] + b[r]
    BY <1>1, <1>6
  <2>2. OnHand(b, k) = KeyUpto(c.old, n, k)
    BY <1>3, KeyAsked DEF b
  <2> QED BY <2>1, <2>2, HandPlus
<1>8. /\ status'[o] = "cancelled"
      /\ \A p \in Orders \ {o} : status'[p] = status[p] /\ items'[p] = items[p]
  BY <1>1, <1>4
<1>9. Ledged
  <2>1. ASSUME NEW k \in Keys
        PROVE  OnHand(stock', k) + TakenIn(status'[o], items'[o], k)
                 = OnHand(stock, k) + TakenIn(status[o], items[o], k)
    <3>1. /\ TakenIn(status'[o], items'[o], k) = 0
          /\ TakenIn(status[o], items[o], k) = KeyUpto(c.old, n, k)
      BY <1>2, <1>8 DEF TakenIn, Active
    <3>2. OnHand(stock', k) \in Nat
      BY <1>5, OnHandType
    <3> QED BY <1>7, <3>1, <3>2
  <2> HIDE DEF o
  <2> QED BY <1>1, <1>5, <1>8, <2>1, Exchanged
<1>10. /\ Listing(entries, n) /\ MovesIn(entries, n)
       /\ \A i \in 1 .. n : /\ entries[i].kind = "cancel" /\ FiledUnder(entries[i]) = KeyOf[c.old[i].row]
                            /\ entries[i].final = OnHand(after(i), KeyOf[c.old[i].row])
  <2> HIDE DEF after
  <2> QED BY <1>3 DEF Entry, FiledUnder, Listing, MovesIn, Upward
<1> HIDE DEF entries
<1>11. MovesUp(log')
  BY <1>1, <1>3, <1>4, <1>10, Appended DEF Orderly
<1>12. Recorded
  <2> SUFFICES ASSUME NEW k \in Keys, FiledNow(k)
               PROVE  LatestFinal(log', k) = OnHand(stock', k)
    BY DEF Recorded
  <2>0. PICK m \in 1 .. n : LastOf(entries, n, k, m)
    <3> HIDE DEF after
    <3> QED BY <1>1, <1>3, <1>4, <1>10, Appended
   <2>1. /\ FiledUnder(entries[m]) = k /\ LatestFinal(log', k) = entries[m].final
        /\ \A j \in m + 1 .. n : FiledUnder(entries[j]) # k
    BY <2>0 DEF LastOf
  <2>2. LatestFinal(log', k) = OnHand(after(m), k)
    BY <1>10, <2>1
  <2>3. ASSUME NEW j \in m + 1 .. n PROVE KeyOf[c.old[j].row] # k
    <3>1. j \in 1 .. n
      BY <1>3
    <3> QED BY <1>10, <2>1, <3>1
  <2>4. m \in 0 .. Len(c.old) /\ n = Len(c.old)
    BY <1>3
  <2>5. \A r : KeyOf[r] = k => Upto(c.old, n, r) = Upto(c.old, m, r)
    BY <1>3, <2>3, <2>4, SameUpto
  <2>6. \A r \in Rows : KeyOf[r] = k => after(n)[r] = after(m)[r]
    BY <2>5
  <2> HIDE DEF after
  <2>7. OnHand(after(n), k) = OnHand(after(m), k)
    BY <2>6, HandSame
  <2> QED BY <1>4, <2>2, <2>7
<1>13. OwnStep(s) /\ Current(s, call[s])'
  <2>1. Current(s, call[s])' /\ \A t \in Sessions \ {s} : call'[t] = call[t]
    BY <1>4, Over
  <2>2. ASSUME NEW r \in Rows, KeyOf[r] \notin Handles[s] PROVE stock'[r] = stock[r]
    BY <1>1, <1>6, <2>2
  <2>3. ASSUME NEW p \in Orders, ~Handled(s, items[p]) PROVE status'[p] = status[p] /\ items'[p] = items[p]
    BY <1>2, <1>8, <2>3
  <2> QED BY <2>1, <2>2, <2>3 DEF OwnStep
<1>14. Orderly' /\ StaysCancelled
  <2>1. \A p \in Orders : /\ status'[p] \in {"none", "cancelled"} \cup Active
                          /\ status'[p] \in Active => items'[p] # << >>
    BY <1>1, <1>8 DEF Orderly, Active
  <2>2. StaysCancelled
    BY <1>8 DEF StaysCancelled
  <2> QED BY <1>11, <2>1, <2>2 DEF Orderly, MovesUp
<1> QED BY <1>9, <1>12, <1>13, <1>14 DEF GoodStep

(* A cancellation that takes a restoration for its own only marks the order. *)
LEMMA CancelMarksGood ==
  ASSUME ReadsCurrent, NEW s \in Sessions, CancelMarks(s)
  PROVE  GoodStep(s)
<1> DEFINE o == call[s].order
<1>1. /\ TypeOK /\ Orderly /\ OrderCurrent(s, call[s]) /\ call[s].pc = "cancel_mark" /\ o \in Orders
      /\ status \in [Orders -> Statuses] /\ log \in Seq(Entries)
  BY CallFields DEF ReadsCurrent, Current, CancelMarks, At, TypeOK, Covered
<1>2. Handled(s, items[o])
  BY <1>1 DEF OrderCurrent, HasOrder
<1>3. status' = [status EXCEPT ![o] = "cancelled"] /\ End(s) /\ UNCHANGED <<stock, items, log>>
  BY DEF CancelMarks
<1> HIDE DEF o
<1>4. status'[o] = "cancelled" /\ \A p \in Orders \ {o} : status'[p] = status[p]
  BY <1>1, <1>3
<1>5. Ledged
  BY <1>1, <1>3, Forgotten
<1>6. Recorded
  BY <1>1, <1>3, LenProperties DEF Recorded, FiledNow
<1>7. Current(s, call[s])' /\ \A t \in Sessions \ {s} : call'[t] = call[t]
  BY <1>3, Over
<1>8. OwnStep(s)
  BY <1>2, <1>3, <1>4, <1>7 DEF OwnStep
<1>9. Orderly' /\ StaysCancelled
  BY <1>1, <1>3, <1>4 DEF Orderly, MovesUp, StaysCancelled, Active
<1> QED BY <1>5, <1>6, <1>7, <1>8, <1>9 DEF GoodStep

(* A call that writes one history row, of goods on the session's keys.       *)
LEMMA OneRecord ==
  ASSUME ReadsCurrent, NEW s \in Sessions, End(s) \/ (Idle(s) /\ UNCHANGED call),
         UNCHANGED <<status, items>>,
         NEW kind, NEW r, NEW to, NEW q, kind = "move" => q \in Nat /\ r # to,
         Write(<< Entry(kind, NoOrder, r, to, q, OnHand(stock', KeyOf[to])) >>),
         \A a \in Rows : KeyOf[a] \notin Handles[s] => stock'[a] = stock[a],
         Ledged
  PROVE  GoodStep(s)
<1> DEFINE e == Entry(kind, NoOrder, r, to, q, OnHand(stock', KeyOf[to]))
           entries == [i \in 1 .. 1 |-> e]
<1>1. TypeOK /\ Orderly
  BY DEF ReadsCurrent
<1>2. /\ e.kind = kind /\ e.qty = q /\ e.row = r /\ e.to = to
      /\ FiledUnder(e) = KeyOf[to] /\ e.final = OnHand(stock', KeyOf[to])
  BY DEF Entry, FiledUnder
<1>3. log' = log \o << e >>
  BY DEF Write
<1> HIDE DEF e
<1>4. << e >> = entries
  OBVIOUS
<1>5. /\ Listing(entries, 1) /\ MovesIn(entries, 1) /\ \A i \in 1 .. 1 : entries[i] = e
      /\ log' = log \o entries /\ 1 \in Nat
  BY <1>2, <1>3, <1>4 DEF Listing, MovesIn, Upward
<1> HIDE DEF entries
<1>6. MovesUp(log')
  BY <1>1, <1>2, <1>5, Appended DEF Orderly
<1>7. Recorded
  <2> SUFFICES ASSUME NEW k \in Keys, FiledNow(k)
               PROVE  LatestFinal(log', k) = OnHand(stock', k)
    BY DEF Recorded
  <2>1. PICK m \in 1 .. 1 : LastOf(entries, 1, k, m)
    BY <1>1, <1>5, Appended
  <2> QED BY <1>2, <1>5, <2>1 DEF LastOf
<1>8. Current(s, call[s])' /\ \A t \in Sessions \ {s} : call'[t] = call[t]
  BY Over
<1>9. OwnStep(s)
  BY <1>8 DEF OwnStep
<1>10. Orderly' /\ StaysCancelled
  BY <1>1, <1>6 DEF Orderly, MovesUp, StaysCancelled
<1> QED BY <1>7, <1>8, <1>9, <1>10 DEF GoodStep

(* A receipt corrects the stock of its key.                                  *)
LEMMA ReceiveWritesGood ==
  ASSUME ReadsCurrent, NEW s \in Sessions, ReceiveWrites(s)
  PROVE  GoodStep(s)
<1>1. /\ TypeOK /\ MoveCurrent(s, call[s]) /\ call[s].pc = "in"
      /\ stock \in [Rows -> Nat] /\ call[s].seen \in [Rows -> Nat]
  BY CallFields DEF ReadsCurrent, Current, ReceiveWrites, At, TypeOK
<1>2. call[s].cart[1].row \in Rows /\ call[s].cart[1].qty \in Nat
  BY <1>1, OneEntry
<1>3. PICK r \in Rows, q \in Nat : r = call[s].cart[1].row /\ q = call[s].cart[1].qty
  BY <1>2
<1>4. /\ stock' = [stock EXCEPT ![r] = call[s].seen[r] + q]
      /\ Write(<< Entry("in", NoOrder, r, r, q, OnHand(stock', KeyOf[r])) >>)
      /\ End(s) /\ UNCHANGED <<status, items>>
  BY <1>3 DEF ReceiveWrites
<1>5. KeyOf[r] \in Handles[s] /\ KeyOf[r] \in Keys
  BY <1>1, <1>3, OutboundConstants DEF MoveCurrent
<1>6. stock' \in [Rows -> Nat]
  BY <1>1, <1>4
<1>7. \A a \in Rows : KeyOf[a] # KeyOf[r] => stock'[a] = stock[a]
  BY <1>1, <1>4
<1>8. Ledged
  BY <1>4, <1>5, <1>6, <1>7, Corrected
<1>9. \A a \in Rows : KeyOf[a] \notin Handles[s] => stock'[a] = stock[a]
  BY <1>5, <1>7
<1> QED BY <1>4, <1>8, <1>9, OneRecord

(* A move passes units from one key to another.                              *)
LEMMA MoveWritesGood ==
  ASSUME ReadsCurrent, NEW s \in Sessions, MoveWrites(s)
  PROVE  GoodStep(s)
<1>1. /\ TypeOK /\ MoveCurrent(s, call[s]) /\ call[s].pc = "move" /\ call[s].to \in Rows
      /\ stock \in [Rows -> Nat]
  BY CallFields DEF ReadsCurrent, Current, MoveWrites, At, TypeOK
<1>2. call[s].cart[1].row \in Rows /\ call[s].cart[1].qty \in Nat
  BY <1>1, OneEntry
<1>3. PICK r \in Rows, to \in Rows, q \in Nat :
        r = call[s].cart[1].row /\ q = call[s].cart[1].qty /\ to = call[s].to
  BY <1>1, <1>2
<1>4. /\ stock' = [stock EXCEPT ![r] = call[s].seen[r] - q, ![to] = @ + q]
      /\ Write(<< Entry("move", NoOrder, r, to, q, OnHand(stock', KeyOf[to])) >>)
      /\ End(s) /\ UNCHANGED <<status, items>>
  BY <1>3 DEF MoveWrites
<1>5. KeyOf[r] \in Handles[s] /\ KeyOf[to] \in Handles[s] /\ r # to /\ call[s].seen[r] = stock[r]
  BY <1>1, <1>3 DEF MoveCurrent, Fresh
<1>6. stock' = [stock EXCEPT ![r] = @ - q, ![to] = @ + q]
  BY <1>1, <1>4, <1>5
<1>7. stock' \in [Rows -> Nat]
  BY <1>1, MoveWritesType DEF TypeOK
<1>8. Ledged
  <2>1. to \in Rows \ {r}
    BY <1>5
  <2> QED BY ONLY <1>1, <1>4, <1>6, <1>7, <2>1, r \in Rows, q \in Nat, Transferred
<1>9. \A a \in Rows : KeyOf[a] \notin Handles[s] => stock'[a] = stock[a]
  BY <1>1, <1>4, <1>5
<1> QED BY <1>4, <1>5, <1>8, <1>9, OneRecord

(* A count corrects the stock of a key.                                      *)
LEMMA CountGood ==
  ASSUME ReadsCurrent, NEW s \in Sessions, NEW r \in Rows, NEW q \in CountedQty, Count(s, r, q)
  PROVE  GoodStep(s)
<1>1. stock \in [Rows -> Nat] /\ q \in Nat /\ KeyOf[r] \in Keys
  BY OutboundConstants DEF ReadsCurrent, TypeOK
<1>2. /\ stock' = [stock EXCEPT ![r] = q] /\ KeyOf[r] \in Handles[s]
      /\ Write(<< Entry("count", NoOrder, r, r, q - stock[r], OnHand(stock', KeyOf[r])) >>)
      /\ Idle(s) /\ UNCHANGED call /\ UNCHANGED <<status, items>>
  BY DEF Count
<1>3. stock' \in [Rows -> Nat] /\ \A a \in Rows : KeyOf[a] # KeyOf[r] => stock'[a] = stock[a]
  BY <1>1, <1>2
<1>4. Ledged
  BY <1>1, <1>2, <1>3, Corrected
<1>5. \A a \in Rows : KeyOf[a] \notin Handles[s] => stock'[a] = stock[a]
  BY <1>2, <1>3
<1>6. PICK d : d = q - stock[r]
  OBVIOUS
<1>7. Write(<< Entry("count", NoOrder, r, r, d, OnHand(stock', KeyOf[r])) >>)
  BY <1>2, <1>6
<1> QED BY <1>2, <1>4, <1>5, <1>7, OneRecord

(* A deletion of history that leaves orders and their items alone.           *)
LEMMA Deleted ==
  ASSUME ReadsCurrent, NEW s \in Sessions, NEW i \in DOMAIN log, Idle(s),
         log' = RemoveAt(log, i), UNCHANGED <<status, items, call>>,
         \A a \in Rows : KeyOf[a] \notin Handles[s] => stock'[a] = stock[a],
         Ledged
  PROVE  GoodStep(s)
<1>1. TypeOK /\ Orderly
  BY DEF ReadsCurrent
<1>2. MovesUp(log') /\ Recorded
  BY <1>1, Shorter DEF Orderly
<1>3. Current(s, call[s])' /\ \A t \in Sessions \ {s} : call'[t] = call[t]
  BY Over
<1>4. OwnStep(s)
  BY <1>3 DEF OwnStep
<1>5. Orderly' /\ StaysCancelled
  BY <1>1, <1>2 DEF Orderly, MovesUp, StaysCancelled
<1> QED BY <1>2, <1>3, <1>4, <1>5 DEF GoodStep

(* The deletion of a history row other than of a saved order corrects the    *)
(* stock of a key or passes units back.                                      *)
LEMMA DeleteHistoryGood ==
  ASSUME ReadsCurrent, "ship" \notin Deletable, NEW s \in Sessions, NEW i \in DOMAIN log,
         DeleteHistory(s, i)
  PROVE  GoodStep(s)
<1>1. TypeOK /\ Orderly /\ log \in Seq(Entries) /\ stock \in [Rows -> Nat]
  BY DEF ReadsCurrent, TypeOK
<1>2. log[i] \in Entries
  BY <1>1, LenProperties, ElementOfSeq
<1>3. PICK e \in Entries : e = log[i]
  BY <1>2
<1>4. e.kind \in Kinds /\ e.row \in Rows /\ e.to \in Rows /\ e.qty \in Int
  BY DEF Entries
<1>5. /\ Idle(s) /\ e.kind # "ship" /\ KeyOf[e.row] \in Handles[s] /\ KeyOf[e.to] \in Handles[s]
      /\ stock' = Undone(e) /\ (\A r \in Rows : stock'[r] >= 0)
      /\ log' = RemoveAt(log, i) /\ UNCHANGED <<items, call>>
  BY <1>3 DEF DeleteHistory
<1>6. UNCHANGED status
  BY <1>3, <1>5 DEF DeleteHistory
<1>7. KeyOf[e.row] \in Keys
  BY <1>4, OutboundConstants
<1>8. CASE e.kind \in {"cancel", "in", "count"}
  <2>1. stock' = [stock EXCEPT ![e.row] = @ - e.qty]
    BY <1>5, <1>8 DEF Undone
  <2>2. \A a \in Rows : a # e.row => stock'[a] = stock[a]
    BY <1>1, <2>1
  <2>3. stock' \in [Rows -> Int]
    BY <1>1, <1>4, <2>1
  <2>4. stock' \in [Rows -> Nat]
    BY <1>5, <2>3
  <2>5. \A a \in Rows : KeyOf[a] # KeyOf[e.row] => stock'[a] = stock[a]
    BY <2>2
  <2>6. Ledged
    BY <1>5, <1>6, <1>7, <2>4, <2>5, Corrected
  <2>7. \A a \in Rows : KeyOf[a] \notin Handles[s] => stock'[a] = stock[a]
    BY <1>5, <2>5
  <2> QED BY <1>5, <1>6, <2>6, <2>7, Deleted
<1>9. CASE e.kind = "move"
  <2>1. stock' = [stock EXCEPT ![e.to] = @ - e.qty, ![e.row] = @ + e.qty]
    BY <1>5, <1>9 DEF Undone
  <2>2. e.qty \in Nat /\ e.row # e.to
    BY <1>1, <1>3, <1>9 DEF Orderly, MovesUp, Upward
  <2>3. stock' \in [Rows -> Int]
    BY <1>1, <1>4, <2>1
  <2>4. stock' \in [Rows -> Nat]
    BY <1>5, <2>3
  <2>5. Ledged
    BY <1>1, <1>4, <1>5, <1>6, <2>1, <2>2, <2>4, Transferred
  <2>6. \A a \in Rows : KeyOf[a] \notin Handles[s] => stock'[a] = stock[a]
    BY <1>1, <1>4, <1>5, <2>1
  <2> QED BY <1>5, <1>6, <2>5, <2>6, Deleted
<1>10. CASE e.kind = "reship"
  <2>1. stock' = stock
    BY <1>5, <1>10 DEF Undone
  <2>2. stock' \in [Rows -> Nat] /\ \A a \in Rows : stock'[a] = stock[a]
    BY <1>1, <2>1
  <2>3. Ledged
    BY <1>5, <1>6, <1>7, <2>2, Corrected
  <2> QED BY <1>5, <1>6, <2>2, <2>3, Deleted
<1> QED BY <1>4, <1>5, <1>8, <1>9, <1>10 DEF Kinds

(* So does the deletion of the row alone, which leaves the stock.            *)
LEMMA DropHistoryGood ==
  ASSUME ReadsCurrent, NEW s \in Sessions, NEW i \in DOMAIN log, DropHistory(s, i)
  PROVE  GoodStep(s)
<1>1. Idle(s) /\ log' = RemoveAt(log, i) /\ UNCHANGED <<stock, status, items, call>>
  BY DEF DropHistory
<1>2. UNCHANGED Ledger!ledger
  BY <1>1, LedgerAre
<1> QED BY <1>1, <1>2, Deleted DEF Ledged

-----------------------------------------------------------------------------
(* The theorems about sessions apart.                                        *)

(* Every step of a call is a good one.                                       *)
LEMMA CallStepGood ==
  ASSUME ReadsCurrent, "ship" \notin Deletable, NEW s \in Sessions, CallStep(s)
  PROVE  GoodStep(s)
<1>1. CASE \E cart \in Carts : SaveReadsRows(s, cart)
  BY <1>1, SaveReadsRowsGood
<1>2. CASE SaveReadsTotal(s)
  BY <1>2, SaveReadsTotalGood
<1>3. CASE \E o \in Orders : SaveWrites(s, o)
  BY <1>3, SaveWritesGood
<1>4. CASE \E o \in Orders, cart \in Carts : EditReadsStatus(s, o, cart)
  BY <1>4, EditReadsStatusGood
<1>5. CASE EditReadsItems(s)
  BY <1>5, EditReadsItemsGood
<1>6. CASE EditReadsRows(s)
  BY <1>6, EditReadsRowsGood
<1>7. CASE EditChecksHistory(s)
  BY <1>7, EditChecksHistoryGood
<1>8. CASE EditWrites(s)
  BY <1>8, EditWritesGood
<1>9. CASE \E o \in Orders : CancelReadsStatus(s, o)
  BY <1>9, CancelReadsStatusGood
<1>10. CASE CancelReadsLog(s)
  BY <1>10, CancelReadsLogGood
<1>11. CASE CancelMarks(s)
  BY <1>11, CancelMarksGood
<1>12. CASE CancelReadsItems(s)
  BY <1>12, CancelReadsItemsGood
<1>13. CASE CancelReadsRow(s)
  BY <1>13, CancelReadsRowGood
<1>14. CASE CancelWrites(s)
  BY <1>14, CancelWritesGood
<1>15. CASE \E r \in Rows, q \in ReceivedQty : ReceiveReads(s, r, q)
  BY <1>15, ReceiveReadsGood
<1>16. CASE ReceiveWrites(s)
  BY <1>16, ReceiveWritesGood
<1>17. CASE \E r, to \in Rows : \E q \in 1 .. stock[r] : MoveReads(s, r, to, q)
  BY <1>17, MoveReadsGood
<1>18. CASE MoveWrites(s)
  BY <1>18, MoveWritesGood
<1>19. CASE \E r \in Rows, q \in CountedQty : Count(s, r, q)
  BY <1>19, CountGood
<1>20. CASE \E i \in DOMAIN log : DeleteHistory(s, i) \/ DropHistory(s, i)
  BY <1>20, DeleteHistoryGood, DropHistoryGood
<1>21. CASE Abandon(s)
  BY <1>21, AbandonGood
<1> QED BY <1>1, <1>2, <1>3, <1>4, <1>5, <1>6, <1>7, <1>8, <1>9, <1>10, <1>11, <1>12,
           <1>13, <1>14, <1>15, <1>16, <1>17, <1>18, <1>19, <1>20, <1>21 DEF CallStep

(* Before the first call nothing has been read.                              *)
LEMMA StartCurrent ==
  ASSUME Init
  PROVE  ReadsCurrent /\ Ledger!Init
<1>1. TypeOK
  BY StartType
<1>2. Orderly
  <2>1. DOMAIN log = {}
    BY DEF Init
  <2> QED BY <2>1 DEF Init, Orderly, MovesUp, Active
<1>3. ASSUME NEW s \in Sessions PROVE Current(s, call[s])
  <2>1. call[s].pc = "idle"
    BY DEF Init, NoCall
  <2> QED BY <2>1 DEF Current, SaveCurrent, OrderCurrent, EditCurrent, CancelCurrent, MoveCurrent, HasOrder
<1>4. Ledger!Init
  <2>1. \A k \in Keys : OnHand(stock, k) \in Nat
    BY <1>1, OnHandType DEF TypeOK
  <2>2. \A o \in Orders : TakenBy(o) = [k \in Keys |-> 0]
    BY DEF Init, TakenBy, Active
  <2> QED BY <2>1, <2>2 DEF Ledger!Init
<1> QED BY <1>1, <1>2, <1>3, <1>4 DEF ReadsCurrent

(* What every step does, of whichever session.                               *)
GoodNext == ReadsCurrent' /\ Recorded /\ StaysCancelled /\ Ledged
LEMMA StepGood ==
  ASSUME ReadsCurrent, Apart, "ship" \notin Deletable, [Next]_vars
  PROVE  GoodNext
<1>1. TypeOK'
  BY StepType DEF ReadsCurrent
<1>2. ASSUME NEW s \in Sessions, CallStep(s) PROVE GoodNext
  <2>1. GoodStep(s)
    BY <1>2, CallStepGood
  <2>2. ASSUME NEW t \in Sessions PROVE Current(t, call[t])'
    BY <2>1, OthersCurrent DEF GoodStep
  <2> QED BY <1>1, <2>1, <2>2 DEF GoodStep, GoodNext, ReadsCurrent
<1>3. CASE UNCHANGED vars
  <2>1. UNCHANGED <<stock, status, items, log, call>> /\ Orderly /\ log \in Seq(Entries)
    BY <1>3 DEF vars, ReadsCurrent, TypeOK
  <2>2. Orderly'
    BY <2>1 DEF Orderly, MovesUp
  <2>3. ASSUME NEW t \in Sessions PROVE Current(t, call[t])'
    <3>1. Current(t, call[t])
      BY DEF ReadsCurrent
    <3> QED BY <2>1, <3>1
            DEF Current, SaveCurrent, OrderCurrent, EditCurrent, CancelCurrent, MoveCurrent, Fresh
  <2>4. Recorded /\ StaysCancelled
    BY <2>1, LenProperties DEF Recorded, FiledNow, StaysCancelled
  <2>5. Ledged
    BY <2>1, LedgerAre DEF Ledged
  <2> QED BY <1>1, <2>2, <2>3, <2>4, <2>5 DEF GoodNext, ReadsCurrent
<1> QED BY <1>2, <1>3 DEF Next

(* As long as sessions keep to stock keys of their own and no shipping row of *)
(* the history is deleted with its effect, whatever a call has read of the   *)
(* stock and of orders is still so when it writes: nothing another session   *)
(* does between the two changes it.                                          *)
THEOREM ReadsStayCurrent ==
  ASSUME Apart, "ship" \notin Deletable
  PROVE  Spec => []ReadsCurrent
<1>1. Init => ReadsCurrent
  BY StartCurrent
<1>2. ReadsCurrent /\ [Next]_vars => ReadsCurrent'
  BY StepGood DEF GoodNext
<1> QED BY <1>1, <1>2, PTL DEF Spec

(* Then saving, editing and cancelling move units between the stock and one  *)
(* order and nowhere else, and only receipts, counts, moves and deletions of *)
(* history change the sum: the calls implement OutboundLedger.               *)
THEOREM OrdersKeepLedger ==
  ASSUME Apart, "ship" \notin Deletable
  PROVE  Spec => LedgerKept
<1>1. Init => ReadsCurrent /\ Ledger!Init
  BY StartCurrent
<1>2. ReadsCurrent /\ [Next]_vars => ReadsCurrent' /\ [Ledger!Next]_(Ledger!ledger)
  BY StepGood DEF GoodNext, Ledged
<1> QED BY <1>1, <1>2, PTL DEF Spec, LedgerKept, Ledger!Spec

(* Then the last history row a call files under a stock key says what the    *)
(* key has right after the call: final_stock is never a stale total.         *)
THEOREM FinalStockIsTrue ==
  ASSUME Apart, "ship" \notin Deletable
  PROVE  Spec => HistoryMatchesStock
<1>1. Init => ReadsCurrent
  BY StartCurrent
<1>2. ReadsCurrent /\ [Next]_vars => ReadsCurrent' /\ [Recorded]_vars
  BY StepGood DEF GoodNext
<1>3. [Recorded]_vars <=>
      [\A k \in Keys : (\E i \in Len(log) + 1 .. Len(log') : FiledUnder(log'[i]) = k)
                       => LatestFinal(log', k) = OnHand(stock', k)]_vars
  BY DEF Recorded, FiledNow
<1> QED BY <1>1, <1>2, <1>3, PTL DEF Spec, HistoryMatchesStock

(* And an order that was cancelled stays cancelled, even by an edit or a     *)
(* cancellation that read its status long before.                            *)
THEOREM CancellationIsFinal ==
  ASSUME Apart, "ship" \notin Deletable
  PROVE  Spec => CancelledForGood
<1>1. Init => ReadsCurrent
  BY StartCurrent
<1>2. ReadsCurrent /\ [Next]_vars => ReadsCurrent' /\ [StaysCancelled]_vars
  BY StepGood DEF GoodNext
<1>3. [StaysCancelled]_vars <=>
      [\A o \in Orders : status[o] = "cancelled" => status'[o] = "cancelled"]_vars
  BY DEF StaysCancelled
<1> QED BY <1>1, <1>2, <1>3, PTL DEF Spec, CancelledForGood

-----------------------------------------------------------------------------
(* The pages.  What is on the tables, in the sessions and on its way.         *)
SlipFields == {"status", "customer", "date", "items", "listed", "whole"}
JobFields == {"steps", "order", "customer", "date"}
DeskFields == {"page", "cart", "from", "editing", "customer", "date", "pend", "warn", "agreed",
               "clear", "ask"}
(* The transactions a click still has to make.                               *)
Selling == {<<"customer">>, <<"customer", "sale">>, <<"customer", "date", "sale">>,
            <<"date", "sale">>, <<"sale">>}
TakingBack == {<<"cancel">>, <<"cancel", "refresh">>}
Correcting == {<<"refresh">>, <<"sync">>}
Jobs == Selling \cup TakingBack \cup Correcting
Lively == {"saved", "edited"}
SomeCustomer == Customers \cup {0}
SomeDate == Dates \cup {0}

SlipOK(s) ==
  /\ DOMAIN s = SlipFields /\ s.status \in Statuses
  /\ s.customer \in SomeCustomer /\ s.date \in SomeDate
  /\ s.listed => s.status # "none"
(* A job is about an order that has been saved.                              *)
JobOK(j, t) ==
  /\ DOMAIN j = JobFields
  /\ j # Pages!Nothing => /\ j.steps \in Jobs /\ j.order \in Slips /\ t[j.order].status # "none"
                    /\ j.customer \in SomeCustomer /\ j.date \in SomeDate
DeskOK(d) ==
  /\ DOMAIN d = DeskFields /\ d.customer \in SomeCustomer /\ d.date \in SomeDate
  /\ {d.from, d.editing, d.ask} \subseteq Slips \cup {Pages!None}
PageTypes ==
  /\ sales \in [Customers -> Nat]
  /\ DOMAIN slips = Slips /\ \A o \in Slips : SlipOK(slips[o])
  /\ DOMAIN todo = Users /\ \A u \in Users : JobOK(todo[u], slips)
  /\ DOMAIN desk = Users /\ \A u \in Users : DeskOK(desk[u])
  /\ DOMAIN past = {"loose", "faults"} /\ past.loose \in BOOLEAN /\ past.faults \in Nat

(* What a form says of the order it was loaded from: a save that wrote the    *)
(* date has forgotten the order, and has the sale still to write.            *)
Holds(d, j, faults) ==
  /\ d.editing # Pages!None => d.from = d.editing
  /\ d.from # Pages!None /\ faults = 0 => d.editing = d.from \/ j.steps = <<"sale">>
FormsHold == \A u \in Users : Holds(desk[u], todo[u], past.faults)

(* Orders whose save ran to its end ask for no later date.                   *)
WholesCount ==
  \A c \in Customers : \A o \in Slips :
    slips[o].customer = c /\ slips[o].status \in Lively /\ slips[o].whole
          => slips[o].date <= sales[c]

(* While nothing loose has happened: one call at a time is at an order; its   *)
(* order is as it read it or wrote it; a later date waits for the call that   *)
(* writes it, and a date no order has for the call that corrects it.         *)
OneCall ==
  \A u, v \in Users : todo[u] # Pages!Nothing /\ todo[v] # Pages!Nothing
        /\ todo[u].order = todo[v].order => u = v
Follows(j, s) ==
  /\ j.steps = <<"customer", "sale">> => s.date = j.date
  /\ j.steps = <<"date", "sale">> => s.customer = j.customer
  /\ j.steps \in {<<"sale">>} \cup TakingBack => s.customer = j.customer /\ s.date = j.date
AllFollow == \A u \in Users : todo[u] # Pages!Nothing => Follows(todo[u], slips[todo[u].order])
SalesReach ==
  \A c \in Customers : \A o \in Slips : slips[o].customer = c /\ slips[o].status \in Lively =>
    slips[o].date <= sales[c] \/ \E u \in Users : todo[u].steps \in Selling /\ todo[u].order = o
SalesComeFrom ==
  \A c \in Customers :
    \/ sales[c] = 0
    \/ \E o \in Slips : slips[o].customer = c /\ slips[o].status \in Lively
          /\ slips[o].date = sales[c]
    \/ \E u \in Users : todo[u].steps \in Correcting /\ todo[u].customer = c
          /\ todo[u].date = sales[c]
Strict == OneCall /\ AllFollow /\ SalesReach /\ SalesComeFrom

(* The inductive invariant.                                                  *)
PagesInv == PageTypes /\ FormsHold /\ WholesCount /\ (~past.loose => Strict)

-----------------------------------------------------------------------------
(* Jobs and forms.                                                           *)

(* A job that has begun is one of the sequences, told by its first step.      *)
LEMMA JobHeads ==
  ASSUME NEW s \in Jobs
  PROVE  /\ s # <<>>
         /\ Head(s) = "customer"
               => s \in {<<"customer">>, <<"customer", "sale">>, <<"customer", "date", "sale">>}
         /\ Head(s) = "date" => s = <<"date", "sale">>
         /\ Head(s) = "sale" => s = <<"sale">>
         /\ Head(s) = "cancel" => s \in TakingBack
         /\ Head(s) = "refresh" => s = <<"refresh">>
         /\ Head(s) = "sync" => s = <<"sync">>
BY DEF Jobs, Selling, TakingBack, Correcting

LEMMA JobTails ==
  /\ Len(<<"customer">>) = 1 /\ Len(<<"cancel">>) = 1 /\ Len(<<"sale">>) = 1
  /\ Len(<<"refresh">>) = 1 /\ Len(<<"sync">>) = 1
  /\ Len(<<"customer", "sale">>) # 1 /\ Tail(<<"customer", "sale">>) = <<"sale">>
  /\ Len(<<"customer", "date", "sale">>) # 1
        /\ Tail(<<"customer", "date", "sale">>) = <<"date", "sale">>
  /\ Len(<<"date", "sale">>) # 1 /\ Tail(<<"date", "sale">>) = <<"sale">>
  /\ Len(<<"cancel", "refresh">>) # 1 /\ Tail(<<"cancel", "refresh">>) = <<"refresh">>
OBVIOUS

(* Nothing to do is none of them.                                            *)
LEMMA NothingToDo ==
  /\ Pages!Nothing.steps = <<>> /\ Pages!Nothing.steps \notin Jobs
        /\ Pages!Nothing.steps # <<"sale">>
  /\ DOMAIN Pages!Nothing = JobFields
<1>1. Pages!Nothing.steps = <<>> /\ DOMAIN Pages!Nothing = JobFields
  BY DEF Pages!Nothing, JobFields
<1>2. <<>> \notin Jobs
  BY JobHeads
<1>3. <<"sale">> \in Jobs
  BY DEF Jobs, Selling
<1> QED BY <1>1, <1>2, <1>3

(* A call at some step, and what is left of it after that step.              *)
LEMMA JobAt ==
  ASSUME PageTypes, NEW u \in Users, NEW step, Pages!Job(u, step)
  PROVE  /\ todo[u] # Pages!Nothing /\ todo[u].steps \in Jobs /\ todo[u].order \in Slips
         /\ todo[u].customer \in SomeCustomer /\ todo[u].date \in SomeDate
         /\ slips[todo[u].order].status # "none" /\ Head(todo[u].steps) = step
<1>1. todo[u] # Pages!Nothing
  BY NothingToDo DEF Pages!Job
<1> QED BY <1>1 DEF PageTypes, JobOK, Pages!Job

(* What is left has the order, the customer and the day of the whole.        *)
LEMMA RestOf ==
  ASSUME PageTypes, NEW u \in Users, todo[u].steps \in Jobs
  PROVE  IF Pages!Last(u) THEN Pages!Rest(u) = Pages!Nothing
         ELSE /\ DOMAIN Pages!Rest(u) = JobFields
              /\ Pages!Rest(u).steps = Tail(todo[u].steps)
              /\ Pages!Rest(u).order = todo[u].order
              /\ Pages!Rest(u).customer = todo[u].customer
              /\ Pages!Rest(u).date = todo[u].date
<1>1. DOMAIN todo[u] = JobFields
  BY DEF PageTypes, JobOK
<1> QED BY <1>1 DEF Pages!Rest, JobFields

(* The first of some days or customers is one of them.                       *)
LEMMA FirstOf == ASSUME NEW S, S \subseteq Nat, S # {} PROVE Pages!Min(S) \in S
BY LeastNat DEF Pages!Min

LEMMA EmptyDeskOK ==
  ASSUME Pages!PagesOK
  PROVE  DeskOK(Pages!EmptyDesk) /\ Pages!EmptyDesk.from = Pages!None
           /\ Pages!EmptyDesk.editing = Pages!None
<1>1. Pages!First(Registered) \in Customers
  BY FirstOf DEF Pages!PagesOK, Pages!First
<1>2. Pages!Today \in Dates
  BY FirstOf DEF Pages!PagesOK, Pages!Today
<1> QED BY <1>1, <1>2 DEF Pages!EmptyDesk, DeskOK, DeskFields, SomeCustomer, SomeDate

LEMMA ClearedOK ==
  ASSUME Pages!PagesOK, NEW d, DeskOK(d)
  PROVE  DeskOK(Pages!Cleared(d)) /\ Pages!Cleared(d).from = Pages!None
           /\ Pages!Cleared(d).editing = Pages!None
<1>1. DOMAIN Pages!EmptyDesk = DeskFields
  BY DEF Pages!EmptyDesk, DeskFields
<1>2. /\ DOMAIN Pages!Cleared(d) = DeskFields /\ Pages!Cleared(d).from = Pages!EmptyDesk.from
      /\ Pages!Cleared(d).editing = Pages!EmptyDesk.editing
            /\ Pages!Cleared(d).customer = Pages!EmptyDesk.customer
      /\ Pages!Cleared(d).date = Pages!EmptyDesk.date /\ Pages!Cleared(d).ask = d.ask
  BY <1>1 DEF Pages!Cleared, DeskFields
<1> QED BY <1>2, EmptyDeskOK DEF DeskOK

(* A finite set of naturals is bounded.                                      *)
LEMMA FiniteBound ==
  ASSUME NEW S, IsFiniteSet(S), S \subseteq Nat
  PROVE  \E n \in Nat : S \subseteq 0 .. n
<1> DEFINE Bounded(T) == \E n \in Nat : T \subseteq 0 .. n
           P(k) == \A T \in SUBSET S : IsFiniteSet(T) /\ Cardinality(T) = k => Bounded(T)
           N == {k \in Nat : P(k)}
<1>1. P(0)
  <2> SUFFICES ASSUME NEW T \in SUBSET S, IsFiniteSet(T), Cardinality(T) = 0 PROVE Bounded(T)
    OBVIOUS
  <2>1. T = {}
    BY FS_EmptySet, Zenon
  <2> QED BY <2>1
<1>2. ASSUME NEW k \in Nat, P(k) PROVE P(k + 1)
  <2> HIDE DEF Bounded
  <2> SUFFICES ASSUME NEW T \in SUBSET S, IsFiniteSet(T), Cardinality(T) = k + 1 PROVE Bounded(T)
    OBVIOUS
  <2>1. Cardinality(T) # 0
    OBVIOUS
  <2>2. PICK x \in T : TRUE
    BY <2>1, FS_EmptySet, Zenon
  <2>3. IsFiniteSet(T \ {x}) /\ Cardinality(T \ {x}) = Cardinality(T) - 1
    BY FS_RemoveElement, Zenon
  <2>4. T \ {x} \in SUBSET S /\ x \in Nat
    OBVIOUS
  <2>5. Cardinality(T \ {x}) = k
    BY <2>3
  <2>6. Bounded(T \ {x})
    BY <1>2, <2>3, <2>4, <2>5, Zenon
  <2>7. PICK n \in Nat : T \ {x} \subseteq 0 .. n
    BY <2>6 DEF Bounded
  <2>8. T \subseteq 0 .. n + x /\ n + x \in Nat
    BY <2>4, <2>7
  <2> QED BY <2>8 DEF Bounded
<1> HIDE DEF P
<1>3. Cardinality(S) \in N
  <2>1. 0 \in N /\ \A k \in Nat : k \in N => k + 1 \in N
    BY <1>1, <1>2
  <2> HIDE DEF N
  <2> QED BY <2>1, SizeInduction
<1>4. P(Cardinality(S)) /\ S \in SUBSET S
  BY <1>3
<1> QED BY <1>4, Zenon DEF P

(* The latest of some orders' dates.                                         *)
LEMMA LatestIs ==
  ASSUME Pages!PagesOK, PageTypes, NEW S \in SUBSET Slips
  PROVE  /\ Pages!LatestOf(S) \in Nat
         /\ \A o \in S : slips[o].date <= Pages!LatestOf(S)
         /\ Pages!LatestOf(S) = 0 \/ \E o \in S : slips[o].date = Pages!LatestOf(S)
<1> DEFINE D == {slips[o].date : o \in S} \cup {0}
<1>1. PICK n \in Nat : Dates \subseteq 0 .. n
  <2>1. IsFiniteSet(Dates) /\ Dates \subseteq Nat
    BY DEF Pages!PagesOK, Pages!IsFiniteSet, IsFiniteSet
  <2> QED BY <2>1, FiniteBound
<1>2. ASSUME NEW o \in S PROVE slips[o].date \in Nat /\ slips[o].date \in 0 .. n
  <2>1. slips[o].date \in Dates \cup {0}
    BY Zenon DEF PageTypes, SlipOK, SomeDate
  <2>2. Dates \cup {0} \subseteq 0 .. n /\ 0 .. n \subseteq Nat
    BY <1>1
  <2> QED BY <2>1, <2>2, Zenon
<1>3. D \subseteq 0 .. n /\ D # {}
  BY <1>2
<1>4. Pages!LatestOf(S) = Max(D)
  BY DEF Pages!LatestOf, Pages!Max, Max
<1> HIDE DEF D
<1>5. Max(D) \in D /\ \A y \in D : Max(D) >= y
  BY <1>3, MaxIn
<1>6. Max(D) \in Nat
  <2>1. 0 .. n \subseteq Nat
    OBVIOUS
  <2> QED BY <1>3, <1>5, <2>1, Zenon
<1> QED BY <1>2, <1>4, <1>5, <1>6 DEF D

-----------------------------------------------------------------------------
(* Steps: one session, and at most one order, changes.                       *)
Frame(u, o) ==
  /\ DOMAIN slips' = Slips /\ \A p \in Slips : p # o => slips'[p] = slips[p]
  /\ DOMAIN todo' = Users /\ \A v \in Users : v # u => todo'[v] = todo[v]
  /\ DOMAIN desk' = Users /\ \A v \in Users : v # u => desk'[v] = desk[v]
PastOK(p) == DOMAIN p = {"loose", "faults"} /\ p.loose \in BOOLEAN /\ p.faults \in Nat
(* No other session has something to do with o.                              *)
NobodyElse(u, o) == \A v \in Users : v # u /\ todo[v] # Pages!Nothing => todo[v].order # o

LEMMA TypesStep ==
  ASSUME PageTypes, NEW u \in Users, NEW o, Frame(u, o),
         o \in Slips => SlipOK(slips'[o]) /\ (slips[o].status # "none"
               => slips'[o].status # "none"),
         JobOK(todo'[u], slips'), DeskOK(desk'[u]), sales' \in [Customers -> Nat], PastOK(past')
  PROVE  PageTypes'
<1>1. \A p \in Slips : SlipOK(slips'[p]) /\ (slips[p].status # "none"
        => slips'[p].status # "none")
  <2> SUFFICES ASSUME NEW p \in Slips
               PROVE  SlipOK(slips'[p]) /\ (slips[p].status # "none" => slips'[p].status # "none")
    OBVIOUS
  <2>1. CASE p = o
    BY <2>1
  <2>2. CASE p # o
    BY <2>2 DEF Frame, PageTypes
  <2> QED BY <2>1, <2>2
<1>2. ASSUME NEW v \in Users PROVE JobOK(todo'[v], slips') /\ DeskOK(desk'[v])
  <2>1. CASE v = u
    BY <2>1
  <2>2. CASE v # u
    <3>1. todo'[v] = todo[v] /\ desk'[v] = desk[v] /\ JobOK(todo[v], slips) /\ DeskOK(desk[v])
      BY <2>2 DEF Frame, PageTypes
    <3>2. JobOK(todo[v], slips')
      BY <1>1, <3>1, Zenon DEF JobOK
    <3> QED BY <3>1, <3>2
  <2> QED BY <2>1, <2>2
<1>3. /\ DOMAIN slips' = Slips /\ DOMAIN todo' = Users /\ DOMAIN desk' = Users
      /\ DOMAIN past' = {"loose", "faults"} /\ past'.loose \in BOOLEAN /\ past'.faults \in Nat
  BY DEF Frame, PastOK
<1> QED BY <1>1, <1>2, <1>3, Zenon DEF PageTypes

LEMMA FormsStep ==
  ASSUME FormsHold, NEW u \in Users, NEW o, Frame(u, o), past'.faults = 0 => past.faults = 0,
         Holds(desk'[u], todo'[u], past'.faults)
  PROVE  FormsHold'
<1> SUFFICES ASSUME NEW v \in Users PROVE Holds(desk'[v], todo'[v], past'.faults)
  BY DEF FormsHold
<1>1. CASE v = u
  BY <1>1
<1>2. CASE v # u
  <2>1. desk'[v] = desk[v] /\ todo'[v] = todo[v] /\ Holds(desk[v], todo[v], past.faults)
    BY <1>2 DEF Frame, FormsHold
  <2>2. Holds(desk[v], todo[v], past'.faults)
    BY <2>1, Zenon DEF Holds
  <2> QED BY <2>1, <2>2
<1> QED BY <1>1, <1>2

LEMMA DatesNat ==
  ASSUME Pages!PagesOK, PageTypes
  PROVE  /\ \A o \in Slips : slips[o].date \in Nat /\ slips[o].customer \in SomeCustomer
         /\ \A c \in Customers : sales[c] \in Nat /\ c \in Nat /\ c # 0
         /\ SomeDate \subseteq Nat
<1>1. \A o \in Slips : slips[o].date \in SomeDate /\ slips[o].customer \in SomeCustomer
  BY Zenon DEF PageTypes, SlipOK
<1>2. SomeDate \subseteq Nat /\ \A c \in Customers : c \in Nat /\ c # 0
  BY DEF Pages!PagesOK, SomeDate
<1>3. \A c \in Customers : sales[c] \in Nat
  BY DEF PageTypes
<1> QED BY <1>1, <1>2, <1>3, Zenon

(* Last sales that only grow keep their count of the orders saved to the end. *)
LEMMA WholesStep ==
  ASSUME Pages!PagesOK, PageTypes, WholesCount, NEW u, NEW o, Frame(u, o),
         sales' \in [Customers -> Nat],
         \A c \in Customers : sales[c] <= sales'[c],
         ASSUME o \in Slips, slips'[o].customer \in Customers, slips'[o].status \in Lively,
                slips'[o].whole
         PROVE  slips'[o].date <= sales'[slips'[o].customer]
  PROVE  WholesCount'
<1> SUFFICES ASSUME NEW c \in Customers, NEW p \in Slips,
                    slips'[p].customer = c, slips'[p].status \in Lively, slips'[p].whole
             PROVE  slips'[p].date <= sales'[c]
  BY DEF WholesCount
<1>1. CASE p = o
  BY <1>1
<1>2. CASE p # o
  <2>1. slips'[p] = slips[p]
    BY <1>2 DEF Frame
  <2>2. slips[p].date <= sales[c]
    BY <2>1 DEF WholesCount
  <2>3. slips[p].date \in Nat /\ sales[c] \in Nat /\ sales'[c] \in Nat
    BY DatesNat
  <2> QED BY <2>1, <2>2, <2>3
<1> QED BY <1>1, <1>2

(* A step that writes no last sale.                                          *)
LEMMA StrictStep ==
  ASSUME PageTypes, Strict, NEW u \in Users, NEW o \in Slips, Frame(u, o), NobodyElse(u, o),
         sales' = sales,
         todo[u].steps \in Selling => todo[u].order = o, todo[u].steps \notin Correcting,
         todo'[u] # Pages!Nothing => todo'[u].order = o /\ Follows(todo'[u], slips'[o]),
         ASSUME slips'[o].customer \in Customers, slips'[o].status \in Lively
         PROVE  \/ slips'[o].date <= sales[slips'[o].customer]
                \/ todo'[u].steps \in Selling /\ todo'[u].order = o,
         ASSUME slips[o].customer \in Customers, slips[o].status \in Lively
         PROVE  \/ /\ slips'[o].status \in Lively
                   /\ slips'[o].customer = slips[o].customer /\ slips'[o].date = slips[o].date
                \/ /\ todo'[u].steps \in Correcting
                   /\ todo'[u].customer = slips[o].customer /\ todo'[u].date = slips[o].date
  PROVE  Strict'
<1>1. \A p \in Slips : p # o => slips'[p] = slips[p]
  BY DEF Frame
<1>2. \A v \in Users : v # u => todo'[v] = todo[v]
  BY DEF Frame
<1>3. \A v \in Users : v # u /\ todo'[v] # Pages!Nothing
        => todo[v] # Pages!Nothing /\ todo[v].order # o
  BY <1>2 DEF NobodyElse
<1>4. OneCall'
  <2> SUFFICES ASSUME NEW v \in Users, NEW w \in Users,
                      todo'[v] # Pages!Nothing, todo'[w] # Pages!Nothing, todo'[v].order = todo'[w].order, v # w
               PROVE  FALSE
    BY Zenon DEF OneCall
  <2>1. CASE v = u
    BY <1>2, <1>3, <2>1
  <2>2. CASE w = u
    BY <1>2, <1>3, <2>2
  <2>3. CASE v # u /\ w # u
    BY <1>2, <2>3, Zenon DEF Strict, OneCall
  <2> QED BY <2>1, <2>2, <2>3
<1>5. AllFollow'
  <2> SUFFICES ASSUME NEW v \in Users, todo'[v] # Pages!Nothing
               PROVE  Follows(todo'[v], slips'[todo'[v].order])
    BY DEF AllFollow
  <2>1. CASE v = u
    BY <2>1
  <2>2. CASE v # u
    <3>1. todo'[v] = todo[v] /\ todo[v] # Pages!Nothing /\ todo[v].order # o
            /\ todo[v].order \in Slips
      BY <1>2, <1>3, <2>2, Zenon DEF PageTypes, JobOK
    <3>2. slips'[todo[v].order] = slips[todo[v].order] /\ Follows(todo[v], slips[todo[v].order])
      BY <1>1, <3>1, Zenon DEF Strict, AllFollow
    <3> QED BY <3>1, <3>2
  <2> QED BY <2>1, <2>2
<1>6. SalesReach'
  <2> SUFFICES ASSUME NEW c \in Customers, NEW p \in Slips, slips'[p].customer = c, slips'[p].status \in Lively
               PROVE  \/ slips'[p].date <= sales[c]
                      \/ \E v \in Users : todo'[v].steps \in Selling /\ todo'[v].order = p
    BY Zenon DEF SalesReach
  <2>1. CASE p = o
    BY <2>1
  <2>2. CASE p # o
    <3>1. slips'[p] = slips[p]
      BY <1>1, <2>2
    <3>2. CASE slips[p].date <= sales[c]
      BY <3>1, <3>2
    <3>3. CASE \E v \in Users : todo[v].steps \in Selling /\ todo[v].order = p
      <4>1. PICK v \in Users : todo[v].steps \in Selling /\ todo[v].order = p
        BY <3>3
      <4>2. v # u
        BY <2>2, <4>1
      <4> QED BY <1>2, <4>1, <4>2
    <3> QED BY <3>1, <3>2, <3>3, Zenon DEF Strict, SalesReach
  <2> QED BY <2>1, <2>2
<1>7. SalesComeFrom'
  <2> SUFFICES ASSUME NEW c \in Customers
               PROVE  \/ sales[c] = 0
                      \/ \E p \in Slips : slips'[p].customer = c
                            /\ slips'[p].status \in Lively /\ slips'[p].date = sales[c]
                      \/ \E v \in Users : todo'[v].steps \in Correcting
                            /\ todo'[v].customer = c /\ todo'[v].date = sales[c]
    BY Zenon DEF SalesComeFrom
  <2>1. CASE sales[c] = 0
    BY <2>1
  <2>2. CASE \E p \in Slips : slips[p].customer = c /\ slips[p].status \in Lively
               /\ slips[p].date = sales[c]
    <3>1. PICK p \in Slips : slips[p].customer = c /\ slips[p].status \in Lively
                 /\ slips[p].date = sales[c]
      BY <2>2
    <3>2. CASE p = o
      BY <3>1, <3>2
    <3>3. CASE p # o
      BY <1>1, <3>1, <3>3
    <3> QED BY <3>2, <3>3
  <2>3. CASE \E v \in Users : todo[v].steps \in Correcting /\ todo[v].customer = c
               /\ todo[v].date = sales[c]
    <3>1. PICK v \in Users : todo[v].steps \in Correcting /\ todo[v].customer = c
                 /\ todo[v].date = sales[c]
      BY <2>3
    <3>2. v # u
      BY <3>1
    <3> QED BY <1>2, <3>1, <3>2
  <2> QED BY <2>1, <2>2, <2>3, Zenon DEF Strict, SalesComeFrom
<1> QED BY <1>4, <1>5, <1>6, <1>7 DEF Strict

(* A step that leaves orders, sales and jobs.                                *)
LEMMA StrictKept ==
  ASSUME slips' = slips, sales' = sales, todo' = todo
  PROVE  (WholesCount => WholesCount') /\ (Strict => Strict')
<1>1. WholesCount => WholesCount'
  BY Zenon DEF WholesCount
<1>2. (OneCall => OneCall') /\ (AllFollow => AllFollow')
  BY Zenon DEF OneCall, AllFollow
<1>3. SalesReach => SalesReach'
  BY Zenon DEF SalesReach
<1>4. SalesComeFrom => SalesComeFrom'
  BY ZenonT(30) DEF SalesComeFrom
<1> QED BY <1>1, <1>2, <1>3, <1>4, Zenon DEF Strict

(* A step of a form alone.                                                   *)
LEMMA DeskStep ==
  ASSUME Pages!PagesOK, PagesInv, NEW u \in Users, NEW d, Pages!Desk(u, d), DeskOK(d),
         Holds(d, todo[u], past.faults),
         UNCHANGED <<slips, sales, todo, past>>
  PROVE  PagesInv'
<1>1. Pages!None \notin Slips
  BY DEF Pages!PagesOK, Pages!None
<1>2. Frame(u, Pages!None) /\ desk'[u] = d
  BY <1>1 DEF PagesInv, PageTypes, Frame, Pages!Desk
<1>3. PageTypes'
  <2>1. JobOK(todo'[u], slips') /\ DeskOK(desk'[u]) /\ sales' \in [Customers -> Nat]
          /\ PastOK(past')
    BY <1>2 DEF PagesInv, PageTypes, PastOK
  <2> QED BY <1>1, <1>2, <2>1, TypesStep DEF PagesInv
<1>4. FormsHold'
  BY <1>2, FormsStep DEF PagesInv
<1>5. WholesCount' /\ (~past'.loose => Strict')
  BY StrictKept, Zenon DEF PagesInv
<1> QED BY <1>3, <1>4, <1>5 DEF PagesInv

-----------------------------------------------------------------------------
(* The steps of a page that write no table.                                  *)
LEMMA DeskAlone ==
  ASSUME Pages!PagesOK, PagesInv, NEW u \in Users, NEW d, Pages!Desk(u, d), DeskOK(d),
         d.from = desk[u].from, d.editing = desk[u].editing, UNCHANGED <<slips, sales, todo, past>>
  PROVE  PagesInv'
<1>1. Holds(d, todo[u], past.faults)
  BY DEF PagesInv, FormsHold, Holds
<1> QED BY <1>1, DeskStep

LEMMA DeskAnew ==
  ASSUME Pages!PagesOK, PagesInv, NEW u \in Users, NEW d, Pages!Desk(u, d), DeskOK(d),
         d.editing = d.from, UNCHANGED <<slips, sales, todo, past>>
  PROVE  PagesInv'
<1>1. Holds(d, todo[u], past.faults)
  BY DEF Holds
<1> QED BY <1>1, DeskStep

LEMMA DeskFacts ==
  ASSUME PagesInv, NEW u \in Users
  PROVE  /\ DeskOK(desk[u]) /\ DOMAIN desk[u] = DeskFields
         /\ desk[u].from \in Slips \cup {Pages!None}
               /\ desk[u].editing \in Slips \cup {Pages!None}
         /\ desk[u].ask \in Slips \cup {Pages!None}
         /\ desk[u].customer \in SomeCustomer /\ desk[u].date \in SomeDate
<1>1. DeskOK(desk[u])
  BY DEF PagesInv, PageTypes
<1> QED BY <1>1 DEF DeskOK

(* A form that keeps its order, customer and day, and asks about an order.   *)
LEMMA DeskLike ==
  ASSUME PagesInv, NEW u \in Users, NEW d, DOMAIN d = DeskFields,
         d.from = desk[u].from, d.editing = desk[u].editing, d.customer = desk[u].customer,
         d.date = desk[u].date, d.ask \in Slips \cup {Pages!None}
  PROVE  DeskOK(d)
BY DeskFacts DEF DeskOK

LEMMA BeginStep ==
  ASSUME Pages!PagesOK, PagesInv, NEW u \in Users, Pages!Begin(u)
  PROVE  PagesInv'
<1>1. UNCHANGED <<slips, sales, todo, past>>
  BY DEF Pages!Begin, Pages!Tables
<1>2. CASE Pages!Desk(u, Pages!Cleared(desk[u]))
  <2>1. DeskOK(Pages!Cleared(desk[u])) /\ Pages!Cleared(desk[u]).from = Pages!None
          /\ Pages!Cleared(desk[u]).editing = Pages!None
    BY ClearedOK, DeskFacts
  <2> QED BY <1>1, <1>2, <2>1, DeskAnew
<1>3. CASE Pages!Desk(u, desk[u])
  BY <1>1, <1>3, DeskAlone, DeskFacts
<1> QED BY <1>2, <1>3 DEF Pages!Begin

LEMMA StutterStep == ASSUME PagesInv, UNCHANGED <<slips, sales, todo, past, desk>> PROVE PagesInv'
<1>1. slips' = slips /\ sales' = sales /\ todo' = todo /\ past' = past /\ desk' = desk
  OBVIOUS
<1>2. PageTypes' /\ FormsHold'
  BY <1>1, Zenon DEF PagesInv, PageTypes, FormsHold
<1>3. WholesCount' /\ (~past'.loose => Strict')
  BY <1>1, StrictKept, Zenon DEF PagesInv
<1> QED BY <1>2, <1>3, Zenon DEF PagesInv

LEMMA GoStep ==
  ASSUME Pages!PagesOK, PagesInv, NEW u \in Users, NEW page, Pages!Go(u, page)
  PROVE  PagesInv'
<1>1. UNCHANGED <<slips, sales, todo, past>>
  BY DEF Pages!Go, Pages!Still, Pages!Tables
<1>2. CASE page = "out"
  <2> DEFINE d == [Pages!Cleared(desk[u]) EXCEPT !.page = page, !.clear = TRUE]
  <2>1. DeskOK(Pages!Cleared(desk[u])) /\ Pages!Cleared(desk[u]).from = Pages!None
          /\ Pages!Cleared(desk[u]).editing = Pages!None
    BY ClearedOK, DeskFacts
  <2>2. DeskOK(d) /\ d.editing = d.from
    BY <2>1 DEF DeskOK, DeskFields
  <2>3. Pages!Desk(u, d)
    BY <1>2 DEF Pages!Go
  <2> HIDE DEF d
  <2> QED BY <1>1, <2>2, <2>3, DeskAnew
<1>3. CASE page # "out"
  <2> DEFINE d == [desk[u] EXCEPT !.page = page]
  <2>1. DeskOK(d) /\ d.from = desk[u].from /\ d.editing = desk[u].editing
    BY DeskFacts, DeskLike DEF DeskFields
  <2>2. Pages!Desk(u, d)
    BY <1>3 DEF Pages!Go
  <2> HIDE DEF d
  <2> QED BY <1>1, <2>1, <2>2, DeskAlone
<1> QED BY <1>2, <1>3

(* The first questions of the order form.                                    *)
LEMMA ChooseStep ==
  ASSUME Pages!PagesOK, PagesInv, NEW u \in Users, NEW c \in Customers, NEW day \in Dates,
         Pages!Choose(u, c, day)
  PROVE  PagesInv'
<1> DEFINE d == [desk[u] EXCEPT !.customer = c, !.date = day]
<1>1. UNCHANGED <<slips, sales, todo, past>> /\ Pages!Desk(u, d)
  BY DEF Pages!Choose, Pages!Still, Pages!Tables
<1>2. DeskOK(d) /\ d.from = desk[u].from /\ d.editing = desk[u].editing
  BY DeskFacts DEF DeskOK, DeskFields, SomeCustomer, SomeDate
<1> HIDE DEF d
<1> QED BY <1>1, <1>2, DeskAlone

(* A click that changes what is in the cart, or the dialogs.                 *)
Cartwise(d, u) ==
  /\ DOMAIN d = DeskFields /\ d.from = desk[u].from /\ d.editing = desk[u].editing
  /\ d.customer = desk[u].customer /\ d.date = desk[u].date
LEMMA CartStep ==
  ASSUME Pages!PagesOK, PagesInv, NEW u \in Users, NEW d, Pages!Desk(u, d), Cartwise(d, u),
         d.ask \in Slips \cup {Pages!None}, UNCHANGED <<slips, sales, todo, past>>
  PROVE  PagesInv'
<1>1. DeskOK(d)
  BY DeskLike DEF Cartwise
<1> QED BY <1>1, DeskAlone DEF Cartwise

LEMMA PickStep ==
  ASSUME Pages!PagesOK, PagesInv, NEW u \in Users, NEW r, NEW n, Pages!Pick(u, r, n)
  PROVE  PagesInv'
<1>1. UNCHANGED <<slips, sales, todo, past>>
  BY DEF Pages!Pick, Pages!Still, Pages!Tables
<1>2. CASE Pages!Desk(u, [desk[u] EXCEPT !.pend = Pages!Line(r, n)])
  <2> DEFINE d == [desk[u] EXCEPT !.pend = Pages!Line(r, n)]
  <2>1. Cartwise(d, u) /\ d.ask \in Slips \cup {Pages!None}
    BY DeskFacts DEF Cartwise, DeskFields
  <2> HIDE DEF d
  <2> QED BY <1>1, <1>2, <2>1, CartStep DEF d
<1>3. CASE Pages!Desk(u, [desk[u] EXCEPT !.cart = Pages!Sum(@, Pages!Line(r, n))])
  <2> DEFINE d == [desk[u] EXCEPT !.cart = Pages!Sum(@, Pages!Line(r, n))]
  <2>1. Cartwise(d, u) /\ d.ask \in Slips \cup {Pages!None}
    BY DeskFacts DEF Cartwise, DeskFields
  <2> HIDE DEF d
  <2> QED BY <1>1, <1>3, <2>1, CartStep DEF d
<1> QED BY <1>2, <1>3 DEF Pages!Pick

LEMMA AnswerExpiryStep ==
  ASSUME Pages!PagesOK, PagesInv, NEW u \in Users, NEW yes, Pages!AnswerExpiry(u, yes)
  PROVE  PagesInv'
<1>1. UNCHANGED <<slips, sales, todo, past>>
  BY DEF Pages!AnswerExpiry, Pages!Still, Pages!Tables
<1>2. PICK cart : Pages!Desk(u, [desk[u] EXCEPT !.cart = cart, !.pend = Pages!NoCart])
  BY DEF Pages!AnswerExpiry
<1> DEFINE d == [desk[u] EXCEPT !.cart = cart, !.pend = Pages!NoCart]
<1>3. Cartwise(d, u) /\ d.ask \in Slips \cup {Pages!None}
  BY DeskFacts DEF Cartwise, DeskFields
<1>4. Pages!Desk(u, d)
  BY <1>2
<1> HIDE DEF d
<1> QED BY <1>1, <1>3, <1>4, CartStep

LEMMA ChangeLineStep ==
  ASSUME Pages!PagesOK, PagesInv, NEW u \in Users, NEW r, NEW n, Pages!ChangeLine(u, r, n)
  PROVE  PagesInv'
<1> DEFINE d == [desk[u] EXCEPT !.cart[r] = n]
<1>1. UNCHANGED <<slips, sales, todo, past>> /\ Pages!Desk(u, d)
  BY DEF Pages!ChangeLine, Pages!Still, Pages!Tables
<1>2. Cartwise(d, u) /\ d.ask \in Slips \cup {Pages!None}
  BY DeskFacts DEF Cartwise, DeskFields
<1> HIDE DEF d
<1> QED BY <1>1, <1>2, CartStep

LEMMA EmptyCartStep ==
  ASSUME Pages!PagesOK, PagesInv, NEW u \in Users, Pages!EmptyCart(u)
  PROVE  PagesInv'
<1> DEFINE d == [desk[u] EXCEPT !.cart = Pages!NoCart, !.from = Pages!None, !.editing = Pages!None]
<1>1. UNCHANGED <<slips, sales, todo, past>> /\ Pages!Desk(u, d)
  BY DEF Pages!EmptyCart, Pages!Still, Pages!Tables
<1>2. DeskOK(d) /\ d.editing = d.from
  BY DeskFacts DEF DeskOK, DeskFields
<1> HIDE DEF d
<1> QED BY <1>1, <1>2, DeskAnew

LEMMA AskFirstStep ==
  ASSUME Pages!PagesOK, PagesInv, NEW u \in Users, Pages!AskFirst(u)
  PROVE  PagesInv'
<1> DEFINE d == [desk[u] EXCEPT !.warn = Pages!Warned(u)]
<1>1. UNCHANGED <<slips, sales, todo, past>> /\ Pages!Desk(u, d)
  BY DEF Pages!AskFirst, Pages!Still, Pages!Tables
<1>2. Cartwise(d, u) /\ d.ask \in Slips \cup {Pages!None}
  BY DeskFacts DEF Cartwise, DeskFields
<1> HIDE DEF d
<1> QED BY <1>1, <1>2, CartStep

LEMMA AnswerWarningStep ==
  ASSUME Pages!PagesOK, PagesInv, NEW u \in Users, NEW yes, Pages!AnswerWarning(u, yes)
  PROVE  PagesInv'
<1> DEFINE d == [desk[u] EXCEPT !.warn = {}, !.agreed = yes]
<1>1. UNCHANGED <<slips, sales, todo, past>> /\ Pages!Desk(u, d)
  BY DEF Pages!AnswerWarning, Pages!Tables
<1>2. Cartwise(d, u) /\ d.ask \in Slips \cup {Pages!None}
  BY DeskFacts DEF Cartwise, DeskFields
<1> HIDE DEF d
<1> QED BY <1>1, <1>2, CartStep

LEMMA RefusedStep ==
  ASSUME Pages!PagesOK, PagesInv, NEW u \in Users, Pages!Refused(u)
  PROVE  PagesInv'
<1> DEFINE d == [desk[u] EXCEPT !.agreed = FALSE]
<1>1. UNCHANGED <<slips, sales, todo, past>> /\ Pages!Desk(u, d)
  BY DEF Pages!Refused, Pages!Still, Pages!Tables
<1>2. Cartwise(d, u) /\ d.ask \in Slips \cup {Pages!None}
  BY DeskFacts DEF Cartwise, DeskFields
<1> HIDE DEF d
<1> QED BY <1>1, <1>2, CartStep

(* The list of saved orders.                                                 *)
LEMMA FoundCustomer ==
  ASSUME Pages!PagesOK, PagesInv, NEW o \in Slips
  PROVE  Pages!Found(o) \in SomeCustomer /\ slips[o].date \in SomeDate
<1>1. slips[o].customer \in SomeCustomer /\ slips[o].date \in SomeDate
  BY Zenon DEF PagesInv, PageTypes, SlipOK
<1> DEFINE same == {x \in Registered : slips[o].customer # 0
      => NameOf[x] = NameOf[slips[o].customer]}
<1>2. same \subseteq Customers /\ same \subseteq Nat
  BY DEF Pages!PagesOK
<1>3. same # {} => Pages!First(same) \in SomeCustomer
  BY <1>2, FirstOf DEF Pages!First, SomeCustomer
<1> QED BY <1>1, <1>3 DEF Pages!Found

LEMMA EditStep ==
  ASSUME Pages!PagesOK, PagesInv, NEW u \in Users, NEW o \in Slips, Pages!Edit(u, o)
  PROVE  PagesInv'
<1> DEFINE d == [desk[u] EXCEPT !.page = "out", !.cart = slips[o].items, !.from = o, !.editing = o,
                                !.customer = Pages!Found(o), !.date = slips[o].date]
<1>1. UNCHANGED <<slips, sales, todo, past>> /\ Pages!Desk(u, d)
  BY DEF Pages!Edit, Pages!Tables
<1>2. DeskOK(d) /\ d.editing = d.from
  BY DeskFacts, FoundCustomer DEF DeskOK, DeskFields
<1> HIDE DEF d
<1> QED BY <1>1, <1>2, DeskAnew

LEMMA AskCancelStep ==
  ASSUME Pages!PagesOK, PagesInv, NEW u \in Users, NEW o \in Slips, Pages!AskCancel(u, o)
  PROVE  PagesInv'
<1> DEFINE d == [desk[u] EXCEPT !.ask = o]
<1>1. UNCHANGED <<slips, sales, todo, past>> /\ Pages!Desk(u, d)
  BY DEF Pages!AskCancel, Pages!Still, Pages!Tables
<1>2. Cartwise(d, u) /\ d.ask \in Slips \cup {Pages!None}
  BY DeskFacts DEF Cartwise, DeskFields
<1> HIDE DEF d
<1> QED BY <1>1, <1>2, CartStep

LEMMA AnswerNoStep ==
  ASSUME Pages!PagesOK, PagesInv, NEW u \in Users, Pages!AnswerNo(u)
  PROVE  PagesInv'
<1> DEFINE d == [desk[u] EXCEPT !.ask = Pages!None]
<1>1. UNCHANGED <<slips, sales, todo, past>> /\ Pages!Desk(u, d)
  BY DEF Pages!AnswerNo, Pages!Still, Pages!Tables
<1>2. Cartwise(d, u) /\ d.ask \in Slips \cup {Pages!None}
  BY DeskFacts DEF Cartwise, DeskFields
<1> HIDE DEF d
<1> QED BY <1>1, <1>2, CartStep

-----------------------------------------------------------------------------
(* The transactions of a click.                                              *)

LEMMA TailsAreJobs == ASSUME NEW s \in Jobs, Len(s) # 1 PROVE Tail(s) \in Jobs
<1>1. s \in {<<"customer", "sale">>, <<"customer", "date", "sale">>, <<"date", "sale">>, <<"cancel", "refresh">>}
  BY JobTails DEF Jobs, Selling, TakingBack, Correcting
<1>2. Tail(s) \in {<<"sale">>, <<"date", "sale">>, <<"refresh">>}
  <2>1. CASE s = <<"customer", "sale">>
    BY <2>1, JobTails
  <2>2. CASE s = <<"customer", "date", "sale">>
    BY <2>2, JobTails
  <2>3. CASE s = <<"date", "sale">>
    BY <2>3, JobTails
  <2>4. CASE s = <<"cancel", "refresh">>
    BY <2>4, JobTails
  <2> QED BY <1>1, <2>1, <2>2, <2>3, <2>4
<1> QED BY <1>2 DEF Jobs, Selling, Correcting

(* What is left to do is a job like the one begun.                           *)
LEMMA RestOK ==
  ASSUME PagesInv, NEW u \in Users, NEW step, Pages!Job(u, step), NEW t,
         t[todo[u].order].status # "none"
  PROVE  JobOK(Pages!Rest(u), t)
<1>1. /\ todo[u].steps \in Jobs /\ todo[u].order \in Slips
      /\ todo[u].customer \in SomeCustomer /\ todo[u].date \in SomeDate
  BY JobAt DEF PagesInv
<1>2. CASE Pages!Last(u)
  BY <1>1, <1>2, RestOf, NothingToDo, Zenon DEF PagesInv, JobOK
<1>3. CASE ~Pages!Last(u)
  <2>1. Tail(todo[u].steps) \in Jobs
    BY <1>1, <1>3, TailsAreJobs DEF Pages!Last
  <2> QED BY <1>1, <1>3, <2>1, RestOf, Zenon DEF PagesInv, JobOK
<1> QED BY <1>2, <1>3

LEMMA SavedOK ==
  ASSUME Pages!PagesOK, PagesInv, NEW u \in Users
  PROVE  DeskOK(Pages!Saved(u)) /\ Pages!Saved(u).from = Pages!None
           /\ Pages!Saved(u).editing = Pages!None
<1>1. DeskOK(Pages!Cleared(desk[u])) /\ Pages!Cleared(desk[u]).from = Pages!None
        /\ Pages!Cleared(desk[u]).editing = Pages!None
  BY ClearedOK, DeskFacts
<1> QED BY <1>1 DEF Pages!Saved, DeskOK, DeskFields

LEMMA OnlyCall ==
  ASSUME Strict, NEW u \in Users, todo[u] # Pages!Nothing, NEW o, o = todo[u].order
  PROVE  NobodyElse(u, o)
BY DEF Strict, OneCall, NobodyElse

(* What is known when the next transaction of a session is made.              *)
LEMMA Called ==
  ASSUME Pages!PagesOK, PagesInv, NEW u \in Users, NEW step, Pages!Job(u, step)
  PROVE  /\ todo[u] # Pages!Nothing /\ todo[u].steps \in Jobs /\ todo[u].order \in Slips
         /\ todo[u].customer \in SomeCustomer /\ todo[u].date \in SomeDate
               /\ Head(todo[u].steps) = step
         /\ SlipOK(slips[todo[u].order]) /\ slips[todo[u].order].status # "none"
         /\ DeskOK(desk[u]) /\ Holds(desk[u], todo[u], past.faults) /\ PastOK(past)
         /\ ~past.loose => NobodyElse(u, todo[u].order) /\ Follows(todo[u], slips[todo[u].order])
<1>1. /\ todo[u] # Pages!Nothing /\ todo[u].steps \in Jobs /\ todo[u].order \in Slips
      /\ todo[u].customer \in SomeCustomer /\ todo[u].date \in SomeDate
            /\ Head(todo[u].steps) = step
      /\ slips[todo[u].order].status # "none"
  BY JobAt DEF PagesInv
<1>2. SlipOK(slips[todo[u].order]) /\ DeskOK(desk[u]) /\ PastOK(past)
  BY <1>1, Zenon DEF PagesInv, PageTypes, PastOK
<1>3. Holds(desk[u], todo[u], past.faults)
  BY DEF PagesInv, FormsHold
<1>4. ~past.loose => NobodyElse(u, todo[u].order) /\ Follows(todo[u], slips[todo[u].order])
  BY <1>1, OnlyCall, Zenon DEF PagesInv, Strict, AllFollow
<1> QED BY <1>1, <1>2, <1>3, <1>4

LEMMA WriteCustomerStep ==
  ASSUME Pages!PagesOK, PagesInv, NEW u \in Users, Pages!WriteCustomer(u)
  PROVE  PagesInv'
<1>1. Pages!Job(u, "customer")
  BY DEF Pages!WriteCustomer
<1>2. PICK o \in Slips : o = todo[u].order
  BY <1>1, Called
<1>3. PICK s : s = slips[o] /\ SlipOK(s) /\ s.status # "none"
  BY <1>1, <1>2, Called
<1>4. /\ DOMAIN slips = Slips /\ DOMAIN todo = Users /\ DOMAIN desk = Users
      /\ DOMAIN s = SlipFields /\ DOMAIN past = {"loose", "faults"}
  BY <1>3, Zenon DEF PagesInv, PageTypes, SlipOK
<1>5. slips' = [slips EXCEPT ![o].customer = todo[u].customer, ![o].whole = FALSE]
  BY <1>2 DEF Pages!WriteCustomer
<1>6. /\ todo' = [todo EXCEPT ![u] = Pages!Rest(u)] /\ sales' = sales
      /\ desk' = [desk EXCEPT ![u] = IF Pages!Last(u) THEN Pages!Saved(u) ELSE desk[u]]
  BY DEF Pages!WriteCustomer, Pages!Goes, Pages!Desk
<1>7. PICK x : x = slips'[o]
  OBVIOUS
<1>8. /\ DOMAIN x = SlipFields /\ x.customer = todo[u].customer /\ ~x.whole /\ x.date = s.date
      /\ x.status = s.status /\ x.listed = s.listed
  BY <1>3, <1>4, <1>5, <1>7 DEF SlipFields
<1>9. Frame(u, o) /\ todo'[u] = Pages!Rest(u)
        /\ desk'[u] = IF Pages!Last(u) THEN Pages!Saved(u) ELSE desk[u]
  BY <1>4, <1>5, <1>6 DEF Frame
<1>10. /\ PastOK(past') /\ past'.faults = past.faults
       /\ ~past'.loose => ~past.loose /\ ~Pages!Last(u) /\ s.customer \in {0, todo[u].customer}
  <2>1. past' = [past EXCEPT !.loose = @ \/ Pages!Last(u)
          \/ s.customer \notin {0, todo[u].customer}]
    BY <1>2, <1>3 DEF Pages!WriteCustomer
  <2>2. PastOK(past)
    BY <1>1, Called
  <2> QED BY <2>1, <2>2 DEF PastOK
<1>11. todo[u].steps \in {<<"customer">>, <<"customer", "sale">>, <<"customer", "date", "sale">>}
  BY <1>1, Called, JobHeads
<1>12. /\ ~Pages!Last(u)
            => /\ Pages!Rest(u).order = o /\ Pages!Rest(u).customer = todo[u].customer
                      /\ Pages!Rest(u).date = todo[u].date
                            /\ Pages!Rest(u).steps = Tail(todo[u].steps)
       /\ Pages!Last(u) => Pages!Rest(u) = Pages!Nothing
  BY <1>1, <1>2, Called, RestOf DEF PagesInv
<1>13. PageTypes'
  <2>1. SlipOK(x) /\ x.status # "none"
    BY <1>1, <1>3, <1>8, Called, Zenon DEF SlipOK
  <2>2. JobOK(todo'[u], slips')
    BY <1>1, <1>2, <1>7, <1>9, <2>1, RestOK
  <2>3. DeskOK(desk'[u])
    BY <1>1, <1>9, Called, SavedOK
  <2>4. sales' \in [Customers -> Nat]
    BY <1>6 DEF PagesInv, PageTypes
  <2> QED BY <1>7, <1>9, <1>10, <2>1, <2>2, <2>3, <2>4, TypesStep DEF PagesInv
<1>14. FormsHold'
  <2>1. Holds(desk'[u], todo'[u], past'.faults)
    <3>1. CASE Pages!Last(u)
      BY <1>9, <3>1, SavedOK DEF Holds
    <3>2. CASE ~Pages!Last(u)
      <4>1. Holds(desk[u], todo[u], past.faults) /\ todo[u].steps # <<"sale">>
        BY <1>1, <1>11, Called
      <4> QED BY <1>9, <1>10, <3>2, <4>1 DEF Holds
    <3> QED BY <3>1, <3>2
  <2> QED BY <1>9, <1>10, <2>1, FormsStep DEF PagesInv
<1>15. WholesCount'
  <2>1. \A c \in Customers : sales[c] <= sales'[c]
    BY <1>6, DatesNat DEF PagesInv
  <2>2. sales' \in [Customers -> Nat]
    BY <1>6 DEF PagesInv, PageTypes
  <2> QED BY <1>7, <1>8, <1>9, <2>1, <2>2, WholesStep DEF PagesInv
<1>16. ASSUME ~past'.loose PROVE Strict'
  <2>1. /\ ~past.loose /\ ~Pages!Last(u) /\ s.customer \in {0, todo[u].customer} /\ Strict
        /\ NobodyElse(u, o) /\ Follows(todo[u], s)
    BY <1>1, <1>2, <1>3, <1>10, <1>16, Called DEF PagesInv
  <2>2. \/ todo[u].steps = <<"customer", "sale">> /\ Pages!Rest(u).steps = <<"sale">>
        \/ todo[u].steps = <<"customer", "date", "sale">>
              /\ Pages!Rest(u).steps = <<"date", "sale">>
    BY <1>11, <1>12, <2>1, JobTails DEF Pages!Last
  <2>3. Follows(todo'[u], x) /\ todo'[u].order = o /\ todo'[u].steps \in Selling
    <3>1. x.customer = Pages!Rest(u).customer /\ Pages!Rest(u).order = o
      BY <1>8, <1>12, <2>1
    <3>2. CASE Pages!Rest(u).steps = <<"sale">>
      <4>1. todo[u].steps = <<"customer", "sale">>
        BY <2>2, <3>2
      <4>2. x.date = Pages!Rest(u).date
        BY <1>8, <1>12, <2>1, <4>1 DEF Follows
      <4> QED BY <1>9, <3>1, <3>2, <4>2 DEF Follows, Selling
    <3>3. CASE Pages!Rest(u).steps = <<"date", "sale">>
      BY <1>9, <3>1, <3>3 DEF Follows, TakingBack, Selling
    <3> QED BY <2>2, <3>2, <3>3
  <2>4. todo[u].steps \notin Correcting
    BY <2>2 DEF Correcting
  <2>5. s.customer \in Customers => x.customer = s.customer
    <3>1. \A c \in Customers : c # 0
      BY DatesNat DEF PagesInv
    <3> QED BY <1>8, <2>1, <3>1
  <2> QED BY <1>2, <1>3, <1>6, <1>7, <1>8, <1>9, <2>1, <2>3, <2>4, <2>5, StrictStep DEF PagesInv
<1> QED BY <1>13, <1>14, <1>15, <1>16 DEF PagesInv

LEMMA WriteDateStep ==
  ASSUME Pages!PagesOK, PagesInv, NEW u \in Users, Pages!WriteDate(u)
  PROVE  PagesInv'
<1>1. Pages!Job(u, "date")
  BY DEF Pages!WriteDate
<1>2. PICK o \in Slips : o = todo[u].order
  BY <1>1, Called
<1>3. PICK s : s = slips[o] /\ SlipOK(s) /\ s.status # "none"
  BY <1>1, <1>2, Called
<1>4. /\ DOMAIN slips = Slips /\ DOMAIN todo = Users /\ DOMAIN desk = Users
      /\ DOMAIN s = SlipFields /\ DOMAIN past = {"loose", "faults"}
  BY <1>3, Zenon DEF PagesInv, PageTypes, SlipOK
<1>5. slips' = [slips EXCEPT ![o].date = todo[u].date, ![o].whole = FALSE]
  BY <1>2 DEF Pages!WriteDate
<1>6. /\ todo' = [todo EXCEPT ![u] = Pages!Rest(u)] /\ sales' = sales
      /\ desk' = [desk EXCEPT ![u] = [desk[u] EXCEPT !.editing = Pages!None]]
  BY DEF Pages!WriteDate, Pages!Goes, Pages!Desk
<1>7. PICK x : x = slips'[o]
  OBVIOUS
<1>8. /\ DOMAIN x = SlipFields /\ x.date = todo[u].date /\ ~x.whole /\ x.customer = s.customer
      /\ x.status = s.status /\ x.listed = s.listed
  BY <1>3, <1>4, <1>5, <1>7 DEF SlipFields
<1>9. Frame(u, o) /\ todo'[u] = Pages!Rest(u)
        /\ desk'[u] = [desk[u] EXCEPT !.editing = Pages!None]
  BY <1>4, <1>5, <1>6 DEF Frame
<1>10. /\ PastOK(past') /\ past'.faults = past.faults
       /\ ~past'.loose => ~past.loose /\ s.date = todo[u].date
  <2>1. past' = [past EXCEPT !.loose = @ \/ s.date # todo[u].date]
    BY <1>2, <1>3 DEF Pages!WriteDate
  <2>2. PastOK(past)
    BY <1>1, Called
  <2> QED BY <2>1, <2>2 DEF PastOK
<1>11. todo[u].steps = <<"date", "sale">>
  BY <1>1, Called, JobHeads
<1>12. /\ Pages!Rest(u).order = o /\ Pages!Rest(u).customer = todo[u].customer
       /\ Pages!Rest(u).date = todo[u].date /\ Pages!Rest(u).steps = <<"sale">>
  <2>1. ~Pages!Last(u)
    BY <1>11, JobTails DEF Pages!Last
  <2> QED BY <1>1, <1>2, <1>11, <2>1, Called, RestOf, JobTails DEF PagesInv
<1>13. PageTypes'
  <2>1. SlipOK(x) /\ x.status # "none"
    BY <1>1, <1>3, <1>8, Called, Zenon DEF SlipOK
  <2>2. JobOK(todo'[u], slips')
    BY <1>1, <1>2, <1>7, <1>9, <2>1, RestOK
  <2>3. DeskOK(desk'[u])
    BY <1>9, DeskFacts DEF DeskOK, DeskFields
  <2>4. sales' \in [Customers -> Nat]
    BY <1>6 DEF PagesInv, PageTypes
  <2> QED BY <1>7, <1>9, <1>10, <2>1, <2>2, <2>3, <2>4, TypesStep DEF PagesInv
<1>14. FormsHold'
  <2>1. desk'[u].editing = Pages!None /\ desk'[u].from = desk[u].from
    BY <1>9, DeskFacts DEF DeskFields
  <2>2. Holds(desk'[u], todo'[u], past'.faults)
    BY <1>9, <1>12, <2>1 DEF Holds
  <2> QED BY <1>9, <1>10, <2>2, FormsStep DEF PagesInv
<1>15. WholesCount'
  <2>1. \A c \in Customers : sales[c] <= sales'[c]
    BY <1>6, DatesNat DEF PagesInv
  <2>2. sales' \in [Customers -> Nat]
    BY <1>6 DEF PagesInv, PageTypes
  <2> QED BY <1>7, <1>8, <1>9, <2>1, <2>2, WholesStep DEF PagesInv
<1>16. ASSUME ~past'.loose PROVE Strict'
  <2>1. /\ ~past.loose /\ s.date = todo[u].date /\ Strict /\ NobodyElse(u, o)
             /\ Follows(todo[u], s)
    BY <1>1, <1>2, <1>3, <1>10, <1>16, Called DEF PagesInv
  <2>2. x.customer = Pages!Rest(u).customer /\ x.date = Pages!Rest(u).date
    BY <1>8, <1>11, <1>12, <2>1 DEF Follows
  <2>3. Follows(todo'[u], x) /\ todo'[u].order = o /\ todo'[u].steps \in Selling
    BY <1>9, <1>12, <2>2 DEF Follows, Selling
  <2>4. todo[u].steps \notin Correcting
    BY <1>11 DEF Correcting
  <2> QED BY <1>2, <1>3, <1>6, <1>7, <1>8, <1>9, <2>1, <2>3, <2>4, StrictStep DEF PagesInv
<1> QED BY <1>13, <1>14, <1>15, <1>16 DEF PagesInv

LEMMA WriteSaleStep ==
  ASSUME Pages!PagesOK, PagesInv, NEW u \in Users, Pages!WriteSale(u)
  PROVE  PagesInv'
<1>1. Pages!Job(u, "sale")
  BY DEF Pages!WriteSale
<1>2. PICK o \in Slips : o = todo[u].order
  BY <1>1, Called
<1>3. PICK s : s = slips[o] /\ SlipOK(s) /\ s.status # "none"
  BY <1>1, <1>2, Called
<1>4. /\ DOMAIN slips = Slips /\ DOMAIN todo = Users /\ DOMAIN desk = Users
      /\ DOMAIN s = SlipFields /\ DOMAIN past = {"loose", "faults"}
  BY <1>3, Zenon DEF PagesInv, PageTypes, SlipOK
<1>5. slips' = [slips EXCEPT ![o].whole = s.customer = todo[u].customer /\ s.date = todo[u].date]
  BY <1>2, <1>3 DEF Pages!WriteSale
<1>6. /\ todo' = [todo EXCEPT ![u] = Pages!Rest(u)] /\ desk' = [desk EXCEPT ![u] = Pages!Saved(u)]
      /\ sales' = [sales EXCEPT ![todo[u].customer] = Pages!Later(@, todo[u].date)]
  BY DEF Pages!WriteSale, Pages!Goes, Pages!Desk
<1>7. PICK x : x = slips'[o]
  OBVIOUS
<1>8. /\ DOMAIN x = SlipFields /\ x.date = s.date /\ x.customer = s.customer
      /\ x.status = s.status /\ x.listed = s.listed
      /\ x.whole => s.customer = todo[u].customer /\ s.date = todo[u].date
  BY <1>3, <1>4, <1>5, <1>7 DEF SlipFields
<1>9. todo[u].steps = <<"sale">> /\ Pages!Rest(u) = Pages!Nothing
  BY <1>1, Called, JobHeads, JobTails, RestOf DEF PagesInv, Pages!Last
<1>10. Frame(u, o) /\ todo'[u] = Pages!Nothing /\ desk'[u] = Pages!Saved(u)
  BY <1>4, <1>5, <1>6, <1>9 DEF Frame
<1>11. /\ PastOK(past') /\ past'.faults = past.faults
       /\ ~past'.loose => ~past.loose /\ s.status \in Lively
  <2>1. past' = [past EXCEPT !.loose = @ \/ ~Pages!Live(o)]
    BY <1>2 DEF Pages!WriteSale
  <2>2. PastOK(past) /\ (Pages!Live(o) <=> s.status \in Lively)
    BY <1>1, <1>3, Called DEF Pages!Live, Lively
  <2> QED BY <2>1, <2>2 DEF PastOK
<1>12. todo[u].date \in Nat
  BY <1>1, Called, DatesNat DEF PagesInv
<1>13. /\ sales' \in [Customers -> Nat]
       /\ \A c \in Customers : sales[c] <= sales'[c]
       /\ \A c \in Customers : c # todo[u].customer => sales'[c] = sales[c]
       /\ \A c \in Customers : c = todo[u].customer =>
            todo[u].date <= sales'[c] /\ sales'[c] \in {sales[c], todo[u].date}
  <2>1. sales \in [Customers -> Nat]
    BY DEF PagesInv, PageTypes
  <2>2. \A m, n \in Nat : /\ Pages!Later(m, n) \in Nat /\ m <= Pages!Later(m, n)
          /\ n <= Pages!Later(m, n)
                          /\ Pages!Later(m, n) \in {m, n}
    BY DEF Pages!Later
  <2>3. /\ DOMAIN sales' = Customers /\ sales' = [k \in Customers |-> sales'[k]]
        /\ \A c \in Customers : c # todo[u].customer => sales'[c] = sales[c]
        /\ \A c \in Customers : c = todo[u].customer
              => sales'[c] = Pages!Later(sales[c], todo[u].date)
    BY <1>6, <2>1
  <2>4. \A c \in Customers : sales[c] \in Nat /\ sales[c] <= sales[c]
    BY <2>1
  <2>5. ASSUME NEW c \in Customers
        PROVE  /\ sales'[c] \in Nat /\ sales[c] <= sales'[c]
               /\ c = todo[u].customer
                     => todo[u].date <= sales'[c] /\ sales'[c] \in {sales[c], todo[u].date}
    <3>1. CASE c # todo[u].customer
      BY <2>3, <2>4, <3>1
    <3>2. CASE c = todo[u].customer
      <4>1. /\ Pages!Later(sales[c], todo[u].date) \in Nat
                 /\ sales[c] <= Pages!Later(sales[c], todo[u].date)
            /\ todo[u].date <= Pages!Later(sales[c], todo[u].date)
            /\ Pages!Later(sales[c], todo[u].date) \in {sales[c], todo[u].date}
        BY <1>12, <2>2, <2>4
      <4> QED BY <2>3, <3>2, <4>1
    <3> QED BY <3>1, <3>2
  <2> QED BY <2>3, <2>5
<1>14. PageTypes'
  <2>1. SlipOK(x) /\ x.status # "none"
    BY <1>3, <1>8, Zenon DEF SlipOK
  <2>2. JobOK(todo'[u], slips')
    BY <1>10, NothingToDo DEF JobOK
  <2>3. DeskOK(desk'[u])
    BY <1>10, SavedOK
  <2> QED BY <1>7, <1>10, <1>11, <1>13, <2>1, <2>2, <2>3, TypesStep DEF PagesInv
<1>15. FormsHold'
  <2>1. Holds(desk'[u], todo'[u], past'.faults)
    BY <1>10, SavedOK DEF Holds
  <2> QED BY <1>10, <1>11, <2>1, FormsStep DEF PagesInv
<1>16. WholesCount'
  <2>1. ASSUME x.customer \in Customers, x.whole PROVE x.date <= sales'[x.customer]
    BY <1>8, <1>13, <2>1
  <2> QED BY <1>7, <1>10, <1>13, <2>1, WholesStep DEF PagesInv
<1>17. ASSUME ~past'.loose PROVE Strict'
  <2>1. /\ ~past.loose /\ s.status \in Lively /\ Strict /\ NobodyElse(u, o) /\ Follows(todo[u], s)
    BY <1>1, <1>2, <1>3, <1>11, <1>17, Called DEF PagesInv
  <2>2. s.customer = todo[u].customer /\ s.date = todo[u].date
    BY <1>9, <2>1 DEF Follows
  <2>3. ASSUME NEW p \in Slips
        PROVE  slips'[p].customer = slips[p].customer /\ slips'[p].status = slips[p].status
                 /\ slips'[p].date = slips[p].date
    BY <1>3, <1>7, <1>8, <1>10 DEF Frame
  <2>4. \A v \in Users : v # u => todo'[v] = todo[v]
    BY <1>10 DEF Frame
  <2>5. OneCall'
    BY <1>10, <2>1, <2>4, Zenon DEF OneCall, Strict
  <2>6. AllFollow'
    <3> SUFFICES ASSUME NEW v \in Users, todo'[v] # Pages!Nothing
                 PROVE  Follows(todo'[v], slips'[todo'[v].order])
      BY DEF AllFollow
    <3>1. v # u /\ todo'[v] = todo[v] /\ todo[v] # Pages!Nothing /\ todo[v].order # o
            /\ todo[v].order \in Slips
      BY <1>10, <2>1, <2>4, Zenon DEF NobodyElse, PagesInv, PageTypes, JobOK
    <3>2. slips'[todo[v].order] = slips[todo[v].order] /\ Follows(todo[v], slips[todo[v].order])
      BY <1>10, <2>1, <3>1, Zenon DEF Strict, AllFollow, Frame
    <3> QED BY <3>1, <3>2
  <2>7. SalesReach'
    <3> SUFFICES ASSUME NEW c \in Customers, NEW p \in Slips, slips[p].customer = c, slips[p].status \in Lively
                 PROVE  \/ slips[p].date <= sales'[c]
                        \/ \E v \in Users : todo'[v].steps \in Selling /\ todo'[v].order = p
      BY <2>3, Zenon DEF SalesReach
    <3>1. CASE p = o
      BY <1>3, <1>13, <2>2, <3>1
    <3>2. CASE slips[p].date <= sales[c]
      BY <1>13, <3>2, DatesNat DEF PagesInv
    <3>3. CASE p # o /\ \E v \in Users : todo[v].steps \in Selling /\ todo[v].order = p
      <4>1. PICK v \in Users : todo[v].steps \in Selling /\ todo[v].order = p
        BY <3>3
      <4>2. v # u
        BY <1>2, <3>3, <4>1
      <4> QED BY <2>4, <4>1, <4>2
    <3> QED BY <2>1, <3>1, <3>2, <3>3, Zenon DEF Strict, SalesReach
  <2>8. SalesComeFrom'
    <3> SUFFICES ASSUME NEW c \in Customers
                 PROVE  \/ sales'[c] = 0
                        \/ \E p \in Slips : slips'[p].customer = c
                              /\ slips'[p].status \in Lively /\ slips'[p].date = sales'[c]
                        \/ \E v \in Users : todo'[v].steps \in Correcting
                              /\ todo'[v].customer = c /\ todo'[v].date = sales'[c]
      BY Zenon DEF SalesComeFrom
    <3>1. CASE c = todo[u].customer /\ sales'[c] = todo[u].date
      BY <1>3, <2>1, <2>2, <2>3, <3>1
    <3>2. CASE sales'[c] = sales[c]
      <4>1. CASE \E v \in Users : todo[v].steps \in Correcting /\ todo[v].customer = c
                   /\ todo[v].date = sales[c]
        <5>1. PICK v \in Users : todo[v].steps \in Correcting /\ todo[v].customer = c
                     /\ todo[v].date = sales[c]
          BY <4>1
        <5>2. v # u
          BY <1>9, <5>1 DEF Correcting
        <5> QED BY <2>4, <3>2, <5>1, <5>2
      <4>2. CASE \E p \in Slips : slips[p].customer = c /\ slips[p].status \in Lively
                   /\ slips[p].date = sales[c]
        BY <2>3, <3>2, <4>2
      <4>3. CASE sales[c] = 0
        BY <3>2, <4>3
      <4> QED BY <2>1, <4>1, <4>2, <4>3, Zenon DEF Strict, SalesComeFrom
    <3> QED BY <1>13, <3>1, <3>2
  <2> QED BY <2>5, <2>6, <2>7, <2>8 DEF Strict
<1> QED BY <1>14, <1>15, <1>16, <1>17 DEF PagesInv

(* A call that fails, and the sales of a file, are loose.                    *)
LEMMA FailStep ==
  ASSUME Pages!PagesOK, PagesInv, NEW u \in Users, Pages!Fail(u)
  PROVE  PagesInv'
<1>1. Pages!None \notin Slips
  BY DEF Pages!PagesOK, Pages!None
<1>2. slips' = slips /\ sales' = sales /\ desk' = desk
        /\ todo' = [todo EXCEPT ![u] = Pages!Nothing]
  BY DEF Pages!Fail, Pages!Tables
<1>3. Frame(u, Pages!None) /\ todo'[u] = Pages!Nothing
  BY <1>1, <1>2 DEF PagesInv, PageTypes, Frame
<1>4. PastOK(past') /\ past'.loose /\ past'.faults # 0
  BY DEF Pages!Fail, PagesInv, PageTypes, PastOK
<1>5. PageTypes'
  <2>1. JobOK(todo'[u], slips') /\ DeskOK(desk'[u]) /\ sales' \in [Customers -> Nat]
    BY <1>2, <1>3, NothingToDo DEF PagesInv, PageTypes, JobOK
  <2> QED BY <1>1, <1>3, <1>4, <2>1, TypesStep DEF PagesInv
<1>6. FormsHold'
  <2>1. Holds(desk'[u], todo'[u], past'.faults)
    BY <1>2, <1>4 DEF PagesInv, FormsHold, Holds
  <2> QED BY <1>3, <1>4, <2>1, FormsStep DEF PagesInv
<1>7. WholesCount'
  BY <1>2, Zenon DEF PagesInv, WholesCount
<1> QED BY <1>4, <1>5, <1>6, <1>7 DEF PagesInv

LEMMA UploadStep ==
  ASSUME Pages!PagesOK, PagesInv, NEW c \in Customers, NEW d \in Dates, Pages!Upload(c, d)
  PROVE  PagesInv'
<1>1. slips' = slips /\ desk' = desk /\ todo' = todo
        /\ sales' = [sales EXCEPT ![c] = Pages!Later(@, d)]
  BY DEF Pages!Upload
<1>2. PastOK(past') /\ past'.loose /\ past'.faults = past.faults
  BY DEF Pages!Upload, PagesInv, PageTypes, PastOK
<1>3. sales \in [Customers -> Nat] /\ d \in Nat
  BY DEF PagesInv, PageTypes, Pages!PagesOK
<1>4. sales' \in [Customers -> Nat] /\ \A k \in Customers : sales[k] <= sales'[k]
  BY <1>1, <1>3 DEF Pages!Later
<1>5. PageTypes'
  BY <1>1, <1>2, <1>4, Zenon DEF PagesInv, PageTypes, PastOK
<1>6. FormsHold'
  BY <1>1, <1>2, Zenon DEF PagesInv, FormsHold
<1>7. WholesCount'
  <2> SUFFICES ASSUME NEW k \in Customers, NEW o \in Slips,
                      slips[o].customer = k, slips[o].status \in Lively, slips[o].whole
               PROVE  slips[o].date <= sales'[k]
    BY <1>1, Zenon DEF WholesCount
  <2>1. slips[o].date <= sales[k]
    BY DEF PagesInv, WholesCount
  <2> QED BY <1>4, <2>1, DatesNat DEF PagesInv
<1> QED BY <1>2, <1>5, <1>6, <1>7 DEF PagesInv

-----------------------------------------------------------------------------
(* A last sale is corrected by the latest of some orders of the customer:     *)
(* all those that stand, and, unless something loose has happened, no other.  *)
Corrects(u, c, S) ==
  /\ c = todo[u].customer /\ todo[u].steps \in Correcting
        /\ todo' = [todo EXCEPT ![u] = Pages!Nothing]
  /\ slips' = slips /\ desk' = desk
  /\ PastOK(past') /\ past'.faults = past.faults /\ (~past'.loose => ~past.loose)
  /\ \A p \in Slips : slips[p].customer = c /\ slips[p].status \in Lively => p \in S
  /\ ~past'.loose => \A p \in S : slips[p].customer = c /\ slips[p].status \in Lively
  /\ \/ c \in Customers /\ sales' = [sales EXCEPT ![c] = Pages!LatestOf(S)]
     \/ sales' = sales /\ (c \in Customers => sales[c] # todo[u].date)

LEMMA CorrectStep ==
  ASSUME Pages!PagesOK, PagesInv, NEW u \in Users, NEW c, NEW S \in SUBSET Slips, Corrects(u, c,
         S)
  PROVE  PagesInv'
<1> USE DEF Corrects
<1>1. Pages!None \notin Slips
  BY DEF Pages!PagesOK, Pages!None
<1>2. Frame(u, Pages!None) /\ todo'[u] = Pages!Nothing /\ \A v \in Users : v # u
        => todo'[v] = todo[v]
  BY <1>1 DEF PagesInv, PageTypes, Frame
<1>3. /\ Pages!LatestOf(S) \in Nat /\ \A p \in S : slips[p].date <= Pages!LatestOf(S)
      /\ Pages!LatestOf(S) = 0 \/ \E p \in S : slips[p].date = Pages!LatestOf(S)
  BY LatestIs DEF PagesInv
<1>4. /\ sales' \in [Customers -> Nat]
      /\ \A k \in Customers : k # c => sales'[k] = sales[k]
      /\ c \in Customers
            => sales'[c] = Pages!LatestOf(S) \/ (sales'[c] = sales[c] /\ sales[c] # todo[u].date)
  <2>1. sales \in [Customers -> Nat]
    BY DEF PagesInv, PageTypes
  <2> QED BY <1>3, <2>1
<1>5. PageTypes'
  <2>1. JobOK(todo'[u], slips') /\ DeskOK(desk'[u])
    BY <1>2, NothingToDo DEF PagesInv, PageTypes, JobOK
  <2> QED BY <1>1, <1>2, <1>4, <2>1, TypesStep DEF PagesInv
<1>6. FormsHold'
  <2>1. todo[u].steps # <<"sale">>
    BY DEF Correcting
  <2>2. Holds(desk[u], todo[u], past.faults)
    BY DEF PagesInv, FormsHold
  <2>3. Holds(desk'[u], todo'[u], past'.faults)
    BY <2>1, <2>2 DEF Holds
  <2> QED BY <1>2, <2>3, FormsStep DEF PagesInv
<1>7. WholesCount'
  <2> SUFFICES ASSUME NEW k \in Customers, NEW p \in Slips,
                      slips[p].customer = k, slips[p].status \in Lively, slips[p].whole
               PROVE  slips[p].date <= sales'[k]
    BY Zenon DEF WholesCount
  <2>1. slips[p].date <= sales[k]
    BY DEF PagesInv, WholesCount
  <2> QED BY <1>3, <1>4, <2>1
<1>8. ASSUME ~past'.loose PROVE Strict'
  <2>1. Strict /\ \A p \in S : slips[p].customer = c /\ slips[p].status \in Lively
    BY <1>8 DEF PagesInv
  <2>2. OneCall'
    <3> SUFFICES ASSUME NEW v \in Users, NEW w \in Users,
                        todo'[v] # Pages!Nothing, todo'[w] # Pages!Nothing, todo'[v].order = todo'[w].order
                 PROVE  v = w
      BY Zenon DEF OneCall
    <3>1. todo'[v] = todo[v] /\ todo'[w] = todo[w]
      BY <1>2
    <3> QED BY <2>1, <3>1, Zenon DEF OneCall, Strict
  <2>3. AllFollow'
    <3> SUFFICES ASSUME NEW v \in Users, todo'[v] # Pages!Nothing
                 PROVE  Follows(todo'[v], slips'[todo'[v].order])
      BY DEF AllFollow
    <3>1. todo'[v] = todo[v]
      BY <1>2
    <3> QED BY <2>1, <3>1, Zenon DEF Strict, AllFollow
  <2>4. SalesReach'
    <3> SUFFICES ASSUME NEW k \in Customers, NEW p \in Slips, slips[p].customer = k, slips[p].status \in Lively
                 PROVE  \/ slips[p].date <= sales'[k]
                        \/ \E v \in Users : todo'[v].steps \in Selling /\ todo'[v].order = p
      BY Zenon DEF SalesReach
    <3>1. CASE \E v \in Users : todo[v].steps \in Selling /\ todo[v].order = p
      <4>1. PICK v \in Users : todo[v].steps \in Selling /\ todo[v].order = p
        BY <3>1
      <4>2. v # u
        BY <4>1 DEF Selling, Correcting
      <4> QED BY <1>2, <4>1, <4>2
    <3>2. CASE slips[p].date <= sales[k]
      BY <1>3, <1>4, <3>2
    <3> QED BY <2>1, <3>1, <3>2, Zenon DEF Strict, SalesReach
  <2>5. SalesComeFrom'
    <3> SUFFICES ASSUME NEW k \in Customers
                 PROVE  \/ sales'[k] = 0
                        \/ \E p \in Slips : slips[p].customer = k
                              /\ slips[p].status \in Lively /\ slips[p].date = sales'[k]
                        \/ \E v \in Users : todo'[v].steps \in Correcting
                              /\ todo'[v].customer = k /\ todo'[v].date = sales'[k]
      BY Zenon DEF SalesComeFrom
    <3>1. CASE k = c /\ sales'[c] = Pages!LatestOf(S)
      BY <1>3, <2>1, <3>1
    <3>2. CASE sales'[k] = sales[k] /\ (k = c => sales[c] # todo[u].date)
      <4>1. CASE \E v \in Users : todo[v].steps \in Correcting /\ todo[v].customer = k
                   /\ todo[v].date = sales[k]
        <5>1. PICK v \in Users : todo[v].steps \in Correcting /\ todo[v].customer = k
                     /\ todo[v].date = sales[k]
          BY <4>1
        <5>2. v # u
          BY <3>2, <5>1
        <5> QED BY <1>2, <3>2, <5>1, <5>2
      <4>2. CASE \E p \in Slips : slips[p].customer = k /\ slips[p].status \in Lively
                   /\ slips[p].date = sales[k]
        BY <3>2, <4>2
      <4>3. CASE sales[k] = 0
        BY <3>2, <4>3
      <4> QED BY <2>1, <4>1, <4>2, <4>3, Zenon DEF Strict, SalesComeFrom
    <3> QED BY <1>4, <3>1, <3>2
  <2> QED BY <2>2, <2>3, <2>4, <2>5 DEF Strict
<1> QED BY <1>5, <1>6, <1>7, <1>8 DEF PagesInv

LEMMA Standing ==
  ASSUME PageTypes, NEW p \in Slips
  PROVE  /\ slips[p].status \in Statuses /\ (Pages!Live(p) <=> slips[p].status \in Lively)
         /\ slips[p].status \in Lively <=> slips[p].status \notin {"none", "cancelled", "deleted"}
<1>1. slips[p].status \in Statuses
  BY Zenon DEF PageTypes, SlipOK
<1> QED BY <1>1 DEF Statuses, Pages!Live, Lively

LEMMA RefreshStep ==
  ASSUME Pages!PagesOK, PagesInv, NEW u \in Users, Pages!Refresh(u)
  PROVE  PagesInv'
<1>1. Pages!Job(u, "refresh")
  BY DEF Pages!Refresh
<1>2. todo[u].steps = <<"refresh">> /\ Pages!Rest(u) = Pages!Nothing
        /\ todo[u].customer \in SomeCustomer
  BY <1>1, Called, JobHeads, JobTails, RestOf DEF PagesInv, Pages!Last
<1>3. PICK c : c = todo[u].customer
  OBVIOUS
<1> DEFINE S == {o \in Pages!Of(c) : slips[o].status # "cancelled"}
<1>4. slips' = slips /\ desk' = desk /\ todo' = [todo EXCEPT ![u] = Pages!Nothing]
  BY <1>2 DEF Pages!Refresh, Pages!Goes
<1>5. /\ PastOK(past') /\ past'.faults = past.faults
      /\ ~past'.loose => ~past.loose /\ \A o \in Pages!Of(c) : slips[o].status # "deleted"
  <2>1. past' = [past EXCEPT !.loose = @ \/ \E o \in Pages!Of(c) : slips[o].status = "deleted"]
    BY <1>3 DEF Pages!Refresh
  <2>2. PastOK(past)
    BY <1>1, Called
  <2> QED BY <2>1, <2>2 DEF PastOK
<1>6. sales' = IF c # 0
        /\ sales[c] \in {0, todo[u].date} THEN [sales EXCEPT ![c] = Pages!LatestOf(S)] ELSE sales
  BY <1>3 DEF Pages!Refresh
<1>7. \/ c \in Customers /\ sales' = [sales EXCEPT ![c] = Pages!LatestOf(S)]
      \/ sales' = sales /\ (c \in Customers => sales[c] # todo[u].date)
  <2>1. c # 0 => c \in Customers
    BY <1>2, <1>3 DEF SomeCustomer
  <2>2. c \in Customers => c # 0
    BY DatesNat DEF PagesInv
  <2> QED BY <1>6, <2>1, <2>2
<1>8. S \in SUBSET Slips /\ \A p \in S : slips[p].customer = c
        /\ slips[p].status \notin {"none", "cancelled"}
  BY DEF Pages!Of
<1>9. \A p \in Slips : slips[p].customer = c /\ slips[p].status \in Lively => p \in S
  BY Standing DEF PagesInv, Pages!Of
<1>10. ~past'.loose => \A p \in S : slips[p].customer = c /\ slips[p].status \in Lively
  BY <1>5, <1>8, Standing DEF PagesInv
<1>11. todo[u].steps \in Correcting
  BY <1>2 DEF Correcting
<1> HIDE DEF S
<1>12. Corrects(u, c, S)
  BY <1>3, <1>4, <1>5, <1>7, <1>9, <1>10, <1>11, Zenon DEF Corrects
<1> QED BY <1>8, <1>12, CorrectStep

LEMMA SyncStep ==
  ASSUME Pages!PagesOK, PagesInv, NEW u \in Users, Pages!Sync(u)
  PROVE  PagesInv'
<1>1. Pages!Job(u, "sync")
  BY DEF Pages!Sync
<1>2. todo[u].steps = <<"sync">> /\ Pages!Rest(u) = Pages!Nothing
        /\ todo[u].customer \in SomeCustomer
  BY <1>1, Called, JobHeads, JobTails, RestOf DEF PagesInv, Pages!Last
<1>3. PICK c : c = todo[u].customer
  OBVIOUS
<1> DEFINE S == {o \in Pages!Of(c) : Pages!Live(o)}
<1>4. slips' = slips /\ desk' = desk /\ todo' = [todo EXCEPT ![u] = Pages!Nothing]
        /\ past' = past /\ PastOK(past)
  BY <1>1, <1>2, Called DEF Pages!Sync, Pages!Goes
<1>5. sales' = IF c # 0
        /\ sales[c] = todo[u].date THEN [sales EXCEPT ![c] = Pages!LatestOf(S)] ELSE sales
  BY <1>3 DEF Pages!Sync
<1>6. \/ c \in Customers /\ sales' = [sales EXCEPT ![c] = Pages!LatestOf(S)]
      \/ sales' = sales /\ (c \in Customers => sales[c] # todo[u].date)
  <2>1. c # 0 => c \in Customers
    BY <1>2, <1>3 DEF SomeCustomer
  <2>2. c \in Customers => c # 0
    BY DatesNat DEF PagesInv
  <2> QED BY <1>5, <2>1, <2>2
<1>7. S \in SUBSET Slips /\ \A p \in S : slips[p].customer = c /\ slips[p].status \in Lively
  BY Standing DEF PagesInv, Pages!Of
<1>8. \A p \in Slips : slips[p].customer = c /\ slips[p].status \in Lively => p \in S
  BY Standing DEF PagesInv, Pages!Of
<1>9. todo[u].steps \in Correcting
  BY <1>2 DEF Correcting
<1> HIDE DEF S
<1>10. Corrects(u, c, S)
  BY <1>3, <1>4, <1>6, <1>7, <1>8, <1>9, Zenon DEF Corrects
<1> QED BY <1>7, <1>10, CorrectStep

-----------------------------------------------------------------------------
(* The clicks that begin a job.                                              *)
LEMMA Uncontended ==
  ASSUME NEW u \in Users, NEW o, ~Pages!Contended(o)
  PROVE  NobodyElse(u, o)
BY Zenon DEF Pages!Contended, NobodyElse

LEMMA FreeDesk ==
  ASSUME PagesInv, NEW u \in Users, todo[u] = Pages!Nothing, NEW j
  PROVE  Holds(desk[u], j, past.faults)
<1>1. Holds(desk[u], todo[u], past.faults)
  BY DEF PagesInv, FormsHold
<1> QED BY <1>1, NothingToDo DEF Holds

LEMMA AnswerYesStep ==
  ASSUME Pages!PagesOK, PagesInv, NEW u \in Users, Pages!AnswerYes(u)
  PROVE  PagesInv'
<1>1. todo[u] = Pages!Nothing /\ desk[u].ask # Pages!None /\ Pages!Shown(desk[u].ask)
  BY DEF Pages!AnswerYes, Pages!On
<1>2. PICK o \in Slips : o = desk[u].ask
  BY <1>1, DeskFacts
<1>3. PICK s : s = slips[o] /\ SlipOK(s) /\ s.status # "none"
  <2>1. SlipOK(slips[o]) /\ slips[o].listed
    BY <1>1, <1>2, Zenon DEF Pages!Shown, PagesInv, PageTypes
  <2> QED BY <2>1 DEF SlipOK
<1>4. /\ slips' = slips /\ sales' = sales /\ desk' = desk
      /\ past' = [past EXCEPT !.loose = @ \/ Pages!Contended(o)]
  BY <1>2 DEF Pages!AnswerYes, Pages!Tables
<1>5. PICK j : /\ todo' = [todo EXCEPT ![u] = j] /\ DOMAIN j = JobFields /\ j.steps \in TakingBack
               /\ j.order = o /\ j.customer = s.customer /\ j.date = s.date
  <2> DEFINE j == [steps |-> IF fns.cancel = "patched"
        THEN <<"cancel", "refresh">> ELSE <<"cancel">>,
                   order |-> o, customer |-> s.customer, date |-> s.date]
  <2>1. todo' = [todo EXCEPT ![u] = j]
    BY <1>2, <1>3 DEF Pages!AnswerYes
  <2>2. DOMAIN j = JobFields /\ j.steps \in TakingBack
    BY DEF JobFields, TakingBack
  <2>3. j.order = o /\ j.customer = s.customer /\ j.date = s.date
    OBVIOUS
  <2> HIDE DEF j
  <2> QED BY <2>1, <2>2, <2>3
<1>6. Frame(u, o) /\ todo'[u] = j
  BY <1>4, <1>5 DEF Frame, PagesInv, PageTypes
<1>7. PastOK(past') /\ past'.faults = past.faults /\ (~past'.loose
        => ~past.loose /\ ~Pages!Contended(o))
  <2>1. PastOK(past)
    BY DEF PagesInv, PageTypes, PastOK
  <2> QED BY <1>4, <2>1 DEF PastOK
<1>8. PageTypes'
  <2>1. JobOK(j, slips')
    BY <1>3, <1>4, <1>5, Zenon DEF JobOK, SlipOK, Jobs
  <2>2. DeskOK(desk'[u]) /\ sales' \in [Customers -> Nat]
    BY <1>4, DeskFacts DEF PagesInv, PageTypes
  <2> QED BY <1>3, <1>4, <1>6, <1>7, <2>1, <2>2, TypesStep DEF PagesInv
<1>9. FormsHold'
  <2>1. Holds(desk'[u], todo'[u], past'.faults)
    BY <1>1, <1>4, <1>7, FreeDesk
  <2> QED BY <1>6, <1>7, <2>1, FormsStep DEF PagesInv
<1>10. WholesCount'
  BY <1>4, Zenon DEF PagesInv, WholesCount
<1>11. ASSUME ~past'.loose PROVE Strict'
  <2>1. Strict /\ NobodyElse(u, o)
    BY <1>7, <1>11, Uncontended DEF PagesInv
  <2>2. j.steps \notin Selling /\ j.steps \notin Correcting
    BY <1>5 DEF TakingBack, Selling, Correcting
  <2>3. Follows(j, s)
    BY <1>5, <2>2 DEF Follows, Selling
  <2>4. todo[u].steps \notin Selling /\ todo[u].steps \notin Correcting
    BY <1>1, NothingToDo DEF Jobs
  <2>5. slips'[o] = s /\ slips[o] = s
    BY <1>3, <1>4
  <2>6. ASSUME s.customer \in Customers, s.status \in Lively PROVE s.date <= sales[s.customer]
    <3>1. ~\E v \in Users : todo[v].steps \in Selling /\ todo[v].order = o
      <4> SUFFICES ASSUME NEW v \in Users, todo[v].steps \in Selling, todo[v].order = o PROVE FALSE
        OBVIOUS
      <4>1. v # u
        BY <2>4
      <4>2. todo[v] # Pages!Nothing
        BY NothingToDo DEF Jobs
      <4> QED BY <2>1, <4>1, <4>2 DEF NobodyElse
    <3> QED BY <2>1, <2>5, <2>6, <3>1 DEF Strict, SalesReach
  <2> QED BY <1>4, <1>5, <1>6, <2>1, <2>3, <2>4, <2>5, <2>6, StrictStep DEF PagesInv
<1> QED BY <1>8, <1>9, <1>10, <1>11 DEF PagesInv

LEMMA DeleteHistoryStep ==
  ASSUME Pages!PagesOK, PagesInv, NEW u \in Users, NEW o \in Slips, NEW undo \in BOOLEAN,
         Pages!DeleteHistory(u, o, undo)
  PROVE  PagesInv'
<1>1. todo[u] = Pages!Nothing
  BY DEF Pages!DeleteHistory
<1>2. PICK s : s = slips[o] /\ SlipOK(s) /\ s.status # "none"
  <2>1. SlipOK(slips[o]) /\ slips[o].listed
    BY Zenon DEF Pages!DeleteHistory, PagesInv, PageTypes
  <2> QED BY <2>1 DEF SlipOK
<1>3. /\ sales' = sales /\ desk' = desk
      /\ past' = [past EXCEPT !.loose = @ \/ Pages!Contended(o)]
  BY DEF Pages!DeleteHistory, Pages!Tables
<1>4. PICK x : x = slips'[o]
  OBVIOUS
<1>5. /\ DOMAIN slips' = Slips /\ \A p \in Slips : p # o => slips'[p] = slips[p]
      /\ DOMAIN x = SlipFields /\ x.customer = s.customer /\ x.date = s.date /\ x.whole = s.whole
      /\ ~x.listed /\ x.status \in {s.status, "deleted"}
  <2>1. DOMAIN slips = Slips /\ DOMAIN s = SlipFields
    BY <1>2, Zenon DEF PagesInv, PageTypes, SlipOK
  <2>2. CASE undo
    <3>1. slips' = [slips EXCEPT ![o].status = "deleted", ![o].listed = FALSE]
      BY <2>2 DEF Pages!DeleteHistory, Pages!Return
    <3> QED BY <1>2, <1>4, <2>1, <3>1 DEF SlipFields
  <2>3. CASE ~undo
    <3>1. slips' = [slips EXCEPT ![o].listed = FALSE]
      BY <2>3 DEF Pages!DeleteHistory
    <3> QED BY <1>2, <1>4, <2>1, <3>1 DEF SlipFields
  <2> QED BY <2>2, <2>3
<1>6. PICK j : /\ todo' = [todo EXCEPT ![u] = j] /\ DOMAIN j = JobFields /\ j.steps = <<"sync">>
               /\ j.order = o /\ j.customer = s.customer /\ j.date = s.date
  <2> DEFINE j == [steps |-> <<"sync">>, order |-> o, customer |-> s.customer, date |-> s.date]
  <2>1. todo' = [todo EXCEPT ![u] = j]
    BY <1>2 DEF Pages!DeleteHistory
  <2>2. DOMAIN j = JobFields /\ j.steps = <<"sync">>
    BY DEF JobFields
  <2>3. j.order = o /\ j.customer = s.customer /\ j.date = s.date
    OBVIOUS
  <2> HIDE DEF j
  <2> QED BY <2>1, <2>2, <2>3
<1>7. Frame(u, o) /\ todo'[u] = j
  BY <1>3, <1>5, <1>6 DEF Frame, PagesInv, PageTypes
<1>8. PastOK(past') /\ past'.faults = past.faults /\ (~past'.loose
        => ~past.loose /\ ~Pages!Contended(o))
  <2>1. PastOK(past)
    BY DEF PagesInv, PageTypes, PastOK
  <2> QED BY <1>3, <2>1 DEF PastOK
<1>9. PageTypes'
  <2>1. SlipOK(x) /\ x.status # "none"
    BY <1>2, <1>5 DEF SlipOK, Statuses
  <2>2. JobOK(j, slips')
    <3>1. j.steps \in Jobs
      BY <1>6 DEF Jobs, Correcting
    <3> QED BY <1>2, <1>4, <1>6, <2>1, <3>1, Zenon DEF JobOK, SlipOK
  <2>3. DeskOK(desk'[u]) /\ sales' \in [Customers -> Nat]
    BY <1>3, DeskFacts DEF PagesInv, PageTypes
  <2> QED BY <1>4, <1>7, <1>8, <2>1, <2>2, <2>3, TypesStep DEF PagesInv
<1>10. FormsHold'
  <2>1. Holds(desk'[u], todo'[u], past'.faults)
    BY <1>1, <1>3, <1>8, FreeDesk
  <2> QED BY <1>7, <1>8, <2>1, FormsStep DEF PagesInv
<1>11. WholesCount'
  <2>1. \A c \in Customers : sales[c] <= sales'[c]
    BY <1>3, DatesNat DEF PagesInv
  <2>2. sales' \in [Customers -> Nat]
    BY <1>3 DEF PagesInv, PageTypes
  <2>3. ASSUME x.customer \in Customers, x.status \in Lively, x.whole PROVE x.date <= sales'[x.customer]
    <3>1. s.status \in Lively
      BY <1>5, <2>3 DEF Lively
    <3> QED BY <1>2, <1>3, <1>5, <2>3, <3>1 DEF PagesInv, WholesCount
  <2> QED BY <1>4, <1>7, <2>1, <2>2, <2>3, WholesStep DEF PagesInv
<1>12. ASSUME ~past'.loose PROVE Strict'
  <2>1. Strict /\ NobodyElse(u, o)
    BY <1>8, <1>12, Uncontended DEF PagesInv
  <2>2. j.steps \notin Selling /\ j.steps \in Correcting
    BY <1>6 DEF Selling, Correcting
  <2>3. Follows(j, x)
    BY <1>6 DEF Follows, TakingBack
  <2>4. todo[u].steps \notin Selling /\ todo[u].steps \notin Correcting
    BY <1>1, NothingToDo DEF Jobs
  <2>5. ASSUME x.customer \in Customers, x.status \in Lively PROVE x.date <= sales[x.customer]
    <3>1. ~\E v \in Users : todo[v].steps \in Selling /\ todo[v].order = o
      <4> SUFFICES ASSUME NEW v \in Users, todo[v].steps \in Selling, todo[v].order = o PROVE FALSE
        OBVIOUS
      <4>1. v # u
        BY <2>4
      <4>2. todo[v] # Pages!Nothing
        BY NothingToDo DEF Jobs
      <4> QED BY <2>1, <4>1, <4>2 DEF NobodyElse
    <3>2. s.status \in Lively
      BY <1>5, <2>5 DEF Lively
    <3> QED BY <1>2, <1>5, <2>1, <2>5, <3>1, <3>2 DEF Strict, SalesReach
  <2> QED BY <1>2, <1>3, <1>4, <1>6, <1>7, <2>1, <2>2, <2>3, <2>4, <2>5, StrictStep DEF PagesInv
<1> QED BY <1>9, <1>10, <1>11, <1>12 DEF PagesInv

LEMMA CancelStep ==
  ASSUME Pages!PagesOK, PagesInv, NEW u \in Users, Pages!Cancel(u)
  PROVE  PagesInv'
<1>1. Pages!Job(u, "cancel")
  BY DEF Pages!Cancel
<1>2. PICK o \in Slips : o = todo[u].order
  BY <1>1, Called
<1>3. PICK s : s = slips[o] /\ SlipOK(s) /\ s.status # "none"
  BY <1>1, <1>2, Called
<1>4. /\ todo[u].steps \in TakingBack /\ todo[u].steps \notin Selling
           /\ todo[u].steps \notin Correcting
      /\ todo[u].steps # <<"sale">>
  <2>1. todo[u].steps \in TakingBack
    BY <1>1, Called, JobHeads
  <2> QED BY <2>1 DEF TakingBack, Selling, Correcting
<1>5. Holds(desk[u], todo[u], past.faults) /\ PastOK(past) /\ DeskOK(desk[u])
  BY <1>1, Called
<1>6. /\ sales' = sales /\ sales' \in [Customers -> Nat]
           /\ \A c \in Customers : sales[c] <= sales'[c]
  BY DatesNat DEF Pages!Cancel, PagesInv, PageTypes
<1>7. PICK x : x = slips'[o]
  OBVIOUS
<1>8. CASE s.status = "cancelled"
  <2>1. slips' = slips /\ desk' = desk /\ past' = past
          /\ todo' = [todo EXCEPT ![u] = Pages!Nothing]
    BY <1>2, <1>3, <1>8 DEF Pages!Cancel
  <2>2. Frame(u, o) /\ todo'[u] = Pages!Nothing /\ x = s
    BY <1>3, <1>7, <2>1 DEF Frame, PagesInv, PageTypes
  <2>3. PageTypes'
    <3>1. JobOK(todo'[u], slips')
      BY <2>2, NothingToDo DEF JobOK
    <3> QED BY <1>3, <1>5, <1>6, <1>7, <2>1, <2>2, <3>1, TypesStep DEF PagesInv
  <2>4. FormsHold'
    <3>1. Holds(desk'[u], todo'[u], past'.faults)
      BY <1>4, <1>5, <2>1 DEF Holds
    <3> QED BY <2>1, <2>2, <3>1, FormsStep DEF PagesInv
  <2>5. WholesCount'
    BY <1>6, <2>1, Zenon DEF PagesInv, WholesCount
  <2>6. ASSUME ~past'.loose PROVE Strict'
    <3>1. Strict /\ NobodyElse(u, o)
      BY <1>1, <1>2, <2>1, <2>6, Called DEF PagesInv
    <3>2. s.status \notin Lively
      BY <1>8 DEF Lively
    <3> QED BY <1>2, <1>3, <1>4, <1>6, <1>7, <2>2, <3>1, <3>2, StrictStep DEF PagesInv
  <2> QED BY <2>3, <2>4, <2>5, <2>6 DEF PagesInv
<1>9. CASE s.status # "cancelled"
  <2>1. /\ todo' = [todo EXCEPT ![u] = Pages!Rest(u)]
             /\ desk' = [desk EXCEPT ![u] = [desk[u] EXCEPT !.ask = Pages!None]]
        /\ past' = [past EXCEPT !.loose = @ \/ Pages!Last(u)]
        /\ slips' = [slips EXCEPT ![o].status = "cancelled", ![o].listed = s.listed]
    BY <1>2, <1>3, <1>9 DEF Pages!Cancel, Pages!Goes, Pages!Desk, Pages!Return
  <2>2. /\ DOMAIN slips = Slips /\ DOMAIN todo = Users /\ DOMAIN desk = Users
             /\ DOMAIN s = SlipFields
    BY <1>3, Zenon DEF PagesInv, PageTypes, SlipOK
  <2>3. /\ DOMAIN x = SlipFields /\ x.customer = s.customer /\ x.date = s.date
             /\ x.listed = s.listed
        /\ x.status = "cancelled"
    BY <1>3, <1>7, <2>1, <2>2 DEF SlipFields
  <2>4. Frame(u, o) /\ todo'[u] = Pages!Rest(u) /\ desk'[u] = [desk[u] EXCEPT !.ask = Pages!None]
    BY <2>1, <2>2 DEF Frame
  <2>5. PastOK(past') /\ past'.faults = past.faults /\ (~past'.loose
          => ~past.loose /\ ~Pages!Last(u))
    BY <1>5, <2>1 DEF PastOK
  <2>6. /\ ~Pages!Last(u)
             => /\ Pages!Rest(u).order = o /\ Pages!Rest(u).customer = todo[u].customer
                       /\ Pages!Rest(u).date = todo[u].date /\ Pages!Rest(u).steps = <<"refresh">>
        /\ Pages!Last(u) => Pages!Rest(u) = Pages!Nothing
    <3>1. ~Pages!Last(u) => todo[u].steps = <<"cancel", "refresh">>
      BY <1>4, JobTails DEF TakingBack, Pages!Last
    <3> QED BY <1>1, <1>2, <3>1, Called, RestOf, JobTails DEF PagesInv
  <2>7. PageTypes'
    <3>1. SlipOK(x) /\ x.status # "none"
      BY <1>3, <2>3 DEF SlipOK, Statuses
    <3>2. JobOK(todo'[u], slips')
      BY <1>1, <1>2, <1>7, <2>4, <3>1, RestOK
    <3>3. DeskOK(desk'[u])
      BY <2>4, DeskFacts DEF DeskOK, DeskFields
    <3> QED BY <1>6, <1>7, <2>4, <2>5, <3>1, <3>2, <3>3, TypesStep DEF PagesInv
  <2>8. FormsHold'
    <3>1. desk'[u].editing = desk[u].editing /\ desk'[u].from = desk[u].from
      BY <2>4, DeskFacts DEF DeskFields
    <3>2. Holds(desk'[u], todo'[u], past'.faults)
      BY <1>4, <1>5, <2>5, <3>1 DEF Holds
    <3> QED BY <2>4, <2>5, <3>2, FormsStep DEF PagesInv
  <2>9. x.status \notin Lively
    BY <2>3 DEF Lively
  <2>10. WholesCount'
    BY <1>6, <1>7, <2>4, <2>9, WholesStep DEF PagesInv
  <2>11. ASSUME ~past'.loose PROVE Strict'
    <3>1. Strict /\ NobodyElse(u, o) /\ Follows(todo[u], s) /\ ~Pages!Last(u)
      BY <1>1, <1>2, <1>3, <2>5, <2>11, Called DEF PagesInv
    <3>2. s.customer = todo[u].customer /\ s.date = todo[u].date
      BY <1>4, <3>1 DEF Follows
    <3>3. Follows(Pages!Rest(u), x) /\ Pages!Rest(u).steps \in Correcting
      BY <2>6, <3>1 DEF Follows, TakingBack, Correcting
    <3> QED BY <1>2, <1>3, <1>4, <1>6, <1>7, <2>4, <2>6, <2>9, <3>1, <3>2, <3>3, StrictStep DEF
        PagesInv
  <2> QED BY <2>7, <2>8, <2>10, <2>11 DEF PagesInv
<1> QED BY <1>8, <1>9

(* A save, of a new order or of the one that is edited.                      *)
LEMMA SaveStep ==
  ASSUME Pages!PagesOK, PagesInv, NEW u \in Users, Pages!Save(u)
  PROVE  PagesInv'
<1>1. todo[u] = Pages!Nothing
  BY DEF Pages!Save, Pages!On
<1>2. sales' = sales /\ sales' \in [Customers -> Nat]
        /\ \A c \in Customers : sales[c] <= sales'[c]
  BY DatesNat DEF Pages!Save, PagesInv, PageTypes
<1>3. /\ DOMAIN desk[u] = DeskFields /\ desk[u].customer \in SomeCustomer
           /\ desk[u].date \in SomeDate
      /\ desk[u].editing \in Slips \cup {Pages!None} /\ DeskOK(desk[u]) /\ PastOK(past)
      /\ DOMAIN slips = Slips /\ DOMAIN todo = Users /\ DOMAIN desk = Users
  BY DeskFacts DEF PagesInv, PageTypes, PastOK
<1>4. Pages!Today \in SomeDate
  <2>1. Pages!Today \in Dates
    BY FirstOf DEF Pages!PagesOK, Pages!Today
  <2> QED BY <2>1 DEF SomeDate
<1>5. PICK o \in Slips, mark \in {"saved", "edited"}, day \in SomeDate, seq \in Selling :
        /\ Pages!Shipped(o, mark, u, day) /\ Pages!Steps(u, o, seq)
        /\ seq \in {<<"customer">>, <<"customer", "sale">>, <<"customer", "date", "sale">>}
        /\ \/ /\ slips[o] = Pages!NoOrder /\ past' = past /\ day \in {desk[u].date, Pages!Today}
              /\ seq = <<"customer", "sale">> => day = desk[u].date
           \/ /\ seq # <<"customer", "sale">> /\ day = slips[o].date
              /\ past' = [past EXCEPT !.loose = @ \/ Pages!Contended(o)]
  <2> DEFINE patched == fns.save = "patched"
             brief == IF patched THEN <<"customer", "sale">> ELSE <<"customer">>
             long == IF patched THEN <<"customer", "date", "sale">> ELSE <<"customer">>
             first == IF patched THEN desk[u].date ELSE Pages!Today
  <2>1. <<"customer">> # <<"customer", "sale">>
          /\ <<"customer", "date", "sale">> # <<"customer", "sale">>
    OBVIOUS
  <2>2. CASE desk[u].editing = Pages!None
    <3>1. PICK o \in Slips : slips[o] = Pages!NoOrder /\ Pages!Shipped(o, "saved", u, first)
                 /\ Pages!Steps(u, o, brief) /\ past' = past
      BY <2>2 DEF Pages!Save
    <3>2. /\ brief \in {<<"customer">>, <<"customer", "sale">>, <<"customer", "date", "sale">>}
          /\ first \in {desk[u].date, Pages!Today} /\ (brief = <<"customer", "sale">>
                => first = desk[u].date)
      BY <2>1
    <3>3. brief \in Selling /\ first \in SomeDate
      BY <1>3, <1>4 DEF Selling
    <3> HIDE DEF brief, first
    <3> QED BY <3>1, <3>2, <3>3
  <2>3. CASE desk[u].editing # Pages!None
    <3>1. PICK o \in Slips : o = desk[u].editing
      BY <1>3, <2>3
    <3>2. /\ Pages!Shipped(o, "edited", u, slips[o].date) /\ Pages!Steps(u, o, long)
          /\ past' = [past EXCEPT !.loose = @ \/ Pages!Contended(o)]
      BY <2>3, <3>1 DEF Pages!Save
    <3>3. /\ long \in {<<"customer">>, <<"customer", "sale">>, <<"customer", "date", "sale">>}
          /\ long # <<"customer", "sale">>
      BY <2>1
    <3>4. long \in Selling
      BY DEF Selling
    <3>5. slips[o].date \in SomeDate
      BY Zenon DEF PagesInv, PageTypes, SlipOK
    <3> HIDE DEF long
    <3> QED BY <3>2, <3>3, <3>4, <3>5
  <2> QED BY <2>2, <2>3
<1>6. PICK s : s = slips[o] /\ SlipOK(s)
  BY Zenon DEF PagesInv, PageTypes
<1>7. PICK x : x = slips'[o]
  OBVIOUS
<1>8. /\ DOMAIN x = SlipFields /\ x.status = mark /\ x.customer = s.customer /\ x.date = day
      /\ ~x.whole
      /\ DOMAIN slips' = Slips /\ \A p \in Slips : p # o => slips'[p] = slips[p]
  <2>1. DOMAIN s = SlipFields
    BY <1>6 DEF SlipOK
  <2>2. slips' = [slips EXCEPT ![o].status = mark, ![o].items = desk[u].cart, ![o].date = day,
                               ![o].listed = TRUE, ![o].whole = FALSE]
    BY <1>5 DEF Pages!Shipped
  <2> QED BY <1>3, <1>6, <1>7, <2>1, <2>2 DEF SlipFields
<1>9. PICK j : /\ j = todo'[u] /\ DOMAIN j = JobFields /\ j.steps = seq /\ j.order = o
               /\ j.customer = desk[u].customer /\ j.date = desk[u].date
  BY <1>3, <1>5 DEF Pages!Steps, JobFields
<1>10. PICK d : d = desk'[u] /\ Cartwise(d, u) /\ d.ask = desk[u].ask
  <2> DEFINE d == [desk[u] EXCEPT !.agreed = FALSE]
  <2>1. desk' = [desk EXCEPT ![u] = d]
    BY DEF Pages!Save, Pages!Desk
  <2>2. Cartwise(d, u) /\ d.ask = desk[u].ask
    BY <1>3 DEF Cartwise, DeskFields
  <2> HIDE DEF d
  <2>3. desk'[u] = d
    BY <1>3, <2>1
  <2> QED BY <2>2, <2>3
<1>11. Frame(u, o)
  BY <1>3, <1>5, <1>8 DEF Frame, Pages!Steps, Pages!Save, Pages!Desk
<1>12. PastOK(past') /\ past'.faults = past.faults /\ (~past'.loose => ~past.loose)
  BY <1>3, <1>5 DEF PastOK
<1>13. seq \in Selling /\ seq \notin {<<"sale">>, <<"date", "sale">>} /\ seq \notin TakingBack
         /\ seq \notin Correcting
  BY <1>5 DEF Selling, TakingBack, Correcting
<1>14. PageTypes'
  <2>1. day \in SomeDate
    BY <1>3, <1>4, <1>5, <1>6 DEF SlipOK
  <2>2. SlipOK(x) /\ x.status # "none"
    BY <1>5, <1>6, <1>8, <2>1 DEF SlipOK, Statuses
  <2>3. JobOK(todo'[u], slips')
    BY <1>3, <1>5, <1>7, <1>9, <1>13, <2>2, Zenon DEF JobOK, Jobs
  <2>4. DeskOK(desk'[u])
    BY <1>3, <1>10 DEF DeskOK, Cartwise
  <2> QED BY <1>2, <1>7, <1>11, <1>12, <2>2, <2>3, <2>4, TypesStep DEF PagesInv
<1>15. FormsHold'
  <2>1. Holds(desk[u], todo'[u], past.faults)
    BY <1>1, FreeDesk
  <2>2. Holds(desk'[u], todo'[u], past'.faults)
    BY <1>10, <1>12, <2>1 DEF Holds, Cartwise
  <2> QED BY <1>11, <1>12, <2>2, FormsStep DEF PagesInv
<1>16. WholesCount'
  BY <1>2, <1>7, <1>8, <1>11, WholesStep DEF PagesInv
<1>17. ASSUME ~past'.loose PROVE Strict'
  <2>1. Strict /\ ~past.loose
    BY <1>12, <1>17 DEF PagesInv
  <2>2. NobodyElse(u, o)
    <3>1. CASE slips[o] = Pages!NoOrder
      <4>1. slips[o].status = "none"
        BY <3>1 DEF Pages!NoOrder
      <4> QED BY <4>1, Zenon DEF NobodyElse, PagesInv, PageTypes, JobOK
    <3>2. CASE past' = [past EXCEPT !.loose = @ \/ Pages!Contended(o)]
      BY <1>3, <1>17, <3>2, Uncontended DEF PastOK
    <3> QED BY <1>5, <3>1, <3>2
  <2>3. Follows(j, x)
    <3>1. j.steps = <<"customer", "sale">> => x.date = j.date
      BY <1>5, <1>8, <1>9
    <3> QED BY <1>9, <1>13, <3>1 DEF Follows
  <2>4. todo[u].steps \notin Selling /\ todo[u].steps \notin Correcting
    BY <1>1, NothingToDo DEF Jobs
  <2>5. ASSUME s.status \in Lively
        PROVE  x.status \in Lively /\ x.customer = s.customer /\ x.date = s.date
    <3>1. slips[o] # Pages!NoOrder
      BY <1>6, <2>5 DEF Pages!NoOrder, Lively
    <3> QED BY <1>5, <1>6, <1>8, <3>1 DEF Lively
  <2>6. todo'[u] = j /\ j.order = o /\ j.steps \in Selling
    BY <1>9, <1>13
  <2> QED BY <1>2, <1>6, <1>7, <1>11, <2>1, <2>2, <2>3, <2>4, <2>5, <2>6, StrictStep DEF PagesInv
<1> QED BY <1>14, <1>15, <1>16, <1>17 DEF PagesInv

-----------------------------------------------------------------------------
(* The invariant holds at first, and every step keeps it.                    *)
LEMMA PagesStart == ASSUME Pages!PagesOK, Pages!Init PROVE PagesInv
<1>1. /\ slips = [o \in Slips |-> Pages!NoOrder] /\ sales = [c \in Customers |-> 0]
      /\ desk = [u \in Users |-> Pages!EmptyDesk] /\ todo = [u \in Users |-> Pages!Nothing]
      /\ past = [loose |-> FALSE, faults |-> 0]
  BY DEF Pages!Init
<1>2. SlipOK(Pages!NoOrder) /\ Pages!NoOrder.status \notin Lively
  BY DEF SlipOK, Pages!NoOrder, SlipFields, Statuses, SomeCustomer, SomeDate, Lively
<1>3. DeskOK(Pages!EmptyDesk) /\ Pages!EmptyDesk.from = Pages!None
        /\ Pages!EmptyDesk.editing = Pages!None
  BY EmptyDeskOK
<1>4. PageTypes
  <2>1. \A o \in Slips : SlipOK(slips[o])
    BY <1>1, <1>2
  <2>2. \A u \in Users : JobOK(todo[u], slips) /\ DeskOK(desk[u])
    BY <1>1, <1>3, NothingToDo DEF JobOK
  <2>3. PastOK(past) /\ sales \in [Customers -> Nat] /\ DOMAIN slips = Slips
          /\ DOMAIN todo = Users /\ DOMAIN desk = Users
    BY <1>1 DEF PastOK
  <2> QED BY <2>1, <2>2, <2>3, Zenon DEF PageTypes, PastOK
<1>5. FormsHold
  BY <1>1, <1>3 DEF FormsHold, Holds
<1>6. WholesCount
  BY <1>1, <1>2 DEF WholesCount
<1>7. OneCall /\ AllFollow
  BY <1>1 DEF OneCall, AllFollow
<1>8. SalesReach /\ SalesComeFrom
  BY <1>1, <1>2 DEF SalesReach, SalesComeFrom
<1> QED BY <1>4, <1>5, <1>6, <1>7, <1>8 DEF PagesInv, Strict

LEMMA PagesSteps == ASSUME Pages!PagesOK, PagesInv, [Pages!Next]_(Pages!vars) PROVE PagesInv'
<1>1. CASE UNCHANGED Pages!vars
  BY <1>1, StutterStep DEF Pages!vars
<1>2. ASSUME NEW c \in Customers, NEW d \in Dates, Pages!Upload(c, d) PROVE PagesInv'
  BY <1>2, UploadStep
<1>3. ASSUME NEW u \in Users, Pages!Step(u) PROVE PagesInv'
  <2>1. CASE Pages!Begin(u)
    BY <2>1, BeginStep
  <2>2. CASE Pages!Finish(u)
    <3>1. UNCHANGED <<slips, sales, todo, past, desk>>
      BY <2>2 DEF Pages!Finish, Pages!Tables
    <3> QED BY <3>1, StutterStep
  <2>3. CASE \E page \in Pages!Pages : Pages!Go(u, page)
    BY <2>3, GoStep
  <2>4. CASE Pages!Form(u)
    <3>1. CASE \E c \in Customers, d \in Dates : Pages!May("choose") /\ Pages!Choose(u, c, d)
      BY <3>1, ChooseStep
    <3>2. CASE \E r \in Rows, n \in 1 .. MaxQty : Pages!Pick(u, r, n)
      BY <3>2, PickStep
    <3>3. CASE \E yes \in BOOLEAN : Pages!AnswerExpiry(u, yes) \/ Pages!AnswerWarning(u, yes)
      BY <3>3, AnswerExpiryStep, AnswerWarningStep
    <3>4. CASE Pages!May("lines")
                 /\ (Pages!EmptyCart(u)
                       \/ \E r \in Rows, n \in 0 .. MaxQty : Pages!ChangeLine(u, r, n))
      BY <3>4, EmptyCartStep, ChangeLineStep
    <3>5. CASE Pages!AskFirst(u)
      BY <3>5, AskFirstStep
    <3>6. CASE Pages!Save(u)
      BY <3>6, SaveStep
    <3>7. CASE Pages!Refused(u)
      BY <3>7, RefusedStep
    <3> QED BY <2>4, <3>1, <3>2, <3>3, <3>4, <3>5, <3>6, <3>7, Zenon DEF Pages!Form
  <2>5. CASE Pages!List(u)
    <3>1. CASE \E o \in Slips : Pages!May("edit") /\ Pages!Edit(u, o)
      BY <3>1, EditStep
    <3>2. CASE Pages!AnswerNo(u)
      BY <3>2, AnswerNoStep
    <3>3. CASE Pages!AnswerYes(u)
      BY <3>3, AnswerYesStep
    <3>4. CASE \E o \in Slips : Pages!AskCancel(u, o)
      BY <3>4, AskCancelStep
    <3> QED BY <2>5, <3>1, <3>2, <3>3, <3>4, Zenon DEF Pages!List
  <2>6. CASE Pages!Transactions(u)
    BY <2>6, WriteCustomerStep, WriteDateStep, WriteSaleStep, CancelStep, RefreshStep, SyncStep, FailStep,
       Zenon DEF Pages!Transactions
  <2>7. CASE \E o \in Slips, undo \in BOOLEAN : Pages!May("history")
               /\ Pages!DeleteHistory(u, o, undo)
    BY <2>7, DeleteHistoryStep
  <2> QED BY <1>3, <2>1, <2>2, <2>3, <2>4, <2>5, <2>6, <2>7, Zenon DEF Pages!Step
<1>4. CASE Pages!Next
  BY <1>2, <1>3, <1>4, Zenon DEF Pages!Next
<1> QED BY <1>1, <1>4, Zenon

(* What the invariant says of a page between two clicks.                     *)
LEMMA PagesInvSays == ASSUME Pages!PagesOK, PagesInv PROVE EditsOverwriteTheirOrder
      /\ SalesFollowOrders
<1>1. Pages!EditsOverwriteTheirOrder
  <2> SUFFICES ASSUME NEW u \in Users
               PROVE  /\ desk[u].editing # Pages!None => desk[u].from = desk[u].editing
                      /\ desk[u].from # Pages!None /\ todo[u] = Pages!Nothing
                            /\ past.faults = 0 =>
                           desk[u].editing = desk[u].from
    BY Zenon DEF Pages!EditsOverwriteTheirOrder
  <2>1. Holds(desk[u], todo[u], past.faults)
    BY DEF PagesInv, FormsHold
  <2> QED BY <2>1, NothingToDo DEF Holds
<1>2. Pages!SalesFollowOrders
  <2> SUFFICES ASSUME \A u \in Users : todo[u] = Pages!Nothing, NEW c \in Customers
               PROVE  LET live == {o \in Pages!Of(c) : Pages!Live(o)}
                      IN  /\ Pages!LatestOf({o \in live : slips[o].whole}) <= sales[c]
                          /\ ~past.loose => sales[c] = Pages!LatestOf(live)
    BY Zenon DEF Pages!SalesFollowOrders
  <2> DEFINE live == {o \in Pages!Of(c) : Pages!Live(o)}
             whole == {o \in live : slips[o].whole}
  <2>1. \A o \in Slips : o \in live <=> slips[o].customer = c /\ slips[o].status \in Lively
    BY Standing DEF PagesInv, Pages!Of
  <2>2. live \in SUBSET Slips /\ whole \in SUBSET Slips
    BY DEF Pages!Of
  <2>3. sales[c] \in Nat /\ \A o \in Slips : slips[o].date \in Nat
    BY DatesNat DEF PagesInv
  <2>4. \A o \in whole : slips[o].date <= sales[c]
    BY <2>1, <2>2 DEF PagesInv, WholesCount
  <2> HIDE DEF live, whole
  <2>5. Pages!LatestOf(whole) <= sales[c]
    BY <2>2, <2>3, <2>4, LatestIs DEF PagesInv
  <2>6. ASSUME ~past.loose PROVE sales[c] = Pages!LatestOf(live)
    <3>1. \A v \in Users : todo[v].steps \notin Selling /\ todo[v].steps \notin Correcting
      BY NothingToDo DEF Jobs
    <3>2. \A o \in live : slips[o].date <= sales[c]
      BY <2>1, <2>2, <2>6, <3>1 DEF PagesInv, Strict, SalesReach
    <3>3. sales[c] = 0 \/ \E o \in live : slips[o].date = sales[c]
      BY <2>1, <2>6, <3>1 DEF PagesInv, Strict, SalesComeFrom
    <3> QED BY <2>2, <2>3, <3>2, <3>3, LatestIs DEF PagesInv
  <2> QED BY <2>5, <2>6 DEF live, whole
<1> QED BY <1>1, <1>2 DEF EditsOverwriteTheirOrder, SalesFollowOrders

(* While a page is used, a form overwrites the order it was loaded from and   *)
(* no other, and unless a save failed half way it never saves such a cart as *)
(* another order: edits, cancellations, deletions, menus and dialogs of all   *)
(* sessions in any order (outbound.py, navigation.py).                       *)
THEOREM EditsStayWithTheirOrder == ASSUME Pages!PagesOK PROVE Pages!Spec
      => []EditsOverwriteTheirOrder
<1>1. Pages!Init => PagesInv
  BY PagesStart
<1>2. PagesInv /\ [Pages!Next]_(Pages!vars) => PagesInv'
  BY PagesSteps
<1>3. PagesInv => EditsOverwriteTheirOrder
  BY PagesInvSays
<1> QED BY <1>1, <1>2, <1>3, PTL DEF Pages!Spec

(* Between clicks no customer's last sale is before an order whose save ran   *)
(* to its end; and while no order changed hands or days, no call failed and  *)
(* no file was read, it is the day of the latest order that stands           *)
(* (outbound_business.py, saved_outbound_date_fix.py, history.py).           *)
THEOREM LastSalesFollowOrders == ASSUME Pages!PagesOK PROVE Pages!Spec => []SalesFollowOrders
<1>1. Pages!Init => PagesInv
  BY PagesStart
<1>2. PagesInv /\ [Pages!Next]_(Pages!vars) => PagesInv'
  BY PagesSteps
<1>3. PagesInv => SalesFollowOrders
  BY PagesInvSays
<1> QED BY <1>1, <1>2, <1>3, PTL DEF Pages!Spec
=============================================================================
