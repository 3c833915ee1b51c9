------------------------ MODULE OrderManagementProofs -------------------------
(****************************************************************************)
(* The purchase side of the office (src/order_management_src), for any number *)
(* of sessions, orders, products and lines: what the statements' tables hold  *)
(* while saves are made one at a time, what sessions read through the shared  *)
(* cache, and which orders a form may overwrite.                             *)
(****************************************************************************)
EXTENDS OrderManagement, DataFacts

-----------------------------------------------------------------------------
(* Types: what is on the tables, on the screens and on its way to be saved.  *)
Header == [id : StatementIds, order : Orders]
Line == [st : Nat, seq : Nat, of : Products \cup {None}, got : Products, qty : Nat, price : Nat,
         mark : {"Y", "N", "returned", "applied"}, back : Nat]
(* A return remembers how many units there were.                             *)
Row == {l \in Line : l.mark = "returned" => l.back > 0}
Price == [st : Nat, seq : Nat, product : Products]
Tables == [orders : [Orders -> Seq(OrderLine)], heads : SUBSET Header,
           items : {S \in SUBSET Row : IsFiniteSet(S)}, prices : SUBSET Price]
Saves ==
  [op : {"heads"}, rows : SUBSET Header] \cup [op : {"items"}, rows : {S \in SUBSET Row : IsFiniteSet(S)}]
    \cup [op : {"prices"}, rows : SUBSET Price]
TypeOK ==
  /\ db \in Tables
  /\ todo \in [Users -> Seq(Saves)]
  /\ form \in [Users -> [st : Nat, rows : Seq(Row), changes : Nat]]
  /\ clean \in BOOLEAN

(* A save writes each table once, headers first.                             *)
Rank == [heads |-> 1, items |-> 2, prices |-> 3]
Staged(ws) == \A j, k \in DOMAIN ws : j < k => Rank[ws[j].op] < Rank[ws[k].op]
(* The tables once a save has made all its writes.                           *)
Pending(ws, op, now) ==
  IF \E k \in DOMAIN ws : ws[k].op = op THEN ws[CHOOSE k \in DOMAIN ws : ws[k].op = op].rows ELSE now
After(t, ws) ==
  [orders |-> t.orders, heads |-> Pending(ws, "heads", t.heads), items |-> Pending(ws, "items", t.items),
   prices |-> Pending(ws, "prices", t.prices)]
(* The returns of goods that had a price are still there in a.               *)
Stand(t, a) ==
  \A l \in t.items : l.mark = "returned" /\ l.price > 0 /\ Listed(a, l.st) => l \in a.items

(* The inductive invariant: as long as saves are made one at a time, the one *)
(* under way will leave the tables whole, with their returns.                *)
Lone ==
  clean =>
    /\ \A u, v \in Users : ~Idle(u) /\ ~Idle(v) => u = v
    /\ Quiet => Whole(db)
    /\ \A u \in Users : ~Idle(u) =>
         /\ Whole(After(db, todo[u]))
         /\ "correct" \notin work.calls => Stand(db, After(db, todo[u]))
Inv == TypeOK /\ (\A u \in Users : Staged(todo[u])) /\ Lone

-----------------------------------------------------------------------------
(* Sums over lines.                                                          *)

LEMMA ImageFinite ==
  ASSUME NEW S, IsFiniteSet(S), NEW f, S = DOMAIN f
  PROVE  IsFiniteSet({f[x] : x \in S})
<1> DEFINE T == {f[x] : x \in S}
           g == [x \in S |-> f[x]]
<1>1. g \in Surjection(S, T)
  BY DEF Surjection
<1> HIDE DEF g, T
<1>2. IsFiniteSet(T)
  BY <1>1, FS_Surjection
<1> QED BY <1>2 DEF T

LEMMA RowTypes ==
  ASSUME NEW l \in Row
  PROVE  /\ l.st \in Nat /\ l.seq \in Nat /\ l.of \in Products \cup {None} /\ l.got \in Products
         /\ l.qty \in Nat /\ l.price \in Nat /\ l.back \in Nat /\ Key(l) \in Products
         /\ l.mark = "returned" => l.back > 0
BY DEF Row, Line, Key

LEMMA UnitsNat ==
  ASSUME NEW S \in SUBSET Row, IsFiniteSet(S)
  PROVE  Units(S) \in Nat
<1> DEFINE f == [l \in S |-> l.qty]
<1>1. \A l \in S : f[l] \in Nat
  BY RowTypes
<1> HIDE DEF f
<1>2. SumFunctionOnSet(f, S) \in Nat
  BY <1>1, SumNat
<1> QED BY <1>2 DEF Units, f

(* A natural is at most the sum it belongs to.                               *)
LEMMA PartOfSum ==
  ASSUME NEW f, NEW S, IsFiniteSet(S), \A x \in S : f[x] \in Nat, NEW e \in S
  PROVE  f[e] <= SumFunctionOnSet(f, S)
<1>1. SumFunctionOnSet(f, S) = f[e] + SumFunctionOnSet(f, S \ {e})
  BY SumSplit
<1>2. IsFiniteSet(S \ {e})
  BY FS_Subset
<1>3. SumFunctionOnSet(f, S \ {e}) \in Nat
  BY <1>2, SumNat
<1> QED BY <1>1, <1>3

-----------------------------------------------------------------------------
(* The tables as they are typed.                                             *)
LEMMA TableTypes ==
  ASSUME TypeOK
  PROVE  /\ db.orders \in [Orders -> Seq(OrderLine)] /\ db.heads \in SUBSET Header
         /\ db.items \in SUBSET Row /\ IsFiniteSet(db.items) /\ db.prices \in SUBSET Price
         /\ \A o \in Orders : \A i \in DOMAIN db.orders[o] :
              db.orders[o][i].product \in Products /\ db.orders[o][i].qty \in Nat
<1>1. /\ db.orders \in [Orders -> Seq(OrderLine)] /\ db.heads \in SUBSET Header
      /\ db.items \in SUBSET Row /\ IsFiniteSet(db.items) /\ db.prices \in SUBSET Price
  BY DEF TypeOK, Tables
<1>2. ASSUME NEW o \in Orders, NEW i \in DOMAIN db.orders[o]
      PROVE  db.orders[o][i].product \in Products /\ db.orders[o][i].qty \in Nat
  <2>1. db.orders[o] \in Seq(OrderLine)
    BY <1>1
  <2>2. db.orders[o][i] \in OrderLine
    BY <2>1, ElementOfSeq, LenProperties
  <2> QED BY <2>2 DEF OrderLine
<1> QED BY <1>1, <1>2

LEMMA ReceivedNat ==
  ASSUME TypeOK, NEW o, NEW p
  PROVE  Received(db, o, p) \in Nat
<1> DEFINE S == {l \in LinesOf(db, o) : Key(l) = p}
<1>1. S \in SUBSET Row /\ IsFiniteSet(S)
  BY TableTypes, FS_Subset DEF LinesOf
<1> HIDE DEF S
<1>2. Units(S) \in Nat
  BY <1>1, UnitsNat
<1> QED BY <1>2 DEF Received, S

LEMMA RemainingNat ==
  ASSUME TypeOK, NEW o \in Orders, NEW i \in DOMAIN db.orders[o]
  PROVE  Remaining(db, o, i) \in Nat
BY TableTypes, ReceivedNat DEF Remaining

(* A row with something left makes the product wait: the rows of a product   *)
(* ask together for at least what one of them asks for.                      *)
LEMMA OpenIsNotReceived ==
  ASSUME TypeOK PROVE ReceivedIsClosed
<1> SUFFICES ASSUME NEW o \in OpenOrders(db) PROVE Status(db, o) # "received"
  BY DEF ReceivedIsClosed
<1>1. o \in Orders
  BY DEF OpenOrders
<1>2. PICK i \in DOMAIN db.orders[o] : Remaining(db, o, i) > 0
  BY DEF OpenOrders
<1> DEFINE p == db.orders[o][i].product
           S == {j \in DOMAIN db.orders[o] : db.orders[o][j].product = p}
           f == [j \in S |-> db.orders[o][j].qty]
<1>3. Received(db, o, p) \in Nat /\ db.orders[o][i].qty \in Nat
  BY <1>1, TableTypes, ReceivedNat
<1>4. Received(db, o, p) < db.orders[o][i].qty
  BY <1>2, <1>3 DEF Remaining
<1>5. i \in S /\ IsFiniteSet(S) /\ \A j \in S : f[j] \in Nat
  <2>1. db.orders[o] \in Seq(OrderLine)
    BY <1>1, TableTypes
  <2>2. DOMAIN db.orders[o] = 1 .. Len(db.orders[o]) /\ Len(db.orders[o]) \in Nat
    BY <2>1, LenProperties
  <2>3. IsFiniteSet(DOMAIN db.orders[o])
    BY <2>2, FS_Interval
  <2>4. IsFiniteSet(S)
    BY <2>3, FS_Subset
  <2> QED BY <2>4, <1>1, TableTypes
<1>6. Ordered(db, o, p) = SumFunctionOnSet(f, S)
  BY DEF Ordered
<1>7. f[i] <= Ordered(db, o, p) /\ f[i] = db.orders[o][i].qty
  <2>1. f[i] = db.orders[o][i].qty
    BY <1>5
  <2> HIDE DEF f, S, p
  <2>2. f[i] <= SumFunctionOnSet(f, S)
    BY <1>5, PartOfSum
  <2> QED BY <1>6, <2>1, <2>2
<1>8. Ordered(db, o, p) \in Nat
  <2> HIDE DEF f, S, p
  <2> QED BY <1>5, <1>6, SumNat
<1>9. ~(Received(db, o, p) >= Ordered(db, o, p))
  <2> HIDE DEF f, p
  <2> QED BY <1>3, <1>4, <1>7, <1>8
<1>10. p \in {db.orders[o][j].product : j \in DOMAIN db.orders[o]}
  OBVIOUS
<1> HIDE DEF p
<1> QED BY <1>9, <1>10 DEF Status
-----------------------------------------------------------------------------
(* What a save still has to write.                                           *)

LEMMA SaveTypes ==
  ASSUME NEW w \in Saves
  PROVE  \/ w.op = "heads" /\ w.rows \in SUBSET Header
         \/ w.op = "items" /\ w.rows \in SUBSET Row /\ IsFiniteSet(w.rows)
         \/ w.op = "prices" /\ w.rows \in SUBSET Price
BY DEF Saves

(* A write made is no longer pending, the others are; headers come first.     *)
LEMMA WritesStaged ==
  ASSUME NEW ws \in Seq(Saves), ws # <<>>, Staged(ws)
  PROVE  /\ Head(ws) \in Saves /\ Tail(ws) \in Seq(Saves) /\ Staged(Tail(ws))
         /\ \A op, now : Pending(ws, op, now) =
              IF op = Head(ws).op THEN Head(ws).rows ELSE Pending(Tail(ws), op, now)
         /\ \A now : Pending(Tail(ws), Head(ws).op, now) = now
         /\ Head(ws).op = "items" => \A now : Pending(Tail(ws), "heads", now) = now
<1> DEFINE n == Len(ws)  t == Tail(ws)
<1>1. n \in Nat /\ n > 0 /\ DOMAIN ws = 1 .. n /\ \A k \in 1 .. n : ws[k] \in Saves
  BY EmptySeq, LenProperties, ElementOfSeq
<1>2. /\ Head(ws) = ws[1] /\ t \in Seq(Saves) /\ Len(t) = n - 1 /\ DOMAIN t = 1 .. n - 1
      /\ \A k \in 1 .. n - 1 : t[k] = ws[k + 1]
  BY <1>1, HeadTailProperties, LenProperties
<1> HIDE DEF t
<1>3. \A k \in 1 .. n : ws[k].op \in {"heads", "items", "prices"} /\ Rank[ws[k].op] \in Nat
  BY <1>1, SaveTypes DEF Rank
<1>4. Staged(t)
  <2> SUFFICES ASSUME NEW j \in 1 .. n - 1, NEW k \in 1 .. n - 1, j < k
               PROVE  Rank[t[j].op] < Rank[t[k].op]
    BY <1>2 DEF Staged
  <2>1. t[j] = ws[j + 1] /\ t[k] = ws[k + 1] /\ j + 1 \in 1 .. n /\ k + 1 \in 1 .. n /\ j + 1 < k + 1
    BY <1>1, <1>2
  <2> HIDE DEF n
  <2> QED BY <1>1, <2>1 DEF Staged
<1>5. \A k \in 1 .. n - 1 : Rank[ws[1].op] < Rank[t[k].op]
  BY <1>1, <1>2 DEF Staged
<1>6. \A k \in 1 .. n - 1 : t[k].op # ws[1].op /\ (ws[1].op = "items" => t[k].op # "heads")
  <2> TAKE k \in 1 .. n - 1
  <2>1. Rank[ws[1].op] < Rank[t[k].op] /\ Rank[ws[1].op] \in Nat
    BY <1>1, <1>3, <1>5
  <2>2. Rank["heads"] = 1 /\ Rank["items"] = 2
    BY DEF Rank
  <2> QED BY <2>1, <2>2
<1>7. \A now : Pending(t, ws[1].op, now) = now
  BY <1>2, <1>6 DEF Pending
<1>8. ws[1].op = "items" => \A now : Pending(t, "heads", now) = now
  BY <1>2, <1>6 DEF Pending
<1>9. \A j, k \in 1 .. n : ws[j].op = ws[k].op => j = k
  <2> SUFFICES ASSUME NEW j \in 1 .. n, NEW k \in 1 .. n, ws[j].op = ws[k].op, j < k PROVE FALSE
    BY <1>1
  <2> QED BY <1>1, <1>3 DEF Staged
<1>10. ASSUME NEW op, NEW now
       PROVE  Pending(ws, op, now) = IF op = ws[1].op THEN ws[1].rows ELSE Pending(t, op, now)
  <2>1. CASE op = ws[1].op
    <3>1. (CHOOSE k \in DOMAIN ws : ws[k].op = op) = 1
      BY <1>1, <1>9, <2>1
    <3>2. \E k \in DOMAIN ws : ws[k].op = op
      BY <1>1, <2>1
    <3>3. Pending(ws, op, now) = ws[CHOOSE k \in DOMAIN ws : ws[k].op = op].rows
      BY <3>2 DEF Pending
    <3> QED BY <2>1, <3>1, <3>3
  <2>2. CASE op # ws[1].op /\ ~\E k \in DOMAIN ws : ws[k].op = op
    <3>1. ~\E k \in DOMAIN t : t[k].op = op
      BY <1>1, <1>2, <2>2
    <3> QED BY <2>2, <3>1 DEF Pending
  <2>3. CASE op # ws[1].op /\ \E k \in DOMAIN ws : ws[k].op = op
    <3>1. PICK k \in 1 .. n : ws[k].op = op
      BY <1>1, <2>3
    <3>2. k - 1 \in DOMAIN t /\ t[k - 1] = ws[k]
      BY <1>1, <1>2, <2>3, <3>1
    <3>3. (CHOOSE j \in DOMAIN ws : ws[j].op = op) = k
      BY <1>1, <1>9, <3>1
    <3>4. \A j \in DOMAIN t : t[j].op = op => j = k - 1
      BY <1>1, <1>2, <1>9, <3>1
    <3>5. (CHOOSE j \in DOMAIN t : t[j].op = op) = k - 1
      BY <3>1, <3>2, <3>4
    <3> QED BY <2>3, <3>1, <3>2, <3>3, <3>5 DEF Pending
  <2> QED BY <2>1, <2>2, <2>3
<1> QED BY <1>1, <1>2, <1>4, <1>7, <1>8, <1>10 DEF t

(* The saves the pages make.                                                 *)
LEMMA WriteTypes ==
  ASSUME NEW S
  PROVE  /\ \A op : Write(op, S).op = op /\ Write(op, S).rows = S
         /\ S \in SUBSET Header => Write("heads", S) \in Saves
         /\ S \in SUBSET Row /\ IsFiniteSet(S) => Write("items", S) \in Saves
         /\ S \in SUBSET Price => Write("prices", S) \in Saves
BY DEF Write, Saves

LEMMA LinesPlan ==
  ASSUME NEW I \in SUBSET Row, IsFiniteSet(I), NEW t
  PROVE  LET ws == <<Write("items", I)>>
         IN  /\ ws \in Seq(Saves) /\ Staged(ws)
             /\ After(t, ws) = [orders |-> t.orders, heads |-> t.heads, items |-> I, prices |-> t.prices]
<1> DEFINE i == Write("items", I)  ws == <<i>>
<1>1. i \in Saves /\ i.op = "items" /\ i.rows = I
  BY WriteTypes
<1> HIDE DEF i
<1>2. ws \in Seq(Saves) /\ DOMAIN ws = {1} /\ ws[1] = i
  BY <1>1
<1>3. Staged(ws)
  BY <1>2 DEF Staged
<1> HIDE DEF ws
<1>4. (CHOOSE k \in {1} : ws[k].op = "items") = 1
  BY <1>1, <1>2
<1>5. /\ Pending(ws, "heads", t.heads) = t.heads /\ Pending(ws, "items", t.items) = I
      /\ Pending(ws, "prices", t.prices) = t.prices
  BY <1>1, <1>2, <1>4 DEF Pending
<1> QED BY <1>2, <1>3, <1>5 DEF After, ws, i

LEMMA HeadersPlan ==
  ASSUME NEW H \in SUBSET Header, NEW I \in SUBSET Row, IsFiniteSet(I), NEW t
  PROVE  LET ws == <<Write("heads", H), Write("items", I)>>
         IN  /\ ws \in Seq(Saves) /\ Staged(ws)
             /\ After(t, ws) = [orders |-> t.orders, heads |-> H, items |-> I, prices |-> t.prices]
<1> DEFINE h == Write("heads", H)  i == Write("items", I)  ws == <<h, i>>
<1>1. h \in Saves /\ h.op = "heads" /\ h.rows = H /\ i \in Saves /\ i.op = "items" /\ i.rows = I
  BY WriteTypes
<1> HIDE DEF h, i
<1>2. ws \in Seq(Saves) /\ DOMAIN ws = {1, 2} /\ ws[1] = h /\ ws[2] = i
  BY <1>1
<1> HIDE DEF ws
<1>3. Staged(ws)
  BY <1>1, <1>2 DEF Staged, Rank
<1>4. /\ (CHOOSE k \in {1, 2} : ws[k].op = "heads") = 1
      /\ (CHOOSE k \in {1, 2} : ws[k].op = "items") = 2
  BY <1>1, <1>2
<1>5. /\ Pending(ws, "heads", t.heads) = H /\ Pending(ws, "items", t.items) = I
      /\ Pending(ws, "prices", t.prices) = t.prices
  BY <1>1, <1>2, <1>4 DEF Pending
<1> QED BY <1>2, <1>3, <1>5 DEF After, ws, h, i

LEMMA WholePlan ==
  ASSUME NEW H \in SUBSET Header, NEW I \in SUBSET Row, IsFiniteSet(I), NEW P \in SUBSET Price, NEW t
  PROVE  LET ws == <<Write("heads", H), Write("items", I), Write("prices", P)>>
         IN  /\ ws \in Seq(Saves) /\ Staged(ws)
             /\ After(t, ws) = [orders |-> t.orders, heads |-> H, items |-> I, prices |-> P]
<1> DEFINE h == Write("heads", H)  i == Write("items", I)  p == Write("prices", P)  ws == <<h, i, p>>
<1>1. /\ h \in Saves /\ h.op = "heads" /\ h.rows = H
      /\ i \in Saves /\ i.op = "items" /\ i.rows = I
      /\ p \in Saves /\ p.op = "prices" /\ p.rows = P
  BY WriteTypes
<1> HIDE DEF h, i, p
<1>2. ws \in Seq(Saves) /\ DOMAIN ws = {1, 2, 3} /\ ws[1] = h /\ ws[2] = i /\ ws[3] = p
  BY <1>1
<1> HIDE DEF ws
<1>3. Staged(ws)
  BY <1>1, <1>2 DEF Staged, Rank
<1>4. /\ (CHOOSE k \in {1, 2, 3} : ws[k].op = "heads") = 1
      /\ (CHOOSE k \in {1, 2, 3} : ws[k].op = "items") = 2
      /\ (CHOOSE k \in {1, 2, 3} : ws[k].op = "prices") = 3
  BY <1>1, <1>2
<1>5. /\ Pending(ws, "heads", t.heads) = H /\ Pending(ws, "items", t.items) = I
      /\ Pending(ws, "prices", t.prices) = P
  BY <1>1, <1>2, <1>4 DEF Pending
<1> QED BY <1>2, <1>3, <1>5 DEF After, ws, h, i, p

-----------------------------------------------------------------------------
(* Steps.                                                                    *)

(* A session that acts while the others rest finds the tables whole; a save   *)
(* it begins will leave them whole.                                          *)
LEMMA BeginsSave ==
  ASSUME Inv, NEW u \in Users, Acts(u), NEW ws \in Seq(Saves), Staged(ws),
         todo' = [todo EXCEPT ![u] = ws], db' = db, work' = work,
         form' \in [Users -> [st : Nat, rows : Seq(Row), changes : Nat]],
         Whole(db) => Whole(After(db, ws)),
         Whole(db) /\ "correct" \notin work.calls => Stand(db, After(db, ws))
  PROVE  Inv'
<1>1. TypeOK'
  BY DEF Inv, TypeOK, Acts
<1>2. \A v \in Users : Staged(todo'[v])
  BY DEF Inv, TypeOK
<1>3. ASSUME clean' PROVE clean /\ Quiet /\ Whole(db) /\ \A v \in Users \ {u} : todo'[v] = <<>>
  BY <1>3 DEF Inv, TypeOK, Lone, Acts, Alone, Idle, Quiet
<1>4. todo'[u] = ws
  BY DEF Inv, TypeOK
<1>5. Lone'
  BY <1>3, <1>4 DEF Lone, Idle, Quiet, Whole, Stand, After
<1> QED BY <1>1, <1>2, <1>5 DEF Inv

(* A session that writes the tables in one transaction.                      *)
LEMMA ChangesTables ==
  ASSUME Inv, NEW u \in Users, Acts(u), db' \in Tables, todo' = todo, work' = work,
         form' \in [Users -> [st : Nat, rows : Seq(Row), changes : Nat]],
         Whole(db) => Whole(db')
  PROVE  Inv'
<1>1. TypeOK'
  BY DEF Inv, TypeOK, Acts
<1>2. ASSUME clean' PROVE Quiet /\ Whole(db)
  BY <1>2 DEF Inv, TypeOK, Lone, Acts, Alone, Idle, Quiet
<1>3. Lone'
  BY <1>2 DEF Lone, Idle, Quiet, Whole
<1> QED BY <1>1, <1>3 DEF Inv

LEMMA SaveTableKeeps ==
  ASSUME Inv, NEW u \in Users, SaveTable(u), work' = work
  PROVE  Inv'
<1> DEFINE ws == todo[u]
<1>1. /\ ws \in Seq(Saves) /\ ws # <<>> /\ Staged(ws) /\ todo' = [todo EXCEPT ![u] = Tail(ws)]
      /\ form' = form /\ clean' = (clean /\ Alone(u))
  BY DEF Inv, TypeOK, SaveTable
<1>2. /\ Head(ws).op = "heads" => db' = [db EXCEPT !.heads = Head(ws).rows]
      /\ Head(ws).op = "items" => db' = [db EXCEPT !.items = Head(ws).rows]
      /\ Head(ws).op = "prices" => db' = [db EXCEPT !.prices = Head(ws).rows]
  BY DEF SaveTable
<1>3. db \in Tables /\ todo'[u] = Tail(ws) /\ \A v \in Users \ {u} : todo'[v] = todo[v]
  BY <1>1 DEF Inv, TypeOK
<1> HIDE DEF ws
<1>4. /\ Head(ws) \in Saves /\ Tail(ws) \in Seq(Saves) /\ Staged(Tail(ws))
      /\ \A op, now : Pending(ws, op, now) =
           IF op = Head(ws).op THEN Head(ws).rows ELSE Pending(Tail(ws), op, now)
      /\ \A now : Pending(Tail(ws), Head(ws).op, now) = now
  BY <1>1, WritesStaged
<1>5. db' \in Tables
  BY <1>2, <1>3, <1>4, SaveTypes DEF Tables
<1>6. After(db', Tail(ws)) = After(db, ws)
  BY <1>2, <1>3, <1>4, SaveTypes DEF After, Tables
<1>7. TypeOK'
  BY <1>1, <1>3, <1>4, <1>5 DEF Inv, TypeOK
<1>8. \A v \in Users : Staged(todo'[v])
  BY <1>3, <1>4 DEF Inv
<1>9. ASSUME clean' PROVE /\ clean /\ \A v \in Users \ {u} : todo'[v] = <<>>
                          /\ Whole(After(db, ws))
                          /\ "correct" \notin work.calls => Stand(db, After(db, ws))
  BY <1>1, <1>3, <1>9 DEF Inv, Lone, Alone, Idle, ws
<1>10. Tail(ws) = <<>> => After(db', Tail(ws)) = db'
  BY <1>5 DEF After, Pending, Tables
<1>11. Stand(db, After(db, ws)) => Stand(db', After(db, ws))
  <2>1. db'.items = db.items \/ db'.items = After(db, ws).items
    BY <1>2, <1>3, <1>4, SaveTypes DEF After, Tables
  <2> QED BY <2>1 DEF Stand
<1>12. Lone'
  <2> SUFFICES ASSUME clean' PROVE /\ \A v, w \in Users : ~Idle(v)' /\ ~Idle(w)' => v = w
                                   /\ Quiet' => Whole(db')
                                   /\ \A v \in Users : ~Idle(v)' =>
                                        /\ Whole(After(db', todo'[v]))
                                        /\ "correct" \notin work'.calls => Stand(db', After(db', todo'[v]))
    BY DEF Lone, Whole, Stand, After, Listed
  <2>1. \A v \in Users : ~Idle(v)' => v = u
    BY <1>9 DEF Idle
  <2>2. Quiet' => Whole(db')
    BY <1>3, <1>6, <1>9, <1>10 DEF Quiet, Idle
  <2>3. Whole(After(db', todo'[u])) /\ ("correct" \notin work'.calls => Stand(db', After(db', todo'[u])))
    BY <1>3, <1>6, <1>9, <1>11
  <2> QED BY <2>1, <2>2, <2>3
<1> QED BY <1>7, <1>8, <1>12 DEF Inv

LEMMA CrashKeeps ==
  ASSUME Inv, Crash, work' = work
  PROVE  Inv'
<1>1. NoForm \in [st : Nat, rows : Seq(Row), changes : Nat] /\ <<>> \in Seq(Saves)
  BY DEF NoForm
<1>2. TypeOK'
  BY <1>1 DEF Inv, TypeOK, Crash
<1>3. \A u \in Users : Staged(todo'[u])
  BY DEF Crash, Staged
<1>4. Lone'
  BY DEF Inv, Lone, Crash, Idle, Quiet, Whole, Listed
<1> QED BY <1>2, <1>3, <1>4 DEF Inv
-----------------------------------------------------------------------------
(* Orders.                                                                   *)

LEMMA FormsTyped ==
  ASSUME Inv
  PROVE  form \in [Users -> [st : Nat, rows : Seq(Row), changes : Nat]]
BY DEF Inv, TypeOK

LEMMA SaveOrderKeeps ==
  ASSUME Inv, NEW u \in Users, NEW o \in Orders, NEW rows \in Baskets, SaveOrder(u, o, rows), work' = work
  PROVE  Inv'
<1>1. /\ db' = [db EXCEPT !.orders[o] = rows] /\ todo' = todo /\ form' = form /\ Acts(u)
      /\ rows \in Seq(OrderLine) /\ rows # NoOrder
  BY StatementsOK DEF SaveOrder, NoOrder
<1>2. db \in Tables
  BY DEF Inv, TypeOK
<1>3. /\ db'.heads = db.heads /\ db'.items = db.items /\ db'.prices = db.prices
      /\ db'.orders = [db.orders EXCEPT ![o] = rows] /\ db' \in Tables
  BY <1>1, <1>2 DEF Tables
<1>4. Whole(db) => Whole(db')
  <2>1. \A q \in Orders : db.orders[q] # NoOrder => db'.orders[q] # NoOrder
    BY <1>1, <1>2, <1>3 DEF Tables
  <2>2. \A h \in db.heads : h.order \in Orders
    BY <1>2 DEF Tables, Header
  <2> QED BY <1>3, <2>1, <2>2 DEF Whole, Listed
<1> QED BY <1>1, <1>3, <1>4, ChangesTables, FormsTyped

(* The tables without the lines and prices of some statements.               *)
LEMMA PurgedFields ==
  ASSUME NEW t \in Tables, NEW ids
  PROVE  /\ Purged(t, ids) \in Tables
         /\ Purged(t, ids).orders = t.orders /\ Purged(t, ids).heads = t.heads
         /\ Purged(t, ids).items = {l \in t.items : l.st \notin ids}
         /\ Purged(t, ids).prices = {q \in t.prices : q.st \notin ids}
<1>1. IsFiniteSet(t.items) /\ IsFiniteSet({l \in t.items : l.st \notin ids})
  BY FS_Subset DEF Tables
<1> QED BY <1>1 DEF Purged, Tables

LEMMA DeleteOrderKeeps ==
  ASSUME Inv, NEW u \in Users, NEW o \in Orders, DeleteOrder(u, o), work' = work
  PROVE  Inv'
<1> DEFINE ids == IdsOf(db, o)  rest == Purged(db, ids)
<1>1. db \in Tables
  BY DEF Inv, TypeOK
<1>2. /\ rest \in Tables /\ rest.orders = db.orders /\ rest.heads = db.heads
      /\ rest.items = {l \in db.items : l.st \notin ids} /\ rest.prices = {q \in db.prices : q.st \notin ids}
  BY <1>1, PurgedFields
<1>3. /\ db' = [rest EXCEPT !.orders[o] = NoOrder, !.heads = {h \in @ : h.order # o}]
      /\ todo' = todo /\ form' = form /\ Acts(u)
  BY DEF DeleteOrder
<1> HIDE DEF rest
<1>4. /\ db'.orders = [db.orders EXCEPT ![o] = NoOrder] /\ db'.heads = {h \in db.heads : h.order # o}
      /\ db'.items = rest.items /\ db'.prices = rest.prices /\ db' \in Tables
  <2>1. NoOrder \in Seq(OrderLine)
    BY DEF NoOrder
  <2> QED BY <1>2, <1>3, <2>1 DEF Tables
<1>5. \A h \in db.heads : h.order \in Orders /\ (h.order = o => h.id \in ids)
  BY <1>1 DEF Tables, Header, IdsOf
<1>6. Whole(db) => Whole(db')
  <2> HAVE Whole(db)
  <2>1. \A g, h \in db'.heads : g.id = h.id => g = h
    BY <1>4 DEF Whole
  <2>2. \A h \in db'.heads : db'.orders[h.order] # NoOrder
    BY <1>1, <1>4, <1>5 DEF Whole, Tables
  <2>3. \A l \in db'.items : Listed(db', l.st)
    BY <1>2, <1>4, <1>5 DEF Whole, Listed
  <2>4. \A q \in db'.prices : \E l \in db'.items : l.st = q.st /\ l.seq = q.seq /\ l.got = q.product
    BY <1>2, <1>4 DEF Whole
  <2>5. \A l \in db'.items : l.mark = "Y" =>
          \E q \in db'.prices : l.st = q.st /\ l.seq = q.seq /\ l.got = q.product
    BY <1>2, <1>4 DEF Whole
  <2> QED BY <2>1, <2>2, <2>3, <2>4, <2>5 DEF Whole
<1> QED BY <1>3, <1>4, <1>6, ChangesTables, FormsTyped

-----------------------------------------------------------------------------
(* Statements.                                                               *)

LEMMA PricedTyped ==
  ASSUME NEW S \in SUBSET Row
  PROVE  Priced(S) \in SUBSET Price
BY RowTypes DEF Priced, Price

(* The next id is above all there are.                                       *)
LEMMA NextIdNew ==
  ASSUME TypeOK
  PROVE  NextId(db) \in Nat \ {0} /\ \A h \in db.heads : h.id # NextId(db)
<1> DEFINE ids == {h.id : h \in db.heads} \cup {0}
<1>1. ids \subseteq 0 .. MaxStatements /\ ids # {} /\ MaxStatements \in Nat
  <2>1. MaxStatements \in Nat
    BY StatementsOK
  <2>2. \A h \in db.heads : h.id \in 1 .. MaxStatements
    BY TableTypes DEF Header, StatementIds
  <2>3. ASSUME NEW y \in ids PROVE y \in 0 .. MaxStatements
    BY <2>1, <2>2
  <2> QED BY <2>1, <2>3
<1>2. Max(ids) \in ids /\ \A y \in ids : Max(ids) >= y
  BY <1>1, MaxIn
<1>3. NextId(db) = 1 + Max(ids)
  BY DEF NextId
<1>4. \A h \in db.heads : h.id \in ids
  OBVIOUS
<1> HIDE DEF ids
<1>5. Max(ids) \in Nat /\ \A y \in ids : y \in Nat
  <2>1. \A y \in ids : y \in 0 .. MaxStatements
    BY <1>1
  <2>2. \A y \in 0 .. MaxStatements : y \in Nat
    BY <1>1
  <2> QED BY <1>2, <2>1, <2>2
<1>6. \A h \in db.heads : h.id \in Nat /\ h.id <= Max(ids)
  BY <1>2, <1>4, <1>5
<1> QED BY <1>3, <1>5, <1>6

LEMMA ReceiptTypes ==
  ASSUME TypeOK, NEW o \in Orders, NEW r \in Receipts(db, o)
  PROVE  \E n \in Nat : /\ DOMAIN r = 1 .. n
                        /\ \A k \in 1 .. n : /\ r[k].row \in DOMAIN db.orders[o] /\ r[k].got \in Products
                                             /\ r[k].qty \in Nat /\ r[k].mark \in {"Y", "N"}
<1>1. PICK n \in 1 .. MaxLines : r \in [1 .. n -> Came(db, o)]
  BY DEF Receipts
<1>2. \A k \in 1 .. n : r[k] \in Came(db, o)
  BY <1>1
<1>3. \A c \in Came(db, o) : /\ c.row \in DOMAIN db.orders[o] /\ c.got \in Products
                             /\ c.qty \in Nat /\ c.mark \in {"Y", "N"}
  BY StatementsOK DEF Came
<1>4. n \in Nat /\ DOMAIN r = 1 .. n
  BY <1>1, StatementsOK
<1> QED BY <1>2, <1>3, <1>4

LEMMA RegisterKeeps ==
  ASSUME Inv, NEW u \in Users, NEW o \in Orders, NEW r \in Receipts(db, o), Register(u, o, r), work' = work
  PROVE  Inv'
<1> DEFINE s == NextId(db)
           line(k) == [st |-> s, seq |-> k, of |-> db.orders[o][r[k].row].product, got |-> r[k].got,
                       qty |-> r[k].qty, price |-> 1, mark |-> r[k].mark, back |-> 0]
           lines == {line(k) : k \in DOMAIN r}
           H == db.heads \cup {[id |-> s, order |-> o]}
           I == db.items \cup lines
           P == db.prices \cup Priced(lines)
           ws == IF Priced(lines) = {} THEN <<Write("heads", H), Write("items", I)>>
                 ELSE <<Write("heads", H), Write("items", I), Write("prices", P)>>
<1>1. TypeOK /\ db \in Tables
  BY DEF Inv, TypeOK
<1>2. /\ Acts(u) /\ o \in OpenOrders(db) /\ s <= MaxStatements /\ todo' = [todo EXCEPT ![u] = ws]
      /\ db' = db /\ form' = form
  BY DEF Register
<1>3. s \in Nat \ {0} /\ s \in StatementIds /\ \A h \in db.heads : h.id # s
  <2> HIDE DEF s
  <2>1. s \in Nat \ {0} /\ \A h \in db.heads : h.id # s
    BY <1>1, NextIdNew DEF s
  <2>2. s <= MaxStatements /\ MaxStatements \in Nat
    BY <1>2, StatementsOK
  <2>3. s \in 1 .. MaxStatements
    BY <2>1, <2>2
  <2> QED BY <2>1, <2>3 DEF StatementIds
<1> HIDE DEF s
<1>4. PICK n \in Nat : /\ DOMAIN r = 1 .. n
                       /\ \A k \in 1 .. n : /\ r[k].row \in DOMAIN db.orders[o] /\ r[k].got \in Products
                                            /\ r[k].qty \in Nat /\ r[k].mark \in {"Y", "N"}
  BY <1>1, ReceiptTypes
<1>5. \A k \in 1 .. n : line(k) \in Row
  BY <1>1, <1>3, <1>4, TableTypes DEF Row, Line
<1>6. lines \in SUBSET Row /\ IsFiniteSet(lines)
  <2> DEFINE f == [k \in 1 .. n |-> line(k)]
  <2>1. lines = {f[k] : k \in 1 .. n}
    BY <1>4
  <2>2. IsFiniteSet(1 .. n) /\ 1 .. n = DOMAIN f
    BY FS_Interval
  <2> HIDE DEF f
  <2>3. IsFiniteSet({f[k] : k \in 1 .. n})
    BY <2>2, ImageFinite
  <2> QED BY <1>4, <1>5, <2>1, <2>3
<1>7. \A l \in lines : l.st = s
  OBVIOUS
<1> HIDE DEF lines
<1>8. Priced(lines) \in SUBSET Price
  BY <1>6, PricedTyped
<1>9. /\ H \in SUBSET Header /\ I \in SUBSET Row /\ IsFiniteSet(I) /\ P \in SUBSET Price
  <2>1. H \in SUBSET Header
    BY <1>1, <1>3, TableTypes DEF Header
  <2>2. I \in SUBSET Row /\ IsFiniteSet(I)
    BY <1>1, <1>6, TableTypes, FS_Union
  <2>3. P \in SUBSET Price
    BY <1>1, <1>8, TableTypes
  <2> QED BY <2>1, <2>2, <2>3
<1>10. [id |-> s, order |-> o] \in H
  OBVIOUS
<1> DEFINE a == [orders |-> db.orders, heads |-> H, items |-> I, prices |-> P]
<1>11. ws \in Seq(Saves) /\ Staged(ws) /\ After(db, ws) = a
  <2>1. CASE Priced(lines) = {}
    <3>1. P = db.prices /\ ws = <<Write("heads", H), Write("items", I)>>
      BY <2>1
    <3> HIDE DEF ws, H, I, P
    <3> QED BY <1>9, <3>1, HeadersPlan
  <2>2. CASE Priced(lines) # {}
    <3> HIDE DEF H, I, P
    <3>1. ws = <<Write("heads", H), Write("items", I), Write("prices", P)>>
      BY <2>2
    <3> HIDE DEF ws
    <3> QED BY <1>9, <3>1, WholePlan
  <2> QED BY <2>1, <2>2
<1>12. \A h \in H : h \in db.heads \/ (h.id = s /\ h.order = o)
  OBVIOUS
<1>13. db.orders[o] # NoOrder
  BY <1>2 DEF OpenOrders, NoOrder
<1>14. Whole(db) => Whole(a)
  <2> HAVE Whole(db)
  <2>1. \A g, h \in a.heads : g.id = h.id => g = h
    BY <1>3 DEF Whole
  <2>2. \A h \in a.heads : a.orders[h.order] # NoOrder
    BY <1>13 DEF Whole
  <2>3. \A l \in a.items : Listed(a, l.st)
    BY <1>7, <1>10 DEF Whole, Listed
  <2>4. \A q \in a.prices : \E l \in a.items : l.st = q.st /\ l.seq = q.seq /\ l.got = q.product
    BY DEF Whole, Priced
  <2>5. \A l \in a.items : l.mark = "Y" =>
          \E q \in a.prices : l.st = q.st /\ l.seq = q.seq /\ l.got = q.product
    <3> TAKE l \in a.items
    <3> HAVE l.mark = "Y"
    <3>1. CASE l \in db.items
      BY <3>1 DEF Whole
    <3>2. CASE l \in lines
      <4>1. [st |-> l.st, seq |-> l.seq, product |-> l.got] \in Priced(lines)
        BY <3>2 DEF Priced
      <4> QED BY <4>1
    <3> QED BY <3>1, <3>2
  <2> QED BY <2>1, <2>2, <2>3, <2>4, <2>5 DEF Whole
<1>15. Stand(db, a)
  BY DEF Stand
<1> HIDE DEF ws, a
<1> QED BY <1>2, <1>11, <1>14, <1>15, BeginsSave, FormsTyped

LEMMA DeleteStatementKeeps ==
  ASSUME Inv, NEW u \in Users, NEW s, DeleteStatement(u, s), work' = work
  PROVE  Inv'
<1> DEFINE rest == Purged(db, {s})
           H == {h \in db.heads : h.id # s}
           ws == <<Write("heads", H), Write("items", rest.items), Write("prices", rest.prices)>>
           a == [orders |-> db.orders, heads |-> H, items |-> rest.items, prices |-> rest.prices]
<1>1. db \in Tables /\ H \in SUBSET Header
  BY DEF Inv, TypeOK, Tables
<1>2. /\ rest \in Tables
      /\ rest.items = {l \in db.items : l.st # s} /\ rest.prices = {q \in db.prices : q.st # s}
  BY <1>1, PurgedFields
<1>3. /\ Acts(u) /\ todo' = [todo EXCEPT ![u] = ws] /\ db' = db /\ form' = form
  BY DEF DeleteStatement
<1> HIDE DEF rest
<1>4. rest.items \in SUBSET Row /\ IsFiniteSet(rest.items) /\ rest.prices \in SUBSET Price
  BY <1>2 DEF Tables
<1>5. ws \in Seq(Saves) /\ Staged(ws) /\ After(db, ws) = a
  <2> HIDE DEF H
  <2> QED BY <1>1, <1>4, WholePlan
<1>6. Whole(db) => Whole(a)
  <2> HAVE Whole(db)
  <2>1. \A g, h \in a.heads : g.id = h.id => g = h
    BY DEF Whole
  <2>2. \A h \in a.heads : a.orders[h.order] # NoOrder
    BY DEF Whole
  <2>3. \A l \in a.items : Listed(a, l.st)
    BY <1>2 DEF Whole, Listed
  <2>4. \A q \in a.prices : \E l \in a.items : l.st = q.st /\ l.seq = q.seq /\ l.got = q.product
    BY <1>2 DEF Whole
  <2>5. \A l \in a.items : l.mark = "Y" =>
          \E q \in a.prices : l.st = q.st /\ l.seq = q.seq /\ l.got = q.product
    BY <1>2 DEF Whole
  <2> QED BY <2>1, <2>2, <2>3, <2>4, <2>5 DEF Whole
<1>7. Stand(db, a)
  BY <1>2 DEF Stand, Listed
<1> HIDE DEF ws, a
<1> QED BY <1>3, <1>5, <1>6, <1>7, BeginsSave, FormsTyped

LEMMA ReturnKeeps ==
  ASSUME Inv, NEW u \in Users, NEW o, NEW p, Return(u, o, p), work' = work
  PROVE  Inv'
<1> DEFINE S == {l \in LinesOf(db, o) : Key(l) = p /\ l.mark # "returned" /\ l.qty > 0}
           T == {ReturnLine(l) : l \in S}
           I == (db.items \ S) \cup T
           ws == <<Write("items", I)>>
           a == [orders |-> db.orders, heads |-> db.heads, items |-> I, prices |-> db.prices]
<1>1. /\ Acts(u) /\ todo' = [todo EXCEPT ![u] = ws] /\ db' = db /\ form' = form
  BY DEF Return
<1>2. /\ db.heads \in SUBSET Header /\ db.items \in SUBSET Row /\ IsFiniteSet(db.items)
      /\ db.prices \in SUBSET Price
  BY TableTypes DEF Inv
<1>3. S \subseteq db.items /\ \A l \in S : l \in Row /\ l.mark # "returned" /\ l.qty > 0
  BY <1>2 DEF LinesOf
<1> HIDE DEF S
<1>4. ASSUME NEW l \in S
      PROVE  /\ ReturnLine(l) \in Row /\ ReturnLine(l).mark = "returned"
             /\ ReturnLine(l).st = l.st /\ ReturnLine(l).seq = l.seq /\ ReturnLine(l).got = l.got
  BY <1>3 DEF ReturnLine, Row, Line
<1>5. IsFiniteSet(S) /\ IsFiniteSet(T)
  <2> DEFINE f == [l \in S |-> ReturnLine(l)]
  <2>1. T = {f[l] : l \in S} /\ S = DOMAIN f
    OBVIOUS
  <2>2. IsFiniteSet(S)
    BY <1>2, <1>3, FS_Subset
  <2> HIDE DEF f, T
  <2> QED BY <2>1, <2>2, ImageFinite
<1>6. IsFiniteSet(db.items \ S)
  BY <1>2, FS_Subset
<1>7. I \in SUBSET Row /\ IsFiniteSet(I)
  <2>1. T \subseteq Row
    BY <1>4
  <2> HIDE DEF T
  <2> QED BY <1>2, <1>5, <1>6, <2>1, FS_Union
<1>8. ws \in Seq(Saves) /\ Staged(ws) /\ After(db, ws) = a
  <2> HIDE DEF I
  <2> QED BY <1>2, <1>7, LinesPlan
<1>9. Whole(db) => Whole(a)
  <2> HAVE Whole(db)
  <2>1. \A l \in a.items : Listed(a, l.st)
    BY <1>3, <1>4 DEF Whole, Listed
  <2>2. \A q \in a.prices : \E l \in a.items : l.st = q.st /\ l.seq = q.seq /\ l.got = q.product
    <3> TAKE q \in a.prices
    <3>1. PICK l \in db.items : l.st = q.st /\ l.seq = q.seq /\ l.got = q.product
      BY DEF Whole
    <3>2. CASE l \in S
      <4>1. ReturnLine(l) \in a.items
        BY <3>2
      <4> QED BY <1>4, <3>1, <3>2, <4>1
    <3>3. CASE l \notin S
      BY <3>1, <3>3
    <3> QED BY <3>2, <3>3
  <2>3. \A l \in a.items : l.mark = "Y" =>
          \E q \in a.prices : l.st = q.st /\ l.seq = q.seq /\ l.got = q.product
    BY <1>4 DEF Whole
  <2> QED BY <2>1, <2>2, <2>3 DEF Whole, Listed
<1>10. Stand(db, a)
  BY <1>3 DEF Stand
<1> HIDE DEF ws, a
<1> QED BY <1>1, <1>8, <1>9, <1>10, BeginsSave, FormsTyped
-----------------------------------------------------------------------------
(* The edit form.                                                            *)

(* What happens on the form leaves the tables alone.                         *)
LEMMA FormSteps ==
  ASSUME Inv, NEW u \in Users, Acts(u), db' = db, todo' = todo, work' = work,
         NEW f \in [st : Nat, rows : Seq(Row), changes : Nat], form' = [form EXCEPT ![u] = f]
  PROVE  Inv'
<1>1. form' \in [Users -> [st : Nat, rows : Seq(Row), changes : Nat]] /\ db \in Tables
  BY DEF Inv, TypeOK
<1> QED BY <1>1, ChangesTables

LEMMA RowsChange ==
  ASSUME Inv, NEW u \in Users, Acts(u), db' = db, todo' = todo, work' = work,
         NEW rows \in Seq(Row), Change(u, rows)
  PROVE  Inv'
<1>1. form[u] \in [st : Nat, rows : Seq(Row), changes : Nat]
  BY DEF Inv, TypeOK
<1>2. form' = [form EXCEPT ![u] = [form[u] EXCEPT !.rows = rows, !.changes = @ + 1]]
  BY DEF Change
<1>3. [form[u] EXCEPT !.rows = rows, !.changes = @ + 1] \in [st : Nat, rows : Seq(Row), changes : Nat]
  <2> DEFINE n == form[u].changes + 1
  <2>1. n \in Nat
    BY <1>1
  <2> HIDE DEF n
  <2>2. [form[u] EXCEPT !.rows = rows, !.changes = n] \in [st : Nat, rows : Seq(Row), changes : Nat]
    BY <1>1, <2>1
  <2> QED BY <2>2 DEF n
<1> QED BY <1>2, <1>3, FormSteps

LEMMA FormRow ==
  ASSUME Inv, NEW u \in Users, NEW k \in DOMAIN form[u].rows
  PROVE  /\ form[u].st \in Nat /\ form[u].rows \in Seq(Row) /\ form[u].rows[k] \in Row
         /\ k \in 1 .. Len(form[u].rows) /\ Len(form[u].rows) \in Nat
BY ElementOfSeq, LenProperties DEF Inv, TypeOK

LEMMA PutRow ==
  ASSUME NEW s \in Seq(Row), NEW k \in DOMAIN s, NEW l \in Row
  PROVE  [s EXCEPT ![k] = l] \in Seq(Row)
BY ExceptSeq

LEMMA InsertRow ==
  ASSUME NEW s \in Seq(Row), NEW k \in DOMAIN s, NEW l \in Row
  PROVE  InsertAt(s, k + 1, l) \in Seq(Row)
<1> DEFINE a == SubSeq(s, 1, k)  b == SubSeq(s, k + 1, Len(s))
<1>1. k \in 1 .. Len(s) /\ Len(s) \in Nat
  BY LenProperties
<1>2. a \in Seq(Row) /\ b \in Seq(Row) /\ <<l>> \in Seq(Row)
  <2>1. \A i \in 1 .. k : s[i] \in Row
    BY <1>1, ElementOfSeq
  <2>2. \A i \in k + 1 .. Len(s) : s[i] \in Row
    BY <1>1, ElementOfSeq
  <2>3. a \in Seq(Row)
    BY <1>1, <2>1, SubSeqProperties
  <2>4. b \in Seq(Row)
    BY <1>1, <2>2, SubSeqProperties
  <2> QED BY <2>3, <2>4
<1>3. InsertAt(s, k + 1, l) = (a \o <<l>>) \o b
  <2>1. (k + 1) - 1 = k
    BY <1>1
  <2>2. InsertAt(s, k + 1, l) = SubSeq(s, 1, (k + 1) - 1) \o <<l>> \o SubSeq(s, k + 1, Len(s))
    BY DEF InsertAt
  <2> QED BY <2>1, <2>2
<1> HIDE DEF a, b
<1>4. a \o <<l>> \in Seq(Row)
  BY <1>2, ConcatProperties
<1>5. (a \o <<l>>) \o b \in Seq(Row)
  BY <1>2, <1>4, ConcatProperties
<1> QED BY <1>3, <1>5

LEMMA OpenFormKeeps ==
  ASSUME Inv, NEW u \in Users, NEW s \in StatementIds, OpenForm(u, s), work' = work
  PROVE  Inv'
<1> DEFINE S == {l \in db.items : l.st = s}
<1>1. PICK rows \in InOrder(S) : form' = [form EXCEPT ![u] = [st |-> s, changes |-> 0, rows |-> rows]]
  BY DEF OpenForm
<1>2. S \in SUBSET Row /\ IsFiniteSet(S)
  BY TableTypes, FS_Subset DEF Inv
<1> HIDE DEF S
<1>3. rows \in Seq(Row)
  <2>1. Cardinality(S) \in Nat /\ rows \in [1 .. Cardinality(S) -> S]
    BY <1>2, FS_CardinalityType DEF InOrder
  <2>2. rows \in [1 .. Cardinality(S) -> Row]
    BY <1>2, <2>1
  <2> QED BY <2>1, <2>2, SeqDef
<1>4. s \in Nat
  BY StatementsOK DEF StatementIds
<1>5. Acts(u) /\ db' = db /\ todo' = todo
  BY DEF OpenForm
<1>6. [st |-> s, changes |-> 0, rows |-> rows] \in [st : Nat, rows : Seq(Row), changes : Nat]
  BY <1>3, <1>4
<1> QED BY <1>1, <1>5, <1>6, FormSteps

LEMMA CloseFormKeeps ==
  ASSUME Inv, NEW u \in Users, CloseForm(u), work' = work
  PROVE  Inv'
<1>1. NoForm \in [st : Nat, rows : Seq(Row), changes : Nat]
  BY DEF NoForm
<1> QED BY <1>1, FormSteps DEF CloseForm

LEMMA EnterKeeps ==
  ASSUME Inv, NEW u \in Users, NEW k, NEW n \in Amounts, NEW p \in Prices, Enter(u, k, n, p), work' = work
  PROVE  Inv'
<1> DEFINE l == [form[u].rows[k] EXCEPT !.qty = n, !.price = p]
<1>1. k \in DOMAIN form[u].rows /\ Acts(u) /\ db' = db /\ todo' = todo
  BY DEF Enter
<1>2. Change(u, [form[u].rows EXCEPT ![k] = l])
  BY DEF Enter, Change
<1>3. n \in Nat /\ p \in Nat
  BY StatementsOK
<1>4. l \in Row
  BY <1>1, <1>3, FormRow, ZenonT(60) DEF Row, Line
<1> HIDE DEF l
<1>5. [form[u].rows EXCEPT ![k] = l] \in Seq(Row)
  BY <1>1, <1>4, FormRow, PutRow
<1> QED BY <1>1, <1>2, <1>5, RowsChange

LEMMA CopyRowKeeps ==
  ASSUME Inv, NEW u \in Users, NEW k, CopyRow(u, k), work' = work
  PROVE  Inv'
<1> DEFINE l == [form[u].rows[k] EXCEPT !.qty = 0]
<1>1. k \in DOMAIN form[u].rows /\ Acts(u) /\ db' = db /\ todo' = todo
      /\ Change(u, InsertAt(form[u].rows, k + 1, l))
  BY DEF CopyRow
<1>2. l \in Row
  BY <1>1, FormRow, ZenonT(60) DEF Row, Line
<1> HIDE DEF l
<1>3. InsertAt(form[u].rows, k + 1, l) \in Seq(Row)
  BY <1>1, <1>2, FormRow, InsertRow
<1> QED BY <1>1, <1>3, RowsChange

LEMMA RemoveRowKeeps ==
  ASSUME Inv, NEW u \in Users, NEW k, RemoveRow(u, k), work' = work
  PROVE  Inv'
<1>1. k \in DOMAIN form[u].rows /\ Acts(u) /\ db' = db /\ todo' = todo
      /\ Change(u, RemoveAt(form[u].rows, k))
  BY DEF RemoveRow
<1>2. RemoveAt(form[u].rows, k) \in Seq(Row)
  BY <1>1, FormRow, RemoveAtFacts
<1> QED BY <1>1, <1>2, RowsChange

LEMMA AddRowKeeps ==
  ASSUME Inv, NEW u \in Users, NEW o \in Orders, NEW i, AddRow(u, o, i), work' = work
  PROVE  Inv'
<1> DEFINE l == [st |-> form[u].st, seq |-> 0, of |-> None, got |-> db.orders[o][i].product,
                 qty |-> Remaining(db, o, i), price |-> 0, mark |-> "N", back |-> 0]
<1>1. /\ i \in DOMAIN db.orders[o] /\ Acts(u) /\ db' = db /\ todo' = todo
      /\ Change(u, Append(form[u].rows, l))
  BY DEF AddRow
<1>2. form[u].rows \in Seq(Row) /\ form[u].st \in Nat /\ TypeOK
  BY DEF Inv, TypeOK
<1>3. l \in Row
  <2>1. Remaining(db, o, i) \in Nat /\ db.orders[o][i].product \in Products
    BY <1>1, <1>2, TableTypes, RemainingNat
  <2> QED BY <1>2, <2>1 DEF Row, Line
<1> HIDE DEF l
<1>4. Append(form[u].rows, l) \in Seq(Row)
  BY <1>2, <1>3, AppendProperties
<1> QED BY <1>1, <1>4, RowsChange

LEMMA SubstituteKeeps ==
  ASSUME Inv, NEW u \in Users, NEW k, NEW p \in Products, Substitute(u, k, p), work' = work
  PROVE  Inv'
<1> DEFINE l == [form[u].rows[k] EXCEPT !.of = Key(form[u].rows[k]), !.got = p]
<1>1. k \in DOMAIN form[u].rows /\ Acts(u) /\ db' = db /\ todo' = todo
  BY DEF Substitute
<1>2. Change(u, [form[u].rows EXCEPT ![k] = l])
  BY DEF Substitute, Change
<1>3. l \in Row
  <2>1. form[u].rows[k] \in Row
    BY <1>1, FormRow
  <2>2. Key(form[u].rows[k]) \in Products
    BY <2>1, RowTypes
  <2> QED BY <2>1, <2>2 DEF Row, Line
<1> HIDE DEF l
<1>4. [form[u].rows EXCEPT ![k] = l] \in Seq(Row)
  BY <1>1, <1>3, FormRow, PutRow
<1> QED BY <1>1, <1>2, <1>4, RowsChange

LEMMA UnsubstituteKeeps ==
  ASSUME Inv, NEW u \in Users, NEW k, Unsubstitute(u, k), work' = work
  PROVE  Inv'
<1> DEFINE l == [form[u].rows[k] EXCEPT !.got = form[u].rows[k].of, !.of = None]
<1>1. k \in DOMAIN form[u].rows /\ form[u].rows[k].of # None /\ Acts(u) /\ db' = db /\ todo' = todo
  BY DEF Unsubstitute
<1>2. Change(u, [form[u].rows EXCEPT ![k] = l])
  BY DEF Unsubstitute, Change
<1>3. l \in Row
  BY <1>1, FormRow, ZenonT(60) DEF Row, Line
<1> HIDE DEF l
<1>4. [form[u].rows EXCEPT ![k] = l] \in Seq(Row)
  BY <1>1, <1>3, FormRow, PutRow
<1> QED BY <1>1, <1>2, <1>4, RowsChange

(* Of a statement that may be edited no line is a return of priced goods.     *)
LEMMA NoReturns ==
  ASSUME TypeOK, NEW s, ~HasReturns(db, s), NEW l \in db.items, l.st = s, l.mark = "returned"
  PROVE  ~(l.price > 0)
<1> SUFFICES ASSUME l.price > 0 PROVE FALSE
  OBVIOUS
<1> DEFINE S == {m \in db.items : m.st = s /\ m.mark = "returned"}
           f == [m \in S |-> m.back * m.price]
<1>1. S \in SUBSET Row /\ IsFiniteSet(S) /\ l \in S
  BY TableTypes, FS_Subset
<1>2. \A m \in S : f[m] \in Nat
  <2> TAKE m \in S
  <2>1. m.back \in Nat /\ m.price \in Nat
    BY <1>1, RowTypes
  <2>2. m.back * m.price \in Nat
    BY <2>1
  <2> QED BY <2>2
<1>3. f[l] = l.back * l.price
  BY <1>1
<1>4. l.back \in Nat /\ l.price \in Nat /\ l.back > 0
  BY <1>1, RowTypes
<1>5. l.back * l.price > 0
  <2> DEFINE x == l.back  y == l.price
  <2>1. x \in Nat /\ y \in Nat /\ x > 0 /\ y > 0
    BY <1>4
  <2> HIDE DEF x, y
  <2>2. x * y > 0
    BY <2>1
  <2> QED BY <2>2 DEF x, y
<1>6. ~(SumFunctionOnSet(f, S) > 0)
  BY DEF HasReturns
<1> HIDE DEF f, S
<1>7. f[l] <= SumFunctionOnSet(f, S)
  BY <1>1, <1>2, PartOfSum
<1>8. SumFunctionOnSet(f, S) \in Nat /\ f[l] \in Nat
  BY <1>1, <1>2, SumNat
<1> QED BY <1>3, <1>5, <1>6, <1>7, <1>8

LEMMA SaveFormKeeps ==
  ASSUME Inv, NEW u \in Users, SaveForm(u), work' = work
  PROVE  Inv'
<1> DEFINE s == form[u].st
           line(k) == [form[u].rows[k] EXCEPT !.st = s, !.seq = k, !.mark = "applied", !.back = 0]
           lines == {line(k) : k \in DOMAIN form[u].rows}
           rest == Purged(db, {s})
           I == rest.items \cup lines
           Q == {[st |-> s, seq |-> l.seq, product |-> l.got] : l \in lines}
           P == rest.prices \cup Q
           ws == <<Write("heads", db.heads), Write("items", I), Write("prices", P)>>
           a == [orders |-> db.orders, heads |-> db.heads, items |-> I, prices |-> P]
<1>1. /\ Acts(u) /\ ~HasReturns(db, s) /\ Listed(db, s) /\ db' = db
      /\ todo' = [todo EXCEPT ![u] = ws] /\ form' = [form EXCEPT ![u] = NoForm]
  BY DEF SaveForm, Shown
<1>2. TypeOK /\ db \in Tables /\ db.heads \in SUBSET Header
  BY DEF Inv, TypeOK, Tables
<1>3. /\ rest \in Tables
      /\ rest.items = {l \in db.items : l.st # s} /\ rest.prices = {q \in db.prices : q.st # s}
  BY <1>2, PurgedFields
<1> HIDE DEF rest
<1>4. s \in Nat /\ form[u].rows \in Seq(Row)
  BY DEF Inv, TypeOK
<1>5. DOMAIN form[u].rows = 1 .. Len(form[u].rows) /\ Len(form[u].rows) \in Nat
  BY <1>4, LenProperties
<1> HIDE DEF s
<1>6. ASSUME NEW k \in DOMAIN form[u].rows
      PROVE  line(k) \in Row /\ line(k).st = s /\ line(k).mark = "applied"
  <2>1. form[u].rows[k] \in Row /\ k \in Nat
    BY <1>5, FormRow
  <2> QED BY <1>4, <2>1 DEF Row, Line
<1>7. lines \in SUBSET Row /\ IsFiniteSet(lines) /\ \A l \in lines : l.st = s /\ l.mark = "applied"
  <2> DEFINE f == [k \in DOMAIN form[u].rows |-> line(k)]
  <2>1. lines = {f[k] : k \in DOMAIN form[u].rows} /\ DOMAIN form[u].rows = DOMAIN f
    OBVIOUS
  <2>2. IsFiniteSet(DOMAIN form[u].rows)
    BY <1>5, FS_Interval
  <2>3. IsFiniteSet(lines)
    <3> HIDE DEF f, lines
    <3> QED BY <2>1, <2>2, ImageFinite
  <2>4. \A l \in lines : l \in Row /\ l.st = s /\ l.mark = "applied"
    <3> HIDE DEF line
    <3> QED BY <1>6
  <2> HIDE DEF lines
  <2> QED BY <2>3, <2>4
<1> HIDE DEF lines
<1>8. Q \in SUBSET Price
  BY <1>4, <1>7, RowTypes DEF Price
<1>9. I \in SUBSET Row /\ IsFiniteSet(I) /\ P \in SUBSET Price
  <2>1. rest.items \in SUBSET Row /\ IsFiniteSet(rest.items) /\ rest.prices \in SUBSET Price
    BY <1>3 DEF Tables
  <2> HIDE DEF Q
  <2> QED BY <1>7, <1>8, <2>1, FS_Union
<1>10. ws \in Seq(Saves) /\ Staged(ws) /\ After(db, ws) = a
  <2> HIDE DEF I, P
  <2> QED BY <1>2, <1>9, WholePlan
<1>11. Whole(db) => Whole(a)
  <2> HAVE Whole(db)
  <2>1. \A l \in a.items : Listed(a, l.st)
    BY <1>1, <1>3, <1>7 DEF Whole, Listed
  <2>2. \A q \in a.prices : \E l \in a.items : l.st = q.st /\ l.seq = q.seq /\ l.got = q.product
    <3> TAKE q \in a.prices
    <3>1. CASE q \in rest.prices
      BY <1>3, <3>1 DEF Whole
    <3>2. CASE q \in Q
      BY <1>7, <3>2
    <3> QED BY <3>1, <3>2
  <2>3. \A l \in a.items : l.mark = "Y" =>
          \E q \in a.prices : l.st = q.st /\ l.seq = q.seq /\ l.got = q.product
    <3> TAKE l \in a.items
    <3> HAVE l.mark = "Y"
    <3>1. l \in db.items /\ l.st # s
      BY <1>3, <1>7
    <3>2. PICK q \in db.prices : l.st = q.st /\ l.seq = q.seq /\ l.got = q.product
      BY <3>1 DEF Whole
    <3>3. q \in a.prices
      BY <1>3, <3>1, <3>2
    <3> QED BY <3>2, <3>3
  <2> QED BY <2>1, <2>2, <2>3 DEF Whole, Listed
<1>12. Stand(db, a)
  <2> SUFFICES ASSUME NEW l \in db.items, l.mark = "returned", l.price > 0 PROVE l \in a.items
    BY DEF Stand
  <2>1. l.st # s
    BY <1>1, <1>2, NoReturns
  <2> QED BY <1>3, <2>1
<1>13. form' \in [Users -> [st : Nat, rows : Seq(Row), changes : Nat]]
  <2>1. NoForm \in [st : Nat, rows : Seq(Row), changes : Nat]
    BY DEF NoForm
  <2> QED BY <1>1, <2>1, FormsTyped
<1> HIDE DEF ws, a
<1> QED BY <1>1, <1>10, <1>11, <1>12, <1>13, BeginsSave

-----------------------------------------------------------------------------
(* Corrections.                                                              *)

LEMMA CorrectKeeps ==
  ASSUME Inv, NEW u \in Users, NEW o \in Orders, NEW ids, NEW drop, NEW l, NEW n \in Amounts,
         Correct(u, o, ids, drop, l, n), work' = work
  PROVE  Inv'
<1> DEFINE all == IdsOf(db, o)
           kept == {m \in LinesOf(db, o) : m.st \in ids} \ drop
           same == kept \ {l}
           changed == {[m EXCEPT !.qty = n] : m \in kept \cap {l}}
           new == same \cup changed
           rest == Purged(db, all)
<1>1. /\ Acts(u) /\ ids \subseteq all /\ todo' = todo /\ form' = form
      /\ db' = [rest EXCEPT !.heads = {h \in @ : h.order # o \/ h.id \in ids},
                            !.items = @ \cup new, !.prices = @ \cup Priced(new)]
  BY DEF Correct
<1>2. TypeOK /\ db \in Tables
  BY DEF Inv, TypeOK
<1>3. /\ rest \in Tables /\ rest.orders = db.orders /\ rest.heads = db.heads
      /\ rest.items = {m \in db.items : m.st \notin all} /\ rest.prices = {q \in db.prices : q.st \notin all}
  BY <1>2, PurgedFields
<1>4. \A h \in db.heads : h.order = o => h.id \in all
  BY DEF IdsOf
<1>5. \A m \in kept : m \in db.items /\ m \in Row /\ m.st \in ids
  BY <1>2, TableTypes DEF LinesOf
<1>6. \A i \in ids : \E h \in db.heads : h.order = o /\ h.id = i
  BY <1>1 DEF IdsOf
<1> HIDE DEF rest, all, kept
<1>7. n \in Nat
  BY StatementsOK
<1>8. \A m \in changed : m \in Row /\ m.st \in ids
  BY <1>5, <1>7, SMTT(40) DEF Row, Line
<1>9. IsFiniteSet(new)
  <2>1. changed \subseteq {[l EXCEPT !.qty = n]} /\ kept \subseteq db.items /\ same \subseteq kept
    BY <1>5
  <2>2. IsFiniteSet(changed) /\ IsFiniteSet(kept)
    BY <1>2, <2>1, TableTypes, FS_Subset, FS_Singleton
  <2>3. IsFiniteSet(same)
    BY <2>1, <2>2, FS_Subset
  <2> HIDE DEF same, changed
  <2> QED BY <2>2, <2>3, FS_Union
<1>10. new \in SUBSET Row /\ \A m \in new : m.st \in ids
  <2> HIDE DEF changed
  <2> QED BY <1>5, <1>8
<1> HIDE DEF new
<1>11. Priced(new) \in SUBSET Price
  BY <1>10, PricedTyped
<1>12. /\ db'.orders = db.orders /\ db'.heads = {h \in db.heads : h.order # o \/ h.id \in ids}
       /\ db'.items = rest.items \cup new /\ db'.prices = rest.prices \cup Priced(new)
       /\ DOMAIN db' = DOMAIN rest
  BY <1>1, <1>3 DEF Tables
<1>13. db' \in Tables
  <2>1. IsFiniteSet(rest.items \cup new) /\ rest.items \cup new \in SUBSET Row
    BY <1>3, <1>9, <1>10, FS_Union DEF Tables
  <2>2. {h \in db.heads : h.order # o \/ h.id \in ids} \in SUBSET Header
    BY <1>2 DEF Tables
  <2>3. rest.prices \cup Priced(new) \in SUBSET Price
    BY <1>3, <1>11 DEF Tables
  <2> QED BY <1>1, <1>3, <2>1, <2>2, <2>3 DEF Tables
<1>14. Whole(db) => Whole(db')
  <2> HAVE Whole(db)
  <2>1. \A g, h \in db'.heads : g.id = h.id => g = h
    BY <1>12 DEF Whole
  <2>2. \A h \in db'.heads : db'.orders[h.order] # NoOrder
    BY <1>12 DEF Whole
  <2>3. \A m \in db'.items : Listed(db', m.st)
    <3> TAKE m \in db'.items
    <3>1. CASE m \in rest.items
      <4>1. PICK h \in db.heads : h.id = m.st
        BY <1>3, <3>1 DEF Whole, Listed
      <4>2. h \in db'.heads
        BY <1>3, <1>4, <1>12, <3>1, <4>1
      <4> QED BY <4>1, <4>2 DEF Listed
    <3>2. CASE m \in new
      <4>1. PICK h \in db.heads : h.order = o /\ h.id = m.st
        BY <1>6, <1>10, <3>2
      <4>2. h \in db'.heads
        BY <1>10, <1>12, <3>2, <4>1
      <4> QED BY <4>1, <4>2 DEF Listed
    <3> QED BY <1>12, <3>1, <3>2
  <2>4. \A q \in db'.prices : \E m \in db'.items : m.st = q.st /\ m.seq = q.seq /\ m.got = q.product
    <3> TAKE q \in db'.prices
    <3>1. CASE q \in rest.prices
      BY <1>3, <1>12, <3>1 DEF Whole
    <3>2. CASE q \in Priced(new)
      BY <1>12, <3>2 DEF Priced
    <3> QED BY <1>12, <3>1, <3>2
  <2>5. \A m \in db'.items : m.mark = "Y" =>
          \E q \in db'.prices : m.st = q.st /\ m.seq = q.seq /\ m.got = q.product
    <3> TAKE m \in db'.items
    <3> HAVE m.mark = "Y"
    <3>1. CASE m \in rest.items
      <4>1. PICK q \in db.prices : m.st = q.st /\ m.seq = q.seq /\ m.got = q.product
        BY <1>3, <3>1 DEF Whole
      <4>2. q \in db'.prices
        BY <1>3, <1>12, <3>1, <4>1
      <4> QED BY <4>1, <4>2
    <3>2. CASE m \in new
      <4>1. [st |-> m.st, seq |-> m.seq, product |-> m.got] \in Priced(new)
        BY <3>2 DEF Priced
      <4> QED BY <1>12, <4>1
    <3> QED BY <1>12, <3>1, <3>2
  <2> QED BY <2>1, <2>2, <2>3, <2>4, <2>5 DEF Whole
<1> QED BY <1>1, <1>13, <1>14, ChangesTables, FormsTyped

-----------------------------------------------------------------------------
(* The invariant.                                                            *)

LEMMA EmptyTables == Init => Inv
<1> SUFFICES ASSUME Init PROVE Inv
  OBVIOUS
<1>1. /\ db = [orders |-> [o \in Orders |-> NoOrder], heads |-> {}, items |-> {}, prices |-> {}]
      /\ todo = [u \in Users |-> <<>>] /\ form = [u \in Users |-> NoForm] /\ clean = TRUE
  BY DEF Init
<1>2. TypeOK
  <2>1. IsFiniteSet({})
    BY FS_EmptySet
  <2>2. db \in Tables
    BY <1>1, <2>1 DEF Tables, NoOrder
  <2>3. form \in [Users -> [st : Nat, rows : Seq(Row), changes : Nat]] /\ todo \in [Users -> Seq(Saves)]
    BY <1>1 DEF NoForm
  <2> QED BY <1>1, <2>2, <2>3 DEF TypeOK
<1>3. \A u \in Users : Staged(todo[u])
  BY <1>1 DEF Staged
<1>4. Whole(db)
  BY <1>1 DEF Whole
<1>5. Lone
  BY <1>1, <1>4 DEF Lone, Idle
<1> QED BY <1>2, <1>3, <1>5 DEF Inv

(* The pages of a session.                                                   *)
LEMMA PagesKeep ==
  ASSUME Inv, NEW u \in Users, work' = work, SaveTable(u) \/ RegisterPage(u) \/ DetailPage(u) \/ CorrectionPage(u)
  PROVE  Inv'
<1>1. CASE SaveTable(u)
  BY <1>1, SaveTableKeeps
<1>2. CASE RegisterPage(u)
  BY <1>2, RegisterKeeps DEF RegisterPage
<1>3. CASE DetailPage(u)
  BY <1>3, DeleteStatementKeeps, ReturnKeeps DEF DetailPage
<1>4. CASE CorrectionPage(u)
  <2>1. PICK o \in Orders : \E ids \in SUBSET IdsOf(db, o) : \E l \in LinesOf(db, o) :
               \E drop \in {{}, {l}}, n \in Amounts : Correct(u, o, ids, drop, l, n)
    BY <1>4 DEF CorrectionPage
  <2>2. PICK ids, l, drop : \E n \in Amounts : Correct(u, o, ids, drop, l, n)
    BY <2>1
  <2> QED BY <2>2, CorrectKeeps
<1> QED BY <1>1, <1>2, <1>3, <1>4

LEMMA EditKeeps ==
  ASSUME Inv, NEW u \in Users, work' = work, Edit(u)
  PROVE  Inv'
<1>1. CASE \E s \in StatementIds : OpenForm(u, s)
  BY <1>1, OpenFormKeeps
<1>2. CASE SaveForm(u) \/ CloseForm(u)
  BY <1>2, SaveFormKeeps, CloseFormKeeps
<1>3. CASE \E k \in 1 .. MaxLines, n \in Amounts, p \in Prices : Enter(u, k, n, p)
  BY <1>3, EnterKeeps
<1>4. CASE \E k \in 1 .. MaxLines : CopyRow(u, k) \/ RemoveRow(u, k) \/ Unsubstitute(u, k)
  BY <1>4, CopyRowKeeps, RemoveRowKeeps, UnsubstituteKeeps
<1>5. CASE \E k \in 1 .. MaxLines, p \in Products : Substitute(u, k, p)
  BY <1>5, SubstituteKeeps
<1>6. CASE \E o \in Orders, i \in 1 .. MaxLines : AddRow(u, o, i)
  BY <1>6, AddRowKeeps
<1> QED BY <1>1, <1>2, <1>3, <1>4, <1>5, <1>6 DEF Edit

LEMMA NextKeeps == Inv /\ [Next]_vars => Inv'
<1> SUFFICES ASSUME Inv, [Next]_vars PROVE Inv'
  OBVIOUS
<1>1. CASE UNCHANGED vars
  <2>1. TypeOK' /\ (\A u \in Users : Staged(todo'[u]))
    BY <1>1 DEF Inv, TypeOK, vars
  <2>2. Lone'
    BY <1>1 DEF Inv, Lone, vars, Idle, Quiet, Whole, Stand, After, Listed
  <2> QED BY <2>1, <2>2 DEF Inv
<1>2. CASE Next
  <2>1. work' = work
    BY <1>2 DEF Next
  <2>2. CASE \E u \in Users : SaveTable(u) \/ RegisterPage(u) \/ DetailPage(u) \/ Edit(u)
    BY <2>1, <2>2, PagesKeep, EditKeeps
  <2>3. CASE \E u \in Users : CorrectionPage(u)
    BY <2>1, <2>3, PagesKeep
  <2>4. CASE \E u \in Users, o \in Orders, rows \in Baskets : SaveOrder(u, o, rows)
    BY <2>1, <2>4, SaveOrderKeeps
  <2>5. CASE \E u \in Users, o \in Orders : DeleteOrder(u, o)
    BY <2>1, <2>5, DeleteOrderKeeps
  <2>6. CASE Crash
    BY <2>1, <2>6, CrashKeeps
  <2> QED BY <1>2, <2>2, <2>3, <2>4, <2>5, <2>6 DEF Next
<1> QED BY <1>1, <1>2

LEMMA InvHolds == Spec => []Inv
BY EmptyTables, NextKeeps, PTL DEF Spec

(* StatementsWhole holds in every behaviour: as long as saves of whole tables *)
(* are made one at a time, between them every line has its statement, every  *)
(* statement its order, every entered price its row (replace_statements,     *)
(* replace_statement_items, replace_price_history, save_bundle).             *)
THEOREM TablesHangTogether == Spec => []StatementsWhole
<1>1. Inv => StatementsWhole
  BY DEF Inv, Lone, StatementsWhole
<1> QED BY <1>1, InvHolds, PTL

(* ReceivedIsClosed holds in every behaviour, also of saves that overlap: an  *)
(* order shown as received is not offered for another receipt, however       *)
(* products are substituted, copied, returned and split over rows            *)
(* (_receipt_status_map, _open_orders).                                      *)
THEOREM ReceivedOrdersStayClosed == Spec => []ReceivedIsClosed
<1>1. Inv => ReceivedIsClosed
  BY OpenIsNotReceived DEF Inv
<1> QED BY <1>1, InvHolds, PTL

-----------------------------------------------------------------------------
(* Returns.                                                                  *)

(* Without corrections, lines are written by a save under way, or go with    *)
(* their order.                                                              *)
LEMMA ItemsChange ==
  ASSUME Inv, Next, "correct" \notin work.calls, db'.items # db.items
  PROVE  \/ \E u \in Users : SaveTable(u)
         \/ \E u \in Users, o \in Orders : DeleteOrder(u, o)
<1>1. db \in Tables
  BY DEF Inv, TypeOK
<1>2. ASSUME NEW u \in Users, RegisterPage(u) \/ DetailPage(u) \/ Edit(u) PROVE db' = db
  <2>1. CASE RegisterPage(u)
    BY <2>1 DEF RegisterPage, Register
  <2>2. CASE DetailPage(u)
    BY <2>2 DEF DetailPage, DeleteStatement, Return
  <2>3. CASE Edit(u)
    BY <2>3 DEF Edit, OpenForm, SaveForm, CloseForm, Enter, CopyRow, RemoveRow, Unsubstitute, Substitute, AddRow
  <2> QED BY <1>2, <2>1, <2>2, <2>3
<1>3. ASSUME NEW u \in Users, NEW o \in Orders, NEW rows, SaveOrder(u, o, rows) PROVE db'.items = db.items
  BY <1>1, <1>3 DEF SaveOrder, Tables
<1>4. Crash => db' = db
  BY DEF Crash
<1> QED BY <1>2, <1>3, <1>4 DEF Next

(* PaidReturnsStand holds in every behaviour: a return of goods bought at a   *)
(* price stays recorded as long as its statement is there, whatever edits,   *)
(* deletions and receipts follow (replace_statement_items).                  *)
THEOREM PaidReturnsAreKept == Spec => PaidReturnsStand
<1> DEFINE A == db.items # db'.items /\ clean' /\ "correct" \notin work.calls =>
                  \A l \in Returned : l.price > 0 => Kept(l)
<1>1. Inv /\ [Next]_vars => [A]_db
  <2> SUFFICES ASSUME Inv, [Next]_vars, db.items # db'.items, clean', "correct" \notin work.calls,
                      NEW l \in Returned, l.price > 0, Listed(db', l.st)
               PROVE  l \in db'.items
    BY DEF Kept
  <2>1. Next /\ l \in db.items /\ l.mark = "returned" /\ db \in Tables
    BY DEF vars, Returned, Inv, TypeOK
  <2>2. ASSUME NEW u \in Users, SaveTable(u) PROVE l \in db'.items
    <3> DEFINE ws == todo[u]
    <3>1. /\ ws \in Seq(Saves) /\ ws # <<>> /\ Staged(ws) /\ Alone(u) /\ clean
          /\ Head(ws).op = "heads" => db' = [db EXCEPT !.heads = Head(ws).rows]
          /\ Head(ws).op = "items" => db' = [db EXCEPT !.items = Head(ws).rows]
          /\ Head(ws).op = "prices" => db' = [db EXCEPT !.prices = Head(ws).rows]
      BY <2>2 DEF Inv, TypeOK, SaveTable
    <3>2. Stand(db, After(db, ws))
      BY <3>1 DEF Inv, Lone, Idle
    <3> HIDE DEF ws
    <3>3. /\ Head(ws) \in Saves
          /\ \A op, now : Pending(ws, op, now) =
               IF op = Head(ws).op THEN Head(ws).rows ELSE Pending(Tail(ws), op, now)
          /\ Head(ws).op = "items" => \A now : Pending(Tail(ws), "heads", now) = now
      BY <3>1, WritesStaged
    <3>4. Head(ws).op = "items" /\ db'.items = Head(ws).rows /\ db'.heads = db.heads
      BY <2>1, <3>1, <3>3, SaveTypes DEF Tables
    <3>5. After(db, ws).items = db'.items /\ After(db, ws).heads = db'.heads
      BY <3>3, <3>4 DEF After
    <3> QED BY <2>1, <3>2, <3>5 DEF Stand, Listed
  <2>3. ASSUME NEW u \in Users, NEW o \in Orders, DeleteOrder(u, o) PROVE l \in db'.items
    <3> DEFINE rest == Purged(db, IdsOf(db, o))
    <3>1. rest.items = {m \in db.items : m.st \notin IdsOf(db, o)} /\ rest.heads = db.heads /\ rest \in Tables
      BY <2>1, PurgedFields
    <3>2. db' = [rest EXCEPT !.orders[o] = NoOrder, !.heads = {h \in @ : h.order # o}] /\ Acts(u)
      BY <2>3 DEF DeleteOrder
    <3> HIDE DEF rest
    <3>3. db'.items = rest.items /\ db'.heads = {h \in db.heads : h.order # o}
      BY <3>1, <3>2 DEF Tables
    <3>4. Whole(db)
      BY <3>2 DEF Inv, Lone, Acts, Alone, Idle, Quiet
    <3>5. l.st \notin IdsOf(db, o)
      BY <3>3, <3>4 DEF Whole, IdsOf, Listed
    <3> QED BY <2>1, <3>1, <3>3, <3>5
  <2>4. db'.items # db.items
    OBVIOUS
  <2> QED BY <2>1, <2>2, <2>3, <2>4, ItemsChange
<1>2. Spec => [][A]_db
  BY <1>1, InvHolds, PTL DEF Spec
<1> QED BY <1>2 DEF PaidReturnsStand

-----------------------------------------------------------------------------
(* The order forms: CacheIsCurrent and NewFormsMakeNewOrders are what        *)
(* OrderManagement calls so.                                                *)

USE DEF Forms!Nothing, Forms!Tables, Forms!Seen

-----------------------------------------------------------------------------
(* The cache.                                                                *)

(* A page that reads leaves the cache as current as it was, or fills it from  *)
(* the tables of that moment; a service that saves empties it; a renaming     *)
(* over something cached is remembered.                                      *)
LEMMA CacheSteps ==
  ASSUME Forms!CacheIsCurrent,
         \/ Forms!Reads
         \/ Forms!Cleared
         \/ renamed' = (renamed \/ cache.full) /\ cache' = cache
         \/ UNCHANGED <<shop, book, cache, renamed>>
  PROVE  Forms!CacheIsCurrent'
<1>1. CASE Forms!Reads
  BY <1>1 DEF Forms!Reads, Forms!CacheIsCurrent
<1>2. CASE Forms!Cleared
  BY <1>2 DEF Forms!Cleared, Forms!CacheIsCurrent
<1>3. CASE renamed' = (renamed \/ cache.full) /\ cache' = cache
  <2>1. ~(cache.full /\ ~renamed')
    BY <1>3
  <2> QED BY <1>3, <2>1 DEF Forms!CacheIsCurrent
<1>4. CASE UNCHANGED <<shop, book, cache, renamed>>
  BY <1>4 DEF Forms!CacheIsCurrent
<1> QED BY <1>1, <1>2, <1>3, <1>4

(* Every call of every page is one of those.                                 *)
LEMMA PagesUseTheCache ==
  ASSUME NEW u \in Users,
         Forms!WritePage(u) \/ Forms!DraftPage(u) \/ Forms!ListPage(u) \/ Forms!VendorPage(u)
         \/ Forms!ProductPage(u) \/ Forms!AliasPage(u)
  PROVE  \/ Forms!Reads
         \/ Forms!Cleared
         \/ renamed' = (renamed \/ cache.full) /\ cache' = cache
<1>1. CASE Forms!WritePage(u)
  BY <1>1 DEF Forms!WritePage, Forms!PickVendor, Forms!AddProduct, Forms!SaveOrder,
              Forms!SetQuantity, Forms!StartChange, Forms!RemoveRows,
              Forms!Reorder, Forms!ApplyChange, Forms!CancelChange, Forms!ResetForm
<1>2. CASE Forms!DraftPage(u)
  BY <1>2 DEF Forms!DraftPage, Forms!SaveDraft, Forms!DeleteDraft, Forms!LoadDraft
<1>3. CASE Forms!ListPage(u)
  BY <1>3 DEF Forms!ListPage, Forms!DeleteOrder, Forms!EditOrder, Forms!CopyOrder
<1>4. CASE Forms!VendorPage(u)
  BY <1>4 DEF Forms!VendorPage, Forms!AddVendor, Forms!EditVendors, Forms!RenameEverywhere,
              Forms!DeleteVendors
<1>5. CASE Forms!ProductPage(u)
  BY <1>5 DEF Forms!ProductPage, Forms!DeleteProducts, Forms!AddToProducts, Forms!EditProducts,
              Forms!Upload
<1>6. CASE Forms!AliasPage(u)
  BY <1>6 DEF Forms!AliasPage, Forms!EditAliases
<1> QED BY <1>1, <1>2, <1>3, <1>4, <1>5, <1>6

(* CacheIsCurrent holds in every behaviour: whatever sessions do at once,     *)
(* they read what the tables say, unless a vendor was renamed over a filled   *)
(* cache.                                                                    *)
THEOREM CacheStaysCurrent == Forms!Spec => []CacheIsCurrent
<1>1. Forms!Init => Forms!CacheIsCurrent
  BY DEF Forms!Init, Forms!CacheIsCurrent
<1>2. Forms!CacheIsCurrent /\ [Forms!Next]_(Forms!vars) => Forms!CacheIsCurrent'
  <2> SUFFICES ASSUME Forms!CacheIsCurrent, [Forms!Next]_(Forms!vars) PROVE Forms!CacheIsCurrent'
    OBVIOUS
  <2>1. CASE Forms!Next
    BY <2>1, PagesUseTheCache, CacheSteps DEF Forms!Next
  <2>2. CASE UNCHANGED Forms!vars
    BY <2>2, CacheSteps DEF Forms!vars
  <2> QED BY <2>1, <2>2
<1> QED BY <1>1, <1>2, PTL DEF Forms!Spec, CacheIsCurrent

-----------------------------------------------------------------------------
(* The forms.                                                                *)

(* The inductive invariant: a form that is to become a new order edits none.  *)
Fields == {"vendor", "rows", "editing", "change", "fresh"}
NewFormsEditNothing ==
  /\ DOMAIN desk = Users
  /\ \A u \in Users : DOMAIN desk[u] = Fields /\ (desk[u].fresh => desk[u].editing = Forms!None)
  /\ {"orders", "drafts"} \subseteq DOMAIN book /\ DOMAIN book.orders = OrderIds

(* What a call does to a form: nothing, or it starts anew, or only its rows,  *)
(* vendor and dialog change, or it is opened for one order or a copy of one.  *)
LEMMA DeskSteps ==
  ASSUME NewFormsEditNothing, NEW u \in Users, NEW r,
         r = desk[u] \/ (DOMAIN r = Fields /\ (r.fresh => r.editing = Forms!None)),
         desk' = [desk EXCEPT ![u] = r], {"orders", "drafts"} \subseteq DOMAIN book',
         DOMAIN book'.orders = OrderIds
  PROVE  NewFormsEditNothing'
BY DEF NewFormsEditNothing

LEMMA WritePageKeeps ==
  ASSUME NewFormsEditNothing, NEW u \in Users, Forms!WritePage(u)
  PROVE  NewFormsEditNothing'
<1>0. /\ DOMAIN desk = Users /\ DOMAIN desk[u] = Fields
      /\ desk[u].fresh => desk[u].editing = Forms!None
      /\ {"orders", "drafts"} \subseteq DOMAIN book /\ DOMAIN book.orders = OrderIds
  BY DEF NewFormsEditNothing
(* Only the form's rows, vendor and dialog change.                           *)
<1>1. ASSUME Forms!Reads, NEW r, desk' = [desk EXCEPT ![u] = r], DOMAIN r = Fields,
             r.fresh = desk[u].fresh, r.editing = desk[u].editing
      PROVE  NewFormsEditNothing'
  BY <1>0, <1>1, DeskSteps DEF Forms!Reads
<1>2. ASSUME NEW v, Forms!PickVendor(u, v) PROVE NewFormsEditNothing'
  BY <1>0, <1>1, <1>2 DEF Forms!PickVendor, Fields
<1>3. ASSUME NEW p, NEW n, Forms!AddProduct(u, p, n) PROVE NewFormsEditNothing'
  <2>1. PICK x : desk' = [desk EXCEPT ![u] = [@ EXCEPT !.rows = x]]
    BY <1>3 DEF Forms!AddProduct
  <2> QED BY <1>0, <1>1, <1>3, <2>1 DEF Forms!AddProduct, Fields
<1>4. ASSUME NEW o \in OrderIds, Forms!SaveOrder(u, o) PROVE NewFormsEditNothing'
  <2>1. /\ desk' = [desk EXCEPT ![u] = [Forms!EmptyDesk EXCEPT !.change = desk[u].change]]
        /\ book' = [book EXCEPT !.orders[o] = Forms!Content(u)]
    BY <1>4 DEF Forms!SaveOrder
  <2>2. DOMAIN book' = DOMAIN book /\ DOMAIN book'.orders = OrderIds
    BY <1>0, <2>1
  <2> DEFINE r == [Forms!EmptyDesk EXCEPT !.change = desk[u].change]
  <2>3. DOMAIN r = Fields /\ r.editing = Forms!None
    BY DEF Forms!EmptyDesk, Fields
  <2> HIDE DEF r
  <2> QED BY <1>0, <2>1, <2>2, <2>3, DeskSteps DEF r
<1>5. ASSUME NEW k, NEW n, Forms!SetQuantity(u, k, n) PROVE NewFormsEditNothing'
  <2>1. PICK x : desk' = [desk EXCEPT ![u] = [@ EXCEPT !.rows = x]]
    BY <1>5 DEF Forms!SetQuantity
  <2> QED BY <1>0, <1>1, <1>5, <2>1 DEF Forms!SetQuantity, Fields
<1>6. ASSUME NEW k, Forms!StartChange(u, k) PROVE NewFormsEditNothing'
  BY <1>0, <1>1, <1>6 DEF Forms!StartChange, Fields
<1>7. ASSUME NEW S, Forms!RemoveRows(u, S) PROVE NewFormsEditNothing'
  <2>1. PICK x : desk' = [desk EXCEPT ![u] = [@ EXCEPT !.rows = x]]
    BY <1>7 DEF Forms!RemoveRows
  <2> QED BY <1>0, <1>1, <1>7, <2>1 DEF Forms!RemoveRows, Fields
<1>8. ASSUME NEW num, Forms!Reorder(u, num) PROVE NewFormsEditNothing'
  <2>1. PICK x : desk' = [desk EXCEPT ![u] = [@ EXCEPT !.rows = x]]
    BY <1>8 DEF Forms!Reorder
  <2> QED BY <1>0, <1>1, <1>8, <2>1 DEF Forms!Reorder, Fields
<1>9. ASSUME NEW p, NEW n, Forms!ApplyChange(u, p, n) PROVE NewFormsEditNothing'
  BY <1>0, <1>1, <1>9 DEF Forms!ApplyChange, Forms!Change, Fields
<1>10. ASSUME Forms!CancelChange(u) PROVE NewFormsEditNothing'
  BY <1>0, <1>1, <1>10 DEF Forms!CancelChange, Forms!Change, Fields
<1>11. ASSUME Forms!ResetForm(u) PROVE NewFormsEditNothing'
  <2> DEFINE r == [Forms!EmptyDesk EXCEPT !.change = desk[u].change]
  <2>1. desk' = [desk EXCEPT ![u] = r] /\ book' = book
    BY <1>11 DEF Forms!ResetForm, Forms!Reads
  <2>2. DOMAIN r = Fields /\ r.editing = Forms!None
    BY DEF Forms!EmptyDesk, Fields
  <2> HIDE DEF r
  <2> QED BY <1>0, <2>1, <2>2, DeskSteps
<1> QED BY <1>2, <1>3, <1>4, <1>5, <1>6, <1>7, <1>8, <1>9, <1>10, <1>11 DEF Forms!WritePage

LEMMA OtherPagesKeep ==
  ASSUME NewFormsEditNothing, NEW u \in Users,
         Forms!DraftPage(u) \/ Forms!ListPage(u) \/ Forms!VendorPage(u) \/ Forms!ProductPage(u)
         \/ Forms!AliasPage(u)
  PROVE  NewFormsEditNothing'
<1>0. /\ DOMAIN desk = Users /\ DOMAIN desk[u] = Fields
      /\ desk[u].fresh => desk[u].editing = Forms!None
      /\ {"orders", "drafts"} \subseteq DOMAIN book /\ DOMAIN book.orders = OrderIds
  BY DEF NewFormsEditNothing
<1>1. ASSUME desk' = desk, {"orders", "drafts"} \subseteq DOMAIN book',
             DOMAIN book'.orders = OrderIds
      PROVE  NewFormsEditNothing'
  BY <1>1 DEF NewFormsEditNothing
<1>2. CASE Forms!DraftPage(u)
  <2>1. ASSUME NEW d, NEW c, book' = [book EXCEPT !.drafts[d] = c], desk' = desk
        PROVE  NewFormsEditNothing'
    BY <1>0, <1>1, <2>1
  <2>2. ASSUME NEW d, NEW v, Forms!LoadDraft(u, d, v) PROVE NewFormsEditNothing'
    <3> DEFINE r == [desk[u] EXCEPT !.rows = Forms!Seen.book.drafts[d].rows, !.vendor = v]
    <3>1. desk' = [desk EXCEPT ![u] = r] /\ book' = book
      BY <2>2 DEF Forms!LoadDraft, Forms!Reads
    <3>2. DOMAIN r = Fields /\ r.fresh = desk[u].fresh /\ r.editing = desk[u].editing
      BY <1>0 DEF Fields
    <3> HIDE DEF r
    <3> QED BY <1>0, <3>1, <3>2, DeskSteps
  <2> QED BY <1>2, <2>1, <2>2 DEF Forms!DraftPage, Forms!SaveDraft, Forms!DeleteDraft
<1>3. CASE Forms!ListPage(u)
  <2>1. ASSUME NEW o, Forms!DeleteOrder(u, o) PROVE NewFormsEditNothing'
    BY <1>0, <1>1, <2>1 DEF Forms!DeleteOrder
  <2>2. ASSUME NEW r, desk' = [desk EXCEPT ![u] = r], Forms!Reads,
               DOMAIN r = Fields, r.fresh => r.editing = Forms!None
        PROVE  NewFormsEditNothing'
    BY <1>0, <2>2, DeskSteps DEF Forms!Reads
  <2>3. ASSUME NEW o, NEW v, Forms!EditOrder(u, o, v) PROVE NewFormsEditNothing'
    <3> DEFINE r == [desk[u] EXCEPT !.rows = Forms!Seen.book.orders[o].rows, !.vendor = v,
                                    !.editing = o, !.fresh = FALSE]
    <3>1. desk' = [desk EXCEPT ![u] = r] /\ Forms!Reads
      BY <2>3 DEF Forms!EditOrder
    <3>2. DOMAIN r = Fields /\ r.fresh = FALSE
      BY <1>0 DEF Fields
    <3> HIDE DEF r
    <3> QED BY <2>2, <3>1, <3>2
  <2>4. ASSUME NEW o, NEW v, Forms!CopyOrder(u, o, v) PROVE NewFormsEditNothing'
    <3> DEFINE r == [desk[u] EXCEPT !.rows = Forms!Seen.book.orders[o].rows, !.vendor = v,
                                    !.editing = Forms!None, !.fresh = TRUE]
    <3>1. desk' = [desk EXCEPT ![u] = r] /\ Forms!Reads
      BY <2>4 DEF Forms!CopyOrder
    <3>2. DOMAIN r = Fields /\ r.editing = Forms!None
      BY <1>0 DEF Fields
    <3> HIDE DEF r
    <3> QED BY <2>2, <3>1, <3>2
  <2> QED BY <1>3, <2>1, <2>3, <2>4 DEF Forms!ListPage
<1>4. CASE Forms!VendorPage(u)
  <2>1. ASSUME Forms!RenameEverywhere(u) PROVE NewFormsEditNothing'
    <3>1. PICK r : book' = [orders |-> Forms!Renamed(r, book.orders),
                            drafts |-> Forms!Renamed(r, book.drafts)]
      BY <2>1 DEF Forms!RenameEverywhere
    <3>2. DOMAIN book'.orders = OrderIds
      BY <1>0, <3>1 DEF Forms!Renamed
    <3> QED BY <1>1, <2>1, <3>1, <3>2 DEF Forms!RenameEverywhere
  <2> QED BY <1>0, <1>1, <1>4, <2>1 DEF Forms!VendorPage, Forms!AddVendor, Forms!EditVendors,
                                        Forms!DeleteVendors
<1>5. CASE Forms!ProductPage(u)
  BY <1>0, <1>1, <1>5 DEF Forms!ProductPage, Forms!DeleteProducts, Forms!AddToProducts,
                          Forms!EditProducts, Forms!Upload
<1>6. CASE Forms!AliasPage(u)
  BY <1>0, <1>1, <1>6 DEF Forms!AliasPage, Forms!EditAliases
<1> QED BY <1>2, <1>3, <1>4, <1>5, <1>6

(* Only the saving of an order changes the orders and a form at once.        *)
LEMMA SavesMakeNewOrders ==
  ASSUME NewFormsEditNothing, NEW w \in Users, book.orders # book'.orders,
         Forms!WritePage(w) \/ Forms!DraftPage(w) \/ Forms!ListPage(w) \/ Forms!VendorPage(w)
         \/ Forms!ProductPage(w) \/ Forms!AliasPage(w),
         NEW u \in Users, desk[u].fresh, desk[u].rows # <<>>, desk'[u].rows = <<>>,
         NEW o \in OrderIds, book.orders[o] # Forms!Nothing
  PROVE  book'.orders[o] = book.orders[o]
<1>1. desk' # desk /\ book' # book
  OBVIOUS
<1>2. Forms!WritePage(w)
  <2>1. ~Forms!DraftPage(w)
    BY <1>1 DEF Forms!DraftPage, Forms!SaveDraft, Forms!DeleteDraft, Forms!LoadDraft, Forms!Reads
  <2>2. ~Forms!ListPage(w)
    BY <1>1 DEF Forms!ListPage, Forms!DeleteOrder, Forms!EditOrder, Forms!CopyOrder, Forms!Reads
  <2>3. ~Forms!VendorPage(w)
    BY <1>1 DEF Forms!VendorPage, Forms!AddVendor, Forms!EditVendors, Forms!RenameEverywhere,
                Forms!DeleteVendors
  <2>4. ~Forms!ProductPage(w)
    BY <1>1 DEF Forms!ProductPage, Forms!DeleteProducts, Forms!AddToProducts, Forms!EditProducts,
                Forms!Upload
  <2>5. ~Forms!AliasPage(w)
    BY <1>1 DEF Forms!AliasPage, Forms!EditAliases
  <2> QED BY <2>1, <2>2, <2>3, <2>4, <2>5
<1>3. PICK s \in OrderIds : Forms!SaveOrder(w, s)
  BY <1>1, <1>2 DEF Forms!WritePage, Forms!PickVendor, Forms!AddProduct, Forms!SetQuantity,
                    Forms!StartChange, Forms!RemoveRows,
                    Forms!Reorder, Forms!ApplyChange, Forms!CancelChange, Forms!ResetForm,
                    Forms!Reads
<1>4. /\ book' = [book EXCEPT !.orders[s] = Forms!Content(w)]
      /\ desk' = [desk EXCEPT ![w] = [Forms!EmptyDesk EXCEPT !.change = desk[w].change]]
      /\ desk[w].editing = Forms!None => book.orders[s] = Forms!Nothing
  BY <1>3 DEF Forms!SaveOrder
<1>5. u = w
  BY <1>4 DEF NewFormsEditNothing
<1>6. book.orders[s] = Forms!Nothing
  BY <1>4, <1>5 DEF NewFormsEditNothing
<1> QED BY <1>4, <1>6 DEF NewFormsEditNothing

(* Every step keeps that a form which is to become a new order edits none.   *)
THEOREM NewFormsStayNew == Forms!Spec => []NewFormsEditNothing
<1>1. Forms!Init => NewFormsEditNothing
  BY DEF Forms!Init, NewFormsEditNothing, Forms!EmptyDesk, Fields
<1>2. NewFormsEditNothing /\ [Forms!Next]_(Forms!vars) => NewFormsEditNothing'
  <2> SUFFICES ASSUME NewFormsEditNothing, [Forms!Next]_(Forms!vars) PROVE NewFormsEditNothing'
    OBVIOUS
  <2>1. CASE Forms!Next
    BY <2>1, WritePageKeeps, OtherPagesKeep DEF Forms!Next
  <2>2. CASE UNCHANGED Forms!vars
    BY <2>2 DEF Forms!vars, NewFormsEditNothing
  <2> QED BY <2>1, <2>2
<1> QED BY <1>1, <1>2, PTL DEF Forms!Spec

(* NewFormsMakeNewOrders holds in every behaviour: what a copied, reset or    *)
(* fresh form saves overwrites no order, whatever other sessions save,       *)
(* delete or rename meanwhile.                                               *)
THEOREM NewFormsOverwriteNothing == Forms!Spec => NewFormsMakeNewOrders
<1> DEFINE Step == book.orders # book'.orders =>
             \A u \in Users : desk[u].fresh /\ desk[u].rows # <<>> /\ desk'[u].rows = <<>> =>
               \A o \in OrderIds : book.orders[o] # Forms!Nothing => book'.orders[o] = book.orders[o]
<1>1. NewFormsEditNothing /\ [Forms!Next]_(Forms!vars) => [Step]_<<book, desk>>
  <2> SUFFICES ASSUME NewFormsEditNothing, [Forms!Next]_(Forms!vars), book.orders # book'.orders,
                      NEW u \in Users, desk[u].fresh, desk[u].rows # <<>>, desk'[u].rows = <<>>,
                      NEW o \in OrderIds, book.orders[o] # Forms!Nothing
               PROVE  book'.orders[o] = book.orders[o]
    OBVIOUS
  <2>1. Forms!Next
    BY DEF Forms!vars
  <2> QED BY <2>1, SavesMakeNewOrders DEF Forms!Next
<1> QED BY <1>1, NewFormsStayNew, PTL
       DEF Forms!Spec, NewFormsMakeNewOrders, Forms!NewFormsMakeNewOrders
=============================================================================
