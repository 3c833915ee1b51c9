------------------------ MODULE PackageMaterialsProofs ------------------------
(****************************************************************************)
(* What holds of PackageMaterials for every set of products, rows, bills and *)
(* sessions: productions account for the stock and follow one bill, and      *)
(* types stay with materials.                                               *)
(****************************************************************************)
EXTENDS PackageMaterials, DataFacts

-----------------------------------------------------------------------------
(* What the sessions hold is of the kind their step expects.                 *)
TypeOK ==
  /\ DOMAIN product \subseteq NameSet /\ product \in [DOMAIN product -> Marks]
  /\ \A f \in DOMAIN bill : IsBill(bill[f]) /\ f \in DOMAIN billed /\ bill[f] \in billed[f]
  /\ stock \in [RowIds -> Nat] /\ taken \in [NameSet -> Nat] /\ moved \in [NameSet -> Int]
  /\ crossed \in BOOLEAN
  /\ session = [s \in Sessions |-> session[s]]

(* The plan p.need is that of a bill its product has had: B has them all.     *)
Planned(B, p) ==
  /\ p.of \in DOMAIN B /\ IsBill(p.need)
  /\ \E b \in B[p.of] : DOMAIN b = DOMAIN p.need /\ \A m \in DOMAIN b : p.need[m] * Unit = b[m] * p.amount

Again(p) == p.at = "again" /\ p.amount \in Amounts
Check(B, p) ==
  /\ p.at = "check" /\ DOMAIN p = {"at", "pass", "of", "amount", "need", "left", "short"}
  /\ p.pass \in {"shown", "made"} /\ p.short \in BOOLEAN /\ p.amount \in Amounts
  /\ Planned(B, p) /\ p.left \subseteq DOMAIN p.need /\ p.left # {}

(* What a production has taken: all of the materials it has gone through,    *)
(* nothing of those to come, of the one it is at all but `rest'.             *)
Rest(p) == IF p.at = "take" THEN p.rest ELSE IF p.left = {} THEN 0 ELSE p.need[First(p.left)]
TookOf(p, m) ==
  IF m \notin DOMAIN p.need THEN 0
  ELSE IF m \notin p.left THEN p.need[m]
  ELSE IF m = First(p.left) THEN p.need[m] - Rest(p) ELSE 0
Making(B, p) ==
  /\ p.amount \in Amounts /\ Planned(B, p) /\ p.left \subseteq DOMAIN p.need
  /\ DOMAIN p.own \subseteq RowIds /\ \A r \in DOMAIN p.own : p.own[r] \in Nat
  /\ p.took \in [NameSet -> Nat] /\ \A m \in NameSet : p.took[m] = TookOf(p, m)
  /\ DOMAIN p.own = {} => p.left = DOMAIN p.need /\ Rest(p) = p.need[First(p.left)]
Select(B, p) ==
  /\ p.at = "select" /\ Making(B, p) /\ p.left # {}
Take(B, p) ==
  /\ p.at = "take" /\ DOMAIN p = {"at", "of", "amount", "need", "left", "own", "took", "rows", "read", "rest"}
  /\ Making(B, p) /\ p.left # {}
  /\ p.rows \subseteq Of(First(p.left)) /\ p.read \in [RowIds -> Nat] /\ p.rest \in Nat
  /\ p.rest <= SumFunctionOnSet(p.read, p.rows)
Done(B, p) ==
  /\ p.at = "commit" /\ Making(B, p) /\ p.left = {} /\ DOMAIN p.own # {}
(* The forms of the other pages.                                             *)
Form(p) ==
  \/ p = Idle
  \/ p.at = "bill" /\ IsBill(p.new)
  \/ p.at = "add" /\ p.type \in Types
  \/ p.at = "list" /\ p.types \in [DOMAIN p.types -> Types \cup {NoType}]
  \/ p.at = "import" /\ p.file \subseteq NameSet
SessionOK(B, p) == Form(p) \/ Again(p) \/ Check(B, p) \/ Select(B, p) \/ Take(B, p) \/ Done(B, p)

Producing(s) == session[s].at \in {"select", "take", "commit"}
(* Only one production has written and not committed.                        *)
OneWriter == \A s, t \in Sessions : Writing(s) /\ Writing(t) => s = t
(* What a production sees is what is committed less what it has taken, ...   *)
Deducted(s) == Producing(s) => \A m \in NameSet : OnHand(Views(s), m) = OnHand(stock, m) - session[s].took[m]
(* ... and the rows it still has to pass are as it read them.                *)
ReadsStand(s) == At(s, "take") /\ Writing(s) => \A q \in session[s].rows : View(s, q) = session[s].read[q]

Inv ==
  /\ TypeOK /\ OneWriter /\ StockAccounted
  /\ \A s \in Sessions : SessionOK(billed, session[s])
  /\ ~crossed => \A s \in Sessions : Deducted(s) /\ ReadsStand(s)
-----------------------------------------------------------------------------
(* The first of some names is one of them.                                   *)
LEMMA FirstIn ==
  ASSUME MaterialsOK, NEW S, S \subseteq NameSet, S # {}
  PROVE  First(S) \in S
<1> DEFINE I == {i \in DOMAIN Names : Names[i] \in S}
<1>1. I \subseteq Nat
  BY DEF MaterialsOK
<1>2. I # {}
  BY DEF NameSet, Range
<1>. QED
  BY <1>1, <1>2, MinIn DEF First

(* The rows of a product are finitely many, and no other product's.          *)
LEMMA RowsOf ==
  ASSUME MaterialsOK
  PROVE  /\ \A m : IsFiniteSet(Of(m)) /\ Of(m) \subseteq RowIds
         /\ \A r \in RowIds : Rows[r].product \in NameSet /\ r \in Of(Rows[r].product)
         /\ \A m, n : \A r \in Of(m) : r \in Of(n) => m = n
<1>1. ASSUME NEW m
      PROVE  IsFiniteSet(Of(m)) /\ Of(m) \subseteq RowIds
  BY FS_Subset DEF Of, MaterialsOK
<1>. QED
  BY <1>1 DEF Of, MaterialsOK

(* What there is of a product depends on its rows alone.                     *)
LEMMA OnHandSame ==
  ASSUME MaterialsOK, NEW f, NEW g, NEW m, \A r \in Of(m) : f[r] = g[r]
  PROVE  OnHand(f, m) = OnHand(g, m)
BY RowsOf, SumSame DEF OnHand

LEMMA OnHandNat ==
  ASSUME MaterialsOK, NEW f \in [RowIds -> Nat], NEW m
  PROVE  OnHand(f, m) \in Nat
<1>1. \A r \in Of(m) : f[r] \in Nat
  BY RowsOf
<1>. QED
  BY <1>1, RowsOf, SumNat DEF OnHand

(* A row written changes what there is of its product by what it changes.    *)
LEMMA OnHandPut ==
  ASSUME MaterialsOK, NEW f \in [RowIds -> Nat], NEW g \in [RowIds -> Nat], NEW r \in RowIds,
         \A q \in RowIds \ {r} : g[q] = f[q], NEW m
  PROVE  OnHand(g, m) = OnHand(f, m) + (IF m = Rows[r].product THEN g[r] - f[r] ELSE 0)
<1>1. CASE m # Rows[r].product
  <2>1. \A q \in Of(m) : g[q] = f[q]
    BY <1>1, RowsOf
  <2>2. OnHand(g, m) = OnHand(f, m)
    BY <2>1, OnHandSame
  <2>. QED
    BY <1>1, <2>2, OnHandNat
<1>2. CASE m = Rows[r].product
  <2> DEFINE R == Of(m) \ {r}
  <2>1. r \in Of(m) /\ IsFiniteSet(Of(m)) /\ Of(m) \subseteq RowIds /\ IsFiniteSet(R)
    BY <1>2, RowsOf, FS_Subset
  <2>2. \A q \in Of(m) : f[q] \in Int /\ g[q] \in Int
    BY <2>1
  <2>3. OnHand(f, m) = f[r] + SumFunctionOnSet(f, R) /\ OnHand(g, m) = g[r] + SumFunctionOnSet(g, R)
    BY <2>1, <2>2, SumSplit DEF OnHand
  <2>4. SumFunctionOnSet(f, R) = SumFunctionOnSet(g, R) /\ SumFunctionOnSet(f, R) \in Int
    BY <2>1, <2>2, SumSame, SumIn
  <2>. QED
    BY <1>2, <2>3, <2>4
<1>. QED
  BY <1>1, <1>2

(* A request of one session leaves those of the others.                      *)
LEMMA GoesTo ==
  ASSUME TypeOK, NEW s \in Sessions, NEW p, Goes(s, p)
  PROVE  /\ session' = [t \in Sessions |-> session'[t]]
         /\ session'[s] = p /\ \A t \in Sessions \ {s} : session'[t] = session[t]
BY DEF TypeOK, Goes

(* A plan stands while bills are only added to those a product has had.      *)
LEMMA PlansStand ==
  ASSUME NEW B, NEW C, NEW p, SessionOK(B, p), DOMAIN B \subseteq DOMAIN C, \A f \in DOMAIN B : B[f] \subseteq C[f]
  PROVE  SessionOK(C, p)
<1>1. Planned(B, p) => Planned(C, p)
  BY DEF Planned
<1>. QED
  BY <1>1 DEF SessionOK, Check, Select, Take, Done, Making

(* The stages of a production.                                               *)
LEMMA Stages ==
  ASSUME NEW B, NEW p, SessionOK(B, p)
  PROVE  /\ p.at = "check" => Check(B, p)
         /\ p.at = "again" => Again(p)
         /\ p.at = "select" => Select(B, p)
         /\ p.at = "take" => Take(B, p)
         /\ p.at = "commit" => Done(B, p)
         /\ p.at \in {"select", "take", "commit"} => Making(B, p)
BY DEF SessionOK, Form, Idle, Again, Check, Select, Take, Done

(* What has written nothing has taken nothing.                               *)
LEMMA Untaken ==
  ASSUME NEW B, NEW p, Making(B, p), DOMAIN p.own = {}
  PROVE  \A m \in NameSet : p.took[m] = 0
<1> SUFFICES ASSUME NEW m \in NameSet PROVE p.took[m] = 0
  OBVIOUS
<1>1. p.need \in [DOMAIN p.need -> Nat \ {0}]
  BY DEF Making, Planned, IsBill
<1>. QED
  BY <1>1 DEF Making, TookOf

-----------------------------------------------------------------------------
(* Steps that write no row: session s goes to p.                             *)
Busy(p) == p.at \in {"select", "take", "commit"}
(* p is under no production, or one that has not written, or it goes on with *)
(* what the session had written; rows it reads are read as they are seen.    *)
GoesOn(s, p) ==
  Busy(p) => \/ DOMAIN p.own = {}
             \/ /\ Producing(s) /\ p.own = session[s].own /\ p.took = session[s].took
                /\ p.at = "take" => p.read = Views(s)

LEMMA Views0 ==
  ASSUME Inv, NEW s \in Sessions, Producing(s), DOMAIN session[s].own = {}
  PROVE  Views(s) = stock
BY DEF Inv, TypeOK, Views, View

LEMMA StepBeside ==
  ASSUME MaterialsOK, Inv, NEW s \in Sessions, NEW p, Goes(s, p), SessionOK(billed', p), GoesOn(s, p),
         DOMAIN billed \subseteq DOMAIN billed', \A f \in DOMAIN billed : billed[f] \subseteq billed'[f],
         TypeOK', UNCHANGED <<stock, taken, moved, crossed>>
  PROVE  Inv'
<1>1. session'[s] = p /\ \A t \in Sessions \ {s} : session'[t] = session[t]
  BY GoesTo DEF Inv
<1>2. \A t \in Sessions : SessionOK(billed', session'[t])
  BY <1>1, PlansStand DEF Inv
<1>3. \A t \in Sessions : Writing(t)' => Writing(t)
  BY <1>1 DEF Writing, GoesOn, Producing, Busy
<1>4. OneWriter'
  BY <1>3 DEF Inv, OneWriter
<1>5. StockAccounted'
  BY DEF Inv, StockAccounted
<1>6. ASSUME NEW t \in Sessions \ {s}
      PROVE  /\ Views(t)' = Views(t) /\ (Producing(t)' <=> Producing(t))
             /\ (At(t, "take") /\ Writing(t))' => At(t, "take") /\ Writing(t)
  BY <1>1 DEF Views, View, Producing, At, Writing
<1>7. ASSUME ~crossed', NEW t \in Sessions
      PROVE  Deducted(t)' /\ ReadsStand(t)'
  <2>1. ~crossed
    BY <1>7
  <2>2. Deducted(t) /\ ReadsStand(t)
    BY <2>1 DEF Inv
  <2>3. CASE t # s
    <3>1. Deducted(t)'
      BY <1>1, <1>6, <2>2, <2>3 DEF Deducted
    <3>2. ReadsStand(t)'
      BY <1>1, <1>6, <2>2, <2>3 DEF ReadsStand, View
    <3>. QED
      BY <3>1, <3>2
  <2>4. CASE t = s /\ ~Busy(p)
    BY <1>1, <2>4 DEF Deducted, ReadsStand, Producing, Busy, At
  <2>5. CASE t = s /\ Busy(p) /\ DOMAIN p.own = {}
    <3>1. Making(billed', p)
      BY <2>5, Stages DEF Busy
    <3>2. \A m \in NameSet : p.took[m] = 0
      BY <3>1, <2>5, Untaken
    <3>3. stock \in [RowIds -> Nat]
      BY DEF Inv, TypeOK
    <3>4. Views(s)' = stock'
      BY <1>1, <2>5, <3>3 DEF Views, View
    <3>5. \A m \in NameSet : OnHand(stock, m) \in Nat
      BY <3>3, OnHandNat
    <3>6. Deducted(t)'
      BY <1>1, <2>5, <3>2, <3>4, <3>5 DEF Deducted
    <3>7. ReadsStand(t)'
      BY <1>1, <2>5 DEF ReadsStand, Writing
    <3>. QED
      BY <3>6, <3>7
  <2>6. CASE t = s /\ Busy(p) /\ DOMAIN p.own # {}
    <3>1. Producing(s) /\ p.own = session[s].own /\ p.took = session[s].took
      BY <2>6 DEF GoesOn
    <3>2. Views(s)' = Views(s) /\ \A q \in RowIds : View(s, q)' = View(s, q)
      BY <1>1, <3>1 DEF Views, View
    <3>3. Deducted(t)'
      BY <1>1, <2>2, <2>6, <3>1, <3>2 DEF Deducted
    <3>4. ASSUME p.at = "take"
          PROVE  \A q \in p.rows : View(s, q)' = p.read[q]
      <4>1. p.read = Views(s) /\ Take(billed', p)
        BY <2>6, <3>4, Stages DEF GoesOn
      <4>2. p.rows \subseteq RowIds
        BY <4>1, RowsOf DEF Take
      <4>. QED
        BY <3>2, <4>1, <4>2 DEF Views
    <3>5. ReadsStand(t)'
      BY <1>1, <2>6, <3>4 DEF ReadsStand, At
    <3>. QED
      BY <3>3, <3>5
  <2>. QED
    BY <2>3, <2>4, <2>5, <2>6
<1>. QED
  BY <1>2, <1>4, <1>5, <1>7 DEF Inv

(* The same for a step that leaves the tables too.                           *)
LEMMA StepAside ==
  ASSUME MaterialsOK, Inv, NEW s \in Sessions, NEW p, Goes(s, p), SessionOK(billed, p), GoesOn(s, p),
         UNCHANGED <<product, bill, stock, taken, moved, billed, crossed>>
  PROVE  Inv'
<1>1. TypeOK'
  BY GoesTo DEF Inv, TypeOK
<1>. QED
  BY <1>1, StepBeside

LEMMA IdleOK ==
  ASSUME NEW B, NEW s
  PROVE  SessionOK(B, Idle) /\ GoesOn(s, Idle)
BY DEF SessionOK, Form, GoesOn, Busy, Idle

-----------------------------------------------------------------------------
(* Plans.                                                                    *)
LEMMA PlanStep ==
  ASSUME MaterialsOK, Inv, NEW s \in Sessions, NEW pass \in {"shown", "made"}, NEW f, NEW amount \in Amounts,
         Plans(s, pass, f, amount), UNCHANGED <<tables, seen>>
  PROVE  Inv'
<1>. DEFINE b == BillOf(f)
            p == [at |-> "check", pass |-> pass, of |-> f, amount |-> amount, need |-> Needs(b, amount),
                  left |-> DOMAIN b, short |-> FALSE]
<1>1. CASE DOMAIN b # {} /\ Whole(b, amount)
  <2>1. f \in DOMAIN bill /\ b = bill[f]
    BY <1>1 DEF BillOf
  <2>2. IsBill(b) /\ f \in DOMAIN billed /\ b \in billed[f]
    BY <2>1 DEF Inv, TypeOK
  <2>3. ASSUME NEW m \in DOMAIN b
        PROVE  Needs(b, amount)[m] \in Nat \ {0}
    <3>1. b[m] \in Nat \ {0} /\ amount \in Nat \ {0} /\ Unit \in Nat \ {0}
      BY <2>2 DEF IsBill, MaterialsOK
    <3>2. b[m] * amount \in Nat /\ b[m] * amount > 0
      BY <3>1
    <3>3. Needs(b, amount)[m] = (b[m] * amount) \div Unit /\ Needs(b, amount)[m] \in Nat
      BY <3>1, <3>2 DEF Needs
    <3>4. Needs(b, amount)[m] * Unit = b[m] * amount
      BY <1>1 DEF Whole
    <3>. QED
      BY <3>1, <3>2, <3>3, <3>4
  <2>4. IsBill(Needs(b, amount)) /\ DOMAIN Needs(b, amount) = DOMAIN b
    BY <2>2, <2>3 DEF IsBill, Needs
  <2>5. Planned(billed, p)
    BY <1>1, <2>2, <2>4 DEF Planned, Whole
  <2>6. SessionOK(billed, p)
    BY <1>1, <2>4, <2>5 DEF SessionOK, Check
  <2>7. GoesOn(s, p) /\ Goes(s, p)
    BY <1>1 DEF GoesOn, Busy, Plans
  <2>. QED
    BY <2>6, <2>7, StepAside DEF tables, seen
<1>2. CASE ~(DOMAIN b # {} /\ Whole(b, amount))
  BY <1>2, IdleOK, StepAside DEF Plans, Rests, tables, seen
<1>. QED
  BY <1>1, <1>2

LEMMA CheckStep ==
  ASSUME MaterialsOK, Inv, NEW s \in Sessions, CheckStock(s)
  PROVE  Inv'
<1>. DEFINE p == session[s]
            rest == p.left \ {First(p.left)}
            short == p.short \/ OnHand(stock, First(p.left)) < p.need[First(p.left)]
<1>1. Check(billed, p)
  BY Stages DEF Inv, CheckStock, At
<1>2. CASE rest # {} /\ Goes(s, [p EXCEPT !.left = rest, !.short = short])
  <2> DEFINE q == [p EXCEPT !.left = rest, !.short = short]
  <2>1. /\ q.at = "check" /\ DOMAIN q = DOMAIN p /\ q.pass = p.pass /\ q.of = p.of /\ q.amount = p.amount
        /\ q.need = p.need /\ q.left = rest /\ q.short = short
    BY <1>1 DEF Check
  <2> HIDE DEF q
  <2>2. Planned(billed, q)
    BY <1>1, <2>1 DEF Check, Planned
  <2>3. SessionOK(billed, q)
    BY <1>1, <1>2, <2>1, <2>2 DEF Check, SessionOK
  <2>4. GoesOn(s, q)
    BY <2>1 DEF GoesOn, Busy
  <2>. QED
    BY <1>2, <2>3, <2>4, StepAside DEF CheckStock, tables, seen, q
<1>3. CASE Rests(s)
  BY <1>3, IdleOK, StepAside DEF Rests, CheckStock, tables, seen
<1>4. CASE Goes(s, [at |-> "again", of |-> p.of, amount |-> p.amount])
  <2> DEFINE q == [at |-> "again", of |-> p.of, amount |-> p.amount]
  <2>1. SessionOK(billed, q) /\ GoesOn(s, q)
    BY <1>1 DEF SessionOK, Again, GoesOn, Busy, Check
  <2>. QED
    BY <1>4, <2>1, StepAside DEF CheckStock, tables, seen
<1>5. CASE Goes(s, [at |-> "select", of |-> p.of, amount |-> p.amount, need |-> p.need, left |-> DOMAIN p.need,
                    own |-> <<>>, took |-> [n \in NameSet |-> 0]])
  <2> DEFINE q == [at |-> "select", of |-> p.of, amount |-> p.amount, need |-> p.need, left |-> DOMAIN p.need,
                   own |-> <<>>, took |-> [n \in NameSet |-> 0]]
  <2>1. DOMAIN q.own = {}
    OBVIOUS
  <2>2. Planned(billed, q)
    BY <1>1 DEF Check, Planned
  <2>3. DOMAIN p.need # {}
    BY <1>1 DEF Check
  <2>4. Rest(q) = p.need[First(DOMAIN p.need)]
    BY <2>3 DEF Rest
  <2>5. p.need \in [DOMAIN p.need -> Nat]
    BY <1>1 DEF Check, Planned, IsBill
  <2>6. \A m \in NameSet : TookOf(q, m) = 0
    BY <2>4, <2>5 DEF TookOf
  <2>7. Making(billed, q)
    BY <1>1, <2>1, <2>2, <2>4, <2>6 DEF Making, Check
  <2>8. SessionOK(billed, q) /\ GoesOn(s, q)
    BY <2>1, <2>3, <2>7 DEF SessionOK, Select, GoesOn
  <2>. QED
    BY <1>5, <2>8, StepAside DEF CheckStock, tables, seen
<1>. QED
  BY <1>2, <1>3, <1>4, <1>5 DEF CheckStock

-----------------------------------------------------------------------------
(* Productions.                                                              *)
LEMMA SeenNat ==
  ASSUME MaterialsOK, Inv, NEW s \in Sessions, Producing(s)
  PROVE  Views(s) \in [RowIds -> Nat] /\ \A r \in RowIds : Views(s)[r] = View(s, r)
<1>1. Making(billed, session[s])
  BY Stages DEF Inv, Producing
<1>2. stock \in [RowIds -> Nat]
  BY DEF Inv, TypeOK
<1>. QED
  BY <1>1, <1>2 DEF Views, View, Making

LEMMA SelectStep ==
  ASSUME MaterialsOK, Inv, NEW s \in Sessions, SelectRows(s)
  PROVE  Inv'
<1>. DEFINE p == session[s]
            q == [at |-> "take", of |-> p.of, amount |-> p.amount, need |-> p.need, left |-> p.left, own |-> p.own,
                  took |-> p.took, rows |-> Filled(s), read |-> Views(s), rest |-> p.need[First(p.left)]]
            units == SumFunctionOnSet(Views(s), Filled(s))
<1>1. Select(billed, p) /\ Making(billed, p) /\ Producing(s)
  BY Stages DEF Inv, SelectRows, At, Producing
<1>2. CASE units < p.need[First(p.left)]
  BY <1>2, IdleOK, StepAside DEF SelectRows, Rests, tables, seen
<1>3. CASE ~(units < p.need[First(p.left)])
  <2>1. First(p.left) \in DOMAIN p.need /\ p.need[First(p.left)] \in Nat
    BY <1>1, FirstIn DEF Select, Making, Planned, IsBill
  <2>2. Views(s) \in [RowIds -> Nat]
    BY <1>1, SeenNat
  <2>3. Filled(s) \subseteq Of(First(p.left)) /\ Filled(s) \subseteq RowIds /\ IsFiniteSet(Filled(s))
    BY RowsOf, FS_Subset DEF Filled
  <2>4. units \in Nat
    BY <2>2, <2>3, SumNat
  <2>5. Rest(q) = Rest(p) /\ Planned(billed, q)
    BY <1>1 DEF Rest, Select, Making, Planned
  <2>6. \A m \in NameSet : TookOf(q, m) = TookOf(p, m)
    BY <2>5 DEF TookOf
  <2>7. Making(billed, q)
    BY <1>1, <2>5, <2>6 DEF Making
  <2>8. Take(billed, q)
    BY <1>1, <1>3, <2>1, <2>2, <2>3, <2>4, <2>7 DEF Take, Select
  <2>9. SessionOK(billed, q) /\ GoesOn(s, q)
    BY <1>1, <2>8 DEF SessionOK, GoesOn
  <2>. QED
    BY <1>3, <2>9, StepAside DEF SelectRows, tables, seen
<1>. QED
  BY <1>2, <1>3

LEMMA NextStep ==
  ASSUME MaterialsOK, Inv, NEW s \in Sessions, NextMaterial(s)
  PROVE  Inv'
<1>. DEFINE p == session[s]
            m == First(p.left)
            rest == p.left \ {m}
            q == [at |-> IF rest = {} THEN "commit" ELSE "select", of |-> p.of, amount |-> p.amount, need |-> p.need,
                  left |-> rest, own |-> p.own, took |-> p.took]
<1>1. Take(billed, p) /\ Making(billed, p) /\ Producing(s)
  BY Stages DEF Inv, NextMaterial, At, Producing
<1>2. p.need \in [DOMAIN p.need -> Nat \ {0}] /\ p.left \subseteq DOMAIN p.need /\ p.left # {} /\ m \in p.left
  BY <1>1, FirstIn DEF Take, Making, Planned, IsBill
<1>3. p.rest = 0
  <2>1. CASE p.rows = {}
    <3>1. SumFunctionOnSet(p.read, p.rows) = 0
      BY <2>1, SumEmpty
    <3>. QED
      BY <1>1, <3>1 DEF Take
  <2>. QED
    BY <2>1 DEF NextMaterial
<1>4. DOMAIN p.own # {}
  BY <1>1, <1>2, <1>3 DEF Making, Rest, Take
<1>5. Planned(billed, q)
  BY <1>1 DEF Making, Planned
<1>6. Rest(p) = 0 /\ (rest # {} => Rest(q) = p.need[First(rest)])
  BY <1>1, <1>3 DEF Rest, Take
<1>7. ASSUME NEW n \in NameSet
      PROVE  TookOf(q, n) = TookOf(p, n)
  BY <1>2, <1>6, SMTT(40) DEF TookOf
<1>8. Making(billed, q)
  BY <1>1, <1>2, <1>4, <1>5, <1>7 DEF Making
<1>9. SessionOK(billed, q)
  BY <1>4, <1>8 DEF SessionOK, Select, Done
<1>10. GoesOn(s, q)
  BY <1>1 DEF GoesOn
<1>. QED
  BY <1>9, <1>10, StepAside DEF NextMaterial, tables, seen

LEMMA StopStep ==
  ASSUME MaterialsOK, Inv, NEW s \in Sessions, Stop(s)
  PROVE  Inv'
BY IdleOK, StepAside DEF Stop, Rests, tables, seen

(* A row is written.                                                         *)
LEMMA TakeStep ==
  ASSUME MaterialsOK, Inv, NEW s \in Sessions, TakeRow(s)
  PROVE  Inv'
<1>. DEFINE p == session[s]
            m == First(p.left)
<1>1. Take(billed, p) /\ Making(billed, p) /\ Producing(s)
  BY Stages DEF Inv, TakeRow, At, Producing
<1>2. PICK r \in p.rows :
        Goes(s, [p EXCEPT !.own = Put(@, r, p.read[r] - Least(p.rest, p.read[r])),
                          !.took[m] = @ + Least(p.rest, p.read[r]),
                          !.rows = @ \ {r}, !.rest = @ - Least(p.rest, p.read[r])])
  BY DEF TakeRow
<1>. DEFINE take == Least(p.rest, p.read[r])
            q == [p EXCEPT !.own = Put(@, r, p.read[r] - take), !.took[m] = @ + take,
                           !.rows = @ \ {r}, !.rest = @ - take]
<1>3. /\ p.need \in [DOMAIN p.need -> Nat \ {0}] /\ p.left \subseteq DOMAIN p.need
      /\ m \in p.left /\ m \in NameSet /\ p.need[m] \in Nat
  BY <1>1, FirstIn DEF Take, Making, Planned, IsBill
<1>4. /\ r \in RowIds /\ r \in Of(m) /\ Rows[r].product = m /\ p.rows \subseteq RowIds /\ IsFiniteSet(p.rows)
  <2>1. p.rows \subseteq Of(m) /\ r \in Of(m)
    BY <1>1, <1>2 DEF Take
  <2>2. IsFiniteSet(Of(m)) /\ Of(m) \subseteq RowIds
    BY RowsOf
  <2>. QED
    BY <2>1, <2>2, FS_Subset DEF Of
<1>5. p.read[r] \in Nat /\ p.rest \in Nat /\ take \in Nat /\ take <= p.rest /\ take <= p.read[r]
      /\ (take = p.rest \/ take = p.read[r])
  BY <1>1, <1>4 DEF Take, Least
<1>6. /\ q.at = "take" /\ DOMAIN q = DOMAIN p /\ q.of = p.of /\ q.amount = p.amount /\ q.need = p.need
      /\ q.left = p.left /\ q.read = p.read /\ q.rows = p.rows \ {r} /\ q.rest = p.rest - take
      /\ q.own = Put(p.own, r, p.read[r] - take)
      /\ q.took = [p.took EXCEPT ![m] = @ + take]
  BY <1>1 DEF Take
<1> HIDE DEF q, take
<1>7. /\ DOMAIN q.own = DOMAIN p.own \cup {r} /\ q.own[r] = p.read[r] - take
      /\ \A x \in DOMAIN p.own \ {r} : q.own[x] = p.own[x]
  BY <1>6 DEF Put
<1>8. /\ p.took \in [NameSet -> Nat] /\ q.took \in [NameSet -> Nat] /\ q.took[m] = p.took[m] + take
      /\ \A n \in NameSet \ {m} : q.took[n] = p.took[n]
  BY <1>1, <1>3, <1>5, <1>6 DEF Making
<1>9. session'[s] = q /\ \A t \in Sessions \ {s} : session'[t] = session[t]
  BY <1>2, GoesTo DEF Inv, q, take
<1>10. UNCHANGED <<product, bill, stock, taken, moved, billed>> /\ Free(s)
       /\ crossed' = (crossed \/ (DOMAIN p.own = {} /\ \E x \in Of(m) : stock[x] # p.read[x]))
  BY DEF TakeRow, tables
<1>11. SessionOK(billed, q)
  <2>1. Planned(billed, q)
    BY <1>1, <1>6 DEF Making, Planned
  <2>2. Rest(p) = p.rest /\ Rest(q) = p.rest - take
    BY <1>1, <1>6 DEF Rest, Take
  <2>3. ASSUME NEW n \in NameSet
        PROVE  q.took[n] = TookOf(q, n)
    <3>1. p.took[n] = TookOf(p, n)
      BY <1>1 DEF Making
    <3>2. CASE n = m
      <4>1. m \in DOMAIN p.need /\ m \in p.left /\ m \in DOMAIN q.need /\ m \in q.left /\ m = First(q.left)
        BY <1>3, <1>6
      <4>2. TookOf(p, m) = p.need[m] - Rest(p) /\ TookOf(q, m) = q.need[m] - Rest(q)
        BY <4>1 DEF TookOf
      <4>. QED
        BY <1>3, <1>5, <1>6, <1>8, <2>2, <3>1, <3>2, <4>2
    <3>3. CASE n # m
      BY <1>6, <1>8, <3>1, <3>3 DEF TookOf
    <3>. QED
      BY <3>2, <3>3
  <2>4. Making(billed, q)
    <3>1. \A x \in DOMAIN q.own : q.own[x] \in Nat /\ x \in RowIds
      BY <1>1, <1>4, <1>5, <1>7 DEF Making
    <3>2. q.amount \in Amounts /\ q.left \subseteq DOMAIN q.need
      BY <1>1, <1>6 DEF Making
    <3>. QED
      BY <1>7, <1>8, <2>1, <2>3, <3>1, <3>2 DEF Making
  <2>5. q.rest <= SumFunctionOnSet(q.read, q.rows)
    <3>1. \A x \in p.rows : p.read[x] \in Nat
      BY <1>1, <1>4 DEF Take
    <3>2. SumFunctionOnSet(p.read, p.rows) = p.read[r] + SumFunctionOnSet(p.read, p.rows \ {r})
      BY <1>2, <1>4, <3>1, SumSplit
    <3>3. SumFunctionOnSet(p.read, p.rows \ {r}) \in Nat
      BY <1>4, <3>1, FS_Subset, SumNat
    <3>. QED
      BY <1>1, <1>5, <1>6, <3>2, <3>3 DEF Take
  <2>. QED
    BY <1>1, <1>5, <1>6, <2>4, <2>5 DEF SessionOK, Take
<1>12. TypeOK'
  BY <1>2, <1>10, GoesTo DEF Inv, TypeOK, q
<1>13. OneWriter'
  BY <1>9, <1>10 DEF Free, OneWriter, Writing
<1>14. StockAccounted'
  BY <1>10 DEF Inv, StockAccounted
<1>15. ASSUME ~crossed'
       PROVE  \A x \in p.rows : View(s, x) = p.read[x]
  <2>1. CASE DOMAIN p.own = {}
    BY <1>1, <1>10, <1>15, <2>1 DEF View, Take
  <2>2. CASE DOMAIN p.own # {}
    <3>1. Writing(s) /\ At(s, "take") /\ ReadsStand(s)
      BY <1>1, <1>10, <1>15, <2>2 DEF Writing, At, Take, Inv
    <3>. QED
      BY <3>1 DEF ReadsStand
  <2>. QED
    BY <2>1, <2>2
<1>16. ASSUME ~crossed', NEW t \in Sessions
       PROVE  Deducted(t)' /\ ReadsStand(t)'
  <2>1. ~crossed /\ Deducted(t) /\ ReadsStand(t)
    BY <1>10, <1>16 DEF Inv
  <2>2. CASE t # s
    <3>1. /\ Views(t)' = Views(t) /\ (Producing(t)' <=> Producing(t)) /\ (At(t, "take")' <=> At(t, "take"))
          /\ (Writing(t)' <=> Writing(t)) /\ \A x : View(t, x)' = View(t, x)
      BY <1>9, <1>10, <2>2 DEF Views, View, Producing, At, Writing
    <3>. QED
      BY <1>9, <1>10, <2>1, <2>2, <3>1 DEF Deducted, ReadsStand
  <2>3. CASE t = s
    <3>1. Views(s) \in [RowIds -> Nat] /\ \A x \in RowIds : Views(s)[x] = View(s, x)
      BY <1>1, SeenNat
    <3>2. \A x \in RowIds : View(s, x)' = IF x = r THEN p.read[r] - take ELSE View(s, x)
      BY <1>7, <1>9, <1>10 DEF View
    <3>3. Views(s)' = [x \in RowIds |-> IF x = r THEN p.read[r] - take ELSE View(s, x)]
      BY <3>2 DEF Views
    <3>4. Views(s)' \in [RowIds -> Nat] /\ Views(s)'[r] = p.read[r] - take
          /\ \A x \in RowIds \ {r} : Views(s)'[x] = Views(s)[x]
      BY <1>4, <1>5, <3>1, <3>3
    <3>5. Views(s)[r] = p.read[r]
      BY <1>4, <1>15, <1>16, <3>1
    <3>6. ASSUME NEW n \in NameSet
          PROVE  OnHand(Views(s)', n) = OnHand(stock, n) - q.took[n]
      <4>1. OnHand(Views(s)', n) = OnHand(Views(s), n) + (IF n = m THEN Views(s)'[r] - Views(s)[r] ELSE 0)
        BY <1>4, <3>1, <3>4, OnHandPut
      <4>2. OnHand(Views(s), n) = OnHand(stock, n) - p.took[n]
        BY <1>1, <2>1, <2>3 DEF Deducted
      <4>3. OnHand(stock, n) \in Nat
        BY OnHandNat DEF Inv, TypeOK
      <4>. QED
        BY <1>5, <1>8, <3>4, <3>5, <4>1, <4>2, <4>3
    <3>7. Deducted(s)'
      BY <1>9, <1>10, <3>6 DEF Deducted, OnHand, Of
    <3>8. ReadsStand(s)'
      BY <1>4, <1>6, <1>9, <1>15, <1>16, <3>2 DEF ReadsStand
    <3>. QED
      BY <2>3, <3>7, <3>8
  <2>. QED
    BY <2>2, <2>3
<1>17. \A t \in Sessions : SessionOK(billed', session'[t])
  BY <1>9, <1>10, <1>11 DEF Inv
<1>. QED
  BY <1>12, <1>13, <1>14, <1>16, <1>17 DEF Inv

(* What a production has written becomes the stock.                          *)
LEMMA CommitStep ==
  ASSUME MaterialsOK, Inv, NEW s \in Sessions, Commit(s)
  PROVE  Inv'
<1>. DEFINE p == session[s]
<1>1. Done(billed, p) /\ Making(billed, p) /\ Producing(s) /\ Writing(s)
  BY Stages DEF Inv, Commit, At, Producing, Writing, Done
<1>2. session'[s] = Idle /\ \A t \in Sessions \ {s} : session'[t] = session[t]
  BY GoesTo DEF Inv, Commit, Rests
<1>3. stock' = Views(s) /\ taken' = [m \in NameSet |-> taken[m] + p.took[m]]
      /\ UNCHANGED <<product, bill, moved, billed, crossed>>
  BY DEF Commit, seen
<1>4. stock' \in [RowIds -> Nat]
  BY <1>1, <1>3, SeenNat
<1>5. p.took \in [NameSet -> Nat] /\ taken \in [NameSet -> Nat] /\ moved \in [NameSet -> Int]
      /\ stock \in [RowIds -> Nat]
  BY <1>1 DEF Making, Inv, TypeOK
<1>6. TypeOK'
  BY <1>3, <1>4, <1>5, GoesTo DEF Inv, TypeOK, Commit, Rests
<1>7. OneWriter'
  BY <1>2 DEF Inv, OneWriter, Writing, Idle
<1>8. ASSUME ~crossed', NEW m \in NameSet
      PROVE  OnHand(stock', m) = OnHand(InitialStock, m) + moved'[m] - taken'[m]
  <2>1. OnHand(Views(s), m) = OnHand(stock, m) - p.took[m]
    BY <1>1, <1>3, <1>8 DEF Inv, Deducted
  <2>2. OnHand(stock, m) = OnHand(InitialStock, m) + moved[m] - taken[m]
    BY <1>3, <1>8 DEF Inv, StockAccounted
  <2>3. OnHand(stock, m) \in Nat /\ OnHand(InitialStock, m) \in Nat
    BY <1>5, OnHandNat DEF MaterialsOK
  <2>. QED
    BY <1>3, <1>5, <2>1, <2>2, <2>3
<1>9. StockAccounted'
  BY <1>8 DEF StockAccounted, OnHand, Of
<1>10. ASSUME NEW t \in Sessions
       PROVE  SessionOK(billed', session'[t])
  BY <1>2, <1>3, IdleOK DEF Inv
<1>11. ASSUME NEW t \in Sessions
       PROVE  Deducted(t)' /\ ReadsStand(t)'
  <2>1. CASE t = s
    BY <1>2, <2>1 DEF Deducted, ReadsStand, Producing, At, Idle
  <2>2. CASE t # s /\ ~Producing(t)
    BY <1>2, <2>2 DEF Deducted, ReadsStand, Producing, At
  <2>3. CASE t # s /\ Producing(t)
    <3>1. ~Writing(t) /\ session'[t] = session[t]
      BY <1>1, <1>2, <2>3 DEF Inv, OneWriter
    <3>2. DOMAIN session[t].own = {}
      BY <2>3, <3>1 DEF Writing, Producing
    <3>3. Making(billed, session[t])
      BY <2>3, Stages DEF Inv, Producing
    <3>4. \A m \in NameSet : session[t].took[m] = 0
      BY <3>2, <3>3, Untaken
    <3>5. Views(t)' = stock'
      BY <1>4, <3>1, <3>2 DEF Views, View
    <3>6. \A m \in NameSet : OnHand(stock', m) \in Nat
      BY <1>4, OnHandNat
    <3>7. \A m \in NameSet : OnHand(stock', m) = OnHand(stock', m) - session[t].took[m]
      BY <3>4, <3>6
    <3>8. Deducted(t)'
      BY <3>1, <3>5, <3>7 DEF Deducted, OnHand, Of
    <3>9. ReadsStand(t)'
      BY <3>1, <3>2 DEF ReadsStand, Writing
    <3>. QED
      BY <3>8, <3>9
  <2>. QED
    BY <2>1, <2>2, <2>3
<1>. QED
  BY <1>6, <1>7, <1>9, <1>10, <1>11 DEF Inv

(* Other pages set a row while no production has written.                    *)
LEMMA ChangeStep ==
  ASSUME MaterialsOK, Inv, NEW c \in Changes, ChangeStock(c)
  PROVE  Inv'
<1>. DEFINE r == c[1]
            n == Rows[r].product
<1>1. r \in RowIds /\ c[2] \in Nat /\ n \in NameSet
  BY RowsOf DEF MaterialsOK
<1>2. stock \in [RowIds -> Nat] /\ moved \in [NameSet -> Int] /\ taken \in [NameSet -> Nat]
  BY DEF Inv, TypeOK
<1>3. stock' = [stock EXCEPT ![r] = c[2]] /\ moved' = [moved EXCEPT ![n] = @ + c[2] - stock[r]]
      /\ UNCHANGED <<product, bill, taken, session, billed, crossed>>
  BY DEF ChangeStock
<1>4. stock' \in [RowIds -> Nat] /\ moved' \in [NameSet -> Int]
      /\ stock'[r] = c[2] /\ \A q \in RowIds \ {r} : stock'[q] = stock[q]
      /\ moved'[n] = moved[n] + c[2] - stock[r] /\ \A m \in NameSet \ {n} : moved'[m] = moved[m]
  BY <1>1, <1>2, <1>3
<1>5. TypeOK'
  BY <1>3, <1>4 DEF Inv, TypeOK
<1>6. OneWriter'
  BY <1>3 DEF Inv, OneWriter, Writing
<1>7. ASSUME ~crossed', NEW m \in NameSet
      PROVE  OnHand(stock', m) = OnHand(InitialStock, m) + moved'[m] - taken'[m]
  <2>1. OnHand(stock, m) = OnHand(InitialStock, m) + moved[m] - taken[m]
    BY <1>3, <1>7 DEF Inv, StockAccounted
  <2>2. OnHand(stock', m) = OnHand(stock, m) + (IF m = n THEN stock'[r] - stock[r] ELSE 0)
    BY <1>1, <1>2, <1>4, OnHandPut
  <2>3. OnHand(stock, m) \in Nat /\ OnHand(InitialStock, m) \in Nat
    BY <1>2, OnHandNat DEF MaterialsOK
  <2>4. stock[r] \in Nat /\ moved[m] \in Int /\ taken[m] \in Nat
    BY <1>1, <1>2
  <2>. QED
    BY <1>1, <1>3, <1>4, <2>1, <2>2, <2>3, <2>4
<1>8. StockAccounted'
  BY <1>7 DEF StockAccounted, OnHand, Of
<1>9. \A t \in Sessions : SessionOK(billed', session'[t])
  BY <1>3 DEF Inv
<1>10. ASSUME NEW t \in Sessions
       PROVE  Deducted(t)' /\ ReadsStand(t)'
  <2>1. ~Writing(t) /\ ~Writing(t)'
    BY <1>3 DEF ChangeStock, Writing
  <2>2. ReadsStand(t)'
    BY <2>1 DEF ReadsStand
  <2>3. ASSUME Producing(t)
        PROVE  Deducted(t)'
    <3>1. DOMAIN session[t].own = {} /\ Making(billed, session[t])
      BY <2>1, <2>3, Stages DEF Writing, Producing, Inv
    <3>2. \A m \in NameSet : session[t].took[m] = 0
      BY <3>1, Untaken
    <3>3. Views(t)' = stock'
      BY <1>3, <1>4, <3>1 DEF Views, View
    <3>4. \A m \in NameSet : OnHand(stock', m) \in Nat
      BY <1>4, OnHandNat
    <3>5. \A m \in NameSet : OnHand(stock', m) = OnHand(stock', m) - session[t].took[m]
      BY <3>2, <3>4
    <3>. QED
      BY <1>3, <3>3, <3>5 DEF Deducted, OnHand, Of
  <2>4. ~Producing(t) => Deducted(t)'
    BY <1>3 DEF Deducted, Producing
  <2>. QED
    BY <2>2, <2>3, <2>4
<1>. QED
  BY <1>5, <1>6, <1>8, <1>9, <1>10 DEF Inv

-----------------------------------------------------------------------------
(* Bills and the list of materials.                                          *)
LEMMA RegisteredNames ==
  ASSUME Inv
  PROVE  Registered \subseteq DOMAIN product /\ DOMAIN product \subseteq NameSet
BY DEF Inv, TypeOK, Registered

LEMMA BillForms ==
  ASSUME MaterialsOK, Inv, NEW s \in Sessions, NEW f, EditBill(s, f)
  PROVE  Inv'
<1>. DEFINE now == BillOf(f)
<1>0. PICK keep \in SUBSET DOMAIN now, add \in SUBSET (Registered \ DOMAIN now), one \in Quantities :
           \E kept \in [keep -> Quantities] :
             Goes(s, [at |-> "bill", of |-> f, new |-> [m \in keep \cup add |-> IF m \in keep THEN kept[m] ELSE one]])
  BY DEF EditBill
<1>1. PICK kept \in [keep -> Quantities] :
             Goes(s, [at |-> "bill", of |-> f, new |-> [m \in keep \cup add |-> IF m \in keep THEN kept[m] ELSE one]])
  BY <1>0
<1>. DEFINE new == [m \in keep \cup add |-> IF m \in keep THEN kept[m] ELSE one]
            p == [at |-> "bill", of |-> f, new |-> new]
<1>2. DOMAIN now \subseteq NameSet
  BY DEF BillOf, Inv, TypeOK, IsBill
<1>3. keep \cup add \subseteq NameSet
  BY <1>2, RegisteredNames
<1>4. \A m \in keep \cup add : new[m] \in Nat \ {0}
  BY DEF MaterialsOK
<1>5. IsBill(new)
  BY <1>3, <1>4 DEF IsBill
<1>6. SessionOK(billed, p) /\ GoesOn(s, p)
  BY <1>5 DEF SessionOK, Form, GoesOn, Busy
<1>. QED
  BY <1>1, <1>6, StepAside DEF EditBill, tables

LEMMA BillSaves ==
  ASSUME MaterialsOK, Inv, NEW s \in Sessions, SaveBill(s)
  PROVE  Inv'
<1>. DEFINE p == session[s]
            after == Put(bill, p.of, p.new)
            had == IF p.of \in DOMAIN billed THEN billed[p.of] ELSE {}
<1>1. p.at = "bill" /\ IsBill(p.new)
  BY DEF SaveBill, At, Inv, SessionOK, Form, Idle, Again, Check, Select, Take, Done
<1>2. /\ bill' = [f \in {x \in DOMAIN after : DOMAIN after[x] # {}} |-> after[f]]
      /\ billed' = Put(billed, p.of, had \cup {p.new}) /\ Goes(s, Idle)
      /\ UNCHANGED <<product, stock, taken, moved, crossed>>
  BY DEF SaveBill, Rests
<1>3. /\ DOMAIN billed' = DOMAIN billed \cup {p.of} /\ billed'[p.of] = had \cup {p.new}
      /\ \A f \in DOMAIN billed \ {p.of} : billed'[f] = billed[f]
  BY <1>2 DEF Put
<1>4. DOMAIN billed \subseteq DOMAIN billed' /\ \A f \in DOMAIN billed : billed[f] \subseteq billed'[f]
  BY <1>3
<1>5. ASSUME NEW f \in DOMAIN bill'
      PROVE  IsBill(bill'[f]) /\ f \in DOMAIN billed' /\ bill'[f] \in billed'[f]
  <2>1. bill'[f] = after[f] /\ f \in DOMAIN after
    BY <1>2
  <2>2. CASE f = p.of
    BY <1>1, <1>3, <2>1, <2>2 DEF Put
  <2>3. CASE f # p.of
    BY <1>3, <2>1, <2>3 DEF Put, Inv, TypeOK
  <2>. QED
    BY <2>2, <2>3
<1>6. TypeOK'
  BY <1>2, <1>5, GoesTo DEF Inv, TypeOK
<1>. QED
  BY <1>2, <1>4, <1>6, IdleOK, StepBeside

(* A page's form of the list is filled in.                                   *)
LEMMA ListForms ==
  ASSUME MaterialsOK, Inv, NEW s \in Sessions,
         \/ \E picked \in SUBSET NameSet, type \in Types : PickMaterials(s, picked, type)
         \/ \E removed \in SUBSET NameSet : EditList(s, removed)
         \/ \E file \in Files : ReadMarks(s, file)
  PROVE  Inv'
<1>1. UNCHANGED <<product, bill, stock, taken, moved, billed, crossed>>
  BY DEF PickMaterials, EditList, ReadMarks, tables
<1>2. ASSUME NEW picked, NEW type \in Types, PickMaterials(s, picked, type)
      PROVE  Inv'
  <2> DEFINE p == [at |-> "add", picked |-> picked, type |-> type]
  <2>1. SessionOK(billed, p) /\ GoesOn(s, p)
    BY DEF SessionOK, Form, GoesOn, Busy
  <2>. QED
    BY <1>1, <1>2, <2>1, StepAside DEF PickMaterials
<1>3. ASSUME NEW removed, EditList(s, removed)
      PROVE  Inv'
  <2>0. PICK changed \in SUBSET (Registered \ removed) : \E new \in [changed -> Types \cup {NoType}] :
          Goes(s, [at |-> "list", removed |-> removed,
                   types |-> [n \in Registered \ removed |-> IF n \in changed THEN new[n] ELSE Summary[n]]])
    BY <1>3 DEF EditList
  <2>1. PICK new \in [changed -> Types \cup {NoType}] :
          Goes(s, [at |-> "list", removed |-> removed,
                   types |-> [n \in Registered \ removed |-> IF n \in changed THEN new[n] ELSE Summary[n]]])
    BY <2>0
  <2> DEFINE types == [n \in Registered \ removed |-> IF n \in changed THEN new[n] ELSE Summary[n]]
             p == [at |-> "list", removed |-> removed, types |-> types]
  <2>2. \A n \in Registered : Summary[n] \in Types \cup {NoType}
    BY RegisteredNames DEF Summary, Inv, TypeOK, Marks
  <2>3. \A n \in Registered \ removed : types[n] \in Types \cup {NoType}
    BY <2>1, <2>2
  <2>4. types \in [DOMAIN types -> Types \cup {NoType}]
    BY <2>3
  <2>5. SessionOK(billed, p) /\ GoesOn(s, p)
    BY <2>4 DEF SessionOK, Form, GoesOn, Busy
  <2>. QED
    BY <1>1, <2>1, <2>5, StepAside
<1>4. ASSUME NEW file \in Files, ReadMarks(s, file)
      PROVE  Inv'
  <2> DEFINE p == [at |-> "import", file |-> file, marked |-> Registered]
  <2>1. SessionOK(billed, p) /\ GoesOn(s, p)
    BY DEF SessionOK, Form, GoesOn, Busy, MaterialsOK
  <2>. QED
    BY <1>1, <1>4, <2>1, StepAside DEF ReadMarks
<1>. QED
  BY <1>2, <1>3, <1>4

(* The products a write of the list leaves are well formed, and those that   *)
(* are no material have no type if it was so before.                         *)
LEMMA ListWritten ==
  ASSUME MaterialsOK, Inv, NEW s \in Sessions, SetMaterials(s) \/ UpdateMaterials(s) \/ ReplaceMaster(s)
  PROVE  /\ DOMAIN product' \subseteq NameSet /\ product' \in [DOMAIN product' -> Marks]
         /\ TypesAreOfMaterials => TypesAreOfMaterials'
<1>. DEFINE p == session[s]
<1>1. product \in [DOMAIN product -> Marks] /\ DOMAIN product \subseteq NameSet
  BY DEF Inv, TypeOK
<1>2. SessionOK(billed, p)
  BY DEF Inv
<1>3. CASE SetMaterials(s)
  <2>1. p.type \in Types
    BY <1>2, <1>3 DEF SetMaterials, At, SessionOK, Form, Idle, Again, Check, Select, Take, Done
  <2>. QED
    BY <1>1, <1>3, <2>1 DEF SetMaterials, Marks, TypesAreOfMaterials
<1>4. CASE UpdateMaterials(s)
  <2>1. p.types \in [DOMAIN p.types -> Types \cup {NoType}]
    BY <1>2, <1>4 DEF UpdateMaterials, At, SessionOK, Form, Idle, Again, Check, Select, Take, Done
  <2>2. DOMAIN product' = DOMAIN product
    BY <1>4 DEF UpdateMaterials
  <2>3. ASSUME NEW n \in DOMAIN product
        PROVE  /\ product'[n] \in Marks
               /\ (product[n].type # NoType => product[n].material)
                    => (product'[n].type # NoType => product'[n].material)
    <3>1. CASE n \in p.removed
      BY <1>4, <3>1 DEF UpdateMaterials, Marks
    <3>2. CASE n \notin p.removed /\ n \in DOMAIN p.types /\ product[n].material
      <4>1. product'[n] = [product[n] EXCEPT !.type = p.types[n]]
        BY <1>4, <3>2 DEF UpdateMaterials
      <4>2. product[n] \in Marks /\ p.types[n] \in Types \cup {NoType}
        BY <1>1, <2>1, <3>2
      <4>. QED
        BY <3>2, <4>1, <4>2 DEF Marks
    <3>3. CASE n \notin p.removed /\ ~(n \in DOMAIN p.types /\ product[n].material)
      BY <1>1, <1>4, <3>3 DEF UpdateMaterials
    <3>. QED
      BY <3>1, <3>2, <3>3
  <2>4. product' \in [DOMAIN product' -> Marks]
    BY <1>4, <2>2, <2>3 DEF UpdateMaterials
  <2>. QED
    BY <1>1, <2>2, <2>3, <2>4 DEF TypesAreOfMaterials
<1>5. CASE ReplaceMaster(s)
  <2>1. p.file \subseteq NameSet
    BY <1>2, <1>5 DEF ReplaceMaster, At, SessionOK, Form, Idle, Again, Check, Select, Take, Done
  <2>. QED
    BY <1>5, <2>1 DEF ReplaceMaster, Marks, TypesAreOfMaterials
<1>. QED
  BY <1>3, <1>4, <1>5

LEMMA ListSaves ==
  ASSUME MaterialsOK, Inv, NEW s \in Sessions, SetMaterials(s) \/ UpdateMaterials(s) \/ ReplaceMaster(s)
  PROVE  Inv'
<1>1. Goes(s, Idle) /\ UNCHANGED <<bill, stock, taken, moved, billed, crossed>>
  BY DEF SetMaterials, UpdateMaterials, ReplaceMaster, Rests, seen
<1>2. TypeOK'
  BY <1>1, ListWritten, GoesTo DEF Inv, TypeOK
<1>. QED
  BY <1>1, <1>2, IdleOK, StepBeside

-----------------------------------------------------------------------------
(* Every step keeps the invariant.                                           *)
LEMMA InitInv ==
  ASSUME MaterialsOK, Init
  PROVE  Inv /\ TypesAreOfMaterials
<1>1. session = [s \in Sessions |-> Idle] /\ ~crossed
  BY DEF Init
<1>2. TypeOK
  <2>1. DOMAIN product \subseteq NameSet /\ product \in [DOMAIN product -> Marks]
    BY DEF Init, MaterialsOK
  <2>2. \A f \in DOMAIN bill : IsBill(bill[f]) /\ f \in DOMAIN billed /\ bill[f] \in billed[f]
    BY DEF Init, MaterialsOK
  <2>3. stock \in [RowIds -> Nat] /\ taken \in [NameSet -> Nat] /\ moved \in [NameSet -> Int]
    BY DEF Init, MaterialsOK
  <2>. QED
    <3>1. session = [s \in Sessions |-> session[s]]
      <4>1. \A s \in Sessions : session[s] = Idle
        BY <1>1
      <4>2. [s \in Sessions |-> session[s]] = [s \in Sessions |-> Idle]
        BY <4>1, Zenon
      <4>. QED
        BY <1>1, <4>2, Zenon
    <3>2. crossed \in BOOLEAN
      BY DEF Init
    <3>. QED
      BY <2>1, <2>2, <2>3, <3>1, <3>2, Zenon DEF TypeOK
<1>3. \A s \in Sessions : SessionOK(billed, session[s]) /\ session[s].at = "idle"
  BY <1>1, IdleOK DEF Idle
<1>4. OneWriter /\ \A s \in Sessions : Deducted(s) /\ ReadsStand(s)
  BY <1>3 DEF OneWriter, Writing, Deducted, Producing, ReadsStand, At
<1>5. \A m \in NameSet : OnHand(InitialStock, m) \in Nat
  BY OnHandNat DEF MaterialsOK
<1>6. StockAccounted
  BY <1>5 DEF Init, StockAccounted
<1>7. TypesAreOfMaterials
  BY DEF Init, TypesAreOfMaterials, MaterialsOK
<1>. QED
  BY <1>2, <1>3, <1>4, <1>6, <1>7 DEF Inv

LEMMA NextInv ==
  ASSUME MaterialsOK, Inv, Next
  PROVE  Inv'
<1>1. ASSUME NEW s \in Sessions, Production(s)
      PROVE  Inv'
  <2>1. ASSUME NEW f, NEW amount \in Amounts, Produce(s, f, amount)
        PROVE  Inv'
    BY <2>1, PlanStep DEF Produce
  <2>2. ASSUME PlanAgain(s)
        PROVE  Inv'
    <3>1. session[s].amount \in Amounts
      BY <2>2, Stages DEF PlanAgain, At, Inv, Again
    <3>. QED
      BY <2>2, <3>1, PlanStep DEF PlanAgain
  <2>. QED
    BY <1>1, <2>1, <2>2, CheckStep, SelectStep, TakeStep, NextStep, CommitStep, StopStep DEF Production
<1>2. ASSUME NEW s \in Sessions, BillPage(s)
      PROVE  Inv'
  BY <1>2, BillForms, BillSaves DEF BillPage
<1>3. ASSUME NEW s \in Sessions, ListPages(s)
      PROVE  Inv'
  BY <1>3, ListForms, ListSaves DEF ListPages
<1>. QED
  BY <1>1, <1>2, <1>3, ChangeStep DEF Next

LEMMA StutterInv ==
  ASSUME Inv, UNCHANGED vars
  PROVE  Inv'
<1>1. UNCHANGED <<product, bill, stock, taken, session, moved, billed, crossed>>
  BY DEF vars, tables, seen
<1>2. TypeOK' /\ OneWriter' /\ StockAccounted' /\ \A s \in Sessions : SessionOK(billed', session'[s])
  BY <1>1 DEF Inv, TypeOK, OneWriter, Writing, StockAccounted
<1>3. ASSUME ~crossed', NEW s \in Sessions
      PROVE  Deducted(s)' /\ ReadsStand(s)'
  <2>1. Deducted(s) /\ ReadsStand(s)
    BY <1>1, <1>3 DEF Inv
  <2>2. Views(s)' = Views(s) /\ \A r : View(s, r)' = View(s, r)
    BY <1>1 DEF Views, View
  <2>. QED
    BY <1>1, <2>1, <2>2 DEF Deducted, ReadsStand, Producing, Writing, At
<1>. QED
  BY <1>2, <1>3 DEF Inv

LEMMA InvHolds ==
  ASSUME MaterialsOK
  PROVE  Spec => []Inv
<1>1. Init => Inv
  BY InitInv
<1>2. Inv /\ [Next]_vars => Inv'
  BY NextInv, StutterInv
<1>. QED
  BY <1>1, <1>2, PTL DEF Spec

-----------------------------------------------------------------------------
(* The history of productions accounts for the stock of every material,      *)
(* as long as no production has written rows another call changed after it   *)
(* read them.                                                                *)
THEOREM HistoryAccountsForStock ==
  ASSUME MaterialsOK
  PROVE  Spec => []StockAccounted
<1>1. Inv => StockAccounted
  BY DEF Inv
<1>. QED
  BY <1>1, InvHolds, PTL

(* A commit takes of every material what one bill asks for.                  *)
LEMMA CommitFollowsBill ==
  ASSUME MaterialsOK, Inv, [Next]_vars, NEW s \in Sessions, At(s, "commit"), taken' # taken
  PROVE  \E b \in billed[session[s].of] : \A m \in NameSet :
           (taken'[m] - taken[m]) * Unit = IF m \in DOMAIN b THEN b[m] * session[s].amount ELSE 0
<1>. DEFINE p == session[s]
<1>1. Done(billed, p) /\ Making(billed, p)
  BY Stages DEF Inv, At
<1>2. PICK t \in Sessions : Commit(t)
  BY ZenonT(60) DEF Next, vars, tables, Production, BillPage, ListPages, Produce, PlanAgain, CheckStock, SelectRows,
         TakeRow, NextMaterial, Stop, ChangeStock, EditBill, SaveBill, PickMaterials, SetMaterials, EditList,
         UpdateMaterials, ReadMarks, ReplaceMaster
<1>3. t = s
  <2>1. Done(billed, session[t])
    BY <1>2, Stages DEF Inv, Commit, At
  <2>2. Writing(s) /\ Writing(t)
    BY <1>1, <2>1 DEF Writing, Done
  <2>. QED
    BY <2>2 DEF Inv, OneWriter
<1>4. taken' = [m \in NameSet |-> taken[m] + p.took[m]]
  BY <1>2, <1>3 DEF Commit
<1>5. PICK b \in billed[p.of] : DOMAIN b = DOMAIN p.need /\ \A m \in DOMAIN b : p.need[m] * Unit = b[m] * p.amount
  BY <1>1 DEF Making, Planned
<1>6. ASSUME NEW m \in NameSet
      PROVE  (taken'[m] - taken[m]) * Unit = IF m \in DOMAIN b THEN b[m] * p.amount ELSE 0
  <2>1. p.took[m] = IF m \in DOMAIN p.need THEN p.need[m] ELSE 0
    BY <1>1 DEF Making, Done, TookOf
  <2>2. taken[m] \in Nat /\ p.took[m] \in Nat /\ Unit \in Nat
    BY <1>1 DEF Making, Inv, TypeOK, MaterialsOK
  <2>3. taken'[m] - taken[m] = p.took[m]
    BY <1>4, <2>2
  <2>4. CASE m \in DOMAIN b
    BY <1>5, <2>1, <2>3, <2>4
  <2>5. CASE m \notin DOMAIN b
    BY <1>5, <2>1, <2>2, <2>3, <2>5
  <2>. QED
    BY <2>4, <2>5
<1>. QED
  BY <1>6

(* A production takes what one bill asks for, of every material, or nothing. *)
THEOREM ProductionsTakeWholeBills ==
  ASSUME MaterialsOK
  PROVE  Spec => ProductionsFollowBill
<1>1. Inv /\ [Next]_vars =>
        [\A s \in Sessions : At(s, "commit") /\ taken' # taken =>
           LET p == session[s]
           IN  \E b \in billed[p.of] : \A m \in NameSet :
                 (taken'[m] - taken[m]) * Unit = IF m \in DOMAIN b THEN b[m] * p.amount ELSE 0]_vars
  BY CommitFollowsBill
<1>. QED
  BY <1>1, InvHolds, PTL DEF Spec, ProductionsFollowBill

(* What is no material has no type, whatever the sessions overwrite.         *)
THEOREM TypesStayWithMaterials ==
  ASSUME MaterialsOK
  PROVE  Spec => []TypesAreOfMaterials
<1>1. Init => TypesAreOfMaterials
  BY InitInv
<1>2. Inv /\ TypesAreOfMaterials /\ [Next]_vars => TypesAreOfMaterials'
  <2> SUFFICES ASSUME Inv, TypesAreOfMaterials, [Next]_vars PROVE TypesAreOfMaterials'
    OBVIOUS
  <2>1. ASSUME NEW s \in Sessions, SetMaterials(s) \/ UpdateMaterials(s) \/ ReplaceMaster(s)
        PROVE  TypesAreOfMaterials'
    BY <2>1, ListWritten
  <2>2. ASSUME product' = product
        PROVE  TypesAreOfMaterials'
    BY <2>2 DEF TypesAreOfMaterials
  <2>. QED
    BY <2>1, <2>2, ZenonT(60) DEF Next, vars, tables, Production, BillPage, ListPages, Produce, PlanAgain, CheckStock,
       SelectRows, TakeRow, NextMaterial, Commit, Stop, ChangeStock, EditBill, SaveBill, PickMaterials, EditList, ReadMarks
<1>. QED
  BY <1>1, <1>2, InvHolds, PTL DEF Spec
=============================================================================
