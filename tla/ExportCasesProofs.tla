-------------------------- MODULE ExportCasesProofs --------------------------
(****************************************************************************)
(* No unit of stock is invented, reserved twice or lost as cases are picked,  *)
(* edited, packed, merged, sold, returned and cancelled, whatever crashes    *)
(* between two statements and whatever call fails: for any cases, keys,      *)
(* reservations and rows.                                                    *)
(*                                                                           *)
(* The argument: every statement, on its own, keeps the units, provided that *)
(* its arguments are of the right kind and that a reservation nobody sold    *)
(* from has no sold units; every plan and every except branch is made of     *)
(* such statements.                                                          *)
(*                                                                           *)
(* The case's reservation waits for no more than its rows still need once    *)
(* the registration page is done: opening it releases what exceeds, the      *)
(* repair saves rows as they are, which asks for no more than was waiting    *)
(* or, where nothing was, than the rows hold, and the buttons only sell or   *)
(* withdraw what waits.                                                      *)
(*                                                                           *)
(* And, for any cases, sessions and works: when every call has ended, a case *)
(* has its folder, and no step loses a file a user put into one              *)
(* (CaseFolders; the second half of this module).                            *)
(****************************************************************************)
EXTENDS ExportCases, CaseFolders, DataFacts

-----------------------------------------------------------------------------
(* Sums of quantities.                                                       *)

LEMMA RowFields ==
  ASSUME NEW d \in Tables
  PROVE  /\ Used(d) \subseteq RowIds /\ IsFiniteSet(Used(d))
         /\ \A i \in Used(d) : /\ d.rows[i] \in Row /\ d.rows[i].qty \in Nat /\ d.rows[i].qty > 0
                               /\ d.rows[i].key \in Keys /\ d.rows[i].case \in Cases
                               /\ d.rows[i].box \in Boxes \cup {Unboxed}
<1>1. Used(d) \subseteq RowIds /\ IsFiniteSet(Used(d))
  BY TablesOK, FS_Subset DEF Used
<1>2. ASSUME NEW i \in Used(d) PROVE d.rows[i] \in Row
  <2>1. d.rows \in [RowIds -> Row \cup {NoRow}] /\ i \in RowIds /\ d.rows[i] # NoRow
    BY DEF Tables, Used
  <2> QED BY <2>1
<1> QED BY <1>1, <1>2 DEF Row

LEMMA QtyNat ==
  ASSUME NEW d \in Tables, NEW S \in SUBSET Used(d)
  PROVE  QtyOf(d, S) \in Nat
<1> DEFINE f == [i \in S |-> d.rows[i].qty]
<1>1. IsFiniteSet(S) /\ \A i \in S : f[i] \in Nat
  BY RowFields, FS_Subset
<1> HIDE DEF f
<1>2. SumFunctionOnSet(f, S) \in Nat
  BY <1>1, SumIn
<1> QED BY <1>2 DEF QtyOf, f

(* A sum of naturals is zero only if every one of them is.                   *)
LEMMA ZeroSum ==
  ASSUME NEW f, NEW S, IsFiniteSet(S), \A x \in S : f[x] \in Nat, NEW e \in S
  PROVE  SumFunctionOnSet(f, S) \in Nat /\ SumFunctionOnSet(f, S) >= f[e]
<1>1. IsFiniteSet(S \ {e})
  BY FS_Subset
<1>2. SumFunctionOnSet(f, S) = f[e] + SumFunctionOnSet(f, S \ {e})
  BY SumSplit
<1>3. SumFunctionOnSet(f, S \ {e}) \in Nat
  BY <1>1, SumIn
<1> QED BY <1>2, <1>3

LEMMA SumOfZeros ==
  ASSUME NEW f, NEW S, IsFiniteSet(S), \A x \in S : f[x] = 0
  PROVE  SumFunctionOnSet(f, S) = 0
<1> DEFINE N == {n \in Nat : \A s \in SUBSET S : Cardinality(s) = n => SumFunctionOnSet(f, s) = 0}
<1>0. \A s \in SUBSET S : IsFiniteSet(s)
  BY FS_Subset
<1>1. 0 \in N
  <2>1. \A s \in SUBSET S : Cardinality(s) = 0 => s = {}
    BY <1>0, FS_EmptySet
  <2> QED BY <2>1, SumEmpty
<1>2. ASSUME NEW n \in Nat, n \in N PROVE n + 1 \in N
  <2>1. ASSUME NEW s \in SUBSET S, Cardinality(s) = n + 1 PROVE SumFunctionOnSet(f, s) = 0
    <3>1. IsFiniteSet(s) /\ s # {}
      BY <1>0, <2>1, FS_EmptySet
    <3> DEFINE r == s \ {Pick(s)}
    <3>2. Pick(s) \in s /\ Cardinality(s \ {Pick(s)}) = Cardinality(s) - 1
      BY <3>1, PickFacts
    <3>3. r \in SUBSET S /\ Cardinality(r) = n /\ Pick(s) \in S
      BY <2>1, <3>2
    <3>4. SumFunctionOnSet(f, r) = 0
      BY <1>2, <3>3
    <3>5. SumFunctionOnSet(f, s) = f[Pick(s)] + SumFunctionOnSet(f, r)
      BY <3>1, SumStep
    <3> HIDE DEF r
    <3> QED BY <3>3, <3>4, <3>5
  <2> QED BY <2>1
<1>3. Cardinality(S) \in N
  <2> HIDE DEF N
  <2> QED BY <1>1, <1>2, SizeInduction
<1> QED BY <1>3

LEMMA TotalFacts ==
  ASSUME NEW q \in [Keys -> Nat]
  PROVE  Total(q) \in Nat /\ (Total(q) = 0 => q = Nothing)
<1>1. \A k \in Keys : Total(q) \in Nat /\ Total(q) >= q[k]
  BY TablesOK, ZeroSum DEF Total
<1>2. Keys # {}
  BY TablesOK
<1>3. Total(q) = 0 => \A k \in Keys : q[k] = 0
  BY <1>1
<1> QED BY <1>1, <1>2, <1>3 DEF Nothing

-----------------------------------------------------------------------------
(* The units of the tables.                                                  *)

(* Sold units are written with the status of a sale.                         *)
SalesMarked(d) ==
  \A w \in Reservations : d.held[w].status \in {"none", "waiting"} => d.held[w].sold = Nothing
(* From d to e no unit was invented, and none lost but of a staged key.      *)
NoneLost(d, e) ==
  \A k \in Keys : /\ UnitsOf(d, k) \in Int /\ UnitsOf(e, k) \in Int
                  /\ UnitsOf(e, k) <= UnitsOf(d, k)
                  /\ k \notin StagedKeys => UnitsOf(e, k) = UnitsOf(d, k)

LEMMA HoldsNat ==
  ASSUME NEW r \in Reservation, NEW k \in Keys
  PROVE  /\ Holds(r, k) \in Nat /\ r.wait[k] \in Nat /\ r.sold[k] \in Nat
         /\ r.wait \in [Keys -> Nat] /\ r.sold \in [Keys -> Nat]
BY DEF Holds, Reservation

(* Where one reservation changes, the units change by what it and the shelf   *)
(* gain and lose.                                                            *)
LEMMA OneChanges ==
  ASSUME NEW d \in Tables, NEW e \in Tables, NEW w \in Reservations,
         \A v \in Reservations \ {w} : e.held[v] = d.held[v], NEW k \in Keys
  PROVE  /\ UnitsOf(d, k) \in Int /\ UnitsOf(e, k) \in Int
         /\ UnitsOf(e, k) - UnitsOf(d, k)
              = (e.shelf[k] + Holds(e.held[w], k)) - (d.shelf[k] + Holds(d.held[w], k))
<1> DEFINE f == [v \in Reservations |-> Holds(d.held[v], k)]
           g == [v \in Reservations |-> Holds(e.held[v], k)]
           R == Reservations \ {w}
<1>1. /\ \A v \in Reservations : d.held[v] \in Reservation /\ e.held[v] \in Reservation
      /\ d.shelf[k] \in Nat /\ e.shelf[k] \in Nat
  BY DEF Tables
<1>2. \A v \in Reservations : f[v] \in Nat /\ g[v] \in Nat
  BY <1>1, HoldsNat
<1>3. \A v \in R : f[v] = g[v]
  OBVIOUS
<1>4. f[w] = Holds(d.held[w], k) /\ g[w] = Holds(e.held[w], k)
  OBVIOUS
<1>5. /\ UnitsOf(d, k) = d.shelf[k] + SumFunctionOnSet(f, Reservations)
      /\ UnitsOf(e, k) = e.shelf[k] + SumFunctionOnSet(g, Reservations)
  BY DEF UnitsOf
<1> HIDE DEF f, g
<1>6. IsFiniteSet(Reservations) /\ IsFiniteSet(R)
  BY TablesOK, FS_Subset
<1>7. /\ SumFunctionOnSet(f, Reservations) = f[w] + SumFunctionOnSet(f, R)
      /\ SumFunctionOnSet(g, Reservations) = g[w] + SumFunctionOnSet(g, R)
  BY <1>2, <1>6, SumSplit
<1>8. SumFunctionOnSet(f, R) = SumFunctionOnSet(g, R) /\ SumFunctionOnSet(f, R) \in Nat
  BY <1>2, <1>3, <1>6, SumSame, SumIn
<1> QED BY <1>1, <1>2, <1>4, <1>5, <1>7, <1>8

(* Where neither the shelf nor a reservation changes, no unit moves.         *)
LEMMA NoneMoves ==
  ASSUME NEW d \in Tables, NEW e \in Tables, e.held = d.held, e.shelf = d.shelf
  PROVE  NoneLost(d, e)
<1>1. ASSUME NEW k \in Keys PROVE UnitsOf(e, k) = UnitsOf(d, k) /\ UnitsOf(d, k) \in Int
  <2> DEFINE f == [v \in Reservations |-> Holds(d.held[v], k)]
  <2>1. d.shelf[k] \in Nat /\ \A v \in Reservations : f[v] \in Nat
    BY HoldsNat DEF Tables
  <2>2. UnitsOf(d, k) = d.shelf[k] + SumFunctionOnSet(f, Reservations) /\ UnitsOf(e, k) = UnitsOf(d, k)
    BY DEF UnitsOf
  <2> HIDE DEF f
  <2>3. SumFunctionOnSet(f, Reservations) \in Nat
    BY <2>1, TablesOK, SumIn
  <2> QED BY <2>1, <2>2, <2>3
<1> QED BY <1>1 DEF NoneLost

LEMMA NoneLostTrans ==
  ASSUME NEW a, NEW b, NEW c, NoneLost(a, b), NoneLost(b, c)
  PROVE  NoneLost(a, c)
BY DEF NoneLost

-----------------------------------------------------------------------------
(* The calls of services/export_waiting.py.                                  *)

Sound(d) == d \in Tables /\ SalesMarked(d)

LEMMA HeldFacts ==
  ASSUME NEW d, Sound(d), NEW w \in Reservations
  PROVE  /\ d \in Tables /\ d.held \in [Reservations -> Reservation] /\ d.shelf \in [Keys -> Nat]
         /\ d.held[w] \in Reservation /\ d.held[w].wait \in [Keys -> Nat]
         /\ d.held[w].sold \in [Keys -> Nat]
         /\ d.held[w].status \in {"none", "waiting"} => d.held[w].sold = Nothing
BY HoldsNat DEF Sound, SalesMarked, Tables, Reservation

LEMMA NoSuchFacts ==
  /\ Nothing \in [Keys -> Nat] /\ NoSuch \in Reservation /\ NoSuch.sold = Nothing
  /\ \A k \in Keys : Nothing[k] = 0 /\ Holds(NoSuch, k) = 0
BY DEF Nothing, NoSuch, Reservation, Holds

(* One reservation and the shelf change: what that has to preserve.          *)
LEMMA HeldMoves ==
  ASSUME NEW d, Sound(d), NEW w \in Reservations, NEW r \in Reservation, NEW s \in [Keys -> Nat],
         r.status \in {"none", "waiting"} => r.sold = Nothing,
         \A k \in Keys : /\ s[k] + Holds(r, k) <= d.shelf[k] + Holds(d.held[w], k)
                         /\ k \notin StagedKeys => s[k] + Holds(r, k) = d.shelf[k] + Holds(d.held[w], k),
         NEW e \in Tables, e.shelf = s, e.held = [d.held EXCEPT ![w] = r]
  PROVE  Sound(e) /\ NoneLost(d, e)
<1>1. d \in Tables /\ d.held \in [Reservations -> Reservation]
  BY HeldFacts
<1>2. e \in Tables /\ e.shelf = s /\ e.held = [d.held EXCEPT ![w] = r]
  OBVIOUS
<1>3. e.held[w] = r /\ \A v \in Reservations \ {w} : e.held[v] = d.held[v]
  BY <1>1, <1>2
<1>4. SalesMarked(e)
  BY <1>3 DEF SalesMarked, Sound
<1>5. ASSUME NEW k \in Keys
      PROVE  /\ UnitsOf(d, k) \in Int /\ UnitsOf(e, k) \in Int
             /\ UnitsOf(e, k) <= UnitsOf(d, k)
             /\ k \notin StagedKeys => UnitsOf(e, k) = UnitsOf(d, k)
  <2>1. /\ UnitsOf(d, k) \in Int /\ UnitsOf(e, k) \in Int
        /\ UnitsOf(e, k) - UnitsOf(d, k)
             = (s[k] + Holds(r, k)) - (d.shelf[k] + Holds(d.held[w], k))
    <3>1. /\ UnitsOf(d, k) \in Int /\ UnitsOf(e, k) \in Int
          /\ UnitsOf(e, k) - UnitsOf(d, k)
               = (e.shelf[k] + Holds(e.held[w], k)) - (d.shelf[k] + Holds(d.held[w], k))
      BY ONLY <1>1, <1>2, <1>3, OneChanges
    <3> QED BY <1>2, <1>3, <3>1
  <2>2. /\ s[k] \in Nat /\ Holds(r, k) \in Nat /\ d.shelf[k] \in Nat /\ Holds(d.held[w], k) \in Nat
    BY <1>1, HoldsNat, HeldFacts
  <2> QED BY <2>1, <2>2
<1> QED BY <1>2, <1>4, <1>5 DEF Sound, NoneLost

LEMMA HeldChanges ==
  ASSUME NEW d, Sound(d), NEW w \in Reservations, NEW r \in Reservation, NEW s \in [Keys -> Nat],
         r.status \in {"none", "waiting"} => r.sold = Nothing,
         \A k \in Keys : /\ s[k] + Holds(r, k) <= d.shelf[k] + Holds(d.held[w], k)
                         /\ k \notin StagedKeys => s[k] + Holds(r, k) = d.shelf[k] + Holds(d.held[w], k),
         NEW e, e = [d EXCEPT !.held[w] = r, !.shelf = s]
  PROVE  Sound(e) /\ NoneLost(d, e)
<1>1. d \in Tables
  BY HeldFacts
<1>2. e \in Tables /\ e.shelf = s /\ e.held = [d.held EXCEPT ![w] = r]
  BY <1>1 DEF Tables
<1>3. \A k \in Keys : /\ s[k] + Holds(r, k) <= d.shelf[k] + Holds(d.held[w], k)
                      /\ k \notin StagedKeys => s[k] + Holds(r, k) = d.shelf[k] + Holds(d.held[w], k)
  OBVIOUS
<1>4. r.status \in {"none", "waiting"} => r.sold = Nothing
  OBVIOUS
<1> QED BY ONLY Sound(d), <1>2, <1>3, <1>4, HeldMoves

LEMMA HeldAlone ==
  ASSUME NEW d, Sound(d), NEW w \in Reservations, NEW r \in Reservation,
         r.status \in {"none", "waiting"} => r.sold = Nothing,
         \A k \in Keys : Holds(r, k) = Holds(d.held[w], k),
         NEW e, e = [d EXCEPT !.held[w] = r]
  PROVE  Sound(e) /\ NoneLost(d, e)
<1>1. d \in Tables /\ d.shelf \in [Keys -> Nat]
  BY HeldFacts
<1>2. e \in Tables /\ e.shelf = d.shelf /\ e.held = [d.held EXCEPT ![w] = r]
  BY <1>1 DEF Tables
<1>3. \A k \in Keys : /\ d.shelf[k] + Holds(r, k) <= d.shelf[k] + Holds(d.held[w], k)
                      /\ d.shelf[k] + Holds(r, k) = d.shelf[k] + Holds(d.held[w], k)
  BY <1>1, HoldsNat
<1>4. r.status \in {"none", "waiting"} => r.sold = Nothing
  OBVIOUS
<1>5. \A k \in Keys : k \notin StagedKeys =>
        d.shelf[k] + Holds(r, k) = d.shelf[k] + Holds(d.held[w], k)
  BY <1>3
<1> QED BY ONLY Sound(d), <1>1, <1>2, <1>3, <1>4, <1>5, HeldMoves

(* What a reservation becomes when a cart is saved in it.                    *)
LEMMA AfterFacts ==
  ASSUME NEW r \in Reservation, NEW cart \in [Keys -> Nat],
         r.status \in {"none", "waiting"} => r.sold = Nothing
  PROVE  /\ After(r, cart) \in Reservation
         /\ After(r, cart).status \in {"none", "waiting"} => After(r, cart).sold = Nothing
<1> DEFINE sold == [k \in Keys |-> Lesser(r.sold[k], cart[k])]
           wait == [k \in Keys |-> cart[k] - sold[k]]
           status == IF Total(wait) > 0 THEN "partial"
                     ELSE IF Total(sold) > 0 THEN "confirmed" ELSE "waiting"
<1>1. r.wait \in [Keys -> Nat] /\ r.sold \in [Keys -> Nat]
  BY DEF Reservation
<1>2. sold \in [Keys -> Nat] /\ wait \in [Keys -> Nat]
  BY <1>1 DEF Lesser
<1>3. After(r, cart) =
        CASE r.status \in {"none", "waiting"} -> [r EXCEPT !.wait = cart, !.status = "waiting"]
          [] r.sold = cart /\ cart # Nothing -> r
          [] OTHER -> [r EXCEPT !.wait = wait, !.sold = sold, !.status = status]
  BY DEF After
<1> HIDE DEF sold, wait
<1>4. CASE r.status \in {"none", "waiting"}
  <2>1. r.sold = Nothing
    BY <1>4
  <2> QED BY <1>3, <1>4, <2>1 DEF Reservation
<1>5. CASE r.status \notin {"none", "waiting"} /\ r.sold = cart /\ cart # Nothing
  BY <1>3, <1>5
<1>6. CASE r.status \notin {"none", "waiting"} /\ ~(r.sold = cart /\ cart # Nothing)
  <2>1. After(r, cart) = [r EXCEPT !.wait = wait, !.sold = sold, !.status = status]
    BY <1>3, <1>6
  <2>2. status \in {"partial", "confirmed", "waiting"} /\ (status = "waiting" => sold = Nothing)
    BY <1>2, TotalFacts
  <2> HIDE DEF status
  <2> QED BY <1>2, <2>1, <2>2 DEF Reservation
<1> QED BY <1>4, <1>5, <1>6

LEMMA ReserveKeeps ==
  ASSUME NEW d, Sound(d), NEW w \in Reservations, NEW c \in Cases, NEW cart \in [Keys -> Nat],
         CanReserve(d, w, cart)
  PROVE  Sound(Reserve(d, w, c, cart)) /\ NoneLost(d, Reserve(d, w, c, cart))
<1> DEFINE a == After(d.held[w], cart)
           r == [a EXCEPT !.no = c]
           s == Exchange(d.shelf, d.held[w], r)
<1>1. /\ d.held[w] \in Reservation /\ d.shelf \in [Keys -> Nat]
      /\ d.held[w].status \in {"none", "waiting"} => d.held[w].sold = Nothing
  BY HeldFacts
<1>2. a \in Reservation /\ (a.status \in {"none", "waiting"} => a.sold = Nothing)
  BY <1>1, AfterFacts
<1>3. \A k \in Keys : d.shelf[k] + Holds(d.held[w], k) >= Holds(a, k)
  BY DEF CanReserve
<1>4. Reserve(d, w, c, cart) = [d EXCEPT !.held[w] = r, !.shelf = s]
  BY DEF Reserve
<1> HIDE DEF a
<1>5. /\ r \in Reservation /\ r.status = a.status /\ r.sold = a.sold /\ r.wait = a.wait
  BY <1>2 DEF Reservation
<1> HIDE DEF r
<1>6. \A k \in Keys : /\ Holds(r, k) = Holds(a, k) /\ Holds(r, k) \in Nat
                      /\ Holds(d.held[w], k) \in Nat
  BY <1>1, <1>5, HoldsNat DEF Holds
<1>7. \A k \in Keys : s[k] = d.shelf[k] + Holds(d.held[w], k) - Holds(r, k) /\ d.shelf[k] \in Nat
  BY <1>1 DEF Exchange
<1>8. s \in [Keys -> Nat]
  <2>1. s = [k \in Keys |-> s[k]]
    BY DEF Exchange
  <2>2. \A k \in Keys : s[k] \in Nat
    BY <1>3, <1>6, <1>7
  <2> HIDE DEF s
  <2> QED BY <2>1, <2>2
<1> HIDE DEF s
<1>9. \A k \in Keys : s[k] + Holds(r, k) = d.shelf[k] + Holds(d.held[w], k)
                      /\ s[k] + Holds(r, k) \in Nat
  BY <1>6, <1>7, <1>8
<1>10. \A k \in Keys : s[k] + Holds(r, k) <= d.shelf[k] + Holds(d.held[w], k)
  BY <1>9
<1>11. r.status \in {"none", "waiting"} => r.sold = Nothing
  BY <1>2, <1>5
<1> DEFINE e == Reserve(d, w, c, cart)
<1>12. e = [d EXCEPT !.held[w] = r, !.shelf = s]
  BY <1>4
<1> HIDE DEF e
<1>13. Sound(e) /\ NoneLost(d, e)
  BY ONLY Sound(d), <1>5, <1>8, <1>9, <1>10, <1>11, <1>12, HeldChanges
<1> QED BY <1>13 DEF e

(* Cancelling gives the waiting units back; sold units stay sold.            *)
LEMMA CancelKeeps ==
  ASSUME NEW d, Sound(d), NEW w \in Reservations
  PROVE  Sound(CancelReservation(d, w)) /\ NoneLost(d, CancelReservation(d, w))
<1> DEFINE q == d.held[w]
           r == IF Total(q.sold) = 0 THEN NoSuch
                ELSE [q EXCEPT !.wait = Nothing, !.status = "cancelled"]
           s == [k \in Keys |-> d.shelf[k] + q.wait[k]]
           e == CancelReservation(d, w)
<1>1. /\ q \in Reservation /\ q.wait \in [Keys -> Nat] /\ q.sold \in [Keys -> Nat]
      /\ d.shelf \in [Keys -> Nat]
  BY HeldFacts
<1>2. e = [d EXCEPT !.held[w] = r, !.shelf = s]
  BY DEF CancelReservation
<1> HIDE DEF q, e
<1>3. /\ r \in Reservation /\ (r.status \in {"none", "waiting"} => r.sold = Nothing)
      /\ \A k \in Keys : Holds(r, k) = q.sold[k]
  <2>1. CASE Total(q.sold) = 0
    <3>1. q.sold = Nothing /\ r = NoSuch
      BY <1>1, <2>1, TotalFacts
    <3> QED BY <3>1, NoSuchFacts
  <2>2. CASE Total(q.sold) # 0
    <3>1. r = [q EXCEPT !.wait = Nothing, !.status = "cancelled"]
      BY <2>2
    <3>2. r \in Reservation /\ r.status = "cancelled" /\ r.wait = Nothing /\ r.sold = q.sold
      BY <1>1, <3>1, NoSuchFacts DEF Reservation
    <3> HIDE DEF r
    <3> QED BY <1>1, <3>2, NoSuchFacts DEF Holds
  <2> QED BY <2>1, <2>2
<1> HIDE DEF r
<1>4. s \in [Keys -> Nat] /\ \A k \in Keys : s[k] + Holds(r, k) = d.shelf[k] + Holds(q, k)
                                             /\ s[k] + Holds(r, k) \in Nat
  BY <1>1, <1>3 DEF Holds
<1> HIDE DEF s
<1>5. \A k \in Keys : s[k] + Holds(r, k) <= d.shelf[k] + Holds(d.held[w], k)
                      /\ s[k] + Holds(r, k) = d.shelf[k] + Holds(d.held[w], k)
  BY <1>4 DEF q
<1>6. Sound(e) /\ NoneLost(d, e)
  BY ONLY Sound(d), w \in Reservations, <1>2, <1>3, <1>4, <1>5, HeldChanges
<1> QED BY <1>6 DEF e

(* A sale and its return move units between the rows of one reservation.     *)
LEMMA SalesKeep ==
  ASSUME NEW d, Sound(d), NEW w \in Reservations,
         NEW e, (\E K : e = Confirm(d, w, K)) \/ e = ReturnSale(d, w)
  PROVE  Sound(e) /\ NoneLost(d, e)
<1> DEFINE q == d.held[w]
<1>1. /\ q \in Reservation /\ q.wait \in [Keys -> Nat] /\ q.sold \in [Keys -> Nat]
      /\ d.shelf \in [Keys -> Nat]
  BY HeldFacts
<1>2. ASSUME NEW r \in Reservation, \A k \in Keys : Holds(r, k) = Holds(q, k),
             r.status \in {"none", "waiting"} => r.sold = Nothing,
             e = [d EXCEPT !.held[w] = r]
      PROVE  Sound(e) /\ NoneLost(d, e)
  BY <1>1, <1>2, HeldAlone DEF q
<1>3. ASSUME NEW K, e = Confirm(d, w, K) PROVE Sound(e) /\ NoneLost(d, e)
  <2> DEFINE wait == [k \in Keys |-> IF k \in K THEN 0 ELSE q.wait[k]]
             sold == [k \in Keys |-> IF k \in K THEN q.sold[k] + q.wait[k] ELSE q.sold[k]]
             status == IF Total(wait) = 0 THEN "confirmed" ELSE "partial"
             r == [q EXCEPT !.wait = wait, !.sold = sold, !.status = status]
  <2>1. e = [d EXCEPT !.held[w] = r]
    BY <1>3 DEF Confirm
  <2>2. /\ wait \in [Keys -> Nat] /\ sold \in [Keys -> Nat] /\ status \in {"confirmed", "partial"}
        /\ \A k \in Keys : wait[k] + sold[k] = q.wait[k] + q.sold[k]
    BY <1>1
  <2> HIDE DEF wait, sold, status, q
  <2>3. r \in Reservation /\ r.status = status /\ r.wait = wait /\ r.sold = sold
    BY <1>1, <2>2 DEF Reservation
  <2> HIDE DEF r
  <2>4. \A k \in Keys : Holds(r, k) = Holds(q, k)
    BY <2>2, <2>3 DEF Holds
  <2> QED BY <1>2, <2>1, <2>2, <2>3, <2>4
<1>4. ASSUME e = ReturnSale(d, w) PROVE Sound(e) /\ NoneLost(d, e)
  <2> DEFINE wait == [k \in Keys |-> Holds(q, k)]
             r == [q EXCEPT !.wait = wait, !.sold = Nothing, !.status = "waiting"]
  <2>1. e = [d EXCEPT !.held[w] = r]
    BY <1>4 DEF ReturnSale
  <2>2. wait \in [Keys -> Nat] /\ \A k \in Keys : wait[k] + Nothing[k] = Holds(q, k)
    BY <1>1, HoldsNat, NoSuchFacts
  <2> HIDE DEF wait, q
  <2>3. r \in Reservation /\ r.wait = wait /\ r.sold = Nothing
    BY <1>1, <2>2, NoSuchFacts DEF Reservation
  <2> HIDE DEF r
  <2>4. \A k \in Keys : Holds(r, k) = Holds(q, k)
    BY <2>2, <2>3 DEF Holds
  <2> QED BY <1>2, <2>1, <2>3, <2>4
<1> QED BY <1>3, <1>4

(* A reservation loses waiting units: they come back to the shelf, or, of a   *)
(* staged key, are gone; one that is left with nothing is deleted.           *)
LEMMA ReleasedKeeps ==
  ASSUME NEW d, Sound(d), NEW w \in Reservations, NEW x \in [Keys -> Nat],
         \A k \in Keys : x[k] <= d.held[w].wait[k]
  PROVE  Sound(Released(d, w, x)) /\ NoneLost(d, Released(d, w, x))
<1> DEFINE q == d.held[w]
           wait == [k \in Keys |-> q.wait[k] - x[k]]
           status == StatusFor(wait, q.sold, "cancelled")
           r == IF status = "cancelled" THEN NoSuch ELSE [q EXCEPT !.wait = wait, !.status = status]
           s == [k \in Keys |-> IF k \in StagedKeys THEN d.shelf[k] ELSE d.shelf[k] + x[k]]
           e == Released(d, w, x)
<1>1. /\ q \in Reservation /\ q.wait \in [Keys -> Nat] /\ q.sold \in [Keys -> Nat]
      /\ d.shelf \in [Keys -> Nat] /\ \A k \in Keys : x[k] <= q.wait[k]
  BY HeldFacts
<1>2. e = [d EXCEPT !.held[w] = r, !.shelf = s]
  <2>1. d \in Tables /\ d.held \in [Reservations -> Reservation]
    BY HeldFacts
  <2> QED BY <2>1 DEF Released, Tables
<1> HIDE DEF q, e
<1>3. wait \in [Keys -> Nat] /\ \A k \in Keys : wait[k] + x[k] = q.wait[k]
  BY <1>1
<1> HIDE DEF wait
<1>4. /\ status \in {"partial", "waiting", "confirmed", "cancelled"}
      /\ status = "cancelled" => wait = Nothing /\ q.sold = Nothing
      /\ status = "waiting" => q.sold = Nothing
  BY <1>1, <1>3, TotalFacts DEF StatusFor
<1> HIDE DEF status
<1>5. /\ r \in Reservation /\ (r.status \in {"none", "waiting"} => r.sold = Nothing)
      /\ \A k \in Keys : Holds(r, k) + x[k] = Holds(q, k)
  <2>1. CASE status = "cancelled"
    <3>1. r = NoSuch /\ \A k \in Keys : wait[k] = 0 /\ q.sold[k] = 0
      BY <1>4, <2>1, NoSuchFacts
    <3> QED BY <1>1, <1>3, <3>1, NoSuchFacts DEF Holds
  <2>2. CASE status # "cancelled"
    <3>1. r = [q EXCEPT !.wait = wait, !.status = status]
      BY <2>2
    <3>2. r \in Reservation /\ r.status = status /\ r.wait = wait /\ r.sold = q.sold
      BY <1>1, <1>3, <1>4, <3>1 DEF Reservation
    <3> HIDE DEF r
    <3> QED BY <1>1, <1>3, <1>4, <2>2, <3>2 DEF Holds
  <2> QED BY <2>1, <2>2
<1> HIDE DEF r
<1>6. s \in [Keys -> Nat]
  BY <1>1
<1>7. \A k \in Keys : /\ s[k] + Holds(r, k) <= d.shelf[k] + Holds(d.held[w], k)
                      /\ k \notin StagedKeys => s[k] + Holds(r, k) = d.shelf[k] + Holds(d.held[w], k)
  <2> SUFFICES ASSUME NEW k \in Keys
               PROVE  /\ s[k] + Holds(r, k) <= d.shelf[k] + Holds(q, k)
                      /\ k \notin StagedKeys => s[k] + Holds(r, k) = d.shelf[k] + Holds(q, k)
    BY DEF q
  <2>1. Holds(r, k) \in Nat /\ Holds(q, k) \in Nat /\ Holds(r, k) + x[k] = Holds(q, k)
    BY <1>1, <1>5, HoldsNat
  <2> QED BY <1>1, <2>1
<1> HIDE DEF s
<1>8. Sound(e) /\ NoneLost(d, e)
  BY ONLY Sound(d), w \in Reservations, <1>2, <1>5, <1>6, <1>7, HeldChanges
<1> QED BY <1>8 DEF e

LEMMA Unmoved ==
  ASSUME NEW d, Sound(d)
  PROVE  NoneLost(d, d)
BY NoneMoves DEF Sound

LEMMA OneOf ==
  ASSUME NEW d, NEW c, NEW statuses, Cardinality(With(d, c, statuses)) = 1
  PROVE  /\ The(With(d, c, statuses)) \in Reservations
         /\ d.held[The(With(d, c, statuses))].no = c
         /\ d.held[The(With(d, c, statuses))].status \in statuses
<1>1. With(d, c, statuses) # {}
  BY FS_EmptySet
<1> QED BY <1>1 DEF The, With

LEMMA MirrorNat ==
  ASSUME NEW d \in Tables, NEW S, S \subseteq Used(d), NEW k
  PROVE  MirrorQty(d, S, k) \in Nat
BY QtyNat DEF MirrorQty

LEMMA ReconcileKeeps ==
  ASSUME NEW d, Sound(d), NEW c
  PROVE  Sound(ReleaseOrphans(d, c)) /\ NoneLost(d, ReleaseOrphans(d, c))
<1> DEFINE w == The(With(d, c, Live))
           x == Excess(d, c, w)
<1>1. CASE ReleaseOrphans(d, c) = d
  BY <1>1, Unmoved
<1>2. CASE ReleaseOrphans(d, c) # d
  <2>1. Cardinality(With(d, c, Live)) = 1 /\ ReleaseOrphans(d, c) = Released(d, w, x)
    BY <1>2 DEF ReleaseOrphans
  <2>2. w \in Reservations
    BY <2>1, OneOf
  <2> HIDE DEF w
  <2>3. d \in Tables /\ d.held[w].wait \in [Keys -> Nat] /\ d.held[w].sold \in [Keys -> Nat]
    BY <2>2, HeldFacts
  <2>4. \A k \in Keys : MirrorQty(d, RowsOf(d, c), k) \in Nat
    BY <2>3, MirrorNat DEF RowsOf
  <2>5. x \in [Keys -> Nat] /\ \A k \in Keys : x[k] <= d.held[w].wait[k]
    BY <2>3, <2>4 DEF Excess, AtLeast0
  <2> HIDE DEF x
  <2> QED BY <2>1, <2>2, <2>5, ReleasedKeeps
<1> QED BY <1>1, <1>2

LEMMA ReleaseKeeps ==
  ASSUME NEW d, Sound(d), NEW c, NEW S, S \subseteq Used(d)
  PROVE  Sound(ReleaseRows(d, c, S)) /\ NoneLost(d, ReleaseRows(d, c, S))
<1> DEFINE W == With(d, c, {"waiting", "partial"})
           w == The(W)
           x == [k \in Keys |-> Lesser(d.held[w].wait[k], MirrorQty(d, S, k))]
<1>1. CASE ReleaseRows(d, c, S) = d
  BY <1>1, Unmoved
<1>2. CASE ReleaseRows(d, c, S) # d
  <2>1. Cardinality(W) = 1 /\ ReleaseRows(d, c, S) = Released(d, w, x)
    BY <1>2 DEF ReleaseRows
  <2>2. w \in Reservations
    BY <2>1, OneOf
  <2> HIDE DEF w
  <2>3. d \in Tables /\ d.held[w].wait \in [Keys -> Nat]
    BY <2>2, HeldFacts
  <2>4. \A k \in Keys : MirrorQty(d, S, k) \in Nat
    BY <2>3, MirrorNat
  <2>5. x \in [Keys -> Nat] /\ \A k \in Keys : x[k] <= d.held[w].wait[k]
    BY <2>3, <2>4 DEF Lesser
  <2> HIDE DEF x
  <2> QED BY <2>1, <2>2, <2>5, ReleasedKeeps
<1> QED BY <1>1, <1>2

(* Two waiting reservations become one: by way of tables in which the first  *)
(* is cancelled.                                                             *)
LEMMA JoinKeeps ==
  ASSUME NEW d, Sound(d), NEW s \in Cases, NEW t \in Cases, s # t
  PROVE  Sound(MergeReservations(d, s, t)) /\ NoneLost(d, MergeReservations(d, s, t))
<1> DEFINE from == With(d, s, {"waiting"})
           into == With(d, t, {"waiting"})
           a == The(from)
           b == The(into)
           e == MergeReservations(d, s, t)
<1>1. d \in Tables /\ d.held \in [Reservations -> Reservation] /\ d.shelf \in [Keys -> Nat]
  BY TablesOK, HeldFacts DEF Sound, Tables
<1>2. CASE e = d
  BY <1>2, Unmoved
<1>3. ASSUME e # d PROVE Cardinality(from) = 1 /\ a \in Reservations /\ d.held[a].no = s
                         /\ d.held[a].status = "waiting" /\ d.held[a] \in Reservation
                         /\ d.held[a].wait \in [Keys -> Nat] /\ d.held[a].sold = Nothing
  <2>1. Cardinality(from) = 1
    BY <1>3 DEF MergeReservations
  <2>2. a \in Reservations /\ d.held[a].no = s /\ d.held[a].status \in {"waiting"}
    BY <2>1, OneOf
  <2> QED BY <2>1, <2>2, HeldFacts
<1>4. CASE e # d /\ into = {}
  <2> DEFINE r == [d.held[a] EXCEPT !.no = t]
  <2>1. e = [d EXCEPT !.held[a].no = t]
    BY <1>3, <1>4 DEF MergeReservations
  <2> HIDE DEF a, e
  <2>2. e = [d EXCEPT !.held[a] = r]
    BY <2>1
  <2>3. r \in Reservation /\ r.wait = d.held[a].wait /\ r.sold = d.held[a].sold /\ r.status = "waiting"
    BY <1>3, <1>4 DEF Reservation
  <2> HIDE DEF r
  <2>4. \A k \in Keys : Holds(r, k) = Holds(d.held[a], k)
    BY <2>3 DEF Holds
  <2>5. Sound(e) /\ NoneLost(d, e)
    BY <1>3, <1>4, <2>2, <2>3, <2>4, HeldAlone
  <2> QED BY <2>5 DEF e
<1>5. CASE e # d /\ into # {}
  <2> DEFINE sum == [k \in Keys |-> d.held[b].wait[k] + d.held[a].wait[k]]
             r == [d.held[b] EXCEPT !.wait = sum]
             s1 == [k \in Keys |-> d.shelf[k] + d.held[a].wait[k]]
             m == [d EXCEPT !.held[a] = NoSuch, !.shelf = s1]
  <2>1. b \in Reservations /\ d.held[b].no = t /\ d.held[b].status = "waiting"
    BY <1>5 DEF The, With
  <2>2. a # b /\ a \in Reservations
    BY <1>3, <1>5, <2>1
  <2>3. e = [d EXCEPT !.held[a] = NoSuch, !.held[b].wait = [k \in Keys |-> @[k] + d.held[a].wait[k]]]
    BY <1>3, <1>5 DEF MergeReservations
  <2>4. /\ d.held[b] \in Reservation /\ d.held[b].wait \in [Keys -> Nat]
        /\ d.held[b].sold = Nothing /\ d.held[a].wait \in [Keys -> Nat] /\ d.held[a].sold = Nothing
    BY <1>3, <1>5, <2>1, HeldFacts
  <2> HIDE DEF a, b, e
  <2>5. s1 \in [Keys -> Nat]
    BY <1>1, <2>4
  <2>6. Sound(m) /\ NoneLost(d, m)
    <3> DEFINE q == NoSuch
    <3>1. q \in Reservation
      BY NoSuchFacts
    <3>2. q.status \in {"none", "waiting"} => q.sold = Nothing
      BY NoSuchFacts
    <3>3. \A k \in Keys : s1[k] + Holds(q, k) = d.shelf[k] + Holds(d.held[a], k)
                           /\ s1[k] + Holds(q, k) \in Nat
      BY <1>1, <2>4, NoSuchFacts DEF Holds
    <3>4. m = [d EXCEPT !.held[a] = q, !.shelf = s1]
      OBVIOUS
    <3> HIDE DEF q, m, s1
    <3>5. \A k \in Keys : /\ s1[k] + Holds(q, k) <= d.shelf[k] + Holds(d.held[a], k)
                          /\ k \notin StagedKeys => s1[k] + Holds(q, k) = d.shelf[k] + Holds(d.held[a], k)
      BY <3>3
    <3> QED BY ONLY Sound(d), <2>2, <2>5, <3>1, <3>2, <3>4, <3>5, HeldChanges
  <2>7. r \in Reservation /\ r.sold = Nothing /\ r.wait = sum /\ sum \in [Keys -> Nat]
    BY <2>4 DEF Reservation
  <2>8. /\ m.held = [d.held EXCEPT ![a] = NoSuch] /\ m.shelf = s1 /\ m.held[b] = d.held[b]
    BY <1>1, <2>2 DEF Tables
  <2>9. /\ e \in Tables /\ e.shelf = d.shelf /\ e.held = [m.held EXCEPT ![b] = r]
    <3>1. e.held = [[d.held EXCEPT ![a] = NoSuch] EXCEPT ![b] = r]
      BY <1>1, <2>1, <2>2, <2>3 DEF Tables
    <3> HIDE DEF r, m
    <3>2. e.held \in [Reservations -> Reservation]
      BY <1>1, <2>7, <3>1, NoSuchFacts
    <3>3. e = [d EXCEPT !.held = e.held]
      BY <1>1, <2>3 DEF Tables
    <3> QED BY <1>1, <2>8, <3>1, <3>2, <3>3 DEF Tables
  <2>10. \A k \in Keys : /\ d.shelf[k] + Holds(r, k) <= m.shelf[k] + Holds(m.held[b], k)
                         /\ k \notin StagedKeys => d.shelf[k] + Holds(r, k) = m.shelf[k] + Holds(m.held[b], k)
    <3> SUFFICES ASSUME NEW k \in Keys
                 PROVE  /\ d.shelf[k] + Holds(r, k) = m.shelf[k] + Holds(m.held[b], k)
                        /\ d.shelf[k] + Holds(r, k) \in Nat
      OBVIOUS
    <3>1. r.wait[k] = d.held[b].wait[k] + d.held[a].wait[k] /\ r.sold[k] = 0
      BY <2>7, NoSuchFacts
    <3>2. m.shelf[k] = d.shelf[k] + d.held[a].wait[k] /\ m.held[b].sold[k] = 0
          /\ m.held[b].wait[k] = d.held[b].wait[k]
      BY <2>4, <2>8, NoSuchFacts
    <3>3. d.shelf[k] \in Nat /\ d.held[a].wait[k] \in Nat /\ d.held[b].wait[k] \in Nat
      BY <1>1, <2>4
    <3> HIDE DEF m, r
    <3> QED BY <3>1, <3>2, <3>3 DEF Holds
  <2>11. r.status \in {"none", "waiting"} => r.sold = Nothing
    BY <2>7
  <2> HIDE DEF m, r
  <2>12. Sound(e) /\ NoneLost(m, e)
    BY ONLY <2>6, <2>1, <1>1, <2>7, <2>9, <2>10, <2>11, HeldMoves
  <2>13. NoneLost(d, e)
    BY ONLY <2>6, <2>12, NoneLostTrans
  <2> QED BY <2>12, <2>13 DEF e
<1> QED BY <1>2, <1>4, <1>5 DEF e

-----------------------------------------------------------------------------
(* One statement.                                                            *)

OnExport == {"orders", "unlink", "put", "insert", "delete", "trim", "empty", "box", "unbox",
             "drop empty", "stage", "reopen", "sync", "move"}
OnPage == {"audit", "repair", "confirm", "give up"}

(* The arguments of a statement are of the right kind.                       *)
StmtOK(s) ==
  /\ s.do \in OnExport \cup Remote \cup OnPage
  /\ s.do = "orders" => s.orders \in [OrderIds -> Order]
  /\ s.do = "put" => s.qty \in Nat \ {0} /\ s.box \in Boxes \cup {Unboxed}
  /\ s.do = "insert" => s.row \in Row
  /\ s.do = "box" => s.box \in Boxes
  /\ s.do = "stage" => s.stage \in Stages
  /\ s.do = "move" => s.case \in Cases /\ s.to \in Cases /\ \A b \in DOMAIN s.boxes : s.boxes[b] \in Boxes
  /\ s.do = "reserve" => s.id \in Reservations /\ s.case \in Cases /\ s.cart \in [Keys -> Nat]
  /\ s.do \in {"withdraw", "return", "sell"} => s.id \in Reservations
  /\ s.do = "join" => s.case \in Cases /\ s.to \in Cases /\ s.case # s.to
  /\ s.do \in OnPage => s.case \in Cases

LEMMA TableFields ==
  ASSUME NEW d \in Tables
  PROVE  /\ d.rows \in [RowIds -> Row \cup {NoRow}] /\ d.boxes \in [Cases -> SUBSET Boxes]
         /\ d.stage \in [Cases -> Stages] /\ d.orders \in [OrderIds -> Order]
BY DEF Tables

(* Only the rows change.                                                     *)
LEMMA RowsChange ==
  ASSUME NEW d \in Tables, NEW r \in [RowIds -> Row \cup {NoRow}], NEW e, e = [d EXCEPT !.rows = r]
  PROVE  e \in Tables /\ e.held = d.held /\ e.shelf = d.shelf
BY DEF Tables

LEMMA BoxesChange ==
  ASSUME NEW d \in Tables, NEW r \in [Cases -> SUBSET Boxes], NEW e, e = [d EXCEPT !.boxes = r]
  PROVE  e \in Tables /\ e.held = d.held /\ e.shelf = d.shelf
BY DEF Tables

LEMMA StageChanges ==
  ASSUME NEW d \in Tables, NEW r \in [Cases -> Stages], NEW e, e = [d EXCEPT !.stage = r]
  PROVE  e \in Tables /\ e.held = d.held /\ e.shelf = d.shelf
BY DEF Tables

LEMMA NewBox ==
  ASSUME NEW r \in Row, NEW b \in Boxes \cup {Unboxed}
  PROVE  [r EXCEPT !.box = b] \in Row
BY DEF Row

(* rename_box and merge_case_into.                                           *)
LEMMA MoveTyped ==
  ASSUME NEW d \in Tables, NEW s, s.do = "move", StmtOK(s)
  PROVE  /\ Exec(d, s) \in Tables /\ Exec(d, s).held = d.held /\ Exec(d, s).shelf = d.shelf
<1> DEFINE e == Exec(d, s)
           orders == [o \in OrderIds |-> IF d.orders[o].case = s.case THEN [d.orders[o] EXCEPT !.case = s.to]
                                         ELSE d.orders[o]]
           box(b) == Renumbered(b, s.boxes)
           renumbered == [i \in RowIds |-> IF i \in RowsOf(d, s.case)
                      THEN [d.rows[i] EXCEPT !.case = s.to, !.box = box(d.rows[i].box)]
                      ELSE d.rows[i]]
           boxes == [c \in Cases |->
                      LET moved == {box(b) : b \in d.boxes[s.case]}
                      IN  IF c = s.to THEN (IF c = s.case THEN {} ELSE d.boxes[c]) \cup moved
                          ELSE IF c = s.case THEN {} ELSE d.boxes[c]]
           stage == [d.stage EXCEPT ![s.case] = IF s.to = s.case THEN @ ELSE "cancelled"]
<1>1. s.case \in Cases /\ s.to \in Cases /\ \A b \in DOMAIN s.boxes : s.boxes[b] \in Boxes
  BY DEF StmtOK
<1>2. e = [d EXCEPT !.orders = orders, !.rows = renumbered, !.boxes = boxes, !.stage = stage]
  <2>1. e = [d EXCEPT !.orders = e.orders, !.rows = e.rows, !.boxes = e.boxes, !.stage = e.stage]
    BY DEF Exec, Tables
  <2>2. e.orders = orders
    BY DEF Exec, Tables
  <2>3. e.rows = renumbered
    BY DEF Exec, Tables
  <2>4. e.boxes = boxes
    BY DEF Exec, Tables
  <2>5. e.stage = stage
    BY DEF Exec, Tables
  <2> QED BY <2>1, <2>2, <2>3, <2>4, <2>5
<1>3. orders \in [OrderIds -> Order]
  BY <1>1, TableFields DEF Order
<1>4. renumbered \in [RowIds -> Row \cup {NoRow}]
  <2>1. ASSUME NEW i \in RowsOf(d, s.case) PROVE renumbered[i] \in Row
    <3>1. d.rows[i] \in Row /\ d.rows[i].box \in Boxes \cup {Unboxed}
      BY RowFields DEF RowsOf
    <3>2. box(d.rows[i].box) \in Boxes \cup {Unboxed}
      BY <1>1, <3>1 DEF Renumbered
    <3>3. renumbered[i] = [d.rows[i] EXCEPT !.case = s.to, !.box = box(d.rows[i].box)]
      BY RowFields DEF RowsOf
    <3> HIDE DEF box, renumbered
    <3> QED BY <1>1, <3>1, <3>2, <3>3 DEF Row
  <2>2. \A i \in RowIds \ RowsOf(d, s.case) : renumbered[i] = d.rows[i]
    OBVIOUS
  <2>3. renumbered = [i \in RowIds |-> renumbered[i]]
    OBVIOUS
  <2> HIDE DEF renumbered
  <2> QED BY <2>1, <2>2, <2>3, TableFields
<1>5. boxes \in [Cases -> SUBSET Boxes]
  <2>1. \A b \in Boxes : box(b) \in Boxes
    BY <1>1 DEF Renumbered
  <2>2. d.boxes[s.case] \subseteq Boxes
    BY <1>1, TableFields
  <2> HIDE DEF box
  <2> QED BY <2>1, <2>2, TableFields
<1>6. stage \in [Cases -> Stages]
  BY TableFields DEF Stages
<1> HIDE DEF orders, renumbered, boxes, stage, e
<1>7. e \in Tables /\ e.held = d.held /\ e.shelf = d.shelf
  BY <1>2, <1>3, <1>4, <1>5, <1>6 DEF Tables
<1> QED BY <1>7 DEF e

(* A statement on export.db touches neither reservation nor shelf.           *)
LEMMA ExportTyped ==
  ASSUME NEW d \in Tables, NEW s, StmtOK(s), s.do \in OnExport
  PROVE  /\ Exec(d, s) \in Tables /\ Exec(d, s).held = d.held /\ Exec(d, s).shelf = d.shelf
<1> DEFINE e == Exec(d, s)
           G == e \in Tables /\ e.held = d.held /\ e.shelf = d.shelf
<1> SUFFICES G
  OBVIOUS
<1>1. CASE s.do = "orders"
  BY <1>1 DEF Exec, StmtOK, Tables
<1>2. CASE s.do = "unlink"
  <2> DEFINE r == [i \in RowIds |-> IF i \in Dangling(d, s.case) THEN [d.rows[i] EXCEPT !.order = NoOrder] ELSE d.rows[i]]
  <2>1. e = [d EXCEPT !.rows = r]
    BY <1>2 DEF Exec, Tables
  <2>2. \A i \in Dangling(d, s.case) : [d.rows[i] EXCEPT !.order = NoOrder] \in Row
    BY RowFields DEF Dangling, RowsOf, Row
  <2>3. r \in [RowIds -> Row \cup {NoRow}]
    BY <2>2, TableFields
  <2> HIDE DEF r, e
  <2> QED BY <2>1, <2>3, RowsChange
<1>3. CASE s.do = "put"
  <2>1. CASE s.id \in Used(d)
    <3> DEFINE q == [d.rows[s.id] EXCEPT !.qty = s.qty, !.box = s.box]
               r == [d.rows EXCEPT ![s.id] = q]
    <3>1. e = [d EXCEPT !.rows = r]
      <4>1. e = [d EXCEPT !.rows[s.id].qty = s.qty, !.rows[s.id].box = s.box]
        BY <1>3, <2>1 DEF Exec
      <4>2. s.id \in RowIds
        BY <2>1 DEF Used
      <4> HIDE DEF e
      <4>3. e.rows = r
        BY <4>1, <4>2, TableFields DEF Tables
      <4>4. e = [d EXCEPT !.rows = e.rows]
        BY <4>1 DEF Tables
      <4> QED BY <4>3, <4>4
    <3>2. q \in Row
      <4>1. d.rows[s.id] \in Row /\ s.qty \in Nat \ {0} /\ s.box \in Boxes \cup {Unboxed}
        BY <1>3, <2>1, RowFields DEF StmtOK
      <4> QED BY <4>1 DEF Row
    <3> HIDE DEF q
    <3>3. r \in [RowIds -> Row \cup {NoRow}]
      BY <3>2, TableFields
    <3> HIDE DEF r, e
    <3> QED BY <3>1, <3>3, RowsChange
  <2>2. CASE s.id \notin Used(d)
    BY <1>3, <2>2 DEF Exec
  <2> QED BY <2>1, <2>2
<1>4. CASE s.do = "insert"
  <2> DEFINE r == [d.rows EXCEPT ![FreeId(d)] = s.row]
  <2>1. e = [d EXCEPT !.rows = r]
    BY <1>4 DEF Exec, Tables
  <2>2. r \in [RowIds -> Row \cup {NoRow}]
    BY <1>4, TableFields DEF StmtOK
  <2> HIDE DEF r, e
  <2> QED BY <2>1, <2>2, RowsChange
<1>5. CASE s.do = "delete"
  <2> DEFINE r == [i \in RowIds |-> IF i \in s.ids THEN NoRow ELSE d.rows[i]]
  <2>1. e = [d EXCEPT !.rows = r]
    BY <1>5 DEF Exec, Tables
  <2>2. r \in [RowIds -> Row \cup {NoRow}]
    BY TableFields
  <2> HIDE DEF r, e
  <2> QED BY <2>1, <2>2, RowsChange
<1>6. CASE s.do = "trim"
  <2> DEFINE r == [i \in RowIds |-> IF i \in RowsFor(d, s.case, s.order) \ s.ids THEN NoRow ELSE d.rows[i]]
  <2>1. e = [d EXCEPT !.rows = r]
    BY <1>6 DEF Exec, Tables
  <2>2. r \in [RowIds -> Row \cup {NoRow}]
    BY TableFields
  <2> HIDE DEF r, e
  <2> QED BY <2>1, <2>2, RowsChange
<1>7. CASE s.do = "empty"
  <2> DEFINE r == [i \in RowIds |-> IF i \in RowsOf(d, s.case) /\ d.rows[i].box = s.box
                                    THEN [d.rows[i] EXCEPT !.box = Unboxed] ELSE d.rows[i]]
  <2>1. e = [d EXCEPT !.rows = r]
    BY <1>7 DEF Exec, Tables
  <2>2. \A i \in RowsOf(d, s.case) : [d.rows[i] EXCEPT !.box = Unboxed] \in Row
    BY RowFields, NewBox DEF RowsOf
  <2>3. r \in [RowIds -> Row \cup {NoRow}]
    BY <2>2, TableFields
  <2> HIDE DEF r, e
  <2> QED BY <2>1, <2>3, RowsChange
<1>8. CASE s.do \in {"box", "unbox", "drop empty"}
  <2> DEFINE S == IF s.do = "box" THEN d.boxes[s.case] \cup {s.box}
                  ELSE IF s.do = "unbox" THEN d.boxes[s.case] \ {s.box}
                  ELSE {b \in d.boxes[s.case] : \E i \in RowsOf(d, s.case) : d.rows[i].box = b}
             r == [d.boxes EXCEPT ![s.case] = S]
  <2>1. e = [d EXCEPT !.boxes = r]
    BY <1>8 DEF Exec, Tables
  <2>2. s.case \in Cases => S \subseteq Boxes
    BY TableFields DEF StmtOK
  <2> HIDE DEF S
  <2>3. r \in [Cases -> SUBSET Boxes]
    BY <2>2, TableFields
  <2> HIDE DEF r, e
  <2> QED BY <2>1, <2>3, BoxesChange
<1>9. CASE s.do \in {"stage", "reopen", "sync"}
  <2>1. ASSUME NEW x \in Stages, e = [d EXCEPT !.stage[s.case] = x] PROVE G
    <3> DEFINE r == [d.stage EXCEPT ![s.case] = x]
    <3>1. r \in [Cases -> Stages] /\ e = [d EXCEPT !.stage = r]
      BY <2>1, TableFields
    <3> HIDE DEF r, e
    <3> QED BY <3>1, StageChanges
  <2>2. ComputedStage(d, s.case) \in Stages /\ "packing" \in Stages
    BY DEF ComputedStage, Stages, Managed
  <2>3. \/ e = d
        \/ e = [d EXCEPT !.stage[s.case] = s.stage] /\ s.stage \in Stages
        \/ e = [d EXCEPT !.stage[s.case] = "packing"]
        \/ e = [d EXCEPT !.stage[s.case] = ComputedStage(d, s.case)]
    BY <1>9 DEF Exec, StmtOK
  <2> HIDE DEF e
  <2> QED BY <2>1, <2>2, <2>3
<1>10. CASE s.do = "move"
  BY <1>10, MoveTyped
<1> QED BY <1>1, <1>2, <1>3, <1>4, <1>5, <1>6, <1>7, <1>8, <1>9, <1>10 DEF OnExport

LEMMA ExportKeeps ==
  ASSUME NEW d, Sound(d), NEW s, StmtOK(s), s.do \in OnExport
  PROVE  Sound(Exec(d, s)) /\ NoneLost(d, Exec(d, s))
<1> DEFINE e == Exec(d, s)
<1>1. d \in Tables /\ e \in Tables /\ e.held = d.held /\ e.shelf = d.shelf
  BY ExportTyped DEF Sound
<1> HIDE DEF e
<1>2. Sound(e) /\ NoneLost(d, e)
  BY <1>1, NoneMoves DEF Sound, SalesMarked
<1> QED BY <1>2 DEF e

(* A call of services/export_waiting.py.                                     *)
LEMMA RemoteKeeps ==
  ASSUME NEW d, Sound(d), NEW s, StmtOK(s), s.do \in Remote,
         s.do = "reserve" => CanReserve(d, s.id, s.cart)
  PROVE  Sound(Exec(d, s)) /\ NoneLost(d, Exec(d, s))
<1>1. CASE s.do = "reserve"
  <2>1. Exec(d, s) = Reserve(d, s.id, s.case, s.cart)
    BY <1>1 DEF Exec
  <2> QED BY <1>1, <2>1, ReserveKeeps DEF StmtOK
<1>2. CASE s.do = "withdraw"
  <2>1. Exec(d, s) = CancelReservation(d, s.id)
    BY <1>2 DEF Exec
  <2> QED BY <1>2, <2>1, CancelKeeps DEF StmtOK
<1>3. CASE s.do = "return"
  <2>1. Exec(d, s) = ReturnSale(d, s.id)
    BY <1>3 DEF Exec
  <2> QED BY <1>3, <2>1, SalesKeep DEF StmtOK
<1>4. CASE s.do = "sell"
  <2>1. Exec(d, s) = Confirm(d, s.id, s.keys)
    BY <1>4 DEF Exec
  <2> QED BY <1>4, <2>1, SalesKeep DEF StmtOK
<1>5. CASE s.do = "reconcile"
  <2>1. Exec(d, s) = ReleaseOrphans(d, s.case)
    BY <1>5 DEF Exec
  <2> QED BY <2>1, ReconcileKeeps
<1>6. CASE s.do = "release"
  <2>1. Exec(d, s) = ReleaseRows(d, s.case, s.ids \cap RowsFor(d, s.case, s.order))
    BY <1>6 DEF Exec
  <2>2. s.ids \cap RowsFor(d, s.case, s.order) \subseteq Used(d)
    BY DEF RowsFor, RowsOf
  <2> QED BY <2>1, <2>2, ReleaseKeeps
<1>7. CASE s.do = "join"
  <2>1. Exec(d, s) = MergeReservations(d, s.case, s.to)
    BY <1>7 DEF Exec
  <2> QED BY <1>7, <2>1, JoinKeeps DEF StmtOK
<1> QED BY <1>1, <1>2, <1>3, <1>4, <1>5, <1>6, <1>7 DEF Remote

-----------------------------------------------------------------------------
(* Plans.                                                                    *)

PlanOK(p) == \E S : p \in Seq(S) /\ \A s \in S : StmtOK(s)

LEMMA PlanItems ==
  ASSUME NEW p, PlanOK(p)
  PROVE  Len(p) \in Nat /\ DOMAIN p = 1 .. Len(p) /\ \A n \in 1 .. Len(p) : StmtOK(p[n])
<1>1. PICK S : p \in Seq(S) /\ \A s \in S : StmtOK(s)
  BY DEF PlanOK
<1> QED BY <1>1, LenProperties, ElementOfSeq

LEMMA PlanNil == PlanOK(<< >>)
<1> DEFINE S == {}
<1>1. << >> \in Seq(S) /\ \A s \in S : StmtOK(s)
  BY EmptySeq
<1> HIDE DEF S
<1> QED BY <1>1 DEF PlanOK

LEMMA PlanOne ==
  ASSUME NEW a, StmtOK(a)
  PROVE  PlanOK(<<a>>)
<1> DEFINE S == {a}
<1>1. <<a>> \in Seq(S) /\ \A s \in S : StmtOK(s)
  OBVIOUS
<1> HIDE DEF S
<1> QED BY <1>1 DEF PlanOK

LEMMA PlanTwo ==
  ASSUME NEW a, StmtOK(a), NEW b, StmtOK(b)
  PROVE  PlanOK(<<a, b>>)
<1> DEFINE S == {a, b}
<1>1. <<a, b>> \in Seq(S) /\ \A s \in S : StmtOK(s)
  OBVIOUS
<1> HIDE DEF S
<1> QED BY <1>1 DEF PlanOK

LEMMA PlanThree ==
  ASSUME NEW a, StmtOK(a), NEW b, StmtOK(b), NEW c, StmtOK(c)
  PROVE  PlanOK(<<a, b, c>>)
<1> DEFINE S == {a, b, c}
<1>1. <<a, b, c>> \in Seq(S) /\ \A s \in S : StmtOK(s)
  OBVIOUS
<1> HIDE DEF S
<1> QED BY <1>1 DEF PlanOK

LEMMA PlanFour ==
  ASSUME NEW a, StmtOK(a), NEW b, StmtOK(b), NEW c, StmtOK(c), NEW e, StmtOK(e)
  PROVE  PlanOK(<<a, b, c, e>>)
<1> DEFINE S == {a, b, c, e}
<1>1. <<a, b, c, e>> \in Seq(S) /\ \A s \in S : StmtOK(s)
  OBVIOUS
<1> HIDE DEF S
<1> QED BY <1>1 DEF PlanOK

LEMMA PlanThen ==
  ASSUME NEW p, PlanOK(p), NEW q, PlanOK(q)
  PROVE  PlanOK(p \o q)
<1>1. PICK S : p \in Seq(S) /\ \A s \in S : StmtOK(s)
  BY DEF PlanOK
<1>2. PICK T : q \in Seq(T) /\ \A s \in T : StmtOK(s)
  BY DEF PlanOK
<1>3. p \in Seq(S \cup T) /\ q \in Seq(S \cup T)
  <2>1. S \subseteq S \cup T /\ T \subseteq S \cup T
    OBVIOUS
  <2> QED BY <1>1, <1>2, <2>1, SeqMonotonic
<1>4. p \o q \in Seq(S \cup T)
  BY <1>3, ConcatProperties
<1> QED BY <1>1, <1>2, <1>4 DEF PlanOK

LEMMA PlanWhen ==
  ASSUME NEW guard, NEW p, guard => PlanOK(p)
  PROVE  PlanOK(When(guard, p))
BY PlanNil DEF When

LEMMA PlanHead ==
  ASSUME NEW p, PlanOK(p), p # << >>
  PROVE  StmtOK(Head(p)) /\ PlanOK(Tail(p))
<1>1. PICK S : p \in Seq(S) /\ \A s \in S : StmtOK(s)
  BY DEF PlanOK
<1>2. Head(p) \in S /\ Tail(p) \in Seq(S)
  BY <1>1, HeadTailProperties
<1> QED BY <1>1, <1>2 DEF PlanOK

LEMMA PlanRest ==
  ASSUME NEW p, PlanOK(p), NEW n \in Nat
  PROVE  PlanOK(SubSeq(p, n + 1, Len(p)))
<1>1. PICK S : p \in Seq(S) /\ \A s \in S : StmtOK(s)
  BY DEF PlanOK
<1>2. Len(p) \in Int /\ n + 1 \in Int /\ \A i \in n + 1 .. Len(p) : p[i] \in S
  BY <1>1, LenProperties, ElementOfSeq
<1>3. SubSeq(p, n + 1, Len(p)) \in Seq(S)
  BY <1>2, SubSeqProperties
<1> QED BY <1>1, <1>3 DEF PlanOK

(* A plan given statement by statement; one statement for each id of a set.  *)
LEMMA PlanList ==
  ASSUME NEW n \in Nat, NEW p, DOMAIN p = 1 .. n, p = [i \in 1 .. n |-> p[i]], \A i \in 1 .. n : StmtOK(p[i])
  PROVE  PlanOK(p)
<1> DEFINE S == {p[i] : i \in 1 .. n}
<1>1. p \in [1 .. n -> S]
  OBVIOUS
<1>2. \A s \in S : StmtOK(s)
  OBVIOUS
<1> HIDE DEF S
<1>3. p \in Seq(S)
  BY <1>1
<1> QED BY <1>2, <1>3 DEF PlanOK

LEMMA IdsFacts ==
  ASSUME NEW S, IsFiniteSet(S)
  PROVE  /\ Len(SetToSeq(S)) \in Nat /\ DOMAIN SetToSeq(S) = 1 .. Len(SetToSeq(S))
         /\ \A n \in DOMAIN SetToSeq(S) : SetToSeq(S)[n] \in S
<1>1. SetToSeq(S) \in Seq(S)
  BY SetToSeqType
<1> QED BY <1>1, LenProperties, ElementOfSeq

LEMMA DoOK ==
  ASSUME NEW c \in Cases,
         NEW name \in {"unlink", "sync", "reopen", "drop empty", "reconcile", "audit", "give up"}
  PROVE  StmtOK(Do(name, c))
BY DEF Do, StmtOK, OnExport, Remote, OnPage

LEMMA SyncOK ==
  ASSUME NEW c \in Cases
  PROVE  StmtOK(Sync(c))
BY DoOK DEF Sync

LEMMA PutOK ==
  ASSUME NEW i, NEW q \in Nat \ {0}, NEW b \in Boxes \cup {Unboxed}
  PROVE  StmtOK(Put(i, q, b))
BY DEF Put, StmtOK, OnExport, Remote, OnPage

LEMMA InsertOK ==
  ASSUME NEW row \in Row
  PROVE  StmtOK(Insert(row))
BY DEF Insert, StmtOK, OnExport, Remote, OnPage

LEMMA BoxOK ==
  ASSUME NEW c \in Cases, NEW b \in Boxes, NEW name \in {"empty", "box", "unbox"}
  PROVE  StmtOK(Box(name, c, b))
BY DEF Box, StmtOK, OnExport, Remote, OnPage

(* Each row of a set gets a statement.                                       *)
LEMMA EachOK ==
  ASSUME NEW f, IsFiniteSet(DOMAIN f), \A i \in DOMAIN f : StmtOK(f[i])
  PROVE  PlanOK(Each(f))
<1> DEFINE ids == SetToSeq(DOMAIN f)
           p == [n \in DOMAIN ids |-> f[ids[n]]]
<1>1. Len(ids) \in Nat /\ DOMAIN ids = 1 .. Len(ids) /\ \A n \in DOMAIN ids : ids[n] \in DOMAIN f
  BY IdsFacts
<1>2. Each(f) = p
  BY DEF Each
<1> HIDE DEF ids
<1>3. \A n \in 1 .. Len(ids) : StmtOK(p[n])
  BY <1>1
<1>4. DOMAIN p = 1 .. Len(ids) /\ p = [n \in 1 .. Len(ids) |-> p[n]]
  BY <1>1
<1> HIDE DEF p
<1>5. PlanOK(p)
  BY <1>1, <1>3, <1>4, PlanList
<1> QED BY <1>2, <1>5

LEMMA PutEach ==
  ASSUME NEW d \in Tables, NEW S, S \subseteq Used(d), NEW f, DOMAIN f = S,
         \A i \in S : \E q \in Nat \ {0}, b \in Boxes \cup {Unboxed} : f[i] = Put(i, q, b)
  PROVE  PlanOK(Each(f))
<1>1. IsFiniteSet(S)
  BY RowFields, FS_Subset
<1>2. \A i \in S : StmtOK(f[i])
  BY PutOK
<1> QED BY <1>1, <1>2, EachOK

LEMMA InsertEach ==
  ASSUME NEW d \in Tables, NEW S, S \subseteq Used(d), NEW b \in Boxes \cup {Unboxed}
  PROVE  PlanOK(Each([i \in S |-> Insert([d.rows[i] EXCEPT !.box = b])]))
<1> DEFINE f == [i \in S |-> Insert([d.rows[i] EXCEPT !.box = b])]
<1>1. IsFiniteSet(S)
  BY RowFields, FS_Subset
<1>2. \A i \in S : StmtOK(f[i])
  BY RowFields, NewBox, InsertOK
<1>3. DOMAIN f = S
  OBVIOUS
<1> HIDE DEF f
<1>4. PlanOK(Each(f))
  BY <1>1, <1>2, <1>3, EachOK
<1> QED BY <1>4 DEF f

-----------------------------------------------------------------------------
(* The plans of a save.                                                      *)

LEMMA RowsAreUsed ==
  ASSUME NEW d \in Tables, NEW c, NEW o
  PROVE  /\ RowsOf(d, c) \subseteq Used(d) /\ RowsFor(d, c, o) \subseteq Used(d)
         /\ Linked(d, c) \subseteq Used(d) /\ Items(d, c) \subseteq OrderIds
BY DEF RowsOf, RowsFor, Linked, Items

(* The rows of an order item that are kept, with their new quantities.       *)
KeptOK(d, c, o, kept) ==
  /\ kept = [i \in DOMAIN kept |-> kept[i]] /\ DOMAIN kept \subseteq RowsFor(d, c, o)
  /\ \A i \in DOMAIN kept : kept[i] \in Nat \ {0}

LEMMA KeptNat ==
  ASSUME NEW d \in Tables, NEW c, NEW o, NEW kept, KeptOK(d, c, o, kept)
  PROVE  KeptQty(kept) \in Nat
<1>1. IsFiniteSet(DOMAIN kept) /\ \A i \in DOMAIN kept : kept[i] \in Nat
  BY RowFields, RowsAreUsed, FS_Subset DEF KeptOK
<1>2. SumFunctionOnSet(kept, DOMAIN kept) \in Nat
  BY <1>1, SumIn
<1> QED BY <1>2 DEF KeptQty

LEMMA UnchangedOK ==
  ASSUME NEW d \in Tables, NEW c, NEW o, NEW S, S \subseteq RowsFor(d, c, o)
  PROVE  KeptOK(d, c, o, [i \in S |-> d.rows[i].qty])
BY RowFields, RowsAreUsed DEF KeptOK

LEMMA EditableFacts ==
  ASSUME NEW d, NEW c, Editable(d, c) # {}
  PROVE  The(Editable(d, c)) \in Reservations
<1>1. Editable(d, c) \subseteq Reservations
  BY DEF Editable, With
<1> QED BY <1>1 DEF The

LEMMA CartTyped ==
  ASSUME NEW d, Sound(d), NEW c, NEW o, NEW kept, KeptOK(d, c, o, kept), NEW pick \in Nat
  PROVE  Cart(d, c, o, kept, pick) \in [Keys -> Nat]
<1> DEFINE others == Linked(d, c) \ RowsFor(d, c, o)
           waiting == IF Editable(d, c) = {} THEN Nothing ELSE d.held[The(Editable(d, c))].wait
           backed(k) == IF MirrorQty(d, Linked(d, c), k) > 0 THEN waiting[k] ELSE 0
           own(k) == IF k = KeyOf[o] THEN KeptQty(kept) + pick ELSE 0
           mine(k) == MirrorQty(d, RowsFor(d, c, o), k)
           rest(k) == MirrorQty(d, others, k)
<1>1. d \in Tables
  BY DEF Sound
<1>2. KeptQty(kept) \in Nat
  BY <1>1, KeptNat
<1>3. waiting \in [Keys -> Nat]
  BY EditableFacts, HeldFacts, NoSuchFacts
<1>4. \A k \in Keys : mine(k) \in Nat /\ rest(k) \in Nat
  BY <1>1, RowsAreUsed, MirrorNat
<1> HIDE DEF mine, rest
<1>5. Cart(d, c, o, kept, pick) =
        IF waiting = Nothing THEN [k \in Keys |-> rest(k) + own(k)]
        ELSE [k \in Keys |-> AtLeast0(backed(k) + own(k) - mine(k))]
  BY DEF Cart, mine, rest
<1> HIDE DEF waiting
<1>6. \A k \in Keys : backed(k) \in Nat /\ own(k) \in Nat
  BY <1>2, <1>3
<1> HIDE DEF backed, own
<1> QED BY <1>4, <1>5, <1>6 DEF AtLeast0

LEMMA TargetTyped ==
  ASSUME NEW d, NEW c, work \in Works
  PROVE  /\ Target(d, c) \in Reservations \cup {NoReservation}
         /\ Editable(d, c) # {} => Target(d, c) \in Reservations
<1>1. CASE Editable(d, c) # {}
  BY <1>1, EditableFacts DEF Target
<1>2. CASE Editable(d, c) = {}
  <2> DEFINE new == {w \in work.reservations : d.held[w].status = "none"}
  <2>1. new \subseteq Reservations /\ new \subseteq Nat
    BY WorksOK, TablesOK
  <2>2. Target(d, c) = IF new # {} THEN Min(new) ELSE NoReservation
    BY <1>2 DEF Target
  <2> HIDE DEF new
  <2>3. new # {} => Min(new) \in new
    BY <2>1, MinIn
  <2> QED BY <1>2, <2>1, <2>2, <2>3
<1> QED BY <1>1, <1>2

LEMMA FreshOK ==
  ASSUME NEW c \in Cases, NEW o \in OrderIds, NEW q \in Nat \ {0}
  PROVE  Fresh(c, o, q) \in Row
BY TablesOK DEF Fresh, Row

LEMMA MirrorOK ==
  ASSUME NEW d \in Tables, NEW c \in Cases, NEW o, NEW kept, KeptOK(d, c, o, kept),
         NEW new, PlanOK(new)
  PROVE  PlanOK(Mirror(d, c, o, kept, new))
<1> DEFINE changed == {i \in DOMAIN kept : kept[i] # d.rows[i].qty}
           gone == RowsFor(d, c, o) \ DOMAIN kept
           puts == [i \in changed |-> Put(i, kept[i], d.rows[i].box)]
           p1 == When(Dangling(d, c) # {}, <<Do("unlink", c), Sync(c)>>)
           p2 == Each(puts)
           trim == [do |-> "trim", case |-> c, order |-> o, ids |-> DOMAIN kept]
           p3 == <<trim>>
           p4 == When(changed # {} \/ gone # {} \/ new # << >>, <<Do("reopen", c)>>)
           p5 == <<Do("drop empty", c), Sync(c)>>
<1>1. PlanOK(p1)
  <2>1. PlanOK(<<Do("unlink", c), Sync(c)>>)
    BY DoOK, SyncOK, PlanTwo
  <2> QED BY <2>1, PlanWhen
<1>2. PlanOK(p2)
  <2>1. changed \subseteq Used(d) /\ DOMAIN puts = changed
    BY RowsAreUsed DEF KeptOK
  <2>2. \A i \in changed : /\ kept[i] \in Nat \ {0} /\ d.rows[i].box \in Boxes \cup {Unboxed}
                           /\ puts[i] = Put(i, kept[i], d.rows[i].box)
    BY <2>1, RowFields DEF KeptOK
  <2> HIDE DEF changed, puts
  <2> QED BY <2>1, <2>2, PutEach
<1>3. PlanOK(p3)
  <2>1. StmtOK(trim)
    BY DEF StmtOK, OnExport, Remote, OnPage
  <2> HIDE DEF trim
  <2> QED BY <2>1, PlanOne
<1>4. PlanOK(p4)
  <2>1. PlanOK(<<Do("reopen", c)>>)
    BY DoOK, PlanOne
  <2> QED BY <2>1, PlanWhen
<1>5. PlanOK(p5)
  BY DoOK, SyncOK, PlanTwo
<1>6. Mirror(d, c, o, kept, new) = p1 \o p2 \o p3 \o new \o p4 \o p5
  BY DEF Mirror
<1> HIDE DEF p1, p2, p3, p4, p5
<1>7. PlanOK(p1 \o p2 \o p3)
  BY <1>1, <1>2, <1>3, PlanThen
<1>8. PlanOK(p1 \o p2 \o p3 \o new \o p4 \o p5)
  <2>1. PlanOK(p1 \o p2 \o p3 \o new)
    BY <1>7, PlanThen
  <2>2. PlanOK(p1 \o p2 \o p3 \o new \o p4)
    BY <2>1, <1>4, PlanThen
  <2> QED BY <2>2, <1>5, PlanThen
<1> QED BY <1>6, <1>8

LEMMA SavePlanOK ==
  ASSUME NEW d, Sound(d), NEW c \in Cases, NEW o \in OrderIds, NEW kept, KeptOK(d, c, o, kept),
         NEW pick \in Nat, Target(d, c) \in Reservations
  PROVE  PlanOK(SavePlan(d, c, o, kept, pick))
<1> DEFINE cart == Cart(d, c, o, kept, pick)
           new == When(pick > 0, <<Insert(Fresh(c, o, pick))>>)
           reserve == [do |-> "reserve", case |-> c, id |-> Target(d, c), cart |-> cart]
           p1 == Mirror(d, c, o, kept, new)
           p2 == When(cart # Nothing \/ Editable(d, c) # {}, <<reserve>>)
<1>1. d \in Tables /\ cart \in [Keys -> Nat]
  BY CartTyped DEF Sound
<1>2. PlanOK(new)
  <2>1. ASSUME pick > 0 PROVE PlanOK(<<Insert(Fresh(c, o, pick))>>)
    BY <2>1, FreshOK, InsertOK, PlanOne
  <2> QED BY <2>1, PlanWhen
<1>3. SavePlan(d, c, o, kept, pick) = p1 \o p2
  BY DEF SavePlan
<1> HIDE DEF cart, new
<1>4. PlanOK(p1)
  BY <1>1, <1>2, MirrorOK
<1>5. PlanOK(p2)
  <2>1. StmtOK(reserve)
    BY <1>1 DEF StmtOK, OnExport, Remote, OnPage
  <2> HIDE DEF reserve
  <2>2. PlanOK(<<reserve>>)
    BY <2>1, PlanOne
  <2> QED BY <2>2, PlanWhen
<1> HIDE DEF p1, p2
<1>6. PlanOK(p1 \o p2)
  BY <1>4, <1>5, PlanThen
<1> QED BY <1>3, <1>6

LEMMA SaveRescueOK ==
  ASSUME NEW d \in Tables, NEW c \in Cases, NEW o, NEW kept, KeptOK(d, c, o, kept)
  PROVE  PlanOK(SaveRescue(d, c, o, kept))
<1> DEFINE changed == {i \in DOMAIN kept : kept[i] # d.rows[i].qty}
           gone == RowsFor(d, c, o) \ DOMAIN kept
           puts == [i \in changed |-> Put(i, d.rows[i].qty, d.rows[i].box)]
           trim == [do |-> "trim", case |-> c, order |-> o, ids |-> DOMAIN kept]
           p1 == Each(puts)
           p2 == <<trim>>
           p3 == Each([i \in gone |-> Insert([d.rows[i] EXCEPT !.box = Unboxed])])
           p4 == <<Do("drop empty", c), Sync(c)>>
<1>1. PlanOK(p1)
  <2>1. changed \subseteq Used(d) /\ DOMAIN puts = changed
    BY RowsAreUsed DEF KeptOK
  <2>2. \A i \in changed : /\ d.rows[i].qty \in Nat \ {0} /\ d.rows[i].box \in Boxes \cup {Unboxed}
                           /\ puts[i] = Put(i, d.rows[i].qty, d.rows[i].box)
    BY <2>1, RowFields
  <2> HIDE DEF changed, puts
  <2> QED BY <2>1, <2>2, PutEach
<1>2. PlanOK(p2)
  <2>1. StmtOK(trim)
    BY DEF StmtOK, OnExport, Remote, OnPage
  <2> HIDE DEF trim
  <2> QED BY <2>1, PlanOne
<1>3. PlanOK(p3)
  <2>1. gone \subseteq Used(d)
    BY RowsAreUsed
  <2> HIDE DEF gone
  <2> QED BY <2>1, InsertEach
<1>4. PlanOK(p4)
  BY DoOK, SyncOK, PlanTwo
<1>5. SaveRescue(d, c, o, kept) = p1 \o p2 \o p3 \o p4
  BY DEF SaveRescue
<1> HIDE DEF p1, p2, p3, p4
<1>6. PlanOK(p1 \o p2 \o p3 \o p4)
  <2>1. PlanOK(p1 \o p2 \o p3)
    BY <1>1, <1>2, <1>3, PlanThen
  <2> QED BY <2>1, <1>4, PlanThen
<1> QED BY <1>5, <1>6

LEMMA ForcedDeletionOK ==
  ASSUME NEW c \in Cases, NEW o, NEW S
  PROVE  PlanOK(ForcedDeletion(c, o, S))
<1> DEFINE release == [do |-> "release", case |-> c, order |-> o, ids |-> S]
           delete == [do |-> "delete", ids |-> S]
<1>1. StmtOK(release) /\ StmtOK(delete)
  BY DEF StmtOK, OnExport, Remote, OnPage
<1>2. ForcedDeletion(c, o, S) = <<release, delete, Do("drop empty", c), Sync(c)>>
  BY DEF ForcedDeletion
<1> HIDE DEF release, delete
<1> QED BY <1>1, <1>2, DoOK, SyncOK, PlanFour

-----------------------------------------------------------------------------
(* The calls the pages begin.                                                *)

CallOK ==
  /\ DOMAIN call = {"op", "case", "plan", "rescue", "failed", "base"}
  /\ PlanOK(call.plan) /\ PlanOK(call.rescue)
Begun == CallOK' /\ db' = db /\ work' = work
(* The state a call begins in.                                               *)
Ready == work \in Works /\ Sound(db) /\ CallOK

LEMMA BeginOK ==
  ASSUME NEW op, NEW c, NEW plan, PlanOK(plan), NEW rescue, PlanOK(rescue), Begin(op, c, plan, rescue)
  PROVE  Begun
<1>1. /\ DOMAIN call' = {"op", "case", "plan", "rescue", "failed", "base"}
      /\ call'.plan = plan /\ call'.rescue = rescue /\ db' = db /\ work' = work
  BY DEF Begin
<1>2. \A p : PlanOK(p)' <=> PlanOK(p)
  BY DEF PlanOK, StmtOK
<1> QED BY <1>1, <1>2 DEF Begun, CallOK

LEMMA WorkFacts ==
  ASSUME work \in Works
  PROVE  /\ work.cases \subseteq Cases /\ work.items \subseteq OrderIds /\ work.reservations \subseteq Reservations
         /\ work.entered \in [OrderIds -> Order] /\ work.needs \subseteq Nat
         /\ work.picks \subseteq Nat \ {0} /\ work.shelf \in Nat
BY WorksOK

LEMMA OrdersPageOK ==
  ASSUME Ready, NEW c \in work.cases, OrdersPage(c)
  PROVE  Begun
<1>1. /\ c \in Cases /\ work.items \subseteq OrderIds /\ work.needs \subseteq Nat /\ work.cases \subseteq Cases
      /\ db \in Tables /\ db.orders \in [OrderIds -> Order]
  BY WorkFacts, TableFields DEF Ready, Sound
<1>2. ASSUME NEW S \in SUBSET work.items, NEW needs \in [S -> work.needs], SaveOrders(c, needs) PROVE Begun
  <2> DEFINE stmt == [do |-> "orders", orders |-> OrdersAfter(c, needs)]
             stage == [do |-> "stage", case |-> c, stage |-> "packing"]
             p1 == <<stmt>>
             p2 == When(db.stage[c] \in {"packed", "shipped"}, <<stage>>)
             p3 == <<Do("unlink", c), Sync(c)>>
  <2>1. OrdersAfter(c, needs) \in [OrderIds -> Order]
    BY <1>1 DEF OrdersAfter, Order, NotEntered
  <2>2. StmtOK(stmt) /\ StmtOK(stage)
    BY <2>1 DEF StmtOK, OnExport, Remote, OnPage, Stages, Managed
  <2>3. Begin("orders", c, p1 \o p2 \o p3, << >>)
    BY <1>2 DEF SaveOrders
  <2> HIDE DEF stmt, stage
  <2>4. PlanOK(p1)
    BY <2>2, PlanOne
  <2>5. PlanOK(p2)
    <3>1. PlanOK(<<stage>>)
      BY <2>2, PlanOne
    <3> QED BY <3>1, PlanWhen
  <2>6. PlanOK(p3)
    BY <1>1, DoOK, SyncOK, PlanTwo
  <2> HIDE DEF p1, p2, p3
  <2>7. PlanOK(p1 \o p2 \o p3)
    <3>1. PlanOK(p1 \o p2)
      BY <2>4, <2>5, PlanThen
    <3> QED BY <3>1, <2>6, PlanThen
  <2> QED BY <2>3, <2>7, PlanNil, BeginOK
<1>3. ASSUME NEW o \in work.items, NEW n \in work.needs, SaveUnits(c, o, n) PROVE Begun
  <2> DEFINE stmt == [do |-> "orders", orders |-> [db.orders EXCEPT ![o].need = n]]
  <2>1. [db.orders EXCEPT ![o].need = n] \in [OrderIds -> Order]
    BY <1>1 DEF Order
  <2>2. StmtOK(stmt)
    BY <2>1 DEF StmtOK, OnExport, Remote, OnPage
  <2>3. Begin("units", c, <<stmt>>, << >>)
    BY <1>3 DEF SaveUnits
  <2> HIDE DEF stmt
  <2>4. PlanOK(<<stmt>>)
    BY <2>2, PlanOne
  <2> QED BY <2>3, <2>4, PlanNil, BeginOK
<1>4. ASSUME NEW t \in work.cases, MergeCase(c, t) PROVE Begun
  <2> DEFINE offset == IF db.boxes[c] = {} \/ db.boxes[t] = {} THEN 0 ELSE Max(db.boxes[t])
             moved == {b \in Boxes : b + offset \in Boxes}
             move == [do |-> "move", case |-> c, to |-> t, boxes |-> [b \in moved |-> b + offset]]
             join == [do |-> "join", case |-> c, to |-> t]
  <2>1. c # t /\ t \in Cases
    BY <1>1, <1>4 DEF MergeCase
  <2>2. StmtOK(move) /\ StmtOK(join)
    BY <1>1, <2>1 DEF StmtOK, OnExport, Remote, OnPage
  <2>3. MergePlan(c, t) = <<move, Sync(t), join>> /\ Begin("merge", c, MergePlan(c, t), << >>)
    BY <1>4 DEF MergePlan, MergeCase
  <2> HIDE DEF move, join
  <2>4. PlanOK(MergePlan(c, t))
    BY <2>1, <2>2, <2>3, SyncOK, PlanThree
  <2> QED BY <2>3, <2>4, PlanNil, BeginOK
<1>5. ASSUME CancelCase(c) PROVE Begun
  <2> DEFINE W == With(db, c, {"waiting", "partial"})
             withdraw == [do |-> "withdraw", id |-> The(W)]
             stage == [do |-> "stage", case |-> c, stage |-> "cancelled"]
             p1 == When(W # {}, <<withdraw>>)
             p2 == <<stage>>
  <2>1. Begin("cancel", c, CancelPlan(c, W), << >>) /\ CancelPlan(c, W) = p1 \o p2
    BY <1>5 DEF CancelCase, CancelPlan
  <2>2. StmtOK(stage)
    BY DEF StmtOK, OnExport, Remote, OnPage, Stages
  <2>3. ASSUME W # {} PROVE StmtOK(withdraw)
    <3>1. The(W) \in Reservations
      BY <2>3 DEF The, With
    <3> QED BY <3>1 DEF StmtOK, OnExport, Remote, OnPage
  <2> HIDE DEF W, withdraw, stage
  <2>4. PlanOK(p1)
    <3>1. W # {} => PlanOK(<<withdraw>>)
      BY <2>3, PlanOne
    <3> QED BY <3>1, PlanWhen
  <2>5. PlanOK(p2)
    BY <2>2, PlanOne
  <2> HIDE DEF p1, p2
  <2>6. PlanOK(p1 \o p2)
    BY <2>4, <2>5, PlanThen
  <2> QED BY <2>1, <2>6, PlanNil, BeginOK
<1> QED BY <1>2, <1>3, <1>4, <1>5 DEF OrdersPage

LEMMA IntakePageOK ==
  ASSUME Ready, NEW c \in work.cases, IntakePage(c)
  PROVE  Begun
<1>1. /\ c \in Cases /\ work.items \subseteq OrderIds /\ work.picks \subseteq Nat \ {0}
      /\ work \in Works /\ Sound(db) /\ db \in Tables
  BY WorkFacts DEF Ready, Sound
<1>2. ASSUME OpenIntake(c) PROVE Begun
  <2>1. PlanOK(<<Do("unlink", c), Sync(c)>>)
    BY <1>1, DoOK, SyncOK, PlanTwo
  <2>2. Begin("open", c, <<Do("unlink", c), Sync(c)>>, << >>)
    BY <1>2 DEF OpenIntake
  <2> QED BY <2>1, <2>2, PlanNil, BeginOK
<1>3. ASSUME DeleteUnlinked(c) PROVE Begun
  <2> DEFINE delete == [do |-> "delete", ids |-> RowsFor(db, c, NoOrder)]
             p == <<delete, Do("drop empty", c), Sync(c)>>
  <2>1. StmtOK(delete)
    BY DEF StmtOK, OnExport, Remote, OnPage
  <2>2. Begin("purge", c, p, << >>)
    BY <1>3 DEF DeleteUnlinked
  <2> HIDE DEF delete
  <2>3. PlanOK(p)
    BY <1>1, <2>1, DoOK, SyncOK, PlanThree
  <2> QED BY <2>2, <2>3, PlanNil, BeginOK
<1>4. ASSUME NEW o \in work.items, NEW S \in SUBSET RowsFor(db, c, o), NEW kept \in [S -> work.picks],
             NEW pick \in work.picks \cup {0}, SavePicks(c, o, kept, pick)
      PROVE  Begun
  <2>1. KeptOK(db, c, o, kept) /\ pick \in Nat /\ o \in OrderIds
    BY <1>1, <1>4 DEF KeptOK
  <2>2. /\ Begin("save", c, SavePlan(db, c, o, kept, pick), SaveRescue(db, c, o, kept))
        /\ Target(db, c) # NoReservation
    BY <1>4 DEF SavePicks
  <2>3. Target(db, c) \in Reservations
    BY <1>1, <2>2, TargetTyped
  <2>4. PlanOK(SavePlan(db, c, o, kept, pick))
    BY <1>1, <2>1, <2>3, SavePlanOK
  <2>5. PlanOK(SaveRescue(db, c, o, kept))
    BY <1>1, <2>1, SaveRescueOK
  <2> QED BY <2>2, <2>4, <2>5, BeginOK
<1>5. ASSUME NEW o \in work.items, NEW S \in SUBSET RowsFor(db, c, o), NEW refused, DeleteRows(c, o, S, refused)
      PROVE  Begun
  <2> DEFINE kept == [i \in RowsFor(db, c, o) \ S |-> db.rows[i].qty]
  <2>1. KeptOK(db, c, o, kept) /\ o \in OrderIds
    BY <1>1, <1>5, UnchangedOK
  <2>2. PlanOK(ForcedDeletion(c, o, S))
    BY <1>1, ForcedDeletionOK
  <2>3. IF refused THEN Begin("delete", c, ForcedDeletion(c, o, S), << >>)
        ELSE /\ Target(db, c) # NoReservation
             /\ Begin("delete", c, SavePlan(db, c, o, kept, 0),
                      SaveRescue(db, c, o, kept) \o ForcedDeletion(c, o, S))
    BY <1>5 DEF DeleteRows
  <2> HIDE DEF kept
  <2>4. CASE refused
    BY <2>2, <2>3, <2>4, PlanNil, BeginOK
  <2>5. CASE ~refused
    <3>1. Target(db, c) \in Reservations
      BY <1>1, <2>3, <2>5, TargetTyped
    <3>2. PlanOK(SavePlan(db, c, o, kept, 0))
      BY <1>1, <2>1, <3>1, SavePlanOK
    <3>3. PlanOK(SaveRescue(db, c, o, kept))
      BY <1>1, <2>1, SaveRescueOK
    <3>4. PlanOK(SaveRescue(db, c, o, kept) \o ForcedDeletion(c, o, S))
      BY <2>2, <3>3, PlanThen
    <3> QED BY <2>3, <2>5, <3>2, <3>4, BeginOK
  <2> QED BY <2>4, <2>5
<1> QED BY <1>2, <1>3, <1>4, <1>5 DEF IntakePage

(* Each of the boxes a row is divided over gets at least one unit.           *)
LEMMA PortionsFacts ==
  ASSUME NEW n \in Nat, NEW q \in Nat \ {0}
  PROVE  /\ Len(Portions(n, q)) \in Nat /\ DOMAIN Portions(n, q) = 1 .. Len(Portions(n, q))
         /\ \A j \in DOMAIN Portions(n, q) : Portions(n, q)[j] \in Nat \ {0}
<1> DEFINE k == (n + q - 1) \div q
           p == [j \in 1 .. k |-> Lesser(q, n - (j - 1) * q)]
<1>1. k \in Nat /\ k * q <= n + q - 1
  <2>1. n + q - 1 \in Nat
    OBVIOUS
  <2> QED BY <2>1
<1> HIDE DEF k
<1>2. \A j \in 1 .. k : p[j] \in Nat \ {0}
  <2> SUFFICES ASSUME NEW j \in 1 .. k PROVE n - (j - 1) * q \in Nat \ {0}
    BY DEF Lesser
  <2>1. (k - j) * q >= 0
    <3>1. k - j \in Nat
      BY <1>1
    <3> QED BY <3>1
  <2>2. j * q <= k * q
    BY <1>1, <2>1
  <2>3. (j - 1) * q = j * q - q /\ j * q \in Int
    BY <1>1
  <2> QED BY <1>1, <2>2, <2>3
<1>3. p \in [1 .. k -> Nat \ {0}]
  BY <1>2
<1>4. Portions(n, q) = p
  BY DEF Portions, k
<1> HIDE DEF p
<1>5. p \in Seq(Nat \ {0})
  BY <1>1, <1>3
<1>6. Len(p) \in Nat /\ DOMAIN p = 1 .. Len(p)
  BY <1>5, LenProperties
<1> QED BY <1>3, <1>4, <1>6

LEMMA PackingPageOK ==
  ASSUME Ready, NEW c \in work.cases, PackingPage(c)
  PROVE  Begun
<1>1. /\ c \in Cases /\ work.picks \subseteq Nat \ {0} /\ db \in Tables
      /\ db.boxes[c] \subseteq Boxes /\ Offered(c) \subseteq Boxes
      /\ Linked(db, c) \subseteq Used(db)
      /\ \A i \in Linked(db, c) : db.rows[i] \in Row /\ db.rows[i].qty \in Nat \ {0}
  <2>1. c \in Cases /\ work.picks \subseteq Nat \ {0} /\ db \in Tables
    BY WorkFacts DEF Ready, Sound
  <2>2. db.boxes[c] \subseteq Boxes
    BY <2>1, TableFields
  <2> QED BY <2>1, <2>2, RowsAreUsed, RowFields DEF Offered
<1>2. ASSUME NEW S \in SUBSET Linked(db, c), NEW b \in Boxes \cup {Unboxed}
      PROVE  PlanOK(Each([i \in S |-> Put(i, db.rows[i].qty, b)]))
  <2> DEFINE puts == [i \in S |-> Put(i, db.rows[i].qty, b)]
  <2>1. S \subseteq Used(db) /\ DOMAIN puts = S
    BY <1>1
  <2>2. \A i \in S : db.rows[i].qty \in Nat \ {0} /\ puts[i] = Put(i, db.rows[i].qty, b)
    BY <1>1
  <2> HIDE DEF puts
  <2>3. PlanOK(Each(puts))
    BY <1>1, <2>1, <2>2, PutEach
  <2> QED BY <2>3 DEF puts
<1>3. ASSUME NEW S \in SUBSET Linked(db, c), NEW b \in Boxes PROVE PlanOK(AssignPlan(c, S, b))
  <2> DEFINE p1 == Each([i \in S |-> Put(i, db.rows[i].qty, b)])
             p2 == <<Box("box", c, b), Sync(c)>>
  <2>1. PlanOK(p1)
    BY <1>2
  <2>2. PlanOK(p2)
    BY <1>1, BoxOK, SyncOK, PlanTwo
  <2>3. AssignPlan(c, S, b) = p1 \o p2
    BY DEF AssignPlan
  <2> HIDE DEF p1, p2
  <2> QED BY <2>1, <2>2, <2>3, PlanThen
<1>4. ASSUME NEW S \in SUBSET Linked(db, c), Unassign(c, S) PROVE Begun
  <2> DEFINE p1 == Each([i \in S |-> Put(i, db.rows[i].qty, Unboxed)])
             p2 == <<Sync(c)>>
  <2>1. PlanOK(p1)
    BY <1>2
  <2>2. PlanOK(p2)
    BY <1>1, SyncOK, PlanOne
  <2>3. Begin("unassign", c, p1 \o p2, << >>)
    BY <1>4 DEF Unassign
  <2> HIDE DEF p1, p2
  <2>4. PlanOK(p1 \o p2)
    BY <2>1, <2>2, PlanThen
  <2> QED BY <2>3, <2>4, PlanNil, BeginOK
<1>5. ASSUME NEW S \in SUBSET Linked(db, c), NEW b \in Boxes, Assign(c, S, b) PROVE Begun
  <2>1. Begin("assign", c, AssignPlan(c, S, b), << >>) /\ PlanOK(AssignPlan(c, S, b))
    BY <1>3, <1>5 DEF Assign
  <2> QED BY <2>1, PlanNil, BeginOK
<1>6. ASSUME NEW i \in Linked(db, c), NEW b \in Boxes, NEW q \in work.picks, AssignPartial(c, i, b, q) PROVE Begun
  <2> DEFINE row == [db.rows[i] EXCEPT !.qty = @ - q]
             p == <<Put(i, q, b), Insert(row), Box("box", c, b), Sync(c)>>
             whole == AssignPlan(c, {i}, b)
  <2>1. q <= db.rows[i].qty /\ Begin("partial", c, IF q = db.rows[i].qty THEN whole ELSE p, << >>)
    BY <1>6 DEF AssignPartial
  <2>2. q \in Nat \ {0}
    BY <1>1
  <2>3. PlanOK(whole)
    BY <1>3
  <2>4. ASSUME q # db.rows[i].qty PROVE PlanOK(p)
    <3>1. db.rows[i].qty - q \in Nat \ {0} /\ db.rows[i] \in Row
      BY <1>1, <2>1, <2>2, <2>4
    <3>2. row \in Row
      BY <3>1 DEF Row
    <3> HIDE DEF row
    <3> QED BY <1>1, <2>2, <3>2, PutOK, InsertOK, BoxOK, SyncOK, PlanFour
  <2> HIDE DEF p, whole
  <2>5. PlanOK(IF q = db.rows[i].qty THEN whole ELSE p)
    BY <2>3, <2>4
  <2> QED BY <2>1, <2>5, PlanNil, BeginOK
<1>7. ASSUME NEW i \in Linked(db, c), NEW q \in work.picks, AssignRepeated(c, i, q) PROVE Begun
  <2> DEFINE row == db.rows[i]
             parts == Portions(row.qty, q)
             boxOf(j) == NextBox(db, c) + j - 1
             put(j) == IF j = 1 THEN Put(i, parts[1], boxOf(1))
                       ELSE Insert([row EXCEPT !.qty = parts[j], !.box = boxOf(j)])
             p1 == [n \in 1 .. 2 * Len(parts) |-> IF n % 2 = 1 THEN Box("box", c, boxOf(n \div 2 + 1))
                                                  ELSE put(n \div 2)]
             p2 == <<Sync(c)>>
  <2>1. row \in Row /\ row.qty \in Nat \ {0} /\ q \in Nat \ {0}
    BY <1>1
  <2>2. /\ \A j \in DOMAIN parts : boxOf(j) \in Boxes
        /\ Begin("repeat", c, p1 \o p2, << >>)
    BY <1>7 DEF AssignRepeated
  <2> HIDE DEF row
  <2>3. Len(parts) \in Nat /\ DOMAIN parts = 1 .. Len(parts) /\ \A j \in DOMAIN parts : parts[j] \in Nat \ {0}
    BY <2>1, PortionsFacts
  <2> HIDE DEF parts, boxOf
  <2>4. ASSUME NEW j \in 1 .. Len(parts) PROVE StmtOK(put(j)) /\ StmtOK(Box("box", c, boxOf(j)))
    <3>1. boxOf(j) \in Boxes /\ parts[j] \in Nat \ {0}
      BY <2>2, <2>3
    <3>2. [row EXCEPT !.qty = parts[j], !.box = boxOf(j)] \in Row
      BY <2>1, <3>1 DEF Row
    <3>3. StmtOK(Insert([row EXCEPT !.qty = parts[j], !.box = boxOf(j)]))
      BY <3>2, InsertOK
    <3>4. j = 1 => StmtOK(Put(i, parts[1], boxOf(1)))
      BY <3>1, PutOK
    <3> QED BY <1>1, <3>1, <3>3, <3>4, BoxOK
  <2> HIDE DEF put
  <2>5. PlanOK(p1)
    <3>1. 2 * Len(parts) \in Nat
      BY <2>3
    <3>2. DOMAIN p1 = 1 .. 2 * Len(parts) /\ p1 = [n \in 1 .. 2 * Len(parts) |-> p1[n]]
      OBVIOUS
    <3>3. \A n \in 1 .. 2 * Len(parts) : StmtOK(p1[n])
      <4> SUFFICES ASSUME NEW n \in 1 .. 2 * Len(parts) PROVE StmtOK(p1[n])
        OBVIOUS
      <4>1. CASE n % 2 = 1
        <5>1. n \div 2 + 1 \in 1 .. Len(parts)
          BY <2>3, <4>1
        <5>2. p1[n] = Box("box", c, boxOf(n \div 2 + 1))
          BY <4>1
        <5> QED BY <2>4, <5>1, <5>2
      <4>2. CASE n % 2 # 1
        <5>1. n \div 2 \in 1 .. Len(parts)
          BY <2>3, <4>2
        <5>2. p1[n] = put(n \div 2)
          BY <4>2
        <5> QED BY <2>4, <5>1, <5>2
      <4> QED BY <4>1, <4>2
    <3> HIDE DEF p1
    <3> QED BY <3>1, <3>2, <3>3, PlanList
  <2>6. PlanOK(p2)
    BY <1>1, SyncOK, PlanOne
  <2> HIDE DEF p1, p2
  <2>7. PlanOK(p1 \o p2)
    BY <2>5, <2>6, PlanThen
  <2> QED BY <2>2, <2>7, PlanNil, BeginOK
<1>8. ASSUME NEW b \in Boxes, ClearBox(c, b) PROVE Begun
  <2>1. PlanOK(<<Box("empty", c, b), Box("unbox", c, b), Sync(c)>>)
    BY <1>1, BoxOK, SyncOK, PlanThree
  <2>2. Begin("clear", c, <<Box("empty", c, b), Box("unbox", c, b), Sync(c)>>, << >>)
    BY <1>8 DEF ClearBox
  <2> QED BY <2>1, <2>2, PlanNil, BeginOK
<1>9. ASSUME NEW b \in Boxes, CloneBox(c, b) PROVE Begun
  <2> DEFINE S == {i \in Linked(db, c) : db.rows[i].box = b}
             to == NextBox(db, c)
             p1 == <<Box("box", c, to)>>
             p2 == Each([i \in S |-> Insert([db.rows[i] EXCEPT !.box = to])])
             p3 == <<Sync(c)>>
  <2>1. to \in Boxes /\ Begin("clone", c, p1 \o p2 \o p3, << >>)
    BY <1>9 DEF CloneBox
  <2>2. S \subseteq Used(db)
    BY <1>1
  <2> HIDE DEF S, to
  <2>3. PlanOK(p1)
    BY <1>1, <2>1, BoxOK, PlanOne
  <2>4. PlanOK(p2)
    BY <1>1, <2>1, <2>2, InsertEach
  <2>5. PlanOK(p3)
    BY <1>1, SyncOK, PlanOne
  <2> HIDE DEF p1, p2, p3
  <2>6. PlanOK(p1 \o p2 \o p3)
    <3>1. PlanOK(p1 \o p2)
      BY <2>3, <2>4, PlanThen
    <3> QED BY <2>5, <3>1, PlanThen
  <2> QED BY <2>1, <2>6, PlanNil, BeginOK
<1>10. ASSUME NEW b \in Boxes, NEW to \in Boxes, RenameBox(c, b, to) PROVE Begun
  <2> DEFINE move == [do |-> "move", case |-> c, to |-> c, boxes |-> [x \in {b} |-> to]]
  <2>1. StmtOK(move)
    BY <1>1 DEF StmtOK, OnExport, Remote, OnPage
  <2>2. Begin("rename", c, <<move>>, << >>)
    BY <1>10 DEF RenameBox
  <2> HIDE DEF move
  <2>3. PlanOK(<<move>>)
    BY <2>1, PlanOne
  <2> QED BY <2>2, <2>3, PlanNil, BeginOK
<1> QED BY <1>4, <1>5, <1>6, <1>7, <1>8, <1>9, <1>10 DEF PackingPage

LEMMA SalesPageOK ==
  ASSUME Ready, NEW c \in work.cases, SalesPage(c)
  PROVE  Begun
<1>1. c \in Cases
  BY WorkFacts DEF Ready
<1>2. ASSUME NEW act, PlanOK(act), Register(c, act) PROVE Begun
  <2> DEFINE p == <<Do("reconcile", c), Do("audit", c)>>
  <2>1. PlanOK(p)
    BY <1>1, DoOK, PlanTwo
  <2>2. Begin("register", c, p \o act, << >>)
    BY <1>2 DEF Register
  <2> HIDE DEF p
  <2>3. PlanOK(p \o act)
    BY <1>2, <2>1, PlanThen
  <2> QED BY <2>2, <2>3, PlanNil, BeginOK
<1>3. PlanOK(<<Do("give up", c)>>)
  BY <1>1, DoOK, PlanOne
<1>4. ASSUME NEW K, Register(c, << [do |-> "confirm", case |-> c, keys |-> K] >>) PROVE Begun
  <2> DEFINE stmt == [do |-> "confirm", case |-> c, keys |-> K]
  <2>1. StmtOK(stmt)
    BY <1>1 DEF StmtOK, OnExport, Remote, OnPage
  <2>2. Register(c, <<stmt>>)
    BY <1>4
  <2> HIDE DEF stmt
  <2> QED BY <1>2, <2>1, <2>2, PlanOne
<1> QED BY <1>2, <1>3, <1>4, PlanNil DEF SalesPage

LEMMA StartCallOK ==
  ASSUME Ready, StartCall
  PROVE  Begun
<1>1. PICK c \in work.cases : \/ OrdersPage(c) \/ IntakePage(c) \/ PackingPage(c)
                              \/ Deliver(c) \/ ReturnDomestic(c) \/ SalesPage(c)
  BY DEF StartCall
<1>2. CASE Deliver(c)
  <2> DEFINE stage == [do |-> "stage", case |-> c, stage |-> "shipped"]
  <2>1. StmtOK(stage)
    BY DEF StmtOK, OnExport, Remote, OnPage, Stages
  <2>2. Begin("deliver", c, <<stage>>, << >>)
    BY <1>2 DEF Deliver
  <2> HIDE DEF stage
  <2> QED BY <2>1, <2>2, PlanOne, PlanNil, BeginOK
<1>3. CASE ReturnDomestic(c)
  <2> DEFINE W == With(db, c, {"partial", "confirmed"})
             back == [do |-> "return", id |-> The(W)]
             stage == [do |-> "stage", case |-> c, stage |-> "packed"]
  <2>1. Cardinality(W) = 1 /\ Begin("return", c, <<back, stage>>, << >>)
    BY <1>3 DEF ReturnDomestic
  <2>2. The(W) \in Reservations
    BY <2>1, OneOf
  <2>3. StmtOK(back) /\ StmtOK(stage)
    BY <2>2 DEF StmtOK, OnExport, Remote, OnPage, Stages, Managed
  <2> HIDE DEF back, stage
  <2> QED BY <2>1, <2>3, PlanTwo, PlanNil, BeginOK
<1> QED BY <1>1, <1>2, <1>3, OrdersPageOK, IntakePageOK, PackingPageOK, SalesPageOK

-----------------------------------------------------------------------------
(* A call goes on.                                                           *)

(* Running statements one after the other is a function of how many; it      *)
(* exists, and each of its values follows from the one before.               *)
RunsTo(g, k) == g = [m \in 0 .. k |-> IF m = 0 THEN db ELSE Exec(g[m - 1], call.plan[m])]

LEMMA RunExists ==
  ASSUME NEW k \in Nat
  PROVE  \E g : RunsTo(g, k)
<1> DEFINE N == {n \in Nat : \E g : RunsTo(g, n)}
<1>1. 0 \in N
  <2> DEFINE g == [m \in 0 .. 0 |-> db]
  <2>1. RunsTo(g, 0)
    BY DEF RunsTo
  <2> HIDE DEF g
  <2> QED BY <2>1
<1>2. ASSUME NEW n \in Nat, n \in N PROVE n + 1 \in N
  <2>1. PICK g : RunsTo(g, n)
    BY <1>2
  <2> DEFINE h == [m \in 0 .. n + 1 |-> IF m <= n THEN g[m] ELSE Exec(g[n], call.plan[n + 1])]
  <2>2. \A m \in 0 .. n : g[m] = IF m = 0 THEN db ELSE Exec(g[m - 1], call.plan[m])
    BY <2>1 DEF RunsTo
  <2>3. ASSUME NEW m \in 0 .. n + 1
        PROVE  h[m] = IF m = 0 THEN db ELSE Exec(h[m - 1], call.plan[m])
    <3>1. CASE m = 0
      BY <2>2, <3>1
    <3>2. CASE m # 0 /\ m <= n
      <4>1. m - 1 \in 0 .. n /\ m \in 0 .. n
        BY <3>2
      <4>2. h[m] = g[m] /\ h[m - 1] = g[m - 1]
        BY <4>1
      <4> HIDE DEF h
      <4> QED BY <2>2, <3>2, <4>1, <4>2
    <3>3. CASE m = n + 1
      <4>1. h[n + 1] = Exec(g[n], call.plan[n + 1]) /\ h[n] = g[n]
        OBVIOUS
      <4> HIDE DEF h
      <4> QED BY <3>3, <4>1
    <3> QED BY <3>1, <3>2, <3>3
  <2>4. RunsTo(h, n + 1)
    <3>1. h = [m \in 0 .. n + 1 |-> h[m]]
      OBVIOUS
    <3> HIDE DEF h
    <3> QED BY <2>3, <3>1 DEF RunsTo
  <2> HIDE DEF h
  <2> QED BY <2>4
<1>3. Nat \subseteq N
  <2> HIDE DEF N
  <2> QED BY <1>1, <1>2, NatSetInduction
<1> QED BY <1>3

LEMMA RunToFacts ==
  ASSUME Ready
  PROVE  /\ RunTo(0) = db
         /\ \A m \in 1 .. Len(call.plan) : RunTo(m) = Exec(RunTo(m - 1), call.plan[m])
<1> DEFINE g == CHOOSE g : RunsTo(g, Len(call.plan))
<1>1. Len(call.plan) \in Nat
  BY PlanItems DEF Ready, CallOK
<1>2. RunsTo(g, Len(call.plan))
  BY <1>1, RunExists
<1>3. \A n : RunTo(n) = g[n]
  BY DEF RunTo, RunsTo
<1> HIDE DEF g
<1>4. \A m \in 0 .. Len(call.plan) : g[m] = IF m = 0 THEN db ELSE Exec(g[m - 1], call.plan[m])
  BY <1>2 DEF RunsTo
<1> QED BY <1>1, <1>3, <1>4

(* However far the local statements of a plan have run.                      *)
LEMMA RunToKeeps ==
  ASSUME Ready, NEW n \in 0 .. Len(call.plan), \A m \in 1 .. n : Local(call.plan[m])
  PROVE  Sound(RunTo(n)) /\ NoneLost(db, RunTo(n))
<1> DEFINE N == {k \in Nat : k <= n => Sound(RunTo(k)) /\ NoneLost(db, RunTo(k))}
<1>1. Len(call.plan) \in Nat /\ \A m \in 1 .. Len(call.plan) : StmtOK(call.plan[m])
  BY PlanItems DEF Ready, CallOK
<1>2. 0 \in N
  BY RunToFacts, Unmoved DEF Ready
<1>3. ASSUME NEW k \in Nat, k \in N PROVE k + 1 \in N
  <2> SUFFICES ASSUME k + 1 <= n
               PROVE  Sound(RunTo(k + 1)) /\ NoneLost(db, RunTo(k + 1))
    OBVIOUS
  <2> DEFINE s == call.plan[k + 1]
             d == RunTo(k)
  <2>1. k + 1 \in 1 .. n /\ k + 1 \in 1 .. Len(call.plan) /\ k <= n /\ (k + 1) - 1 = k
    BY <1>1
  <2>2. StmtOK(s) /\ Local(s)
    BY <1>1, <2>1
  <2>3. s.do \in OnExport
    BY <2>2 DEF StmtOK, Local, OnExport, OnPage
  <2>4. Sound(d) /\ NoneLost(db, d)
    BY <1>3, <2>1
  <2>5. RunTo(k + 1) = Exec(d, s)
    BY <2>1, RunToFacts
  <2> HIDE DEF s, d
  <2>6. Sound(Exec(d, s)) /\ NoneLost(d, Exec(d, s))
    BY <2>2, <2>3, <2>4, ExportKeeps
  <2>7. NoneLost(db, Exec(d, s))
    BY <2>4, <2>6, NoneLostTrans
  <2> QED BY <2>5, <2>6, <2>7
<1>4. n \in N
  <2>1. Nat \subseteq N
    <3> HIDE DEF N
    <3> QED BY <1>2, <1>3, NatSetInduction
  <2> QED BY <1>1, <2>1
<1> QED BY <1>1, <1>4

LEMMA ToRemoteFacts ==
  ASSUME Ready
  PROVE  ToRemote \in 0 .. Len(call.plan) /\ \A m \in 1 .. ToRemote : Local(call.plan[m])
<1> DEFINE S == {n \in 0 .. Len(call.plan) : \A m \in 1 .. n : Local(call.plan[m])}
<1>1. Len(call.plan) \in Nat
  BY PlanItems DEF Ready, CallOK
<1>2. 0 \in S /\ S \subseteq 0 .. Len(call.plan)
  BY <1>1
<1>3. ToRemote = Max(S)
  BY DEF ToRemote
<1>4. Max(S) \in S
  <2> HIDE DEF S
  <2> QED BY <1>1, <1>2, MaxIn
<1> QED BY <1>3, <1>4

LEMMA CompactedKeeps ==
  ASSUME NEW d, Sound(d)
  PROVE  Sound(Compacted(d)) /\ NoneLost(d, Compacted(d))
<1> DEFINE rank == [i \in Used(d) |-> Cardinality({j \in Used(d) : Before(d, j, i)})]
           at(n) == {i \in Used(d) : rank[i] = n - 1}
           r == [n \in RowIds |-> IF at(n) = {} THEN NoRow ELSE d.rows[The(at(n))]]
           e == Compacted(d)
<1>1. d \in Tables
  BY DEF Sound
<1>2. e = [d EXCEPT !.rows = r]
  BY DEF Compacted
<1>3. \A n \in RowIds : at(n) # {} => The(at(n)) \in Used(d)
  BY DEF The
<1> HIDE DEF at
<1>4. r \in [RowIds -> Row \cup {NoRow}]
  BY <1>1, <1>3, RowFields
<1> HIDE DEF r, e
<1>5. e \in Tables /\ e.held = d.held /\ e.shelf = d.shelf
  BY <1>1, <1>2, <1>4, RowsChange
<1>6. Sound(e) /\ NoneLost(d, e)
  BY <1>1, <1>5, NoneMoves DEF Sound, SalesMarked
<1> QED BY <1>6 DEF e

(* What a step leaves to be run is a plan again.                             *)
LEMMA ContinueOK ==
  ASSUME CallOK, NEW plan, PlanOK(plan), Continue(plan)
  PROVE  CallOK'
<1>1. /\ DOMAIN call' = {"op", "case", "plan", "rescue", "failed", "base"}
      /\ call'.plan = plan /\ call'.rescue = call.rescue
  BY DEF CallOK, Continue
<1>2. \A p : PlanOK(p)' <=> PlanOK(p)
  BY DEF PlanOK, StmtOK
<1> QED BY <1>1, <1>2 DEF CallOK

LEMMA ReplanOK ==
  ASSUME CallOK, NEW plan, PlanOK(plan), NEW rescue, PlanOK(rescue), NEW failed,
         call' = [call EXCEPT !.plan = plan, !.rescue = rescue, !.failed = failed]
  PROVE  CallOK'
<1>1. /\ DOMAIN call' = {"op", "case", "plan", "rescue", "failed", "base"}
      /\ call'.plan = plan /\ call'.rescue = rescue
  BY DEF CallOK
<1>2. \A p : PlanOK(p)' <=> PlanOK(p)
  BY DEF PlanOK, StmtOK
<1> QED BY <1>1, <1>2 DEF CallOK

LEMMA NoCallOK ==
  ASSUME call' = NoCall
  PROVE  CallOK'
<1>1. /\ DOMAIN call' = {"op", "case", "plan", "rescue", "failed", "base"}
      /\ call'.plan = << >> /\ call'.rescue = << >>
  BY DEF NoCall
<1>2. \A p : PlanOK(p)' <=> PlanOK(p)
  BY DEF PlanOK, StmtOK
<1> QED BY <1>1, <1>2, PlanNil DEF CallOK

LEMMA RepairOK ==
  ASSUME Ready, Repair
  PROVE  CallOK'
<1> DEFINE c == Next1.case
           S == {o \in Items(db, c) : \E i \in RowsFor(db, c, o) : db.rows[i].key \in Missing(db, c)}
           o == Min(S)
           kept == Unchanged(db, c, o)
           stmt == RepairStep(c, Next1.left - 1)
           plan == SavePlan(db, c, o, kept, 0) \o <<stmt>> \o Rest
           rescue == SaveRescue(db, c, o, kept) \o Rest
<1>1. /\ CallOK /\ work \in Works /\ Sound(db) /\ db \in Tables
      /\ PlanOK(call.plan) /\ call.plan # << >> /\ Next1.do = "repair"
  BY DEF Ready, Repair, Running, CallOK, Sound
<1>2. StmtOK(Next1) /\ PlanOK(Rest)
  BY <1>1, PlanHead DEF Next1, Rest
<1>3. c \in Cases
  BY <1>1, <1>2 DEF StmtOK, OnPage
<1>4. IF S = {} \/ Next1.left = 0 THEN Continue(Rest)
      ELSE call' = [call EXCEPT !.plan = plan, !.rescue = rescue]
  BY DEF Repair
<1>5. CASE S = {} \/ Next1.left = 0
  BY <1>1, <1>2, <1>4, <1>5, ContinueOK
<1>6. CASE S # {} /\ Next1.left # 0
  <2>1. o \in OrderIds
    <3>1. S \subseteq OrderIds /\ S \subseteq Nat
      BY <1>1, TablesOK, RowsAreUsed
    <3> HIDE DEF S
    <3> QED BY <1>6, <3>1, MinIn
  <2>2. Missing(db, c) # {}
    BY <1>6
  <2>3. Cardinality(With(db, c, Live)) = 1
    BY <2>2 DEF Missing
  <2>4. Editable(db, c) # {}
    <3>1. With(db, c, Live) # {}
      BY <2>3, FS_EmptySet
    <3> QED BY <3>1 DEF Editable, With, Live
  <2>5. Target(db, c) \in Reservations
    BY <1>1, <2>4, TargetTyped
  <2>6. KeptOK(db, c, o, kept)
    BY <1>1, UnchangedOK DEF Unchanged
  <2>7. StmtOK(stmt)
    BY <1>3 DEF RepairStep, StmtOK, OnExport, Remote, OnPage
  <2>8. call' = [call EXCEPT !.plan = plan, !.rescue = rescue]
    BY <1>4, <1>6
  <2>9. call' = [call EXCEPT !.plan = plan, !.rescue = rescue, !.failed = call.failed]
    BY <1>1, <2>8 DEF CallOK
  <2> HIDE DEF c, o, kept, stmt
  <2>10. PlanOK(plan)
    <3>1. PlanOK(SavePlan(db, c, o, kept, 0))
      BY <1>1, <1>3, <2>1, <2>5, <2>6, SavePlanOK
    <3>2. PlanOK(<<stmt>>)
      BY <2>7, PlanOne
    <3>3. PlanOK(SavePlan(db, c, o, kept, 0) \o <<stmt>>)
      BY <3>1, <3>2, PlanThen
    <3> QED BY <1>2, <3>3, PlanThen
  <2>11. PlanOK(rescue)
    <3>1. PlanOK(SaveRescue(db, c, o, kept))
      BY <1>1, <1>3, <2>1, <2>6, SaveRescueOK
    <3> QED BY <1>2, <3>1, PlanThen
  <2> HIDE DEF plan, rescue
  <2> QED BY <1>1, <2>9, <2>10, <2>11, ReplanOK
<1> QED BY <1>5, <1>6

LEMMA PagesOK ==
  ASSUME Ready, Audit \/ PressButton
  PROVE  CallOK'
<1>1. /\ CallOK /\ PlanOK(call.plan) /\ call.plan # << >>
  BY DEF Ready, Audit, PressButton, Running, CallOK
<1>2. StmtOK(Next1) /\ PlanOK(Rest)
  BY <1>1, PlanHead DEF Next1, Rest
<1>3. CASE Audit
  <2> DEFINE c == Next1.case
             n == Cardinality(Missing(db, c))
             p == When(n > 0 /\ db.stage[c] # "cancelled", <<RepairStep(c, n + 1)>>)
  <2>1. Next1.do = "audit" /\ Continue(p \o Rest)
    BY <1>3 DEF Audit
  <2>2. c \in Cases
    BY <1>2, <2>1 DEF StmtOK, OnPage
  <2>3. StmtOK(RepairStep(c, n + 1))
    BY <2>2 DEF RepairStep, StmtOK, OnExport, Remote, OnPage
  <2>4. PlanOK(<<RepairStep(c, n + 1)>>)
    BY <2>3, PlanOne
  <2>5. PlanOK(p)
    BY <2>4, PlanWhen
  <2> HIDE DEF p
  <2>6. PlanOK(p \o Rest)
    BY <1>2, <2>5, PlanThen
  <2> QED BY <1>1, <2>1, <2>6, ContinueOK
<1>4. CASE PressButton
  <2> DEFINE W == With(db, Next1.case, Live)
             w == The(W)
             offered == Cardinality(W) = 1 /\ db.held[w].status # "confirmed"
             act == IF Next1.do = "give up" THEN [do |-> "withdraw", id |-> w]
                    ELSE [do |-> "sell", id |-> w, keys |-> Next1.keys]
             guard == offered /\ (Next1.do = "confirm" => \A k \in Next1.keys : db.held[w].wait[k] > 0)
  <2>1. Continue(When(guard, <<act>>))
    BY <1>4 DEF PressButton
  <2>2. ASSUME guard PROVE PlanOK(<<act>>)
    <3>1. w \in Reservations
      BY <2>2, OneOf
    <3> HIDE DEF w
    <3>2. StmtOK(act)
      BY <3>1 DEF StmtOK, OnExport, Remote, OnPage
    <3> HIDE DEF act
    <3> QED BY <3>2, PlanOne
  <2> HIDE DEF guard, act
  <2>3. PlanOK(When(guard, <<act>>))
    BY <2>2, PlanWhen
  <2> QED BY <1>1, <2>1, <2>3, ContinueOK
<1> QED BY <1>3, <1>4

(* Every step keeps the tables sound and the call made of plans, and loses   *)
(* no unit.                                                                  *)
LEMMA StepKeeps ==
  ASSUME Ready, Next
  PROVE  work' = work /\ Sound(db') /\ NoneLost(db, db') /\ CallOK'
<1>1. Sound(db) /\ NoneLost(db, db) /\ CallOK /\ PlanOK(call.plan) /\ PlanOK(call.rescue)
  BY Unmoved DEF Ready, CallOK
<1>2. ASSUME call.plan # << >> PROVE StmtOK(Next1) /\ PlanOK(Rest)
  BY <1>1, <1>2, PlanHead DEF Next1, Rest
<1>3. CASE StartCall
  BY <1>1, <1>3, StartCallOK DEF Begun
<1>4. CASE RunStatements
  <2>1. /\ db' = RunTo(ToRemote) /\ work' = work
        /\ Continue(SubSeq(call.plan, ToRemote + 1, Len(call.plan)))
    BY <1>4 DEF RunStatements
  <2>2. Sound(RunTo(ToRemote)) /\ NoneLost(db, RunTo(ToRemote)) /\ ToRemote \in Nat
    BY ToRemoteFacts, RunToKeeps
  <2>3. PlanOK(SubSeq(call.plan, ToRemote + 1, Len(call.plan)))
    BY <1>1, <2>2, PlanRest
  <2> QED BY <1>1, <2>1, <2>2, <2>3, ContinueOK
<1>5. CASE CallRemote
  <2>1. /\ call.plan # << >> /\ Next1.do \in Remote /\ Possible(Next1)
        /\ db' = Exec(db, Next1) /\ Continue(Rest) /\ work' = work
    BY <1>5 DEF CallRemote, Running
  <2>2. Sound(Exec(db, Next1)) /\ NoneLost(db, Exec(db, Next1))
    BY <1>1, <1>2, <2>1, RemoteKeeps DEF Possible
  <2> QED BY <1>1, <1>2, <2>1, <2>2, ContinueOK
<1>6. CASE RemoteFails
  <2>1. /\ call.plan # << >> /\ db' = db /\ work' = work
        /\ IF Next1.do \in Swallowed THEN Continue(Rest)
           ELSE call' = [call EXCEPT !.plan = call.rescue, !.rescue = << >>, !.failed = TRUE]
    BY <1>6 DEF RemoteFails, Running
  <2>2. CallOK'
    BY <1>1, <1>2, <2>1, PlanNil, ContinueOK, ReplanOK
  <2> QED BY <1>1, <2>1, <2>2
<1>7. CASE Audit
  BY <1>1, <1>7, PagesOK DEF Audit
<1>8. CASE Repair
  BY <1>1, <1>8, RepairOK DEF Repair
<1>9. CASE PressButton
  BY <1>1, <1>9, PagesOK DEF PressButton
<1>10. CASE Finish
  <2>1. db' = Compacted(db) /\ call' = NoCall /\ work' = work
    BY <1>10 DEF Finish
  <2> QED BY <1>1, <2>1, CompactedKeeps, NoCallOK
<1>11. CASE Crash
  <2>1. call' = NoCall /\ work' = work
    BY <1>11 DEF Crash
  <2>2. PICK n \in 0 .. ToRemote : n < Len(call.plan) /\ db' = Compacted(RunTo(n))
    BY <1>11 DEF Crash
  <2>3. n \in 0 .. Len(call.plan) /\ \A m \in 1 .. n : Local(call.plan[m])
    BY <2>2, ToRemoteFacts
  <2>4. Sound(RunTo(n)) /\ NoneLost(db, RunTo(n))
    BY <2>3, RunToKeeps
  <2>5. Sound(Compacted(RunTo(n))) /\ NoneLost(RunTo(n), Compacted(RunTo(n)))
    BY <2>4, CompactedKeeps
  <2>6. NoneLost(db, Compacted(RunTo(n)))
    BY <2>4, <2>5, NoneLostTrans
  <2> QED BY <2>1, <2>2, <2>5, <2>6, NoCallOK
<1> QED BY <1>3, <1>4, <1>5, <1>6, <1>7, <1>8, <1>9, <1>10, <1>11 DEF Next

-----------------------------------------------------------------------------
(* The specification.                                                        *)

(* The inductive invariant: besides the units, the tables' columns have      *)
(* their types, only a sale leaves sold units, and what a call still has to  *)
(* do, in its except branch too, is made of well-formed statements.          *)
UnitsInv == Ready /\ UnitsKept

LEMMA StartUnits ==
  ASSUME Init
  PROVE  UnitsInv
<1>1. work \in Works /\ db = Start /\ call = NoCall
  BY DEF Init
<1>2. Start \in Tables /\ SalesMarked(Start)
  BY <1>1, WorkFacts, TablesOK, NoSuchFacts DEF Start, Tables, Stages, Managed, SalesMarked
<1>3. CallOK
  BY <1>1, PlanNil DEF CallOK, NoCall
<1>4. \A k \in Keys : UnitsOf(Start, k) = work.shelf /\ Start.shelf[k] = work.shelf /\ work.shelf \in Nat
  <2> SUFFICES ASSUME NEW k \in Keys
               PROVE  UnitsOf(Start, k) = work.shelf /\ Start.shelf[k] = work.shelf /\ work.shelf \in Nat
    OBVIOUS
  <2> DEFINE f == [w \in Reservations |-> Holds(Start.held[w], k)]
  <2>1. \A w \in Reservations : f[w] = 0
    BY NoSuchFacts DEF Start
  <2>2. UnitsOf(Start, k) = work.shelf + SumFunctionOnSet(f, Reservations) /\ Start.shelf[k] = work.shelf
    BY DEF UnitsOf, Start
  <2> HIDE DEF f
  <2>3. SumFunctionOnSet(f, Reservations) = 0
    BY <2>1, TablesOK, SumOfZeros
  <2> QED BY <1>1, <2>2, <2>3, WorkFacts
<1>5. UnitsKept
  BY <1>1, <1>4 DEF UnitsKept
<1> QED BY <1>1, <1>2, <1>3, <1>5 DEF UnitsInv, Ready, Sound

(* Reservations, releases, sales and returns only move units between the     *)
(* shelf and the reservations: for any cases, order items, stock, rows,      *)
(* boxes, works and failures, no unit of stock is invented nor reserved      *)
(* twice, and none is lost but those released from a staging location        *)
(* (services/export_waiting.py, wms_link_edit_patch, case_merge_service,     *)
(* stale_inventory_cleanup_service).                                         *)
THEOREM UnitsAreKept == Spec => []UnitsKept
<1>1. Init => UnitsInv
  BY StartUnits
<1>2. UnitsInv /\ [Next]_vars => UnitsInv'
  <2> SUFFICES ASSUME UnitsInv, [Next]_vars PROVE UnitsInv'
    OBVIOUS
  <2>1. CASE Next
    <3>1. work' = work /\ Sound(db') /\ NoneLost(db, db') /\ CallOK' /\ Ready /\ UnitsKept
      BY <2>1, StepKeeps DEF UnitsInv
    <3>2. UnitsKept'
      <4>1. \A k \in Keys : db'.shelf[k] >= 0
        BY <3>1 DEF Sound, Tables
      <4>2. \A k \in Keys : work.shelf \in Int
        BY <3>1, WorkFacts DEF Ready
      <4>3. \A k \in Keys : /\ UnitsOf(db', k) <= work.shelf
                            /\ k \notin StagedKeys => UnitsOf(db', k) = work.shelf
        <5> SUFFICES ASSUME NEW k \in Keys
                     PROVE  /\ UnitsOf(db', k) <= work.shelf
                            /\ k \notin StagedKeys => UnitsOf(db', k) = work.shelf
          OBVIOUS
        <5>1. /\ UnitsOf(db, k) \in Int /\ UnitsOf(db', k) \in Int
              /\ UnitsOf(db', k) <= UnitsOf(db, k)
              /\ k \notin StagedKeys => UnitsOf(db', k) = UnitsOf(db, k)
          BY <3>1 DEF NoneLost
        <5>2. /\ UnitsOf(db, k) <= work.shelf
              /\ k \notin StagedKeys => UnitsOf(db, k) = work.shelf
          BY <3>1 DEF UnitsKept
        <5> QED BY <4>2, <5>1, <5>2
      <4>4. \A k \in Keys : UnitsOf(db, k)' = UnitsOf(db', k)
        BY DEF UnitsOf
      <4> QED BY <3>1, <4>1, <4>3, <4>4 DEF UnitsKept
    <3>3. Sound(db)'
      BY <3>1 DEF Sound, SalesMarked
    <3> QED BY <3>1, <3>2, <3>3 DEF UnitsInv, Ready
  <2>2. CASE UNCHANGED vars
    BY <2>2 DEF vars, UnitsInv, Ready, UnitsKept, UnitsOf, CallOK, PlanOK, StmtOK, Sound, SalesMarked
  <2> QED BY <2>1, <2>2
<1>3. UnitsInv => UnitsKept
  BY DEF UnitsInv
<1> QED BY <1>1, <1>2, <1>3, PTL DEF Spec

-----------------------------------------------------------------------------
(* The registration page: what an opened page has still to do, and what the  *)
(* reservation waits for while it does.                                      *)

(* Two sets of rows apart hold together what each holds.                     *)
LEMMA SumApart ==
  ASSUME NEW f, NEW S, NEW T, IsFiniteSet(S), IsFiniteSet(T), S \cap T = {},
         \A x \in S \cup T : f[x] \in Nat
  PROVE  SumFunctionOnSet(f, S \cup T) = SumFunctionOnSet(f, S) + SumFunctionOnSet(f, T)
<1> DEFINE N == {n \in Nat : \A t \in SUBSET T : Cardinality(t) = n =>
                    SumFunctionOnSet(f, S \cup t) = SumFunctionOnSet(f, S) + SumFunctionOnSet(f, t)}
<1>0. \A t \in SUBSET T : IsFiniteSet(t) /\ IsFiniteSet(S \cup t)
  BY FS_Subset, FS_Union
<1>1. SumFunctionOnSet(f, S) \in Nat /\ \A t \in SUBSET T : SumFunctionOnSet(f, t) \in Nat
  BY <1>0, SumIn
<1>2. 0 \in N
  <2>1. \A t \in SUBSET T : Cardinality(t) = 0 => t = {}
    BY <1>0, FS_EmptySet
  <2>2. SumFunctionOnSet(f, S \cup {}) = SumFunctionOnSet(f, S)
    <3>1. S \cup {} = S
      OBVIOUS
    <3> QED BY <3>1
  <2>3. SumFunctionOnSet(f, S \cup {}) = SumFunctionOnSet(f, S) + SumFunctionOnSet(f, {})
    BY <1>1, <2>2, SumEmpty
  <2>4. ASSUME NEW t \in SUBSET T, Cardinality(t) = 0
        PROVE  SumFunctionOnSet(f, S \cup t) = SumFunctionOnSet(f, S) + SumFunctionOnSet(f, t)
    <3>1. t = {}
      BY <2>1, <2>4
    <3> QED BY <2>3, <3>1
  <2> QED BY <2>4
<1>3. ASSUME NEW n \in Nat, n \in N PROVE n + 1 \in N
  <2>1. ASSUME NEW t \in SUBSET T, Cardinality(t) = n + 1
        PROVE  SumFunctionOnSet(f, S \cup t) = SumFunctionOnSet(f, S) + SumFunctionOnSet(f, t)
    <3>1. IsFiniteSet(t) /\ t # {} /\ IsFiniteSet(S \cup t)
      BY <1>0, <2>1, FS_EmptySet
    <3> DEFINE e == Pick(t)
               r == t \ {e}
    <3>2. e \in t /\ Cardinality(r) = Cardinality(t) - 1
      BY <3>1, PickFacts
    <3>3. e \in T /\ e \notin S /\ r \in SUBSET T
      BY <3>2
    <3> HIDE DEF e
    <3>4. (S \cup t) \ {e} = S \cup r
      BY <3>3
    <3>5. SumFunctionOnSet(f, S \cup r) = SumFunctionOnSet(f, S) + SumFunctionOnSet(f, r)
      BY <1>3, <2>1, <3>2, <3>3
    <3>6. \A x \in S \cup t : f[x] \in Int
      BY <2>1
    <3>7. /\ SumFunctionOnSet(f, S \cup t) = f[e] + SumFunctionOnSet(f, (S \cup t) \ {e})
          /\ SumFunctionOnSet(f, t) = f[e] + SumFunctionOnSet(f, r)
      BY <3>1, <3>2, <3>6, SumSplit
    <3>8. SumFunctionOnSet(f, r) \in Nat /\ f[e] \in Nat
      BY <1>1, <3>3
    <3> HIDE DEF r
    <3> QED BY <1>1, <3>4, <3>5, <3>7, <3>8
  <2> QED BY <2>1
<1>4. Cardinality(T) \in N
  <2> HIDE DEF N
  <2> QED BY <1>2, <1>3, SizeInduction
<1> QED BY <1>4

LEMMA QtyApart ==
  ASSUME NEW d \in Tables, NEW S, NEW T, S \subseteq Used(d), T \subseteq Used(d), S \cap T = {}
  PROVE  QtyOf(d, S \cup T) = QtyOf(d, S) + QtyOf(d, T)
<1> DEFINE f == [i \in S \cup T |-> d.rows[i].qty]
           g == [i \in S |-> d.rows[i].qty]
           h == [i \in T |-> d.rows[i].qty]
<1>1. IsFiniteSet(S) /\ IsFiniteSet(T)
  BY RowFields, FS_Subset
<1>2. \A i \in S \cup T : f[i] \in Nat
  BY RowFields
<1>3. (\A i \in S : f[i] = g[i]) /\ (\A i \in T : f[i] = h[i])
  OBVIOUS
<1>4. /\ QtyOf(d, S \cup T) = SumFunctionOnSet(f, S \cup T)
      /\ QtyOf(d, S) = SumFunctionOnSet(g, S) /\ QtyOf(d, T) = SumFunctionOnSet(h, T)
  BY DEF QtyOf
<1> HIDE DEF f, g, h
<1>5. SumFunctionOnSet(f, S) = SumFunctionOnSet(g, S) /\ SumFunctionOnSet(f, T) = SumFunctionOnSet(h, T)
  BY <1>1, <1>3, SumSame
<1>6. SumFunctionOnSet(f, S \cup T) = SumFunctionOnSet(f, S) + SumFunctionOnSet(f, T)
  BY <1>1, <1>2, SumApart
<1> QED BY <1>4, <1>5, <1>6

(* By key: the rows apart from some of a case's, and those.                  *)
LEMMA MirrorParts ==
  ASSUME NEW d \in Tables, NEW S, NEW T, NEW U, U \subseteq Used(d), S \subseteq U, T \subseteq S,
         NEW k
  PROVE  /\ MirrorQty(d, S \ T, k) + MirrorQty(d, T, k) <= MirrorQty(d, U, k)
         /\ MirrorQty(d, S \ T, k) \in Nat /\ MirrorQty(d, T, k) \in Nat /\ MirrorQty(d, U, k) \in Nat
<1> DEFINE at(X) == {i \in X : d.rows[i].key = k}
<1>1. /\ MirrorQty(d, S \ T, k) = QtyOf(d, at(S \ T)) /\ MirrorQty(d, T, k) = QtyOf(d, at(T))
      /\ MirrorQty(d, U, k) = QtyOf(d, at(U)) /\ MirrorQty(d, U \ S, k) = QtyOf(d, at(U \ S))
  BY DEF MirrorQty
<1>2. /\ at(S \ T) \subseteq Used(d) /\ at(T) \subseteq Used(d) /\ at(U \ S) \subseteq Used(d)
      /\ at(S \ T) \cap at(T) = {} /\ (at(S \ T) \cup at(T)) \cap at(U \ S) = {}
      /\ at(U) = (at(S \ T) \cup at(T)) \cup at(U \ S)
      /\ at(S \ T) \cup at(T) \subseteq Used(d)
  OBVIOUS
<1> HIDE DEF at
<1>3. QtyOf(d, at(S \ T) \cup at(T)) = QtyOf(d, at(S \ T)) + QtyOf(d, at(T))
  BY <1>2, QtyApart
<1>4. QtyOf(d, at(U)) = QtyOf(d, at(S \ T) \cup at(T)) + QtyOf(d, at(U \ S))
  <2>1. QtyOf(d, (at(S \ T) \cup at(T)) \cup at(U \ S))
          = QtyOf(d, at(S \ T) \cup at(T)) + QtyOf(d, at(U \ S))
    BY <1>2, QtyApart
  <2> QED BY <1>2, <2>1
<1>5. /\ MirrorQty(d, S \ T, k) \in Nat /\ MirrorQty(d, T, k) \in Nat /\ MirrorQty(d, U, k) \in Nat
      /\ MirrorQty(d, U \ S, k) \in Nat
  BY MirrorNat
<1> DEFINE a == MirrorQty(d, S \ T, k)
           b == MirrorQty(d, T, k)
           u == MirrorQty(d, U, k)
           v == MirrorQty(d, U \ S, k)
<1>6. u = (a + b) + v
  BY <1>1, <1>3, <1>4
<1>7. a \in Nat /\ b \in Nat /\ u \in Nat /\ v \in Nat
  BY <1>5
<1>8. a + b <= u
  <2> HIDE DEF a, b, u, v
  <2> QED BY <1>6, <1>7
<1> QED BY <1>7, <1>8

(* The one reservation of a case.                                            *)
LEMMA OnlyOne ==
  ASSUME NEW d, NEW c, Cardinality(With(d, c, Live)) = 1
  PROVE  /\ With(d, c, Live) = {The(With(d, c, Live))}
         /\ Editable(d, c) = With(d, c, Live)
<1> DEFINE W == With(d, c, Live)
           w == The(W)
<1>1. IsFiniteSet(W) /\ W # {}
  BY TablesOK, FS_Subset, FS_EmptySet DEF With
<1>2. \A v \in W : W = {v}
  BY <1>1, FS_Singleton
<1>3. w \in W
  BY <1>1 DEF The
<1>4. W = {w}
  BY <1>2, <1>3
<1>5. Editable(d, c) = W
  <2> DEFINE open == With(d, c, {"waiting", "partial"})
             sold == With(d, c, {"confirmed"})
  <2>1. W = open \cup sold /\ open \cap sold = {}
    BY DEF With, Live
  <2>2. Editable(d, c) = IF open # {} THEN open ELSE sold
    BY DEF Editable
  <2> HIDE DEF open, sold, W, w
  <2> QED BY <1>4, <2>1, <2>2
<1> QED BY <1>4, <1>5

(* What the case's reservation may wait for.                                 *)
Bound(d, c, r) ==
  \A k \in Keys : r.wait[k] <= AtLeast0(MirrorQty(d, RowsOf(d, c), k) - r.sold[k])

(* Where the other reservations, the stages and the rows' cases, keys and    *)
(* quantities stay, only the one that changes matters.                       *)
LEMMA StaysReconciled ==
  ASSUME NEW d, NEW c, NEW w, With(d, c, Live) = {w}, NEW e, \A v \in Reservations \ {w} : e.held[v] = d.held[v],
         e.rows = d.rows,
         e.held[w].no = c /\ e.held[w].status \in Live => Bound(d, c, e.held[w])
  PROVE  Reconciled(e, c)
<1> DEFINE W == With(e, c, Live)
<1>1. w \in Reservations
  BY DEF With
<1>2. W \subseteq {w}
  BY DEF With
<1>3. CASE e.held[w].no = c /\ e.held[w].status \in Live
  <2>1. W = {w}
    BY <1>1, <1>2, <1>3 DEF With
  <2>2. The(W) = w
    BY <2>1 DEF The
  <2>3. \A k \in Keys : MirrorQty(e, RowsOf(e, c), k) = MirrorQty(d, RowsOf(d, c), k)
    BY DEF MirrorQty, QtyOf, RowsOf, Used
  <2> HIDE DEF W
  <2>4. \A k \in Keys : e.held[w].wait[k] <= AtLeast0(MirrorQty(e, RowsOf(e, c), k) - e.held[w].sold[k])
    BY <1>3, <2>3 DEF Bound
  <2> QED BY <2>2, <2>4 DEF Reconciled, W
<1>4. CASE ~(e.held[w].no = c /\ e.held[w].status \in Live)
  <2>1. W = {}
    BY <1>1, <1>2, <1>4 DEF With
  <2>2. Cardinality(W) = 0
    BY <2>1, FS_EmptySet
  <2> QED BY <2>2 DEF Reconciled
<1> QED BY <1>3, <1>4

(* Unless its case is cancelled, which stays so.                             *)
LEMMA ChangeReconciles ==
  ASSUME NEW d, NEW c, NEW w, With(d, c, Live) = {w}, Reconciled(d, c),
         NEW e, \A v \in Reservations \ {w} : e.held[v] = d.held[v],
         e.rows = d.rows, e.stage = d.stage,
         Bound(d, c, d.held[w]) /\ e.held[w].no = c /\ e.held[w].status \in Live
            => Bound(d, c, e.held[w])
  PROVE  Reconciled(e, c)
<1>1. CASE d.stage[c] = "cancelled"
  BY <1>1 DEF Reconciled
<1>2. CASE d.stage[c] # "cancelled"
  <2>1. Cardinality(With(d, c, Live)) = 1
    BY FS_Singleton
  <2>2. The(With(d, c, Live)) = w
    BY DEF The
  <2>3. Bound(d, c, d.held[w])
    BY <1>2, <2>1, <2>2 DEF Reconciled, Bound
  <2> QED BY <2>3, StaysReconciled
<1> QED BY <1>1, <1>2

(* Opening the page: reconcile_orphan_waiting_items.                         *)
LEMMA OrphansReconciled ==
  ASSUME NEW d, Sound(d), NEW c
  PROVE  Reconciled(ReleaseOrphans(d, c), c)
<1> DEFINE W == With(d, c, Live)
           w == The(W)
           x == Excess(d, c, w)
           e == ReleaseOrphans(d, c)
           need(k) == MirrorQty(d, RowsOf(d, c), k)
<1>0. d \in Tables
  BY DEF Sound
<1>1. CASE d.stage[c] = "cancelled" \/ Cardinality(W) # 1
  BY <1>1 DEF ReleaseOrphans, Reconciled
<1>2. CASE d.stage[c] # "cancelled" /\ Cardinality(W) = 1
  <2>1. W = {w} /\ w \in Reservations
    BY <1>2, OnlyOne, OneOf
  <2>2. e = IF x = Nothing THEN d ELSE Released(d, w, x)
    BY <1>2 DEF ReleaseOrphans
  <2>3. d.held[w].wait \in [Keys -> Nat] /\ d.held[w].sold \in [Keys -> Nat]
        /\ d.held \in [Reservations -> Reservation] /\ d.held[w] \in Reservation
    BY <2>1, HeldFacts
  <2>4. \A k \in Keys : need(k) \in Nat
    BY <1>0, MirrorNat DEF RowsOf
  <2>5. x = [k \in Keys |-> AtLeast0(d.held[w].wait[k] - AtLeast0(need(k) - d.held[w].sold[k]))]
    BY DEF Excess
  <2>6. x \in [Keys -> Nat] /\ \A k \in Keys :
          d.held[w].wait[k] - x[k] \in Nat
          /\ d.held[w].wait[k] - x[k] <= AtLeast0(need(k) - d.held[w].sold[k])
    <3> HIDE DEF w, need, W
    <3> QED BY <2>3, <2>4, <2>5 DEF AtLeast0
  <2>7. CASE x = Nothing
    <3>1. \A k \in Keys : d.held[w].wait[k] <= AtLeast0(need(k) - d.held[w].sold[k])
      BY <2>3, <2>6, <2>7, NoSuchFacts
    <3> QED BY <2>2, <2>7, <3>1 DEF Reconciled
  <2>8. CASE x # Nothing
    <3> DEFINE wait == [k \in Keys |-> d.held[w].wait[k] - x[k]]
               status == StatusFor(wait, d.held[w].sold, "cancelled")
               r == IF status = "cancelled" THEN NoSuch
                    ELSE [d.held[w] EXCEPT !.wait = wait, !.status = status]
    <3>1. e.held = [d.held EXCEPT ![w] = r] /\ e.rows = d.rows /\ e.stage = d.stage
      BY <1>0, <2>2, <2>8 DEF Released, Tables
    <3>2. \A k \in Keys : wait[k] <= AtLeast0(need(k) - d.held[w].sold[k])
      BY <2>6
    <3> HIDE DEF wait, status
    <3>3. r.status \in Live => r = [d.held[w] EXCEPT !.wait = wait, !.status = status]
      BY DEF NoSuch, Live
    <3>4. r.status \in Live => r.wait = wait /\ r.sold = d.held[w].sold
      BY <2>3, <3>3 DEF Reservation
    <3>5. r.status \in Live => Bound(d, c, r)
      BY <3>2, <3>4 DEF Bound
    <3>6. e.held[w] = r /\ \A v \in Reservations \ {w} : e.held[v] = d.held[v]
      BY <2>1, <2>3, <3>1
    <3> HIDE DEF r, e
    <3> QED BY <2>1, <3>1, <3>5, <3>6, StaysReconciled DEF e
  <2> QED BY <2>7, <2>8
<1> QED BY <1>1, <1>2

(* The page's buttons, on the case's one reservation.                        *)
LEMMA ButtonsReconciled ==
  ASSUME NEW d, Sound(d), NEW c, Reconciled(d, c), NEW w, With(d, c, Live) = {w}, NEW K
  PROVE  Reconciled(CancelReservation(d, w), c) /\ Reconciled(Confirm(d, w, K), c)
<1>0. d \in Tables /\ w \in Reservations
  BY DEF Sound, With
<1>1. d.held[w].wait \in [Keys -> Nat] /\ d.held[w].sold \in [Keys -> Nat]
      /\ d.held \in [Reservations -> Reservation] /\ d.held[w] \in Reservation
  BY <1>0, HeldFacts
<1>2. Reconciled(CancelReservation(d, w), c)
  <2> DEFINE e == CancelReservation(d, w)
             r == IF Total(d.held[w].sold) = 0 THEN NoSuch
                  ELSE [d.held[w] EXCEPT !.wait = Nothing, !.status = "cancelled"]
  <2>1. e.held = [d.held EXCEPT ![w] = r] /\ e.rows = d.rows /\ e.stage = d.stage
    BY <1>0 DEF CancelReservation, Tables
  <2>2. r.status \notin Live
    BY <1>1 DEF NoSuch, Live, Reservation
  <2>3. e.held[w] = r /\ \A v \in Reservations \ {w} : e.held[v] = d.held[v]
    BY <1>0, <1>1, <2>1
  <2> HIDE DEF r, e
  <2> QED BY <2>1, <2>2, <2>3, ChangeReconciles DEF e
<1>3. Reconciled(Confirm(d, w, K), c)
  <2> DEFINE e == Confirm(d, w, K)
             wait == [k \in Keys |-> IF k \in K THEN 0 ELSE d.held[w].wait[k]]
             sold == [k \in Keys |-> IF k \in K THEN d.held[w].sold[k] + d.held[w].wait[k]
                                     ELSE d.held[w].sold[k]]
             status == IF Total(wait) = 0 THEN "confirmed" ELSE "partial"
             r == [d.held[w] EXCEPT !.wait = wait, !.sold = sold, !.status = status]
  <2>1. e.held = [d.held EXCEPT ![w] = r] /\ e.rows = d.rows /\ e.stage = d.stage
    BY <1>0 DEF Confirm, Tables
  <2>2. r.wait = wait /\ r.sold = sold
    BY <1>1 DEF Reservation
  <2>3. \A k \in Keys : MirrorQty(d, RowsOf(d, c), k) \in Nat
    BY <1>0, MirrorNat DEF RowsOf
  <2>4. Bound(d, c, d.held[w]) => \A k \in Keys : wait[k] <= AtLeast0(MirrorQty(d, RowsOf(d, c), k) - sold[k])
    BY <1>1, <2>3 DEF Bound, AtLeast0
  <2>5. e.held[w] = r /\ \A v \in Reservations \ {w} : e.held[v] = d.held[v]
    BY <1>0, <1>1, <2>1
  <2> HIDE DEF r, e, wait, sold
  <2>6. Bound(d, c, d.held[w]) => Bound(d, c, e.held[w])
    BY <2>2, <2>4, <2>5 DEF Bound
  <2> QED BY <2>1, <2>5, <2>6, ChangeReconciles DEF e
<1> QED BY <1>2, <1>3

(* The repair saves an order item as it is: for a reservation that waits for *)
(* something, the cart is at most what it waits for; for one that waits for  *)
(* nothing, at most what the case's rows hold.                               *)
LEMMA RepairCart ==
  ASSUME NEW d, Sound(d), NEW c, NEW o \in Items(d, c), NEW w, With(d, c, Live) = {w},
         NEW cart, cart = Cart(d, c, o, Unchanged(d, c, o), 0)
  PROVE  /\ cart \in [Keys -> Nat] /\ w \in Reservations
         /\ \A k \in Keys : cart[k] <= IF d.held[w].wait = Nothing THEN MirrorQty(d, RowsOf(d, c), k)
                                       ELSE d.held[w].wait[k]
<1> DEFINE kept == Unchanged(d, c, o)
           mine == RowsFor(d, c, o)
           wait == d.held[w].wait
           linked == Linked(d, c)
           rest(k) == MirrorQty(d, linked \ mine, k)
           own(k) == IF k = KeyOf[o] THEN KeptQty(kept) + 0 ELSE 0
           backed(k) == IF MirrorQty(d, linked, k) > 0 THEN wait[k] ELSE 0
           need(k) == MirrorQty(d, RowsOf(d, c), k)
           at(k) == MirrorQty(d, mine, k)
<1>0. d \in Tables /\ w \in Reservations /\ o \in OrderIds
  BY DEF Sound, With, Items
<1>1. KeptOK(d, c, o, kept)
  BY <1>0, UnchangedOK DEF Unchanged
<1>2. cart \in [Keys -> Nat]
  BY <1>1, CartTyped
<1>3. Editable(d, c) = {w}
  <2>1. Cardinality(With(d, c, Live)) = 1
    BY FS_Singleton
  <2> QED BY <2>1, OnlyOne
<1>4. The({w}) = w
  BY DEF The
<1>5. cart = IF wait = Nothing THEN [k \in Keys |-> rest(k) + own(k)]
             ELSE [k \in Keys |-> AtLeast0(backed(k) + own(k) - at(k))]
  <2>1. Editable(d, c) # {} /\ The(Editable(d, c)) = w
    BY <1>3, <1>4
  <2> QED BY <2>1 DEF Cart
<1>6. ASSUME NEW k \in Keys
      PROVE  /\ rest(k) + at(k) <= need(k) /\ rest(k) \in Nat /\ at(k) \in Nat /\ need(k) \in Nat
  <2>1. mine \subseteq linked /\ linked \subseteq RowsOf(d, c) /\ RowsOf(d, c) \subseteq Used(d)
    BY RowsAreUsed, <1>0 DEF Linked, RowsFor
  <2> HIDE DEF mine, linked
  <2> QED BY <1>0, <2>1, MirrorParts
<1>7. ASSUME NEW k \in Keys PROVE own(k) <= at(k) /\ own(k) \in Nat
  <2>1. CASE k = KeyOf[o]
    <3>1. \A i \in mine : d.rows[i].key = k
      <4>1. \A i \in mine : d.rows[i] \in Row /\ d.rows[i].order = o
        BY <1>0, RowFields DEF RowsFor, RowsOf
      <4>2. o # NoOrder
        BY <1>0, TablesOK
      <4> QED BY <2>1, <4>1, <4>2 DEF Row
    <3>2. {i \in mine : d.rows[i].key = k} = mine
      BY <3>1
    <3>3. at(k) = QtyOf(d, mine)
      BY <3>2 DEF MirrorQty
    <3>4. KeptQty(kept) = QtyOf(d, mine)
      BY DEF KeptQty, Unchanged, QtyOf
    <3>5. KeptQty(kept) \in Nat
      BY <1>0, <1>1, KeptNat
    <3>6. own(k) = KeptQty(kept) + 0
      BY <2>1
    <3> HIDE DEF own, at, kept, mine
    <3> QED BY <3>3, <3>4, <3>5, <3>6
  <2>2. CASE k # KeyOf[o]
    <3>1. own(k) = 0
      BY <2>2
    <3> QED BY <1>6, <3>1
  <2> QED BY <2>1, <2>2
<1>8. wait \in [Keys -> Nat]
  BY <1>0, HeldFacts
<1>9. ASSUME NEW k \in Keys PROVE cart[k] <= IF wait = Nothing THEN need(k) ELSE wait[k]
  <2>1. backed(k) \in Nat /\ backed(k) <= wait[k] /\ wait[k] \in Nat
    BY <1>8
  <2>2. cart[k] = IF wait = Nothing THEN rest(k) + own(k) ELSE AtLeast0(backed(k) + own(k) - at(k))
    BY <1>5
  <2>3. /\ rest(k) + at(k) <= need(k) /\ rest(k) \in Nat /\ at(k) \in Nat /\ need(k) \in Nat
        /\ own(k) <= at(k) /\ own(k) \in Nat
    BY <1>6, <1>7
  <2> HIDE DEF backed, own, rest, at, need, wait
  <2> QED BY <2>1, <2>2, <2>3 DEF AtLeast0
<1> QED BY <1>0, <1>2, <1>9

LEMMA AfterBound ==
  ASSUME NEW r \in Reservation, r.status \in Live, NEW cart \in [Keys -> Nat],
         r.status = "waiting" => r.sold = Nothing, NEW m \in [Keys -> Nat],
         \A k \in Keys : r.wait[k] <= AtLeast0(m[k] - r.sold[k]),
         \A k \in Keys : cart[k] <= IF r.wait = Nothing THEN m[k] ELSE r.wait[k]
  PROVE  \A k \in Keys : After(r, cart).wait[k] <= AtLeast0(m[k] - After(r, cart).sold[k])
<1> DEFINE sold == [k \in Keys |-> Lesser(r.sold[k], cart[k])]
           wait == [k \in Keys |-> cart[k] - sold[k]]
           status == IF Total(wait) > 0 THEN "partial"
                     ELSE IF Total(sold) > 0 THEN "confirmed" ELSE "waiting"
           a == After(r, cart)
<1>1. r.wait \in [Keys -> Nat] /\ r.sold \in [Keys -> Nat]
  BY DEF Reservation
<1>2. a = CASE r.status \in {"none", "waiting"} -> [r EXCEPT !.wait = cart, !.status = "waiting"]
            [] r.sold = cart /\ cart # Nothing -> r
            [] OTHER -> [r EXCEPT !.wait = wait, !.sold = sold, !.status = status]
  BY DEF After
<1>3. \A k \in Keys : cart[k] <= m[k] \/ cart[k] <= AtLeast0(m[k] - r.sold[k])
  BY <1>1 DEF AtLeast0
<1>4. CASE r.status = "waiting"
  <2>1. a.wait = cart /\ a.sold = r.sold /\ \A k \in Keys : r.sold[k] = 0
    <3>1. a = [r EXCEPT !.wait = cart, !.status = "waiting"]
      BY <1>2, <1>4
    <3> HIDE DEF a
    <3> QED BY <1>4, <3>1, NoSuchFacts DEF Reservation
  <2> HIDE DEF a
  <2>2. \A k \in Keys : cart[k] <= AtLeast0(m[k] - r.sold[k])
    BY <1>3, <2>1 DEF AtLeast0
  <2> QED BY <2>1, <2>2 DEF a
<1>5. CASE r.status # "waiting" /\ r.sold = cart /\ cart # Nothing
  <2>1. a = r
    BY <1>2, <1>5 DEF Live
  <2> HIDE DEF a
  <2> QED BY <2>1 DEF a
<1>6. CASE r.status # "waiting" /\ ~(r.sold = cart /\ cart # Nothing)
  <2>1. a = [r EXCEPT !.wait = wait, !.sold = sold, !.status = status]
    BY <1>2, <1>6 DEF Live
  <2> HIDE DEF wait, sold, status, a
  <2>2. a.wait = wait /\ a.sold = sold
    BY <2>1 DEF Reservation
  <2>3. \A k \in Keys : wait[k] <= AtLeast0(m[k] - sold[k])
    <3> SUFFICES ASSUME NEW k \in Keys PROVE wait[k] <= AtLeast0(m[k] - sold[k])
      OBVIOUS
    <3>1. /\ cart[k] \in Nat /\ r.sold[k] \in Nat /\ m[k] \in Nat
          /\ sold[k] = Lesser(r.sold[k], cart[k]) /\ wait[k] = cart[k] - sold[k]
      BY <1>1 DEF wait, sold
    <3> QED BY <1>3, <3>1 DEF AtLeast0, Lesser
  <2> QED BY <2>2, <2>3 DEF a
<1> QED BY <1>4, <1>5, <1>6

(* So the repair's reservation waits for no more than it did, or the rows    *)
(* hold.                                                                     *)
Fits(d, c, s) == Reconciled(Reserve(d, s.id, c, s.cart), c)

LEMMA RepairFits ==
  ASSUME NEW d, Sound(d), NEW c, Reconciled(d, c), NEW o \in Items(d, c), NEW w,
         With(d, c, Live) = {w}
  PROVE  Reconciled(Reserve(d, w, c, Cart(d, c, o, Unchanged(d, c, o), 0)), c)
<1> DEFINE cart == Cart(d, c, o, Unchanged(d, c, o), 0)
           e == Reserve(d, w, c, cart)
           a == After(d.held[w], cart)
           r == [a EXCEPT !.no = c]
           m == [k \in Keys |-> MirrorQty(d, RowsOf(d, c), k)]
<1>0. d \in Tables /\ w \in Reservations /\ d.held[w].status \in Live
  BY DEF Sound, With
<1>1. /\ cart \in [Keys -> Nat]
      /\ \A k \in Keys : cart[k] <= IF d.held[w].wait = Nothing THEN m[k] ELSE d.held[w].wait[k]
  BY RepairCart
<1>2. /\ d.held[w] \in Reservation /\ d.held \in [Reservations -> Reservation]
      /\ d.held[w].status = "waiting" => d.held[w].sold = Nothing
  BY <1>0, HeldFacts
<1>3. m \in [Keys -> Nat]
  BY <1>0, MirrorNat DEF RowsOf
<1>4. a \in Reservation
  BY <1>1, <1>2, AfterFacts, <1>0, HeldFacts
<1>5. e.held = [d.held EXCEPT ![w] = r] /\ e.rows = d.rows /\ e.stage = d.stage
  BY <1>0 DEF Reserve, Tables
<1> HIDE DEF a, cart
<1>6. r.wait = a.wait /\ r.sold = a.sold
  BY <1>4 DEF Reservation
<1>7. e.held[w] = r /\ \A v \in Reservations \ {w} : e.held[v] = d.held[v]
  BY <1>0, <1>2, <1>5
<1>8. Bound(d, c, d.held[w]) => Bound(d, c, r)
  <2> SUFFICES ASSUME Bound(d, c, d.held[w]) PROVE Bound(d, c, r)
    OBVIOUS
  <2>1. \A k \in Keys : d.held[w].wait[k] <= AtLeast0(m[k] - d.held[w].sold[k])
    BY DEF Bound
  <2>2. \A k \in Keys : a.wait[k] <= AtLeast0(m[k] - a.sold[k])
    <3> HIDE DEF m
    <3> QED BY <1>0, <1>1, <1>2, <1>3, <2>1, AfterBound DEF a
  <2> QED BY <1>6, <2>2 DEF Bound
<1> HIDE DEF e, r
<1>9. Reconciled(e, c)
  BY <1>5, <1>7, <1>8, ChangeReconciles
<1> QED BY <1>9 DEF e, cart

(* The statements with which the repair writes a case's rows as they are     *)
(* move no goods of it.                                                      *)
QuietOn(d, c, s) ==
  /\ s.do \in {"unlink", "sync", "reopen", "drop empty", "trim"} /\ s.case = c
  /\ s.do = "trim" => s.order \in OrderIds /\ RowsFor(d, c, s.order) \subseteq s.ids
ButtonOn(c, s) == s.do \in OnPage /\ s.case = c
Alike(d, e, c) ==
  /\ e.held = d.held /\ (e.stage[c] = "cancelled" <=> d.stage[c] = "cancelled")
  /\ \A k \in Keys : MirrorQty(e, RowsOf(e, c), k) = MirrorQty(d, RowsOf(d, c), k)
  /\ \A o \in OrderIds : RowsFor(e, c, o) \subseteq RowsFor(d, c, o)

LEMMA AlikeFacts ==
  ASSUME NEW d \in Tables, NEW e \in Tables, NEW c, Alike(d, e, c)
  PROVE  /\ Reconciled(d, c) => Reconciled(e, c)
         /\ \A s : /\ QuietOn(d, c, s) => QuietOn(e, c, s)
                   /\ s.id \in Reservations /\ Fits(d, c, s) => Fits(e, c, s)
         /\ \A x : Alike(e, x, c) => Alike(d, x, c)
<1>1. Reconciled(d, c) => Reconciled(e, c)
  BY DEF Alike, Reconciled, With
<1>2. ASSUME NEW s, QuietOn(d, c, s) PROVE QuietOn(e, c, s)
  BY <1>2 DEF QuietOn, Alike
<1>3. ASSUME NEW s, s.id \in Reservations, Fits(d, c, s) PROVE Fits(e, c, s)
  <2> DEFINE x == Reserve(d, s.id, c, s.cart)
             y == Reserve(e, s.id, c, s.cart)
  <2>1. /\ x.held = [d.held EXCEPT ![s.id] = [After(d.held[s.id], s.cart) EXCEPT !.no = c]]
        /\ x.rows = d.rows /\ x.stage = d.stage
    BY DEF Reserve, Tables
  <2>2. /\ y.held = [e.held EXCEPT ![s.id] = [After(e.held[s.id], s.cart) EXCEPT !.no = c]]
        /\ y.rows = e.rows /\ y.stage = e.stage
    BY DEF Reserve, Tables
  <2>3. /\ \A k : MirrorQty(x, RowsOf(x, c), k) = MirrorQty(d, RowsOf(d, c), k)
        /\ \A k : MirrorQty(y, RowsOf(y, c), k) = MirrorQty(e, RowsOf(e, c), k)
    BY <2>1, <2>2 DEF MirrorQty, QtyOf, RowsOf, Used
  <2> HIDE DEF x, y
  <2>4. x.held = y.held /\ (y.stage[c] = "cancelled" <=> x.stage[c] = "cancelled")
        /\ \A k \in Keys : MirrorQty(y, RowsOf(y, c), k) = MirrorQty(x, RowsOf(x, c), k)
    BY <2>1, <2>2, <2>3 DEF Alike
  <2>5. Reconciled(x, c)
    BY <1>3 DEF Fits, x
  <2>6. Reconciled(y, c)
    BY <2>4, <2>5 DEF Reconciled, With
  <2> QED BY <2>6 DEF Fits, y
<1>4. ASSUME NEW x, Alike(e, x, c) PROVE Alike(d, x, c)
  BY <1>4 DEF Alike
<1> QED BY <1>1, <1>2, <1>3, <1>4

LEMMA QuietKeeps ==
  ASSUME NEW d \in Tables, NEW c \in Cases, NEW s, QuietOn(d, c, s)
  PROVE  Alike(d, Exec(d, s), c)
<1> DEFINE e == Exec(d, s)
<1>1. CASE s.do = "unlink"
  <2> DEFINE r == [i \in RowIds |-> IF i \in Dangling(d, c) THEN [d.rows[i] EXCEPT !.order = NoOrder] ELSE d.rows[i]]
  <2>1. e.rows = r /\ e.held = d.held /\ e.stage = d.stage
    BY <1>1 DEF Exec, Tables, QuietOn
  <2>2. \A i \in Used(d) : d.rows[i] \in Row /\ i \in RowIds
    BY RowFields
  <2>3. \A i \in Dangling(d, c) : i \in Used(d)
    BY DEF Dangling, RowsOf
  <2>4. \A i \in Dangling(d, c) :
          /\ r[i] \in Row /\ r[i].order = NoOrder
          /\ r[i].case = d.rows[i].case /\ r[i].key = d.rows[i].key /\ r[i].qty = d.rows[i].qty
    BY <2>2, <2>3 DEF Row
  <2>5. \A i \in RowIds : /\ r[i] = NoRow <=> d.rows[i] = NoRow
                          /\ r[i] = d.rows[i] \/ (i \in Dangling(d, c) /\ i \in Used(d))
    <3>1. \A i \in RowIds : i \notin Dangling(d, c) => r[i] = d.rows[i]
      OBVIOUS
    <3>2. \A i \in Dangling(d, c) : r[i] # NoRow /\ d.rows[i] # NoRow
      BY <2>3, <2>4, NoRowOK DEF Used
    <3> HIDE DEF r
    <3> TAKE i \in RowIds
    <3>3. CASE i \in Dangling(d, c)
      BY <2>3, <3>2, <3>3
    <3>4. CASE i \notin Dangling(d, c)
      BY <3>1, <3>4
    <3> QED BY <3>3, <3>4
  <2> HIDE DEF r, e
  <2>6. Used(e) = Used(d)
    BY <2>1, <2>5 DEF Used
  <2>7. \A i \in Used(d) : /\ e.rows[i].case = d.rows[i].case /\ e.rows[i].key = d.rows[i].key
                           /\ e.rows[i].qty = d.rows[i].qty
                           /\ e.rows[i].order = d.rows[i].order \/ e.rows[i].order = NoOrder
    BY <2>1, <2>2, <2>4, <2>5
  <2>8. RowsOf(e, c) = RowsOf(d, c)
    BY <2>6, <2>7 DEF RowsOf
  <2>9. ASSUME NEW k PROVE MirrorQty(e, RowsOf(e, c), k) = MirrorQty(d, RowsOf(d, c), k)
    <3> DEFINE S == {i \in RowsOf(d, c) : d.rows[i].key = k}
    <3>1. {i \in RowsOf(e, c) : e.rows[i].key = k} = S /\ S \subseteq Used(d)
      BY <2>7, <2>8 DEF RowsOf
    <3> HIDE DEF S
    <3>2. [i \in S |-> e.rows[i].qty] = [i \in S |-> d.rows[i].qty]
      BY <2>7, <3>1
    <3>3. QtyOf(e, S) = QtyOf(d, S)
      BY <3>2 DEF QtyOf
    <3> QED BY <3>1, <3>3 DEF MirrorQty, S
  <2>10. \A o \in OrderIds : RowsFor(e, c, o) \subseteq RowsFor(d, c, o)
    BY <2>7, <2>8, TablesOK DEF RowsFor, RowsOf
  <2> QED BY <2>1, <2>9, <2>10 DEF Alike, e
<1>2. CASE s.do = "trim"
  <2> DEFINE r == [i \in RowIds |-> IF i \in RowsFor(d, c, s.order) \ s.ids THEN NoRow ELSE d.rows[i]]
  <2>1. e.rows = r /\ e.held = d.held /\ e.stage = d.stage
    BY <1>2 DEF Exec, Tables, QuietOn
  <2>2. r = d.rows
    <3>1. RowsFor(d, c, s.order) \ s.ids = {}
      BY <1>2 DEF QuietOn
    <3>2. d.rows = [i \in RowIds |-> d.rows[i]]
      BY DEF Tables
    <3> QED BY <3>1, <3>2
  <2> HIDE DEF e, r
  <2>3. Alike(d, e, c)
    BY <2>1, <2>2 DEF Alike, MirrorQty, QtyOf, RowsFor, RowsOf, Used
  <2> QED BY <2>3 DEF e
<1>3. CASE s.do \in {"sync", "reopen", "drop empty"}
  <2>1. e.rows = d.rows /\ e.held = d.held /\ (e.stage[c] = "cancelled" <=> d.stage[c] = "cancelled")
    <3>1. CASE s.do = "sync"
      <4>1. e = IF d.stage[c] \in Managed THEN [d EXCEPT !.stage[c] = ComputedStage(d, c)] ELSE d
        BY <3>1 DEF Exec, QuietOn
      <4>2. ComputedStage(d, c) # "cancelled"
        BY DEF ComputedStage
      <4> QED BY <4>1, <4>2 DEF Tables, Managed
    <3>2. CASE s.do = "reopen"
      <4>1. e = IF d.stage[c] = "shipped" THEN [d EXCEPT !.stage[c] = "packing"] ELSE d
        BY <3>2 DEF Exec, QuietOn
      <4> QED BY <4>1 DEF Tables
    <3>3. CASE s.do = "drop empty"
      BY <3>3 DEF Exec, Tables
    <3> QED BY <1>3, <3>1, <3>2, <3>3
  <2> HIDE DEF e
  <2>2. Alike(d, e, c)
    BY <2>1 DEF Alike, MirrorQty, QtyOf, RowsFor, RowsOf, Used
  <2> QED BY <2>2 DEF e
<1> QED BY <1>1, <1>2, <1>3 DEF QuietOn

LEMMA AlikeSelf == ASSUME NEW d, NEW c PROVE Alike(d, d, c)
BY DEF Alike

(* However many of them have run.                                            *)
LEMMA RunToAlike ==
  ASSUME Ready, NEW c \in Cases, NEW n \in 0 .. Len(call.plan),
         \A m \in 1 .. n : QuietOn(db, c, call.plan[m])
  PROVE  Alike(db, RunTo(n), c) /\ RunTo(n) \in Tables
<1> DEFINE N == {k \in Nat : k <= n => Alike(db, RunTo(k), c) /\ RunTo(k) \in Tables}
<1>1. Len(call.plan) \in Nat /\ \A m \in 1 .. Len(call.plan) : StmtOK(call.plan[m])
  BY PlanItems DEF Ready, CallOK
<1>2. 0 \in N
  BY RunToFacts, AlikeSelf DEF Ready, Sound
<1>3. ASSUME NEW k \in Nat, k \in N PROVE k + 1 \in N
  <2> SUFFICES ASSUME k + 1 <= n
               PROVE  Alike(db, RunTo(k + 1), c) /\ RunTo(k + 1) \in Tables
    OBVIOUS
  <2> DEFINE s == call.plan[k + 1]
             d == RunTo(k)
  <2>1. k + 1 \in 1 .. n /\ k + 1 \in 1 .. Len(call.plan) /\ k <= n /\ (k + 1) - 1 = k
    BY <1>1
  <2>2. StmtOK(s) /\ QuietOn(db, c, s)
    BY <1>1, <2>1
  <2>3. s.do \in OnExport
    BY <2>2 DEF QuietOn, OnExport
  <2>4. Alike(db, d, c) /\ d \in Tables /\ db \in Tables
    BY <1>3, <2>1 DEF Ready, Sound
  <2>5. RunTo(k + 1) = Exec(d, s)
    BY <2>1, RunToFacts
  <2> HIDE DEF s, d
  <2>6. Alike(d, Exec(d, s), c)
    BY <2>2, <2>4, AlikeFacts, QuietKeeps
  <2>7. Alike(db, Exec(d, s), c) /\ Exec(d, s) \in Tables
    BY <2>2, <2>3, <2>4, <2>6, AlikeFacts, ExportTyped
  <2> QED BY <2>5, <2>7
<1>4. n \in N
  <2>1. Nat \subseteq N
    <3> HIDE DEF N
    <3> QED BY <1>2, <1>3, NatSetInduction
  <2> QED BY <1>1, <2>1
<1> QED BY <1>1, <1>4

(* What an opened registration page still has to do: its buttons, the        *)
(* statements of one repair before them, or the sale or withdrawal that ends *)
(* it.                                                                       *)
Opening(c, plan) ==
  /\ Len(plan) >= 1 /\ plan[1] = Do("reconcile", c)
  /\ \A m \in 2 .. Len(plan) : ButtonOn(c, plan[m])
Offering(c, plan) == \A m \in 1 .. Len(plan) : ButtonOn(c, plan[m])
Repairing(d, c, plan, n) ==
  /\ \A m \in 1 .. n - 1 : QuietOn(d, c, plan[m])
  /\ plan[n].do = "reserve" /\ plan[n].case = c /\ plan[n].id \in Reservations /\ Fits(d, c, plan[n])
  /\ \A m \in n + 1 .. Len(plan) : ButtonOn(c, plan[m])
Ending(d, c, plan) ==
  /\ Len(plan) = 1 /\ plan[1].do \in {"withdraw", "sell"}
  /\ With(d, c, Live) = {plan[1].id}

Registers(d, k) ==
  k.op = "register" /\ ~k.failed =>
    /\ k.case \in Cases
    /\ \/ Opening(k.case, k.plan)
       \/ /\ Reconciled(d, k.case)
          /\ \/ Offering(k.case, k.plan)
             \/ \E n \in 1 .. Len(k.plan) : Repairing(d, k.case, k.plan, n)
             \/ Ending(d, k.case, k.plan)

(* A call of another page has another name.                                  *)
LEMMA OtherCalls ==
  ASSUME NEW c, OrdersPage(c) \/ IntakePage(c) \/ PackingPage(c) \/ Deliver(c) \/ ReturnDomestic(c)
  PROVE  call'.op # "register"
<1>1. \A op, a, p, r : Begin(op, a, p, r) => call'.op = op
  BY DEF Begin
<1>2. OrdersPage(c) => call'.op # "register"
  BY <1>1 DEF OrdersPage, SaveOrders, SaveUnits, MergeCase, CancelCase
<1>3. IntakePage(c) => call'.op # "register"
  <2>1. OpenIntake(c) \/ DeleteUnlinked(c) => call'.op # "register"
    BY <1>1 DEF OpenIntake, DeleteUnlinked
  <2>2. \A o, kept, pick : SavePicks(c, o, kept, pick) => call'.op # "register"
    BY <1>1 DEF SavePicks
  <2>3. \A o, S, refused : DeleteRows(c, o, S, refused) => call'.op # "register"
    BY <1>1 DEF DeleteRows
  <2> QED BY <2>1, <2>2, <2>3 DEF IntakePage
<1>4. PackingPage(c) => call'.op # "register"
  <2>1. \A S, b : Unassign(c, S) \/ Assign(c, S, b) => call'.op # "register"
    BY <1>1 DEF Unassign, Assign
  <2>2. \A i, q, b : AssignRepeated(c, i, q) \/ AssignPartial(c, i, b, q) => call'.op # "register"
    BY <1>1 DEF AssignRepeated, AssignPartial
  <2>3. \A b, to : ClearBox(c, b) \/ CloneBox(c, b) \/ RenameBox(c, b, to) => call'.op # "register"
    BY <1>1 DEF ClearBox, CloneBox, RenameBox
  <2> QED BY <2>1, <2>2, <2>3 DEF PackingPage
<1>5. Deliver(c) \/ ReturnDomestic(c) => call'.op # "register"
  BY <1>1 DEF Deliver, ReturnDomestic
<1> QED BY <1>2, <1>3, <1>4, <1>5

LEMMA RegisterStarts ==
  ASSUME Ready, StartCall
  PROVE  Registers(db', call')
<1>1. PICK c \in work.cases : \/ OrdersPage(c) \/ IntakePage(c) \/ PackingPage(c)
                              \/ Deliver(c) \/ ReturnDomestic(c) \/ SalesPage(c)
  BY DEF StartCall
<1>2. CASE ~SalesPage(c)
  BY <1>1, <1>2, OtherCalls DEF Registers
<1>3. CASE SalesPage(c)
  <2>1. c \in Cases
    BY WorkFacts DEF Ready
  <2>2. ASSUME NEW S, NEW act \in Seq(S), Len(act) \in {0, 1}, Len(act) = 1 => ButtonOn(c, act[1]),
               Register(c, act)
        PROVE  Registers(db', call')
    <3> DEFINE p == <<Do("reconcile", c), Do("audit", c)>>
               plan == p \o act
    <3>1. call'.case = c /\ call'.plan = plan
      BY <2>2 DEF Register, Begin
    <3>2. ButtonOn(c, Do("audit", c))
      BY DEF ButtonOn, Do, OnPage
    <3>3. Len(plan) = 2 + Len(act) /\ plan[1] = Do("reconcile", c) /\ plan[2] = Do("audit", c)
          /\ (Len(act) = 1 => plan[3] = act[1])
      BY <2>2
    <3> HIDE DEF plan
    <3>4. ASSUME NEW m \in 2 .. Len(plan) PROVE ButtonOn(c, plan[m])
      <4>0. Len(plan) = 2 + Len(act)
        BY <3>3
      <4>1. m = 2 \/ (m = 3 /\ Len(act) = 1)
        <5>1. CASE Len(act) = 0
          <6>1. Len(plan) = 2
            BY <4>0, <5>1
          <6> QED BY <6>1
        <5>2. CASE Len(act) = 1
          <6>1. Len(plan) = 3
            BY <4>0, <5>2
          <6> QED BY <5>2, <6>1
        <5> QED BY <2>2, <5>1, <5>2
      <4> QED BY <2>2, <3>2, <3>3, <4>1
    <3>5. Opening(c, plan)
      <4>1. Len(plan) >= 1
        BY <2>2, <3>3
      <4> QED BY <3>3, <3>4, <4>1 DEF Opening
    <3> QED BY <2>1, <3>1, <3>5 DEF Registers
  <2>3. ASSUME NEW x, ButtonOn(c, x), Register(c, <<x>>) PROVE Registers(db', call')
    <3> DEFINE act == <<x>>
               S == {x}
    <3>1. Len(act) = 1 /\ act[1] = x /\ act \in Seq(S)
      OBVIOUS
    <3>2. Register(c, act)
      BY <2>3
    <3> HIDE DEF act, S
    <3> QED BY <2>2, <2>3, <3>1, <3>2
  <2>4. ASSUME Register(c, << >>) PROVE Registers(db', call')
    <3> DEFINE act == << >>
               S == {}
    <3>1. Len(act) = 0 /\ act \in Seq(S)
      BY EmptySeq
    <3>2. Register(c, act)
      BY <2>4
    <3> HIDE DEF act, S
    <3>3. Len(act) \in {0, 1} /\ (Len(act) = 1 => ButtonOn(c, act[1]))
      BY <3>1
    <3> QED BY <2>2, <3>1, <3>2, <3>3
  <2>5. ButtonOn(c, Do("give up", c))
    BY DEF ButtonOn, Do, OnPage
  <2>6. \A K : ButtonOn(c, [do |-> "confirm", case |-> c, keys |-> K])
    BY DEF ButtonOn, OnPage
  <2> QED BY <1>3, <2>3, <2>4, <2>5, <2>6 DEF SalesPage
<1> QED BY <1>2, <1>3

(* The parts of a plan.                                                      *)
LEMMA PlanParts ==
  ASSUME NEW p, PlanOK(p), NEW q, PlanOK(q)
  PROVE  /\ Len(p \o q) = Len(p) + Len(q)
         /\ \A m \in 1 .. Len(p) : (p \o q)[m] = p[m]
         /\ \A m \in 1 .. Len(q) : (p \o q)[Len(p) + m] = q[m]
<1>1. PICK S : p \in Seq(S)
  BY DEF PlanOK
<1>2. PICK T : q \in Seq(T)
  BY DEF PlanOK
<1>3. p \in Seq(S \cup T) /\ q \in Seq(S \cup T)
  BY <1>1, <1>2, SeqMonotonic
<1> QED BY <1>3, ConcatProperties

LEMMA PlanIndex ==
  ASSUME NEW p, PlanOK(p), NEW q, PlanOK(q), NEW m \in 1 .. Len(p \o q)
  PROVE  \/ m \in 1 .. Len(p) /\ (p \o q)[m] = p[m]
         \/ m - Len(p) \in 1 .. Len(q) /\ (p \o q)[m] = q[m - Len(p)]
<1> DEFINE j == m - Len(p)
<1>1. Len(p) \in Nat /\ Len(q) \in Nat
  BY PlanItems
<1>2. Len(p \o q) = Len(p) + Len(q)
  BY PlanParts
<1>3. CASE m <= Len(p)
  <2>1. m \in 1 .. Len(p)
    BY <1>1, <1>2, <1>3
  <2> QED BY <2>1, PlanParts
<1>4. CASE m > Len(p)
  <2>1. j \in 1 .. Len(q) /\ Len(p) + j = m
    BY <1>1, <1>2, <1>4
  <2>2. (p \o q)[Len(p) + j] = q[j]
    BY <2>1, PlanParts
  <2> QED BY <2>1, <2>2
<1> QED BY <1>1, <1>2, <1>3, <1>4

LEMMA PlanEnds ==
  ASSUME NEW p, PlanOK(p), NEW s, StmtOK(s)
  PROVE  /\ PlanOK(p \o <<s>>) /\ Len(p \o <<s>>) = Len(p) + 1
         /\ (p \o <<s>>)[Len(p) + 1] = s
         /\ \A m \in 1 .. Len(p) : (p \o <<s>>)[m] = p[m]
<1> DEFINE one == <<s>>
<1>1. PlanOK(one) /\ Len(one) = 1 /\ one[1] = s /\ 1 \in 1 .. Len(one)
  BY PlanOne
<1> HIDE DEF one
<1>2. /\ Len(p \o one) = Len(p) + Len(one)
      /\ \A m \in 1 .. Len(p) : (p \o one)[m] = p[m]
      /\ \A m \in 1 .. Len(one) : (p \o one)[Len(p) + m] = one[m]
  BY <1>1, PlanParts
<1>3. PlanOK(p \o one)
  BY <1>1, PlanThen
<1> DEFINE m == 1
<1>4. (p \o one)[Len(p) + m] = s
  <2>1. m \in 1 .. Len(one) /\ one[m] = s
    BY <1>1
  <2> HIDE DEF m
  <2> QED BY <1>2, <2>1, Zenon
<1>5. Len(p \o one) = Len(p) + 1
  BY <1>1, <1>2
<1> QED BY <1>2, <1>3, <1>4, <1>5 DEF one

LEMMA OfferJoins ==
  ASSUME NEW c, NEW p, PlanOK(p), NEW q, PlanOK(q), Offering(c, p), Offering(c, q)
  PROVE  Offering(c, p \o q)
BY PlanIndex DEF Offering

LEMMA PlanTail ==
  ASSUME NEW p, PlanOK(p), p # << >>
  PROVE  /\ Len(p) \in Nat \ {0} /\ Head(p) = p[1] /\ Len(Tail(p)) = Len(p) - 1
         /\ \A m \in 1 .. Len(p) - 1 : Tail(p)[m] = p[m + 1]
<1>1. PICK S : p \in Seq(S)
  BY DEF PlanOK
<1> QED BY <1>1, HeadTailProperties, LenProperties

(* The repair writes an order item's rows as they are.                       *)
LEMMA QuietMirror ==
  ASSUME NEW d \in Tables, NEW c, NEW o \in OrderIds
  PROVE  \E S : /\ Mirror(d, c, o, Unchanged(d, c, o), << >>) \in Seq(S)
               /\ \A s \in S : QuietOn(d, c, s)
<1> DEFINE kept == Unchanged(d, c, o)
           changed == {i \in DOMAIN kept : kept[i] # d.rows[i].qty}
           gone == RowsFor(d, c, o) \ DOMAIN kept
           puts == [i \in changed |-> Put(i, kept[i], d.rows[i].box)]
           trim == [do |-> "trim", case |-> c, order |-> o, ids |-> DOMAIN kept]
           S == {Do("unlink", c), Sync(c), trim, Do("reopen", c), Do("drop empty", c)}
           p1 == When(Dangling(d, c) # {}, <<Do("unlink", c), Sync(c)>>)
           p2 == Each(puts)
           p3 == <<trim>>
           new == << >>
           p4 == When(changed # {} \/ gone # {} \/ new # << >>, <<Do("reopen", c)>>)
           p5 == <<Do("drop empty", c), Sync(c)>>
<1>1. DOMAIN kept = RowsFor(d, c, o) /\ \A i \in DOMAIN kept : kept[i] = d.rows[i].qty
  BY DEF Unchanged
<1>2. p2 \in Seq(S)
  <2>1. DOMAIN puts = {}
    BY <1>1
  <2> HIDE DEF puts
  <2> DEFINE ids == SetToSeq(DOMAIN puts)
  <2>2. DOMAIN ids = 1 .. Cardinality({})
    BY <2>1, FS_EmptySet, SetToSeqCovers
  <2>3. DOMAIN ids = 1 .. 0
    BY <2>2, FS_EmptySet
  <2>4. Each(puts) = [n \in DOMAIN ids |-> puts[ids[n]]]
    BY DEF Each
  <2> HIDE DEF ids, S
  <2>5. Each(puts) \in [1 .. 0 -> S]
    BY <2>3, <2>4
  <2> DEFINE z == 0
  <2>6. [1 .. z -> S] \in {[1 .. n -> S] : n \in Nat}
    OBVIOUS
  <2>7. [1 .. 0 -> S] \subseteq Seq(S)
    BY <2>6, SeqDef
  <2> QED BY <2>5, <2>7
<1>3. \A s \in S : QuietOn(d, c, s)
  <2>1. /\ QuietOn(d, c, Do("unlink", c)) /\ QuietOn(d, c, Sync(c))
        /\ QuietOn(d, c, Do("reopen", c)) /\ QuietOn(d, c, Do("drop empty", c))
    BY DEF QuietOn, Do, Sync
  <2>2. trim.do = "trim" /\ trim.case = c /\ trim.order = o /\ trim.ids = DOMAIN kept
    OBVIOUS
  <2> HIDE DEF trim
  <2>3. QuietOn(d, c, trim)
    BY <1>1, <2>2 DEF QuietOn
  <2> QED BY <2>1, <2>3
<1>4. p1 \in Seq(S) /\ p3 \in Seq(S) /\ p4 \in Seq(S) /\ p5 \in Seq(S) /\ new \in Seq(S)
  <2> DEFINE a == Do("unlink", c)
             b == Sync(c)
             e == Do("reopen", c)
             f == Do("drop empty", c)
  <2>1. a \in S /\ b \in S /\ e \in S /\ f \in S /\ trim \in S
    OBVIOUS
  <2> HIDE DEF S, trim
  <2>2. <<a, b>> \in Seq(S) /\ <<f, b>> \in Seq(S) /\ <<e>> \in Seq(S) /\ <<trim>> \in Seq(S)
        /\ << >> \in Seq(S)
    <3> HIDE DEF a, b, e, f
    <3> QED BY <2>1, EmptySeq
  <2> QED BY <2>2 DEF When
<1>5. Mirror(d, c, o, kept, new) = p1 \o p2 \o p3 \o new \o p4 \o p5
  BY DEF Mirror
<1> HIDE DEF p1, p2, p3, p4, p5, S, kept, new
<1>6. p1 \o p2 \o p3 \o new \o p4 \o p5 \in Seq(S)
  <2>1. \A x, y \in Seq(S) : x \o y \in Seq(S)
    BY ConcatProperties
  <2> QED BY <1>2, <1>4, <2>1
<1> QED BY <1>3, <1>5, <1>6 DEF kept, new

LEMMA ToRemoteMost ==
  ASSUME Ready, NEW n \in 0 .. Len(call.plan), \A m \in 1 .. n : Local(call.plan[m])
  PROVE  n <= ToRemote
<1> DEFINE S == {i \in 0 .. Len(call.plan) : \A m \in 1 .. i : Local(call.plan[m])}
<1>1. Len(call.plan) \in Nat
  BY PlanItems DEF Ready, CallOK
<1>2. n \in S /\ S \subseteq 0 .. Len(call.plan)
  OBVIOUS
<1>3. ToRemote = Max(S)
  BY DEF ToRemote
<1>4. \A y \in S : Max(S) >= y
  <2> HIDE DEF S
  <2> QED BY <1>1, <1>2, MaxIn
<1>5. Max(S) >= n
  BY <1>2, <1>4
<1> QED BY <1>1, <1>3, <1>5, ToRemoteFacts

(* Where an opened page is, by what it does next.                            *)
Open == Ready /\ Registers(db, call) /\ call.op = "register" /\ ~call.failed

LEMMA OpenFacts ==
  ASSUME Open
  PROVE  /\ call.case \in Cases /\ Sound(db) /\ db \in Tables /\ PlanOK(call.plan)
         /\ Len(call.plan) \in Nat /\ \A m \in 1 .. Len(call.plan) : StmtOK(call.plan[m])
         /\ call.plan # << >> =>
              /\ Len(call.plan) \in Nat \ {0} /\ Next1 = call.plan[1] /\ PlanOK(Rest)
              /\ Len(Rest) = Len(call.plan) - 1
              /\ \A m \in 1 .. Len(call.plan) - 1 : Rest[m] = call.plan[m + 1]
<1>1. /\ call.case \in Cases /\ Sound(db) /\ db \in Tables /\ PlanOK(call.plan)
  BY DEF Open, Ready, Registers, CallOK, Sound
<1> QED BY <1>1, PlanItems, PlanTail, PlanHead DEF Next1, Rest

LEMMA Continues ==
  ASSUME Open, NEW plan, Continue(plan)
  PROVE  call'.op = "register" /\ ~call'.failed /\ call'.case = call.case /\ call'.plan = plan
BY DEF Open, Ready, CallOK, Continue

LEMMA WhatNext ==
  ASSUME Open, call.plan # << >>
  PROVE  /\ Next1.do \in OnPage => (Offering(call.case, call.plan) /\ Reconciled(db, call.case))
         /\ Next1.do \in Remote => Next1.do \in {"reconcile", "reserve", "withdraw", "sell"}
         /\ Next1.do = "reconcile" => Opening(call.case, call.plan)
         /\ Next1.do = "reserve" => Repairing(db, call.case, call.plan, 1) /\ Reconciled(db, call.case)
         /\ Next1.do \in {"withdraw", "sell"} => Ending(db, call.case, call.plan) /\ Reconciled(db, call.case)
         /\ Local(Next1) => \E n \in 2 .. Len(call.plan) :
                               Repairing(db, call.case, call.plan, n) /\ Reconciled(db, call.case)
<1> DEFINE c == call.case
           p == call.plan
<1>1. Len(p) \in Nat \ {0} /\ Next1 = p[1] /\ StmtOK(p[1])
  BY OpenFacts
<1>2. CASE Opening(c, p)
  <2>1. Next1.do = "reconcile"
    BY <1>1, <1>2 DEF Opening, Do
  <2> QED BY <1>2, <2>1 DEF OnPage, Remote, Local
<1>3. CASE Reconciled(db, c) /\ Offering(c, p)
  <2>1. Next1.do \in OnPage
    BY <1>1, <1>3 DEF Offering, ButtonOn
  <2> QED BY <1>3, <2>1 DEF OnPage, Remote, Local
<1>4. CASE Reconciled(db, c) /\ Ending(db, c, p)
  <2>1. Next1.do \in {"withdraw", "sell"}
    BY <1>1, <1>4 DEF Ending
  <2> QED BY <1>4, <2>1 DEF OnPage, Remote, Local
<1>5. ASSUME Reconciled(db, c), NEW n \in 1 .. Len(p), Repairing(db, c, p, n)
      PROVE  /\ Next1.do \notin OnPage
             /\ Next1.do \in Remote => n = 1
             /\ Next1.do \notin {"reconcile", "withdraw", "sell"}
             /\ Local(Next1) => n # 1
             /\ Next1.do \in Remote => Next1.do = "reserve"
  <2>1. CASE n = 1
    <3>1. Next1.do = "reserve"
      BY <1>1, <1>5, <2>1 DEF Repairing
    <3> QED BY <2>1, <3>1 DEF OnPage, Remote, Local
  <2>2. CASE n # 1
    <3>1. 1 \in 1 .. n - 1
      BY <2>2
    <3>2. Next1.do \in {"unlink", "sync", "reopen", "drop empty", "trim"}
      BY <1>1, <1>5, <3>1 DEF Repairing, QuietOn
    <3> QED BY <2>2, <3>2 DEF OnPage, Remote, Local
  <2> QED BY <2>1, <2>2
<1>6. CASE \E n \in 1 .. Len(p) : Repairing(db, c, p, n) /\ Reconciled(db, c)
  <2>1. PICK n \in 1 .. Len(p) : Repairing(db, c, p, n) /\ Reconciled(db, c)
    BY <1>6
  <2>2. /\ Next1.do \notin OnPage
        /\ Next1.do \in Remote => n = 1
        /\ Next1.do \notin {"reconcile", "withdraw", "sell"}
        /\ Local(Next1) => n # 1
        /\ Next1.do \in Remote => Next1.do = "reserve"
    BY <1>5, <2>1
  <2>3. n # 1 => n \in 2 .. Len(p)
    BY <1>1
  <2>4. Next1.do = "reserve" => n = 1
    BY <2>2 DEF Remote
  <2> QED BY <2>1, <2>2, <2>3, <2>4
<1>7. \/ Opening(c, p)
      \/ Reconciled(db, c) /\ (\/ Offering(c, p) \/ Ending(db, c, p)
                               \/ \E n \in 1 .. Len(p) : Repairing(db, c, p, n))
  BY DEF Open, Registers
<1> QED BY <1>2, <1>3, <1>4, <1>6, <1>7

LEMMA OpenRuns ==
  ASSUME Open, RunStatements
  PROVE  Registers(db', call')
<1> DEFINE c == call.case
           p == call.plan
           t == ToRemote
<1>1. /\ db' = RunTo(t) /\ Continue(SubSeq(p, t + 1, Len(p))) /\ p # << >> /\ Local(Next1)
  BY DEF RunStatements, Running
<1>2. PICK n \in 2 .. Len(p) : Repairing(db, c, p, n) /\ Reconciled(db, c)
  BY <1>1, WhatNext
<1>3. /\ c \in Cases /\ db \in Tables /\ Len(p) \in Nat /\ Ready /\ PlanOK(p)
      /\ \A m \in 1 .. Len(p) : StmtOK(p[m])
  BY OpenFacts DEF Open
<1>4. \A m \in 1 .. n - 1 : QuietOn(db, c, p[m]) /\ Local(p[m])
  BY <1>2 DEF Repairing, QuietOn, Local, Remote
<1>5. ~Local(p[n])
  BY <1>2 DEF Repairing, Local, Remote
<1>6. t \in 0 .. Len(p) /\ \A m \in 1 .. t : Local(p[m])
  BY <1>3, ToRemoteFacts
<1>7. n - 1 <= t
  BY <1>3, <1>4, ToRemoteMost
<1>8. t = n - 1
  <2> HIDE DEF t
  <2> QED BY <1>2, <1>3, <1>5, <1>6, <1>7
<1>9. Alike(db, db', c) /\ db' \in Tables
  BY <1>1, <1>3, <1>4, <1>8, RunToAlike
<1> DEFINE q == SubSeq(p, n, Len(p))
<1>10. call'.op = "register" /\ ~call'.failed /\ call'.case = c /\ call'.plan = q
  <2>1. t + 1 = n
    BY <1>2, <1>3, <1>8
  <2> QED BY <1>1, <2>1, Continues
<1>11. Len(q) = Len(p) - n + 1 /\ \A m \in 1 .. Len(q) : q[m] = p[n + m - 1]
  <2>1. PICK S : p \in Seq(S)
    BY <1>3 DEF PlanOK
  <2> QED BY <1>2, <1>3, <2>1, SubSeqProperties
<1> HIDE DEF q
<1>12. Repairing(db', c, q, 1)
  <2>1. q[1] = p[n] /\ Len(q) \in Nat
    <3>1. Len(q) \in Nat /\ 1 \in 1 .. Len(q)
      BY <1>2, <1>3, <1>11
    <3>2. q[1] = p[n + 1 - 1]
      BY <1>11, <3>1
    <3>3. n + 1 - 1 = n
      BY <1>2, <1>3
    <3> QED BY <3>1, <3>2, <3>3
  <2>2. Fits(db', c, q[1])
    BY <1>2, <1>3, <1>9, <2>1, AlikeFacts DEF Repairing
  <2>3. ASSUME NEW m \in 2 .. Len(q) PROVE ButtonOn(c, q[m])
    <3>1. n + m - 1 \in n + 1 .. Len(p) /\ m \in 1 .. Len(q)
      BY <1>2, <1>3, <1>11, <2>1
    <3>2. q[m] = p[n + m - 1]
      BY <1>11, <3>1
    <3> QED BY <1>2, <3>1, <3>2 DEF Repairing
  <2>4. q[1].do = "reserve" /\ q[1].case = c /\ q[1].id \in Reservations
    BY <1>2, <2>1 DEF Repairing
  <2>5. \A m \in 1 .. 1 - 1 : QuietOn(db', c, q[m])
    OBVIOUS
  <2>6. \A m \in 1 + 1 .. Len(q) : ButtonOn(c, q[m])
    BY <2>3
  <2> QED BY <2>2, <2>4, <2>5, <2>6 DEF Repairing
<1>13. Reconciled(db', c)
  BY <1>2, <1>3, <1>9, AlikeFacts
<1>14. 1 \in 1 .. Len(q)
  BY <1>2, <1>3, <1>11
<1> QED BY <1>3, <1>10, <1>12, <1>13, <1>14 DEF Registers

LEMMA OpenCalls ==
  ASSUME Open, CallRemote
  PROVE  Registers(db', call')
<1> DEFINE c == call.case
           p == call.plan
           s == Next1
<1>1. /\ p # << >> /\ s.do \in Remote /\ db' = Exec(db, s) /\ Continue(Rest)
  BY DEF CallRemote, Running
<1>2. /\ c \in Cases /\ Sound(db) /\ Len(p) \in Nat \ {0} /\ s = p[1] /\ Len(Rest) = Len(p) - 1
      /\ \A m \in 1 .. Len(p) - 1 : Rest[m] = p[m + 1]
  BY <1>1, OpenFacts
<1>3. call'.op = "register" /\ ~call'.failed /\ call'.case = c /\ call'.plan = Rest
  BY <1>1, Continues
<1>4. s.do \in {"reconcile", "reserve", "withdraw", "sell"}
  BY <1>1, WhatNext
<1>5. Reconciled(db', c) /\ Offering(c, Rest)
  <2>1. CASE s.do = "reconcile"
    <3>1. Opening(c, p)
      BY <1>1, <2>1, WhatNext
    <3>2. s.case = c
      BY <1>2, <3>1 DEF Opening, Do
    <3>3. db' = ReleaseOrphans(db, c)
      BY <1>1, <2>1, <3>2 DEF Exec
    <3>4. Offering(c, Rest)
      BY <1>2, <3>1 DEF Opening, Offering
    <3> QED BY <1>2, <3>3, <3>4, OrphansReconciled
  <2>2. CASE s.do = "reserve"
    <3>1. Repairing(db, c, p, 1)
      BY <1>1, <2>2, WhatNext
    <3>2. s.case = c /\ Fits(db, c, s)
      BY <1>2, <3>1 DEF Repairing
    <3>3. db' = Reserve(db, s.id, c, s.cart)
      BY <1>1, <2>2, <3>2 DEF Exec
    <3>4. Offering(c, Rest)
      BY <1>2, <3>1 DEF Repairing, Offering
    <3> QED BY <3>2, <3>3, <3>4 DEF Fits
  <2>3. CASE s.do \in {"withdraw", "sell"}
    <3>1. Ending(db, c, p) /\ Reconciled(db, c)
      BY <1>1, <2>3, WhatNext
    <3>2. With(db, c, Live) = {s.id} /\ Len(p) = 1
      BY <1>2, <3>1 DEF Ending
    <3>3. db' = IF s.do = "withdraw" THEN CancelReservation(db, s.id) ELSE Confirm(db, s.id, s.keys)
      BY <1>1, <2>3 DEF Exec
    <3>4. Reconciled(db', c)
      BY <1>2, <3>1, <3>2, <3>3, ButtonsReconciled
    <3>5. Offering(c, Rest)
      BY <1>2, <3>2 DEF Offering
    <3> QED BY <3>4, <3>5
  <2> QED BY <1>4, <2>1, <2>2, <2>3
<1> QED BY <1>2, <1>3, <1>5 DEF Registers

LEMMA OpenFails ==
  ASSUME Open, RemoteFails
  PROVE  Registers(db', call')
<1>1. /\ call.plan # << >> /\ Next1.do \in Remote
      /\ IF Next1.do \in Swallowed THEN Continue(Rest)
         ELSE call' = [call EXCEPT !.plan = call.rescue, !.rescue = << >>, !.failed = TRUE]
  BY DEF RemoteFails, Running
<1>2. Next1.do \notin Swallowed
  BY <1>1, WhatNext DEF Swallowed
<1>3. call'.failed
  BY <1>1, <1>2 DEF Open, Ready, CallOK
<1> QED BY <1>3 DEF Registers

LEMMA OpenAudits ==
  ASSUME Open, Audit
  PROVE  Registers(db', call')
<1> DEFINE c == call.case
           p == call.plan
           n == Cardinality(Missing(db, c))
           a == When(n > 0 /\ db.stage[c] # "cancelled", <<RepairStep(c, n + 1)>>)
<1>1. p # << >> /\ Next1.do = "audit" /\ db' = db
  BY DEF Audit, Running
<1>2. Offering(c, p) /\ Reconciled(db, c)
  BY <1>1, WhatNext DEF OnPage
<1>3. /\ c \in Cases /\ Len(p) \in Nat \ {0} /\ Next1 = p[1] /\ Len(Rest) = Len(p) - 1 /\ PlanOK(Rest)
      /\ \A m \in 1 .. Len(p) - 1 : Rest[m] = p[m + 1]
  BY <1>1, OpenFacts
<1>4. Next1.case = c
  BY <1>2, <1>3 DEF Offering, ButtonOn
<1>5. Continue(a \o Rest)
  BY <1>4 DEF Audit
<1>6. ButtonOn(c, RepairStep(c, n + 1)) /\ StmtOK(RepairStep(c, n + 1))
  BY <1>3 DEF ButtonOn, RepairStep, StmtOK, OnExport, Remote, OnPage
<1> HIDE DEF n
<1>7. PlanOK(a) /\ Offering(c, a)
  <2> DEFINE b == RepairStep(c, n + 1)
  <2>1. a = << >> \/ a = <<b>>
    BY DEF When
  <2> HIDE DEF a
  <2>2. PlanOK(<<b>>) /\ Len(<<b>>) = 1 /\ <<b>>[1] = b
    BY <1>6, PlanOne
  <2> HIDE DEF b
  <2>3. Offering(c, <<b>>) /\ Offering(c, << >>)
    BY <1>6, <2>2 DEF Offering, b
  <2> QED BY <2>1, <2>2, <2>3, PlanNil
<1> HIDE DEF a
<1>8. Offering(c, Rest)
  <2>1. \A m \in 1 .. Len(p) - 1 : m + 1 \in 1 .. Len(p)
    BY <1>3
  <2> QED BY <1>2, <1>3, <2>1 DEF Offering
<1>9. Offering(c, a \o Rest)
  BY <1>3, <1>7, <1>8, OfferJoins
<1> QED BY <1>1, <1>2, <1>3, <1>5, <1>9, Continues DEF Registers

LEMMA OneTarget ==
  ASSUME NEW d, NEW c, NEW w, With(d, c, Live) = {w}
  PROVE  Editable(d, c) = {w} /\ Target(d, c) = w /\ w \in Reservations
<1>1. Cardinality(With(d, c, Live)) = 1
  BY FS_Singleton
<1>2. Editable(d, c) = {w}
  BY <1>1, OnlyOne
<1>3. The({w}) = w
  BY DEF The
<1>4. Editable(d, c) # {} /\ The(Editable(d, c)) = w
  BY <1>2, <1>3
<1>5. w \in Reservations
  BY DEF With
<1> QED BY <1>2, <1>4, <1>5 DEF Target

(* The repair, once the page has opened, is either done or saves the first   *)
(* order item the reservation lacks.                                         *)
LEMMA RepairPlan ==
  ASSUME NEW d, Sound(d), NEW c \in Cases, Reconciled(d, c), NEW o \in Items(d, c), NEW w,
         With(d, c, Live) = {w}, NEW q, PlanOK(q), Offering(c, q),
         NEW plan, plan = SavePlan(d, c, o, Unchanged(d, c, o), 0) \o q
  PROVE  \E n \in 1 .. Len(plan) : Repairing(d, c, plan, n)
<1> DEFINE kept == Unchanged(d, c, o)
           cart == Cart(d, c, o, kept, 0)
           mirror == Mirror(d, c, o, kept, << >>)
           s == [do |-> "reserve", case |-> c, id |-> w, cart |-> cart]
           n == Len(mirror) + 1
<1>1. d \in Tables /\ o \in OrderIds /\ w \in Reservations
  BY DEF Sound, Items, With
<1>2. Editable(d, c) = {w} /\ Target(d, c) = w
  BY OneTarget
<1>3. SavePlan(d, c, o, kept, 0) = mirror \o <<s>>
  <2>1. \A x : When(0 > 0, x) = << >>
    BY DEF When
  <2>2. Editable(d, c) # {}
    BY <1>2
  <2>3. \A x : When(cart # Nothing \/ Editable(d, c) # {}, x) = x
    BY <2>2 DEF When
  <2> QED BY <1>2, <2>1, <2>3 DEF SavePlan
<1>4. PICK S : mirror \in Seq(S) /\ \A x \in S : QuietOn(d, c, x)
  <2>1. \E S : /\ Mirror(d, c, o, Unchanged(d, c, o), << >>) \in Seq(S)
               /\ \A x \in S : QuietOn(d, c, x)
    BY <1>1, QuietMirror, Zenon
  <2> QED BY <2>1, Zenon
<1>5. KeptOK(d, c, o, kept)
  BY <1>1, UnchangedOK DEF Unchanged
<1>6. PlanOK(mirror) /\ \A m \in 1 .. Len(mirror) : QuietOn(d, c, mirror[m])
  <2>1. PlanOK(mirror)
    BY <1>1, <1>5, MirrorOK, PlanNil
  <2>2. \A m \in 1 .. Len(mirror) : mirror[m] \in S
    BY <1>4, ElementOfSeq
  <2> QED BY <1>4, <2>1, <2>2
<1>7. Len(mirror) \in Nat
  BY <1>6, PlanItems
<1>8. StmtOK(s)
  <2>1. cart \in [Keys -> Nat]
    BY RepairCart
  <2> QED BY <1>1, <2>1 DEF StmtOK, OnExport, Remote, OnPage
<1>9. Fits(d, c, s)
  BY RepairFits DEF Fits
<1> HIDE DEF mirror, kept, cart
<1> DEFINE head == mirror \o <<s>>
<1>11. s.do = "reserve" /\ s.case = c /\ s.id = w
  OBVIOUS
<1> HIDE DEF s
<1>12. PlanOK(head) /\ Len(head) = n /\ head[n] = s
       /\ \A m \in 1 .. Len(mirror) : head[m] = mirror[m]
  BY <1>6, <1>8, PlanEnds
<1>13. plan = head \o q
  BY <1>3 DEF kept, mirror
<1> HIDE DEF head
<1>14. Len(plan) = n + Len(q) /\ Len(q) \in Nat /\ \A m \in 1 .. n : plan[m] = head[m]
  BY <1>12, <1>13, PlanParts, PlanItems
<1>15. ASSUME NEW m \in 1 .. n - 1 PROVE QuietOn(d, c, plan[m])
  <2>1. m \in 1 .. Len(mirror) /\ m \in 1 .. n
    BY <1>7
  <2>2. plan[m] = mirror[m]
    BY <1>12, <1>14, <2>1
  <2> QED BY <1>6, <2>1, <2>2
<1>16. n \in 1 .. n /\ n \in 1 .. Len(plan)
  BY <1>7, <1>14
<1>17. plan[n] = s
  BY <1>12, <1>14, <1>16
<1>18. ASSUME NEW m \in n + 1 .. Len(plan) PROVE ButtonOn(c, plan[m])
  <2>1. m \in 1 .. Len(head \o q) /\ m \notin 1 .. Len(head)
    BY <1>7, <1>12, <1>13, <1>14
  <2>2. m - Len(head) \in 1 .. Len(q) /\ plan[m] = q[m - Len(head)]
    BY <1>12, <1>13, <2>1, PlanIndex
  <2> QED BY <2>2 DEF Offering
<1> HIDE DEF n
<1> QED BY <1>1, <1>9, <1>11, <1>15, <1>16, <1>17, <1>18 DEF Repairing

LEMMA OpenRepairs ==
  ASSUME Open, Repair
  PROVE  Registers(db', call')
<1> DEFINE c == call.case
           p == call.plan
           S == {o \in Items(db, c) : \E i \in RowsFor(db, c, o) : db.rows[i].key \in Missing(db, c)}
           o == Min(S)
           step == RepairStep(c, Next1.left - 1)
           plan == SavePlan(db, c, o, Unchanged(db, c, o), 0) \o <<step>> \o Rest
<1>1. p # << >> /\ Next1.do = "repair" /\ db' = db
  BY DEF Repair, Running
<1>2. Offering(c, p) /\ Reconciled(db, c)
  BY <1>1, WhatNext DEF OnPage
<1>3. /\ c \in Cases /\ Len(p) \in Nat \ {0} /\ Next1 = p[1] /\ Len(Rest) = Len(p) - 1 /\ PlanOK(Rest)
      /\ \A m \in 1 .. Len(p) - 1 : Rest[m] = p[m + 1]
      /\ Sound(db) /\ db \in Tables
  BY <1>1, OpenFacts
<1>4. Next1.case = c
  BY <1>2, <1>3 DEF Offering, ButtonOn
<1>5. Offering(c, Rest)
  <2>1. \A m \in 1 .. Len(p) - 1 : m + 1 \in 1 .. Len(p)
    BY <1>3
  <2> QED BY <1>2, <1>3, <2>1 DEF Offering
<1>6. CASE S = {} \/ Next1.left = 0
  <2>1. Continue(Rest)
    BY <1>4, <1>6 DEF Repair
  <2> QED BY <1>1, <1>2, <1>3, <1>5, <2>1, Continues DEF Registers
<1>7. CASE ~(S = {} \/ Next1.left = 0)
  <2>1. call' = [call EXCEPT !.plan = plan, !.rescue = SaveRescue(db, c, o, Unchanged(db, c, o)) \o Rest]
    BY <1>4, <1>7 DEF Repair
  <2>2. o \in S
    <3>1. S \subseteq Nat
      BY TablesOK DEF Items
    <3> HIDE DEF S
    <3> QED BY <1>7, <3>1, MinIn
  <2>3. o \in Items(db, c) /\ Missing(db, c) # {}
    BY <2>2
  <2> HIDE DEF S, o
  <2>4. Cardinality(With(db, c, Live)) = 1
    BY <2>3 DEF Missing
  <2> DEFINE w == The(With(db, c, Live))
  <2>5. With(db, c, Live) = {w}
    BY <2>4, OnlyOne
  <2> HIDE DEF w
  <2>6. ButtonOn(c, step) /\ StmtOK(step)
    BY <1>3 DEF ButtonOn, RepairStep, StmtOK, OnExport, Remote, OnPage
  <2> DEFINE one == <<step>>
             q == one \o Rest
             save == SavePlan(db, c, o, Unchanged(db, c, o), 0)
  <2> HIDE DEF step
  <2>7. PlanOK(one) /\ Len(one) = 1 /\ one[1] = step
    BY <2>6, PlanOne
  <2>8. Offering(c, one)
    BY <2>6, <2>7 DEF Offering
  <2>9. PlanOK(q) /\ Offering(c, q)
    BY <1>3, <1>5, <2>7, <2>8, PlanThen, OfferJoins
  <2>10. plan = save \o q
    <3>1. \A x, y, z : PlanOK(x) /\ PlanOK(y) /\ PlanOK(z) => (x \o y) \o z = x \o (y \o z)
      <4> TAKE x, y, z
      <4> HAVE PlanOK(x) /\ PlanOK(y) /\ PlanOK(z)
      <4>1. PICK X : x \in Seq(X)
        BY DEF PlanOK
      <4>2. PICK Y : y \in Seq(Y)
        BY DEF PlanOK
      <4>3. PICK Z : z \in Seq(Z)
        BY DEF PlanOK
      <4> DEFINE A == X \cup Y \cup Z
      <4>4. X \subseteq A /\ Y \subseteq A /\ Z \subseteq A
        OBVIOUS
      <4> HIDE DEF A
      <4>5. x \in Seq(A) /\ y \in Seq(A) /\ z \in Seq(A)
        BY <4>1, <4>2, <4>3, <4>4, SeqMonotonic
      <4> QED BY <4>5, ConcatAssociative
    <3>2. PlanOK(save)
      <4>1. Target(db, c) \in Reservations
        BY <2>5, OneTarget
      <4>2. KeptOK(db, c, o, Unchanged(db, c, o))
        BY <1>3, UnchangedOK DEF Unchanged
      <4> QED BY <1>3, <2>3, <4>1, <4>2, SavePlanOK DEF Items
    <3> QED BY <1>3, <2>7, <3>1, <3>2
  <2> HIDE DEF q, plan, save
  <2>11. \E n \in 1 .. Len(plan) : Repairing(db, c, plan, n)
    BY <1>2, <1>3, <2>3, <2>5, <2>9, <2>10, RepairPlan DEF save
  <2>12. call'.plan = plan /\ call'.op = "register" /\ ~call'.failed /\ call'.case = c
    BY <2>1 DEF Open, Ready, CallOK
  <2> QED BY <1>1, <1>2, <1>3, <2>11, <2>12 DEF Registers
<1> QED BY <1>6, <1>7

LEMMA OpenPresses ==
  ASSUME Open, PressButton
  PROVE  Registers(db', call')
<1> DEFINE c == call.case
           p == call.plan
           W == With(db, Next1.case, Live)
           w == The(W)
           offered == Cardinality(W) = 1 /\ db.held[w].status # "confirmed"
           act == IF Next1.do = "give up" THEN [do |-> "withdraw", id |-> w]
                  ELSE [do |-> "sell", id |-> w, keys |-> Next1.keys]
           chosen == offered /\ (Next1.do = "confirm" => \A k \in Next1.keys : db.held[w].wait[k] > 0)
<1>1. p # << >> /\ Next1.do \in {"confirm", "give up"} /\ db' = db
  BY DEF PressButton, Running
<1>2. Offering(c, p) /\ Reconciled(db, c)
  BY <1>1, WhatNext DEF OnPage
<1>3. c \in Cases /\ Len(p) \in Nat \ {0} /\ Next1 = p[1]
  BY <1>1, OpenFacts
<1>4. Next1.case = c
  BY <1>2, <1>3 DEF Offering, ButtonOn
<1>5. Continue(When(chosen, <<act>>))
  BY DEF PressButton
<1>6. CASE ~chosen
  <2>1. When(chosen, <<act>>) = << >>
    BY <1>6 DEF When
  <2>2. Continue(<< >>)
    BY <1>5, <2>1
  <2>3. Len(<< >>) = 0
    BY EmptySeq
  <2>4. Offering(c, << >>)
    BY <2>3 DEF Offering
  <2> QED BY <1>1, <1>2, <1>3, <2>2, <2>4, Continues DEF Registers
<1>7. CASE chosen
  <2>1. When(chosen, <<act>>) = <<act>>
    BY <1>7 DEF When
  <2>2. Continue(<<act>>)
    BY <1>5, <2>1
  <2>3. W = {w} /\ W = With(db, c, Live)
    BY <1>4, <1>7, OnlyOne
  <2>4. act.do \in {"withdraw", "sell"} /\ act.id = w
    OBVIOUS
  <2> HIDE DEF act, w, W, chosen
  <2>5. Len(<<act>>) = 1 /\ <<act>>[1] = act
    OBVIOUS
  <2>6. Ending(db, c, <<act>>)
    BY <2>3, <2>4, <2>5 DEF Ending
  <2> QED BY <1>1, <1>2, <1>3, <2>2, <2>6, Continues DEF Registers
<1> QED BY <1>6, <1>7

(* Whatever a call does next.                                                *)
LEMMA RegisterStep ==
  ASSUME Ready, Registers(db, call), Next
  PROVE  Registers(db', call')
<1>1. CASE StartCall
  BY <1>1, RegisterStarts
<1>2. CASE Finish \/ Crash
  <2>1. call'.op = "none"
    BY <1>2 DEF Finish, Crash, NoCall
  <2> QED BY <2>1 DEF Registers
<1>3. CASE ~Open /\ (RunStatements \/ CallRemote \/ RemoteFails \/ Audit \/ Repair \/ PressButton)
  <2>1. call.op # "register" \/ call.failed
    BY <1>3 DEF Open
  <2>2. call'.op = call.op /\ (call.failed => call'.failed)
    <3>1. \A plan : Continue(plan) => call'.op = call.op /\ call'.failed = call.failed
      BY DEF Continue, Ready, CallOK
    <3>2. CASE RemoteFails
      BY <3>1, <3>2 DEF RemoteFails, Ready, CallOK
    <3>3. CASE Repair
      BY <3>1, <3>3 DEF Repair, Ready, CallOK
    <3>4. CASE RunStatements \/ CallRemote
      BY <3>1, <3>4 DEF RunStatements, CallRemote
    <3>5. CASE Audit \/ PressButton
      BY <3>1, <3>5 DEF Audit, PressButton
    <3> QED BY <1>3, <3>2, <3>3, <3>4, <3>5
  <2> QED BY <2>1, <2>2 DEF Registers
<1>4. CASE Open
  <2>1. Next => \/ StartCall \/ Finish \/ Crash \/ RunStatements \/ CallRemote \/ RemoteFails
                \/ Audit \/ Repair \/ PressButton
    BY DEF Next
  <2> QED BY <1>1, <1>2, <1>4, <2>1, OpenRuns, OpenCalls, OpenFails, OpenAudits, OpenRepairs, OpenPresses
<1>5. \/ StartCall \/ (Finish \/ Crash)
      \/ (RunStatements \/ CallRemote \/ RemoteFails \/ Audit \/ Repair \/ PressButton)
  BY DEF Next
<1> QED BY <1>1, <1>2, <1>3, <1>4, <1>5

(* Whatever crashes, edits and merges left behind, once the registration     *)
(* page has opened, repaired what it found missing, and sold or given up     *)
(* what the user chose, the case's one reservation waits for no more of a    *)
(* key than the case's rows still need beyond what was sold                  *)
(* (wms_link_service, stale_inventory_cleanup_service).                      *)
THEOREM RegistrationIsReconciled == Spec => []RegistrationReconciles
<1> DEFINE Inv == Ready /\ Registers(db, call)
<1>1. Init => Inv
  <2> SUFFICES ASSUME Init PROVE Inv
    OBVIOUS
  <2>1. Ready
    BY StartUnits DEF UnitsInv
  <2>2. Registers(db, call)
    BY DEF Init, NoCall, Registers
  <2> QED BY <2>1, <2>2
<1>2. Inv /\ [Next]_vars => Inv'
  <2> SUFFICES ASSUME Inv, [Next]_vars PROVE Inv'
    OBVIOUS
  <2>1. CASE Next
    <3>1. work' = work /\ Sound(db') /\ CallOK' /\ Ready
      BY <2>1, StepKeeps
    <3>2. Registers(db', call')
      BY <2>1, RegisterStep
    <3>3. Registers(db, call)'
      BY <3>2 DEF Registers, Opening, Offering, Repairing, Ending, ButtonOn, QuietOn, Fits, Reconciled, Reserve, With, RowsFor
    <3> QED BY <3>1, <3>3 DEF Ready, Sound
  <2>2. CASE UNCHANGED vars
    <3>1. db' = db /\ call' = call /\ work' = work
      BY <2>2 DEF vars
    <3>2. Registers(db', call')
      BY <3>1
    <3>3. Registers(db, call)'
      BY <3>2 DEF Registers, Opening, Offering, Repairing, Ending, ButtonOn, QuietOn, Fits, Reconciled, Reserve, With, RowsFor
    <3> QED BY <3>1, <3>3 DEF Ready, Sound, CallOK
  <2> QED BY <2>1, <2>2
<1>3. Inv => RegistrationReconciles
  <2> SUFFICES ASSUME Inv, call.op = "register", call.plan = << >>, ~call.failed
               PROVE  Reconciled(db, call.case)
    BY DEF RegistrationReconciles
  <2>1. Len(call.plan) = 0
    BY EmptySeq
  <2>2. ~Opening(call.case, call.plan)
    BY <2>1 DEF Opening
  <2> QED BY <2>2 DEF Registers
<1> QED BY <1>1, <1>2, <1>3, PTL DEF Spec

-----------------------------------------------------------------------------
(* The folders of the cases (CaseFolders).                                   *)

(* What a call on a case's folder has still to do: the steps of a sync that   *)
(* has planned, each with the copy of a batch behind it or without, and the  *)
(* steps before the plan, the upload of a first file among them.             *)
ToMove == {<<"move", "path", "book", "mark">>, <<"move", "path", "book", "mark", "gather">>}
ToRows == {<<"rows", "path", "book", "mark">>, <<"rows", "path", "book", "mark", "gather">>}
ToPath == {<<"path", "book", "mark">>, <<"path", "book", "mark", "gather">>}
ToBook == {<<"book", "mark">>, <<"book", "mark", "gather">>}
ToMark == {<<"mark">>, <<"mark", "gather">>}
ToGather == {<<"gather">>}
Unnamed == ToMove \cup ToRows \cup ToPath
Past == Unnamed \cup ToBook \cup ToMark \cup ToGather
ToPlan == {<<"plan">>, <<"plan", "gather">>}
ToEnsure == {<<"ensure", "plan">>}
FirstBook == {<<"book", "mark", "path", "file", "row", "plan">>}
FirstMark == {<<"mark", "path", "file", "row", "plan">>}
FirstPath == {<<"path", "file", "row", "plan">>}
FirstFile == {<<"file", "row", "plan">>}
FirstRow == {<<"row", "plan">>}
Placed == FirstBook \cup FirstMark \cup FirstPath \cup FirstFile \cup FirstRow
Ahead == ToPlan \cup ToEnsure \cup Placed

(* Every variable's type; that a case's workbooks are no newer than the clock *)
(* and, if newer than its last change, hold what it is; and what a call is.  *)
FileFields == {"base", "label", "cancelled", "data", "stamp", "path"}
FolderFields == {"mark", "print", "book", "files"}
IsTarget(p) == p = Place(p.root, p.base, p.name, p.n) /\ p.base \in Bases /\ p.n \in Nat \ {0}
FileOK(r, now) ==
  DOMAIN r = FileFields /\ r.base \in Bases /\ r.stamp \in Nat /\ r.stamp <= now
FolderOK(f, made) ==
  DOMAIN f = FolderFields /\ f.book.at \in Nat /\ (f.book = NoBook \/ f.book.of \in made)
UpToDate(c) == \A p \in DOMAIN disk : disk[p].book.of = c =>
                 /\ disk[p].book.at <= clock
                 /\ disk[p].book.at > case[c].stamp => disk[p].book.data = case[c].data
JobOK(j, made) ==
  /\ DOMAIN j = DOMAIN NoJob /\ j.rest \in Seq(made)
  /\ \/ j = NoJob
     \/ j.todo = <<"next">> /\ j.case = 0 /\ j.cur = None /\ j.tgt = None /\ j.rest # <<>>
     \/ j.todo \in Ahead \cup Past /\ j.case \in made
  /\ j.todo \in Past => IsTarget(j.tgt)
  /\ j.todo \in Placed => j.tgt # None
Calls == \A s \in Sessions : JobOK(job[s], Made) /\ (job[s] # NoJob => s \in trip.sessions)
Types ==
  /\ trip \in Trips /\ clock \in Nat /\ root \in {"", "disk"}
  /\ DOMAIN case = CaseIds /\ DOMAIN job = Sessions
  /\ \A c \in Made : FileOK(case[c], clock) /\ UpToDate(c)
  /\ IsFiniteSet(DOMAIN disk) /\ None \notin DOMAIN disk
  /\ \A p \in DOMAIN disk : FolderOK(disk[p], Made)
  /\ Calls

-----------------------------------------------------------------------------
(* What is left of each list.                                                *)
LEMMA Lists ==
  /\ Head(<<"move", "path", "book", "mark">>) = "move" /\ <<"move", "path", "book", "mark">> # <<>>
       /\ Tail(<<"move", "path", "book", "mark">>) = <<"path", "book", "mark">>
  /\ Head(<<"move", "path", "book", "mark", "gather">>) = "move" /\ <<"move", "path", "book", "mark", "gather">> # <<>>
       /\ Tail(<<"move", "path", "book", "mark", "gather">>) = <<"path", "book", "mark", "gather">>
  /\ Head(<<"rows", "path", "book", "mark">>) = "rows" /\ <<"rows", "path", "book", "mark">> # <<>>
       /\ Tail(<<"rows", "path", "book", "mark">>) = <<"path", "book", "mark">>
  /\ Head(<<"rows", "path", "book", "mark", "gather">>) = "rows" /\ <<"rows", "path", "book", "mark", "gather">> # <<>>
       /\ Tail(<<"rows", "path", "book", "mark", "gather">>) = <<"path", "book", "mark", "gather">>
  /\ Head(<<"path", "book", "mark">>) = "path" /\ <<"path", "book", "mark">> # <<>>
       /\ Tail(<<"path", "book", "mark">>) = <<"book", "mark">>
  /\ Head(<<"path", "book", "mark", "gather">>) = "path" /\ <<"path", "book", "mark", "gather">> # <<>>
       /\ Tail(<<"path", "book", "mark", "gather">>) = <<"book", "mark", "gather">>
  /\ Head(<<"book", "mark">>) = "book" /\ <<"book", "mark">> # <<>>
       /\ Tail(<<"book", "mark">>) = <<"mark">>
  /\ Head(<<"book", "mark", "gather">>) = "book" /\ <<"book", "mark", "gather">> # <<>>
       /\ Tail(<<"book", "mark", "gather">>) = <<"mark", "gather">>
  /\ Head(<<"mark">>) = "mark" /\ <<"mark">> # <<>>
       /\ Tail(<<"mark">>) = <<>>
  /\ Head(<<"mark", "gather">>) = "mark" /\ <<"mark", "gather">> # <<>>
       /\ Tail(<<"mark", "gather">>) = <<"gather">>
  /\ Head(<<"gather">>) = "gather" /\ <<"gather">> # <<>>
       /\ Tail(<<"gather">>) = <<>>
  /\ Head(<<"plan">>) = "plan" /\ <<"plan">> # <<>>
       /\ Tail(<<"plan">>) = <<>>
  /\ Head(<<"plan", "gather">>) = "plan" /\ <<"plan", "gather">> # <<>>
       /\ Tail(<<"plan", "gather">>) = <<"gather">>
  /\ Head(<<"ensure", "plan">>) = "ensure" /\ <<"ensure", "plan">> # <<>>
       /\ Tail(<<"ensure", "plan">>) = <<"plan">>
  /\ Head(<<"book", "mark", "path", "file", "row", "plan">>) = "book" /\ <<"book", "mark", "path", "file", "row", "plan">> # <<>>
       /\ Tail(<<"book", "mark", "path", "file", "row", "plan">>) = <<"mark", "path", "file", "row", "plan">>
  /\ Head(<<"mark", "path", "file", "row", "plan">>) = "mark" /\ <<"mark", "path", "file", "row", "plan">> # <<>>
       /\ Tail(<<"mark", "path", "file", "row", "plan">>) = <<"path", "file", "row", "plan">>
  /\ Head(<<"path", "file", "row", "plan">>) = "path" /\ <<"path", "file", "row", "plan">> # <<>>
       /\ Tail(<<"path", "file", "row", "plan">>) = <<"file", "row", "plan">>
  /\ Head(<<"file", "row", "plan">>) = "file" /\ <<"file", "row", "plan">> # <<>>
       /\ Tail(<<"file", "row", "plan">>) = <<"row", "plan">>
  /\ Head(<<"row", "plan">>) = "row" /\ <<"row", "plan">> # <<>>
       /\ Tail(<<"row", "plan">>) = <<"plan">>
BY SMTT(30)

(* What is left of a call after its next step.                               *)
LEMMA TodoTails ==
  /\ \A t \in ToMove : t # <<>> /\ Head(t) = "move" /\ Tail(t) \in ToPath
  /\ \A t \in ToRows : t # <<>> /\ Head(t) = "rows" /\ Tail(t) \in ToPath
  /\ \A t \in ToPath : t # <<>> /\ Head(t) = "path" /\ Tail(t) \in ToBook
  /\ \A t \in ToBook : t # <<>> /\ Head(t) = "book" /\ Tail(t) \in ToMark
  /\ \A t \in ToMark : t # <<>> /\ Head(t) = "mark" /\ (Tail(t) \in ToGather \/ Tail(t) = <<>>)
  /\ \A t \in ToGather : t # <<>> /\ Head(t) = "gather" /\ Tail(t) = <<>>
  /\ \A t \in ToPlan : t # <<>> /\ Head(t) = "plan" /\ Tail(t) \in {<<>>, <<"gather">>}
<1>1. \A t \in ToMove : t # <<>> /\ Head(t) = "move" /\ Tail(t) \in ToPath
  BY Lists, Zenon DEF ToMove, ToPath
<1>2. \A t \in ToRows : t # <<>> /\ Head(t) = "rows" /\ Tail(t) \in ToPath
  BY Lists, Zenon DEF ToRows, ToPath
<1>3. \A t \in ToPath : t # <<>> /\ Head(t) = "path" /\ Tail(t) \in ToBook
  BY Lists, Zenon DEF ToPath, ToBook
<1>4. \A t \in ToBook : t # <<>> /\ Head(t) = "book" /\ Tail(t) \in ToMark
  BY Lists, Zenon DEF ToBook, ToMark
<1>5. \A t \in ToMark : t # <<>> /\ Head(t) = "mark" /\ (Tail(t) \in ToGather \/ Tail(t) = <<>>)
  BY Lists, Zenon DEF ToMark, ToGather
<1>6. \A t \in ToGather : t # <<>> /\ Head(t) = "gather" /\ Tail(t) = <<>>
  BY Lists, Zenon DEF ToGather
<1>7. \A t \in ToPlan : t # <<>> /\ Head(t) = "plan" /\ Tail(t) \in {<<>>, <<"gather">>}
  BY Lists, Zenon DEF ToPlan
<1> QED BY <1>1, <1>2, <1>3, <1>4, <1>5, <1>6, <1>7

LEMMA FirstTails ==
  /\ \A t \in ToEnsure : t # <<>> /\ Head(t) = "ensure" /\ Tail(t) \in ToPlan
  /\ \A t \in FirstBook : t # <<>> /\ Head(t) = "book" /\ Tail(t) \in FirstMark
  /\ \A t \in FirstMark : t # <<>> /\ Head(t) = "mark" /\ Tail(t) \in FirstPath
  /\ \A t \in FirstPath : t # <<>> /\ Head(t) = "path" /\ Tail(t) \in FirstFile
  /\ \A t \in FirstFile : t # <<>> /\ Head(t) = "file" /\ Tail(t) \in FirstRow
  /\ \A t \in FirstRow : t # <<>> /\ Head(t) = "row" /\ Tail(t) \in ToPlan
BY Lists, Zenon DEF ToEnsure, FirstBook, FirstMark, FirstPath, FirstFile, FirstRow, ToPlan

(* The phases exclude each other.                                            *)
LEMMA PhasesApart ==
  /\ Past \cap Ahead = {} /\ <<>> \notin Past \cup Ahead /\ <<"next">> \notin Past \cup Ahead
  /\ <<"next">> # <<>>
  /\ ToMove \cap (ToRows \cup ToPath \cup ToBook \cup ToMark \cup ToGather) = {}
  /\ Unnamed \cap (ToBook \cup ToMark \cup ToGather) = {}
  /\ (ToRows \cup ToPath) \cap (ToBook \cup ToMark \cup ToGather) = {}
  /\ ToBook \cap (ToMark \cup ToGather) = {} /\ ToMark \cap ToGather = {}
<1>1. /\ \A t \in ToMove : Head(t) = "move"
      /\ \A t \in ToRows : Head(t) = "rows"
      /\ \A t \in ToPath \cup FirstPath : Head(t) = "path"
      /\ \A t \in ToBook \cup FirstBook : Head(t) = "book"
      /\ \A t \in ToMark \cup FirstMark : Head(t) = "mark"
      /\ \A t \in ToGather : Head(t) = "gather"
      /\ \A t \in ToPlan : Head(t) = "plan"
      /\ \A t \in ToEnsure : Head(t) = "ensure"
      /\ \A t \in FirstFile : Head(t) = "file"
      /\ \A t \in FirstRow : Head(t) = "row"
  BY TodoTails, FirstTails
<1>2. ToPath \cap FirstPath = {}
  BY DEF ToPath, FirstPath
<1>3. ToBook \cap FirstBook = {}
  BY DEF ToBook, FirstBook
<1>4. ToMark \cap FirstMark = {}
  BY DEF ToMark, FirstMark
<1>5. Past \cap Ahead = {}
  BY <1>1, <1>2, <1>3, <1>4 DEF Past, Unnamed, Ahead, Placed
<1>6. <<>> \notin Past \cup Ahead
  BY TodoTails, FirstTails DEF Past, Unnamed, Ahead, Placed
<1>7. Head(<<"next">>) = "next" /\ <<"next">> # <<>>
  OBVIOUS
<1>8. <<"next">> \notin Past \cup Ahead
  BY <1>1, <1>7 DEF Past, Unnamed, Ahead, Placed
<1> QED BY <1>1, <1>5, <1>6, <1>7, <1>8 DEF Unnamed

(* The phase of a call is told by its next step.                             *)
LEMMA PhaseOf ==
  ASSUME NEW t \in Ahead \cup Past
  PROVE  /\ Head(t) = "move" => t \in ToMove
         /\ Head(t) = "rows" => t \in ToRows
         /\ Head(t) = "path" => t \in ToPath \cup FirstPath
         /\ Head(t) = "book" => t \in ToBook \cup FirstBook
         /\ Head(t) = "mark" => t \in ToMark \cup FirstMark
         /\ Head(t) = "gather" => t \in ToGather
         /\ Head(t) = "plan" => t \in ToPlan
         /\ Head(t) = "ensure" => t \in ToEnsure
         /\ Head(t) = "file" => t \in FirstFile
         /\ Head(t) = "row" => t \in FirstRow
         /\ Head(t) # "next"
BY TodoTails, FirstTails DEF Ahead, Placed, Past, Unnamed

-----------------------------------------------------------------------------
(* A step of a call.                                                         *)

LEMMA AtStep ==
  ASSUME Types, NEW s \in Sessions, NEW name, Step(s, name), name # "next"
  PROVE  /\ C(s) \in Made /\ C(s) \in CaseIds /\ job[s].todo \in Ahead \cup Past
         /\ Head(job[s].todo) = name /\ DOMAIN job[s] = DOMAIN NoJob /\ job[s].rest \in Seq(Made)
         /\ job[s] # NoJob /\ s \in trip.sessions
<1>1. JobOK(job[s], Made) /\ (job[s] # NoJob => s \in trip.sessions)
  BY DEF Types, Calls
<1>2. NoJob.todo = <<>>
  BY DEF NoJob
<1>3. Head(<<"next">>) = "next"
  OBVIOUS
<1> QED BY <1>1, <1>2, <1>3 DEF JobOK, Step, C, Made

LEMMA IdleIs ==
  /\ DOMAIN NoJob = {"case", "todo", "cur", "tgt", "path", "force", "moved", "rest"}
  /\ NoJob.case = 0 /\ NoJob.todo = <<>> /\ NoJob.cur = None /\ NoJob.tgt = None
  /\ NoJob.rest = <<>> /\ NoJob.path = "" /\ NoJob.force = FALSE
BY DEF NoJob

(* Where a call goes after a step: on, to the next case of its batch, or      *)
(* nowhere.                                                                  *)
LEMMA ThenIs ==
  ASSUME NEW j, NEW made, DOMAIN j = DOMAIN NoJob, j.rest \in Seq(made)
  PROVE  /\ j.todo # <<>> => Then(j) = j
         /\ j.todo = <<>> => /\ Then(j).case = 0 /\ Then(j).cur = None /\ Then(j).tgt = None
                             /\ Then(j).todo \in {<<>>, <<"next">>}
                             /\ JobOK(Then(j), made)
<1>1. CASE j.todo # <<>>
  BY <1>1 DEF Then
<1>2. CASE j.todo = <<>> /\ j.rest = <<>>
  <2>1. Then(j) = NoJob
    BY <1>2 DEF Then
  <2>2. <<>> \in Seq(made)
    OBVIOUS
  <2> QED BY <1>2, <2>1, <2>2, IdleIs, PhasesApart DEF JobOK, Placed, Ahead
<1>3. CASE j.todo = <<>> /\ j.rest # <<>>
  <2> DEFINE k == Then(j)
  <2>1. k = [NoJob EXCEPT !.rest = j.rest, !.todo = <<"next">>]
    BY <1>3 DEF Then
  <2>2. /\ DOMAIN k = DOMAIN NoJob /\ k.rest = j.rest /\ k.todo = <<"next">>
        /\ k.case = 0 /\ k.cur = None /\ k.tgt = None
    BY <2>1, IdleIs
  <2> HIDE DEF k
  <2>3. JobOK(k, made)
    BY <1>3, <2>2, IdleIs, PhasesApart DEF JobOK, Placed, Ahead
  <2> QED BY <1>3, <2>2, <2>3, Zenon DEF k
<1> QED BY <1>1, <1>2, <1>3, Zenon
-----------------------------------------------------------------------------
(* Lists put together.                                                       *)
LEMMA OneAndOne ==
  ASSUME NEW a, NEW b
  PROVE  <<a>> \o <<b>> = <<a, b>>
<1> DEFINE q == <<a>> \o <<b>>
           r == <<a, b>>
<1>1. q \in Seq({a, b}) /\ r \in Seq({a, b}) /\ Len(q) = 2 /\ Len(r) = 2
  OBVIOUS
<1>2. q[1] = r[1] /\ q[2] = r[2]
  OBVIOUS
<1> HIDE DEF q, r
<1>3. \A i \in 1 .. 2 : q[i] = r[i]
  BY <1>2
<1>4. q = r
  BY <1>1, <1>3, SeqEqual
<1> QED BY <1>4 DEF q, r

LEMMA OneAndThree ==
  ASSUME NEW a, NEW b, NEW c, NEW d
  PROVE  <<a>> \o <<b, c, d>> = <<a, b, c, d>>
<1> DEFINE q == <<a>> \o <<b, c, d>>
           r == <<a, b, c, d>>
<1>1. q \in Seq({a, b, c, d}) /\ r \in Seq({a, b, c, d}) /\ Len(q) = 4 /\ Len(r) = 4
  OBVIOUS
<1>2. q[1] = r[1] /\ q[2] = r[2] /\ q[3] = r[3] /\ q[4] = r[4]
  OBVIOUS
<1> HIDE DEF q, r
<1>3. \A i \in 1 .. 4 : q[i] = r[i]
  BY <1>2
<1>4. q = r
  BY <1>1, <1>3, SeqEqual
<1> QED BY <1>4 DEF q, r

LEMMA OneAndFour ==
  ASSUME NEW a, NEW b, NEW c, NEW d, NEW e
  PROVE  <<a>> \o <<b, c, d, e>> = <<a, b, c, d, e>>
<1> DEFINE q == <<a>> \o <<b, c, d, e>>
           r == <<a, b, c, d, e>>
<1>1. q \in Seq({a, b, c, d, e}) /\ r \in Seq({a, b, c, d, e}) /\ Len(q) = 5 /\ Len(r) = 5
  OBVIOUS
<1>2. q[1] = r[1] /\ q[2] = r[2] /\ q[3] = r[3] /\ q[4] = r[4] /\ q[5] = r[5]
  OBVIOUS
<1> HIDE DEF q, r
<1>3. \A i \in 1 .. 5 : q[i] = r[i]
  BY <1>2
<1>4. q = r
  BY <1>1, <1>3, SeqEqual
<1> QED BY <1>4 DEF q, r

LEMMA FourAndOne ==
  ASSUME NEW a, NEW b, NEW c, NEW d, NEW e
  PROVE  <<a, b, c, d>> \o <<e>> = <<a, b, c, d, e>>
<1> DEFINE q == <<a, b, c, d>> \o <<e>>
           r == <<a, b, c, d, e>>
<1>1. q \in Seq({a, b, c, d, e}) /\ r \in Seq({a, b, c, d, e}) /\ Len(q) = 5 /\ Len(r) = 5
  OBVIOUS
<1>2. q[1] = r[1] /\ q[2] = r[2] /\ q[3] = r[3] /\ q[4] = r[4] /\ q[5] = r[5]
  OBVIOUS
<1> HIDE DEF q, r
<1>3. \A i \in 1 .. 5 : q[i] = r[i]
  BY <1>2
<1>4. q = r
  BY <1>1, <1>3, SeqEqual
<1> QED BY <1>4 DEF q, r

LEMMA FiveAndOne ==
  ASSUME NEW a, NEW b, NEW c, NEW d, NEW e, NEW f
  PROVE  <<a, b, c, d, e>> \o <<f>> = <<a, b, c, d, e, f>>
<1> DEFINE q == <<a, b, c, d, e>> \o <<f>>
           r == <<a, b, c, d, e, f>>
<1>1. q \in Seq({a, b, c, d, e, f}) /\ r \in Seq({a, b, c, d, e, f}) /\ Len(q) = 6 /\ Len(r) = 6
  OBVIOUS
<1>2. q[1] = r[1] /\ q[2] = r[2] /\ q[3] = r[3] /\ q[4] = r[4] /\ q[5] = r[5] /\ q[6] = r[6]
  OBVIOUS
<1> HIDE DEF q, r
<1>3. \A i \in 1 .. 6 : q[i] = r[i]
  BY <1>2
<1>4. q = r
  BY <1>1, <1>3, SeqEqual
<1> QED BY <1>4 DEF q, r

(* What a plan, the first file and a moved folder have to do.                 *)
LEMMA TodoHeads ==
  /\ <<"ensure">> \o <<"plan">> \in ToEnsure /\ <<>> \o <<"plan">> \in ToPlan
  /\ <<"plan">> \o <<"gather">> \in ToPlan
  /\ \A t \in ToPlan : <<"move", "path", "book", "mark">> \o Tail(t) \in ToMove
  /\ \A t \in ToEnsure : <<"book", "mark", "path", "file", "row">> \o Tail(t) \in FirstBook
  /\ \A t \in ToMove : <<"rows">> \o Tail(t) \in ToRows
<1>1. <<"ensure">> \o <<"plan">> \in ToEnsure /\ <<"plan">> \o <<"gather">> \in ToPlan
  BY OneAndOne, Zenon DEF ToEnsure, ToPlan
<1>2. <<>> \o <<"plan">> = <<"plan">>
  OBVIOUS
<1>3. <<>> \o <<"plan">> \in ToPlan
  BY <1>2, Zenon DEF ToPlan
<1>4. <<"move", "path", "book", "mark">> \o <<>> = <<"move", "path", "book", "mark">>
  OBVIOUS
<1>5. <<"move", "path", "book", "mark">> \o <<"gather">> = <<"move", "path", "book", "mark", "gather">>
  BY FourAndOne
<1>6. ASSUME NEW t \in ToPlan PROVE <<"move", "path", "book", "mark">> \o Tail(t) \in ToMove
  <2>1. Tail(t) \in {<<>>, <<"gather">>}
    BY TodoTails
  <2> QED BY <1>4, <1>5, <2>1, Zenon DEF ToMove
<1>7. <<"book", "mark", "path", "file", "row">> \o <<"plan">> = <<"book", "mark", "path", "file", "row", "plan">>
  BY FiveAndOne
<1>8. \A t \in ToEnsure : <<"book", "mark", "path", "file", "row">> \o Tail(t) \in FirstBook
  BY <1>7, Lists, Zenon DEF ToEnsure, FirstBook
<1>9. <<"rows">> \o <<"path", "book", "mark">> = <<"rows", "path", "book", "mark">>
  BY OneAndThree
<1>10. <<"rows">> \o <<"path", "book", "mark", "gather">> = <<"rows", "path", "book", "mark", "gather">>
  BY OneAndFour
<1>11. \A t \in ToMove : <<"rows">> \o Tail(t) \in ToRows
  BY <1>9, <1>10, Lists, Zenon DEF ToMove, ToRows
<1> QED BY <1>1, <1>3, <1>6, <1>8, <1>11

LEMMA CallOKMore ==
  ASSUME NEW j, NEW made, NEW more, made \subseteq more, JobOK(j, made)
  PROVE  JobOK(j, more)
<1>1. j.rest \in Seq(more)
  <2>1. j.rest \in Seq(made)
    BY DEF JobOK
  <2> QED BY <2>1, SeqMonotonic
<1> QED BY <1>1 DEF JobOK

LEMMA CallsStep ==
  ASSUME Types, NEW s \in Sessions, NEW k, job' = [job EXCEPT ![s] = k], JobOK(k, Made'),
         k # NoJob => s \in trip.sessions, trip' = trip, Made \subseteq Made'
  PROVE  /\ Calls' /\ DOMAIN job' = Sessions /\ job'[s] = k
         /\ \A z \in Sessions \ {s} : job'[z] = job[z]
<1>1. DOMAIN job' = Sessions /\ job'[s] = k /\ \A z \in Sessions \ {s} : job'[z] = job[z]
  BY DEF Types
<1>2. ASSUME NEW z \in Sessions
      PROVE  JobOK(job'[z], Made') /\ (job'[z] # NoJob => z \in trip'.sessions)
  <2>1. CASE z = s
    BY <1>1, <2>1
  <2>2. CASE z # s
    <3>1. JobOK(job[z], Made) /\ (job[z] # NoJob => z \in trip.sessions)
      BY DEF Types, Calls
    <3> QED BY <1>1, <2>2, <3>1, CallOKMore
  <2> QED BY <2>1, <2>2
<1> QED BY <1>1, <1>2 DEF Calls

(* A call between two jobs.                                                  *)
Off(j) == j.case = 0 /\ j.cur = None /\ j.tgt = None /\ j.todo \in {<<>>, <<"next">>}

LEMMA OffIs == ASSUME NEW j, Off(j) PROVE j.todo \notin Past \cup Ahead
BY PhasesApart DEF Off

(* What a step leaves to do, wherever it leaves the call.                    *)
LEMMA GoesOn ==
  ASSUME Types, NEW s \in Sessions, job[s] # NoJob, NEW j, Goes(s, j), DOMAIN j = DOMAIN NoJob,
         j.rest \in Seq(Made), trip' = trip, Made \subseteq Made',
         \/ j.todo = <<>>
         \/ /\ j.todo \in Ahead \cup Past /\ j.case \in Made
            /\ j.todo \in Past => IsTarget(j.tgt)
            /\ j.todo \in Placed => j.tgt # None
  PROVE  /\ Calls' /\ DOMAIN job' = Sessions
         /\ j.todo # <<>> => job'[s] = j
         /\ j.todo = <<>> => Off(job'[s])
         /\ \A z \in Sessions \ {s} : job'[z] = job[z]
<1>1. job' = [job EXCEPT ![s] = Then(j)]
  BY DEF Goes
<1>2. JobOK(Then(j), Made)
  <2>1. CASE j.todo = <<>>
    BY <2>1, ThenIs
  <2>2. CASE j.todo # <<>>
    <3>1. Then(j) = j
      BY <2>2, ThenIs
    <3> QED BY <2>2, <3>1 DEF JobOK
  <2> QED BY <2>1, <2>2
<1>3. JobOK(Then(j), Made')
  BY <1>2, CallOKMore
<1>4. s \in trip.sessions
  BY DEF Types, Calls
<1>5. /\ Calls' /\ DOMAIN job' = Sessions /\ job'[s] = Then(j)
      /\ \A z \in Sessions \ {s} : job'[z] = job[z]
  BY <1>1, <1>3, <1>4, CallsStep
<1>6. j.todo = <<>> => Off(Then(j))
  BY ThenIs, Zenon DEF Off
<1>7. j.todo # <<>> => Then(j) = j
  BY ThenIs, Zenon
<1> QED BY <1>5, <1>6, <1>7

(* The same for a step that only crosses itself off.                         *)
LEMMA PassesOn ==
  ASSUME Types, NEW s \in Sessions, NEW name, Step(s, name), name \notin {"next", "plan", "ensure"}, Passes(s),
         trip' = trip, Made \subseteq Made'
  PROVE  /\ Calls' /\ DOMAIN job' = Sessions
         /\ Tail(job[s].todo) # <<>> => /\ job'[s] = [job[s] EXCEPT !.todo = Tail(@)]
                                        /\ job'[s].case = job[s].case /\ job'[s].cur = job[s].cur
                                        /\ job'[s].tgt = job[s].tgt
                                        /\ job'[s].path = job[s].path
                                        /\ job'[s].todo = Tail(job[s].todo)
         /\ Tail(job[s].todo) = <<>> => Off(job'[s])
         /\ \A z \in Sessions \ {s} : job'[z] = job[z]
<1> DEFINE j == [job[s] EXCEPT !.todo = Tail(@)]
<1>1. /\ C(s) \in Made /\ job[s].todo \in Ahead \cup Past /\ Head(job[s].todo) = name
      /\ DOMAIN job[s] = DOMAIN NoJob /\ job[s].rest \in Seq(Made) /\ job[s] # NoJob
  BY AtStep
<1>2. /\ DOMAIN j = DOMAIN NoJob /\ j.rest = job[s].rest /\ j.todo = Tail(job[s].todo)
      /\ j.case = job[s].case /\ j.tgt = job[s].tgt /\ j.cur = job[s].cur /\ j.path = job[s].path
  BY <1>1, IdleIs
<1>3. Goes(s, j)
  BY DEF Passes
<1>4. JobOK(job[s], Made)
  BY DEF Types, Calls
<1>5. /\ job[s].todo \in Past => Tail(job[s].todo) \in Past \cup {<<>>}
      /\ job[s].todo \in Placed => Tail(job[s].todo) \in Placed \cup ToPlan
      /\ job[s].todo \in ToPlan => Tail(job[s].todo) \in {<<>>, <<"gather">>}
      /\ job[s].todo \in ToEnsure => Tail(job[s].todo) \in ToPlan
  BY TodoTails, FirstTails, Zenon DEF Past, Unnamed, Placed
<1> HIDE DEF j
<1>6. \/ j.todo = <<>>
      \/ /\ j.todo \in Ahead \cup Past /\ j.case \in Made
         /\ j.todo \in Past => IsTarget(j.tgt)
         /\ j.todo \in Placed => j.tgt # None
  <2>1. job[s].todo \notin ToPlan \cup ToEnsure
    BY <1>1, TodoTails, FirstTails
  <2>2. CASE job[s].todo \in Past
    BY <1>1, <1>2, <1>4, <1>5, <2>2, PhasesApart DEF JobOK, C, Ahead
  <2>3. CASE job[s].todo \in Placed
    BY <1>1, <1>2, <1>4, <1>5, <2>3, PhasesApart DEF JobOK, C, Ahead
  <2> QED BY <1>1, <2>1, <2>2, <2>3 DEF Ahead
<1>7. /\ Calls' /\ DOMAIN job' = Sessions /\ (j.todo # <<>> => job'[s] = j)
      /\ j.todo = <<>> => Off(job'[s])
      /\ \A z \in Sessions \ {s} : job'[z] = job[z]
  BY <1>1, <1>2, <1>3, <1>6, GoesOn
<1> QED BY <1>2, <1>7 DEF j

-----------------------------------------------------------------------------
(* Places.                                                                   *)

(* A folder's number is found below the number of folders: the place a sync   *)
(* aims at is the folder it has found, or one where nothing is.              *)
LEMMA TargetIs ==
  ASSUME Types, NEW c \in Made, NEW cur
  PROVE  LET t == FreePath(c, cur)
         IN  /\ IsTarget(t) /\ t.base = Base(c) /\ t.name = Name(c) /\ t.root = Root
             /\ t = cur \/ t \notin DOMAIN disk
             /\ t # None
<1> DEFINE at(n) == Place(Root, Base(c), Name(c), n)
           good(n) == at(n) = cur \/ at(n) \notin Reached
           k == Cardinality(DOMAIN disk)
           first == CHOOSE n \in 1 .. k + 1 : good(n) /\ \A m \in 1 .. n - 1 : ~good(m)
<1>1. k \in Nat /\ IsFiniteSet(DOMAIN disk)
  BY FS_CardinalityType DEF Types
<1>2. \E n \in 1 .. k + 1 : good(n)
  <2> SUFFICES ASSUME \A n \in 1 .. k + 1 : at(n) \in Reached
               PROVE  FALSE
    OBVIOUS
  <2> DEFINE f == [n \in 1 .. k + 1 |-> at(n)]
  <2>1. f \in [1 .. k + 1 -> DOMAIN disk] /\ \A n \in 1 .. k + 1 : f[n].n = n
    BY DEF Reached, Place
  <2>2. IsFiniteSet(1 .. k + 1) /\ Cardinality(1 .. k + 1) = k + 1
    BY <1>1, FS_Interval
  <2> HIDE DEF f
  <2>3. \E x, y \in 1 .. k + 1 : x # y /\ f[x] = f[y]
    BY <1>1, <2>1, <2>2, FS_PigeonHole
  <2> QED BY <2>1, <2>3
<1>3. \E n \in 1 .. k + 1 : good(n) /\ \A m \in 1 .. n - 1 : ~good(m)
  <2> DEFINE G == {n \in 1 .. k + 1 : good(n)}
  <2>1. G \subseteq Nat /\ G # {}
    BY <1>2
  <2>2. PICK n \in G : \A m \in G : n <= m
    BY <2>1, LeastNat
  <2>3. \A m \in 1 .. n - 1 : m \in 1 .. k + 1 /\ ~(n <= m)
    BY <1>1, <2>2
  <2> HIDE DEF good
  <2> QED BY <2>2, <2>3
<1> HIDE DEF good
<1>4. first \in 1 .. k + 1 /\ good(first)
  BY <1>3
<1>5. FreePath(c, cur) = at(first)
  BY Zenon DEF FreePath, good
<1> HIDE DEF first
<1>6. at(first).base = Base(c) /\ at(first).name = Name(c) /\ at(first).n = first
      /\ at(first).root = Root
  BY DEF Place
<1>7. Base(c) \in Bases
  BY DEF Types, FileOK, Base
<1>8. first \in Nat \ {0}
  BY <1>1, <1>4
<1>9. at(first) # None
  BY <1>6, <1>8 DEF None, Place
<1>10. at(first) = cur \/ at(first) \notin DOMAIN disk
  <2>1. Root = "usb" => usb
    BY DEF Root, Types
  <2> QED BY <1>4, <1>6, <2>1 DEF good, Reached
<1>11. IsTarget(at(first))
  BY <1>6, <1>7, <1>8 DEF IsTarget
<1> QED BY <1>5, <1>6, <1>9, <1>10, <1>11

(* What a sync finds is there, or nothing.                                   *)
LEMMA FoundIs ==
  ASSUME Types, NEW c \in Made, NEW cur \in Found(c)
  PROVE  cur # None => /\ cur \in DOMAIN disk
                       /\ cur = case[c].path.at \/ disk[cur].mark = c
<1>1. CASE Resolved(case[c].path) # None
  BY <1>1 DEF Found, Resolved, Reached
<1>2. CASE Resolved(case[c].path) = None
  BY <1>2 DEF Found, Marked, Reached
<1> QED BY <1>1, <1>2

LEMMA InsideIs ==
  ASSUME NEW p, IsTarget(p)
  PROVE  /\ Inside(p).n = 0 - p.n /\ Inside(p).base = p.base /\ Inside(p).root = p.root
         /\ \A q : IsTarget(q) => Inside(p) # q
         /\ Inside(p) # None
<1> DEFINE r == p.root
           b == p.base
           m == p.name
           n == p.n
<1>1. p = Place(r, b, m, n) /\ n \in Nat \ {0}
  BY DEF IsTarget
<1> HIDE DEF r, b, m, n
<1>2. Inside(p).n = 0 - n /\ Inside(p).base = b /\ Inside(p).root = r
  BY <1>1 DEF Inside, Place
<1>3. Inside(p).n \notin Nat
  BY <1>1, <1>2
<1>4. None.n = 0
  BY DEF None, Place
<1> QED BY <1>2, <1>3, <1>4 DEF IsTarget, r, b, n

(* Folders.                                                                  *)
LEMMA PutIs ==
  ASSUME NEW d, NEW p, NEW f
  PROVE  /\ DOMAIN PutInto(d, p, f) = DOMAIN d \cup {p} /\ PutInto(d, p, f)[p] = f
         /\ \A q \in DOMAIN d \ {p} : PutInto(d, p, f)[q] = d[q]
BY DEF PutInto

LEMMA WithoutIs ==
  ASSUME NEW d, NEW p
  PROVE  /\ DOMAIN Removed(d, p) = DOMAIN d \ {p}
         /\ \A q \in DOMAIN d \ {p} : Removed(d, p)[q] = d[q]
BY DEF Removed, Restrict

LEMMA DirIs ==
  ASSUME Types, NEW p
  PROVE  /\ FolderOK(Dir(p), Made) /\ DOMAIN Dir(p) = FolderFields
         /\ p \in DOMAIN disk => Dir(p) = disk[p]
         /\ p \notin DOMAIN disk => Dir(p).book = NoBook /\ Dir(p).mark = 0
         /\ Dir(p).book # NoBook => p \in DOMAIN disk
<1>1. /\ DOMAIN EmptyFolder = FolderFields /\ EmptyFolder.book = NoBook /\ NoBook.at = 0
      /\ EmptyFolder.mark = 0 /\ NoBook.of = 0
  BY DEF EmptyFolder, NoBook, FolderFields
<1>2. NoBook.at \in Nat
  BY <1>1
<1>3. CASE p \in DOMAIN disk
  BY <1>1, <1>3 DEF Dir, FolderOK, Types
<1>4. CASE p \notin DOMAIN disk
  <2>1. Dir(p) = EmptyFolder
    BY <1>4 DEF Dir
  <2> QED BY <1>1, <1>2, <1>4, <2>1 DEF FolderOK
<1> QED BY <1>3, <1>4

-----------------------------------------------------------------------------
(* The types are kept.                                                       *)

LEMMA StayTyped ==
  ASSUME Types, UNCHANGED <<trip, case, disk, clock>>, root' \in {"", "disk"},
         Calls', DOMAIN job' = Sessions
  PROVE  Types'
<1>1. Made' = Made
  BY DEF Made
<1>2. \A c \in Made : FileOK(case[c], clock)' /\ UpToDate(c)'
  BY DEF Types, FileOK, UpToDate
<1>3. \A p \in DOMAIN disk : FolderOK(disk[p], Made)'
  BY <1>1 DEF Types, FolderOK
<1> QED BY <1>1, <1>2, <1>3 DEF Types

(* Folders change: every workbook is one that was there, or is written now.   *)
Written(c) == [data |-> case[c].data, at |-> clock, of |-> c]
BookFrom(b) ==
  \/ b = NoBook
  \/ \E q \in DOMAIN disk : b = disk[q].book
  \/ \E c \in Made : b = Written(c)
LEMMA DiskTyped ==
  ASSUME Types, UNCHANGED <<trip, case, clock, root>>, Calls', DOMAIN job' = Sessions,
         IsFiniteSet(DOMAIN disk'), None \notin DOMAIN disk',
         \A p \in DOMAIN disk' : DOMAIN disk'[p] = FolderFields /\ BookFrom(disk'[p].book)
  PROVE  Types'
<1>1. Made' = Made
  BY DEF Made
<1>2. NoBook.at = 0 /\ NoBook.of = 0
  BY DEF NoBook
<1>3. \A c \in CaseIds : Written(c).at = clock /\ Written(c).of = c /\ Written(c).data = case[c].data
  BY DEF Written
<1>4. Made \subseteq CaseIds
  BY DEF Made
<1>5. ASSUME NEW p \in DOMAIN disk'
      PROVE  FolderOK(disk'[p], Made')
  <2>1. BookFrom(disk'[p].book)
    BY <1>5
  <2>2. DOMAIN disk'[p] = FolderFields /\ clock \in Nat
    BY <1>5 DEF Types
  <2>3. CASE disk'[p].book = NoBook
    BY <1>2, <2>2, <2>3 DEF FolderOK
  <2>4. CASE \E q \in DOMAIN disk : disk'[p].book = disk[q].book
    BY <1>1, <2>2, <2>4 DEF FolderOK, Types
  <2>5. CASE \E c \in Made : disk'[p].book = Written(c)
    BY <1>1, <1>3, <1>4, <2>2, <2>5 DEF FolderOK
  <2> QED BY <2>1, <2>3, <2>4, <2>5 DEF BookFrom
<1>6. ASSUME NEW c \in Made, NEW p \in DOMAIN disk', disk'[p].book.of = c
      PROVE  /\ disk'[p].book.at <= clock
             /\ disk'[p].book.at > case[c].stamp => disk'[p].book.data = case[c].data
  <2>1. UpToDate(c) /\ c # 0
    BY FoldersOK, <1>4 DEF Types
  <2>2. CASE disk'[p].book = NoBook
    BY <1>2, <1>6, <2>1, <2>2
  <2>3. ASSUME NEW q \in DOMAIN disk, disk'[p].book = disk[q].book
        PROVE  /\ disk'[p].book.at <= clock
               /\ disk'[p].book.at > case[c].stamp => disk'[p].book.data = case[c].data
    BY <1>6, <2>1, <2>3 DEF UpToDate
  <2>4. ASSUME NEW d \in Made, disk'[p].book = Written(d)
        PROVE  /\ disk'[p].book.at <= clock
               /\ disk'[p].book.at > case[c].stamp => disk'[p].book.data = case[c].data
    <3>1. c = d /\ clock \in Nat
      BY <1>3, <1>4, <1>6, <2>4 DEF Types
    <3> QED BY <1>3, <1>4, <2>4, <3>1
  <2> QED BY <1>6, <2>2, <2>3, <2>4 DEF BookFrom
<1>7. \A c \in Made : FileOK(case[c], clock)' /\ UpToDate(c)'
  BY <1>6 DEF Types, FileOK, UpToDate
<1> QED BY <1>1, <1>5, <1>7 DEF Types

(* The row of a case is written, with the time that it is.                   *)
LEMMA RowTyped ==
  ASSUME Types, UNCHANGED <<trip, disk, clock, root>>, Calls', DOMAIN job' = Sessions,
         NEW c \in CaseIds, DOMAIN case' = CaseIds, FileOK(case'[c], clock), case'[c].stamp = clock,
         \A d \in CaseIds \ {c} : case'[d] = case[d]
  PROVE  Types' /\ Made' = Made \cup {c}
<1>1. case'[c] # Absent
  <2>1. DOMAIN Absent = {"data"}
    BY DEF Absent
  <2>2. DOMAIN case'[c] = FileFields
    BY DEF FileOK
  <2> QED BY <2>1, <2>2 DEF FileFields
<1>2. Made' = Made \cup {c}
  BY <1>1 DEF Made
<1>3. ASSUME NEW d \in Made' PROVE FileOK(case'[d], clock') /\ UpToDate(d)'
  <2>1. CASE d # c
    <3>1. d \in Made /\ case'[d] = case[d]
      BY <1>2, <1>3, <2>1 DEF Made
    <3> QED BY <3>1 DEF Types, FileOK, UpToDate
  <2>2. CASE d = c
    <3>1. \A p \in DOMAIN disk : disk[p].book.of = c => disk[p].book.at <= clock
      <4>1. CASE c \in Made
        BY <4>1 DEF Types, UpToDate
      <4>2. CASE c \notin Made
        <5>1. NoBook.of = 0 /\ c # 0
          BY FoldersOK DEF NoBook
        <5> QED BY <4>2, <5>1 DEF Types, FolderOK
      <4> QED BY <4>1, <4>2
    <3>2. \A p \in DOMAIN disk : disk[p].book.at \in Nat
      BY DEF Types, FolderOK
    <3>3. clock' = clock /\ clock \in Nat /\ disk' = disk
      BY DEF Types
    <3>4. FileOK(case'[d], clock')
      BY <2>2, <3>3
    <3>5. UpToDate(d)'
      BY <2>2, <3>1, <3>2, <3>3 DEF UpToDate
    <3> QED BY <3>4, <3>5
  <2> QED BY <2>1, <2>2
<1>4. \A p \in DOMAIN disk : FolderOK(disk[p], Made)'
  BY <1>2 DEF Types, FolderOK
<1> QED BY <1>2, <1>3, <1>4 DEF Types

LEMMA TickTyped == ASSUME Types, Tick PROVE Types'
<1>1. Made' = Made /\ clock' = clock + 1 /\ clock \in Nat
      /\ UNCHANGED <<trip, case, disk, root, job>>
  BY DEF Tick, Made, Types, caseDb
<1>2. (\A c \in Made : FileOK(case[c], clock) /\ UpToDate(c))'
  <2> SUFFICES ASSUME NEW c \in Made PROVE FileOK(case'[c], clock') /\ UpToDate(c)'
    BY <1>1
  <2>1. FileOK(case[c], clock) /\ UpToDate(c) /\ \A p \in DOMAIN disk : disk[p].book.at \in Nat
    BY DEF Types, FolderOK
  <2> QED BY <1>1, <2>1 DEF FileOK, UpToDate
<1>3. (\A p \in DOMAIN disk : FolderOK(disk[p], Made))'
  BY <1>1 DEF Types
<1>4. Calls'
  BY <1>1 DEF Types, Calls
<1>5. /\ trip' \in Trips /\ root' \in {"", "disk"}
      /\ DOMAIN case' = CaseIds /\ DOMAIN job' = Sessions
      /\ IsFiniteSet(DOMAIN disk') /\ None \notin DOMAIN disk'
  BY <1>1, Zenon DEF Types
<1>6. clock' \in Nat
  BY <1>1
<1> QED BY <1>2, <1>3, <1>4, <1>5, <1>6, Zenon DEF Types

LEMMA SurroundingsTyped ==
  ASSUME Types, Plug \/ Look \/ (\E r \in {"", "disk"} : SetRoot(r)) \/ UNCHANGED fileVars
  PROVE  Types' /\ UNCHANGED <<caseDb, disk, job, astray>> /\ Made' = Made
<1>1. UNCHANGED <<trip, case, rows, disk, clock, job, astray>> /\ root' \in {"", "disk"}
  BY DEF Plug, Look, SetRoot, fileVars, caseDb, Types
<1>2. Made' = Made /\ UNCHANGED caseDb
  BY <1>1 DEF Made, caseDb
<1>3. Calls' /\ DOMAIN job' = Sessions
  BY <1>1, <1>2 DEF Types, Calls
<1> QED BY <1>1, <1>2, <1>3, StayTyped

(* The user's calls.                                                         *)
LEMMA CreateTyped ==
  ASSUME Types, NEW s \in Sessions, NEW c \in CaseIds, NEW b \in Bases, NEW l,
         NEW file \in BOOLEAN, Create(s, c, b, l, file)
  PROVE  /\ Types' /\ Made' = Made \cup {c} /\ c \notin Made
         /\ \A d \in Made : case'[d] = case[d]
         /\ case'[c].path = NoPath
         /\ job'[s].case = c /\ job'[s].cur = None /\ job'[s].tgt = None
         /\ job'[s].todo \in ToPlan \cup ToEnsure
         /\ \A z \in Sessions \ {s} : job'[z] = job[z]
         /\ UNCHANGED <<trip, rows, disk, usb, seen, root, clock, astray>>
         /\ job[s] = NoJob
<1> DEFINE r == [base |-> b, label |-> l, cancelled |-> FALSE, data |-> 1, stamp |-> clock,
                 path |-> NoPath]
           t == (IF file THEN <<"ensure">> ELSE <<>>) \o ToSync
           k == [NoJob EXCEPT !.case = c, !.todo = t]
<1>1. /\ case' = [case EXCEPT ![c] = r] /\ job' = [job EXCEPT ![s] = k]
      /\ c \in trip.cases \ Made /\ s \in trip.sessions /\ job[s] = NoJob
      /\ UNCHANGED <<trip, rows, disk, usb, seen, root, clock, gathered, astray>>
  BY DEF Create, Free
<1>2. /\ DOMAIN case' = CaseIds /\ case'[c] = r /\ \A d \in CaseIds \ {c} : case'[d] = case[d]
  BY <1>1 DEF Types
<1>3. DOMAIN r = FileFields /\ r.base = b /\ r.stamp = clock /\ r.path = NoPath
  BY DEF FileFields
<1>4. clock \in Nat
  BY DEF Types
<1>5. FileOK(case'[c], clock)
  BY <1>2, <1>3, <1>4 DEF FileOK
<1>6. Made' = Made \cup {c}
  <2>1. DOMAIN Absent = {"data"}
    BY DEF Absent
  <2>2. case'[c] # Absent
    BY <1>2, <1>3, <2>1 DEF FileFields
  <2> QED BY <1>2, <2>2 DEF Made
<1>8. t \in ToPlan \cup ToEnsure
  BY TodoHeads DEF ToSync
<1>9. /\ DOMAIN k = DOMAIN NoJob /\ k.case = c /\ k.todo = t /\ k.cur = None /\ k.tgt = None
      /\ k.rest = <<>>
  BY IdleIs
<1> HIDE DEF r, t, k
<1>10. JobOK(k, Made') /\ k # NoJob
  <2>1. <<>> \in Seq(Made')
    OBVIOUS
  <2>2. t \notin Past \cup Placed
    BY <1>8, TodoTails, FirstTails, PhasesApart DEF Ahead, Placed
  <2>3. c # 0
    BY FoldersOK
  <2> QED BY <1>6, <1>8, <1>9, <2>1, <2>2, <2>3, IdleIs DEF JobOK, Ahead
<1>11. /\ Calls' /\ DOMAIN job' = Sessions /\ job'[s] = k
       /\ \A z \in Sessions \ {s} : job'[z] = job[z]
  BY <1>1, <1>6, <1>10, CallsStep
<1>12. Types'
  BY <1>1, <1>2, <1>3, <1>5, <1>11, RowTyped
<1> QED BY <1>1, <1>2, <1>3, <1>6, <1>8, <1>9, <1>11, <1>12 DEF Made

(* A save and a cancellation write a row that is there.                       *)
Amends(s, c) ==
  /\ job[s] = NoJob /\ c \in Made /\ s \in trip.sessions
  /\ \E r : /\ case' = [case EXCEPT ![c] = r] /\ DOMAIN r = FileFields
            /\ r.base \in Bases /\ r.stamp = clock /\ r.path = case[c].path
  /\ job' = [job EXCEPT ![s] = [NoJob EXCEPT !.case = c, !.todo = ToSync]]
  /\ UNCHANGED <<trip, rows, disk, usb, seen, root, clock, astray>>

LEMMA SaveAmends ==
  ASSUME Types, NEW s \in Sessions, NEW c \in CaseIds,
         (\E b \in Bases, l \in trip.labels : Save(s, c, b, l)) \/ Cancel(s, c)
  PROVE  Amends(s, c)
<1>1. CASE \E b \in Bases, l \in trip.labels : Save(s, c, b, l)
  <2>1. PICK b \in Bases, l \in trip.labels : Save(s, c, b, l)
    BY <1>1
  <2> DEFINE r == [case[c] EXCEPT !.base = b, !.label = l, !.data = @ + 1, !.stamp = clock]
  <2>2. DOMAIN case[c] = FileFields
    BY <2>1 DEF Save, Types, FileOK
  <2>3. /\ DOMAIN r = FileFields /\ r.base \in Bases /\ r.stamp = clock /\ r.path = case[c].path
    BY <2>2 DEF FileFields
  <2>4. case' = [case EXCEPT ![c] = r]
    BY <2>1 DEF Save
  <2> HIDE DEF r
  <2> QED BY <2>1, <2>3, <2>4 DEF Save, Free, Amends
<1>2. CASE Cancel(s, c)
  <2> DEFINE r == [case[c] EXCEPT !.cancelled = TRUE, !.data = @ + 1, !.stamp = clock]
  <2>1. FileOK(case[c], clock)
    BY <1>2 DEF Cancel, Types
  <2>2. DOMAIN case[c] = FileFields /\ case[c].base \in Bases
    BY <2>1 DEF FileOK
  <2>3. /\ DOMAIN r = FileFields /\ r.base \in Bases /\ r.stamp = clock /\ r.path = case[c].path
    BY <2>2 DEF FileFields
  <2>4. case' = [case EXCEPT ![c] = r]
    BY <1>2 DEF Cancel
  <2> HIDE DEF r
  <2> QED BY <1>2, <2>3, <2>4 DEF Cancel, Free, Amends
<1> QED BY <1>1, <1>2

LEMMA AmendTyped ==
  ASSUME Types, NEW s \in Sessions, NEW c \in CaseIds, Amends(s, c)
  PROVE  /\ Types' /\ Made' = Made /\ c \in Made
         /\ \A d \in Made \ {c} : case'[d] = case[d]
         /\ case'[c].path = case[c].path
         /\ job'[s].case = c /\ job'[s].cur = None /\ job'[s].tgt = None
         /\ job'[s].todo \in ToPlan
         /\ \A z \in Sessions \ {s} : job'[z] = job[z]
<1>1. PICK r : /\ case' = [case EXCEPT ![c] = r] /\ DOMAIN r = FileFields
               /\ r.base \in Bases /\ r.stamp = clock /\ r.path = case[c].path
  BY DEF Amends
<1>2. /\ DOMAIN case' = CaseIds /\ case'[c] = r /\ \A d \in CaseIds \ {c} : case'[d] = case[d]
  BY <1>1 DEF Types
<1>3. clock \in Nat
  BY DEF Types
<1>4. FileOK(case'[c], clock)
  BY <1>1, <1>2, <1>3 DEF FileOK
<1>5. Made' = Made /\ c \in Made
  <2>1. DOMAIN Absent = {"data"}
    BY DEF Absent
  <2>2. case'[c] # Absent
    BY <1>1, <1>2, <2>1 DEF FileFields
  <2>3. c \in Made
    BY DEF Amends
  <2> QED BY <1>2, <2>2, <2>3 DEF Made
<1> DEFINE k == [NoJob EXCEPT !.case = c, !.todo = ToSync]
<1>6. /\ DOMAIN k = DOMAIN NoJob /\ k.case = c /\ k.todo = ToSync /\ k.cur = None /\ k.tgt = None
      /\ k.rest = <<>>
  BY IdleIs
<1>7. job' = [job EXCEPT ![s] = k]
  BY DEF Amends
<1> HIDE DEF k
<1>8. ToSync \in ToPlan
  BY DEF ToSync, ToPlan
<1>9. JobOK(k, Made')
  <2>1. <<>> \in Seq(Made')
    OBVIOUS
  <2>2. ToSync \notin Past \cup Placed
    BY <1>8, TodoTails, FirstTails, PhasesApart DEF Ahead, Placed
  <2> QED BY <1>5, <1>6, <1>8, <2>1, <2>2, IdleIs DEF JobOK, Ahead
<1>10. /\ Calls' /\ DOMAIN job' = Sessions /\ job'[s] = k
       /\ \A z \in Sessions \ {s} : job'[z] = job[z]
  BY <1>5, <1>7, <1>9, CallsStep DEF Amends
<1>11. UNCHANGED <<trip, disk, clock, root>>
  BY DEF Amends
<1>12. case'[c].stamp = clock
  BY <1>1, <1>2
<1>13. Types'
  BY <1>2, <1>4, <1>10, <1>11, <1>12, RowTyped
<1> QED BY <1>1, <1>2, <1>5, <1>6, <1>8, <1>10, <1>13 DEF Made

LEMMA BatchTyped ==
  ASSUME Types, NEW s \in Sessions, Batch(s)
  PROVE  /\ Types' /\ Off(job'[s]) /\ job[s] = NoJob
         /\ \A z \in Sessions \ {s} : job'[z] = job[z]
         /\ UNCHANGED <<trip, caseDb, disk, usb, seen, root, clock, astray>>
<1> DEFINE live == {c \in Made : ~case[c].cancelled}
<1>1. PICK order \in [1 .. Cardinality(live) -> live] :
        job' = [job EXCEPT ![s] = [NoJob EXCEPT !.rest = order, !.todo = <<"next">>]]
  BY DEF Batch
<1>2. /\ live # {} /\ s \in trip.sessions /\ job[s] = NoJob
      /\ UNCHANGED <<trip, caseDb, disk, usb, seen, root, clock, astray>>
  BY DEF Batch, Free
<1>3. IsFiniteSet(live) /\ live \subseteq Made
  <2>1. IsFiniteSet(CaseIds)
    BY FoldersOK
  <2> QED BY <2>1, FS_Subset DEF Made
<1>4. Cardinality(live) \in Nat \ {0}
  BY <1>2, <1>3, FS_CardinalityType, FS_EmptySet
<1>5. order \in Seq(Made) /\ order # <<>>
  <2> HIDE DEF live
  <2>1. order \in Seq(live) /\ Len(order) = Cardinality(live)
    BY <1>4
  <2>2. order \in Seq(Made)
    BY <1>3, <2>1, SeqMonotonic
  <2>3. Len(<<>>) = 0
    OBVIOUS
  <2> QED BY <1>4, <2>1, <2>2, <2>3
<1> DEFINE k == [NoJob EXCEPT !.rest = order, !.todo = <<"next">>]
<1>6. /\ DOMAIN k = DOMAIN NoJob /\ k.case = 0 /\ k.todo = <<"next">> /\ k.cur = None
      /\ k.tgt = None /\ k.rest = order
  BY IdleIs
<1>7. job' = [job EXCEPT ![s] = k]
  BY <1>1
<1> HIDE DEF k, live
<1>8. Made' = Made
  BY <1>2 DEF caseDb, Made
<1>9. JobOK(k, Made')
  BY <1>5, <1>6, <1>8, PhasesApart DEF JobOK, Placed, Ahead
<1>10. /\ Calls' /\ DOMAIN job' = Sessions /\ job'[s] = k
       /\ \A z \in Sessions \ {s} : job'[z] = job[z]
  BY <1>2, <1>7, <1>8, <1>9, CallsStep
<1>11. UNCHANGED <<trip, case, disk, clock>> /\ root' \in {"", "disk"}
  BY <1>2 DEF caseDb, Types
<1>12. Types'
  BY <1>10, <1>11, StayTyped
<1> QED BY <1>2, <1>6, <1>10, <1>12 DEF Off

-----------------------------------------------------------------------------
(* The steps of a call: what each does to its call and to the folders.       *)

Same(s) == /\ job'[s].case = job[s].case /\ job'[s].cur = job[s].cur
           /\ job'[s].tgt = job[s].tgt /\ job'[s].path = job[s].path
Others(s) == \A z \in Sessions \ {s} : job'[z] = job[z]

(* A step crosses itself off: the call is in its next phase, or has ended.    *)
LEMMA NextPhase ==
  ASSUME Types, NEW s \in Sessions, NEW name, Step(s, name), name \notin {"next", "plan", "ensure"},
         Passes(s), trip' = trip, Made \subseteq Made'
  PROVE  /\ Calls' /\ DOMAIN job' = Sessions /\ Others(s)
         /\ C(s) \in Made /\ C(s) \in CaseIds /\ job[s].todo \in Ahead \cup Past
         /\ Head(job[s].todo) = name /\ job[s].tgt # None
         /\ job[s].todo \in Past => IsTarget(job[s].tgt)
         /\ job[s].todo \in ToMove => Same(s) /\ job'[s].todo \in ToPath
         /\ job[s].todo \in ToRows => Same(s) /\ job'[s].todo \in ToPath
         /\ job[s].todo \in ToPath => Same(s) /\ job'[s].todo \in ToBook
         /\ job[s].todo \in ToBook => Same(s) /\ job'[s].todo \in ToMark
         /\ job[s].todo \in ToMark => \/ Same(s) /\ job'[s].todo \in ToGather
                                      \/ Off(job'[s])
         /\ job[s].todo \in ToGather => Off(job'[s])
         /\ job[s].todo \in FirstBook => Same(s) /\ job'[s].todo \in FirstMark
         /\ job[s].todo \in FirstMark => Same(s) /\ job'[s].todo \in FirstPath
         /\ job[s].todo \in FirstPath => Same(s) /\ job'[s].todo \in FirstFile
         /\ job[s].todo \in FirstFile => Same(s) /\ job'[s].todo \in FirstRow
         /\ job[s].todo \in FirstRow => Same(s) /\ job'[s].todo \in ToPlan
<1>1. /\ C(s) \in Made /\ C(s) \in CaseIds /\ job[s].todo \in Ahead \cup Past
      /\ Head(job[s].todo) = name
  BY AtStep
<1>2. /\ Calls' /\ DOMAIN job' = Sessions /\ Others(s)
      /\ Tail(job[s].todo) # <<>> => Same(s) /\ job'[s].todo = Tail(job[s].todo)
      /\ Tail(job[s].todo) = <<>> => Off(job'[s])
  BY PassesOn, Zenon DEF Same, Others
<1>3. <<>> \notin Past \cup Ahead
  BY PhasesApart
<1>4. JobOK(job[s], Made)
  BY DEF Types, Calls
<1>5. job[s].tgt # None /\ (job[s].todo \in Past => IsTarget(job[s].tgt))
  <2>1. job[s].todo \in Past \cup Placed
    BY <1>1, TodoTails, FirstTails DEF Ahead
  <2>2. \A p : IsTarget(p) => p # None
    <3>1. None.n = 0
      BY DEF None, Place
    <3> QED BY <3>1 DEF IsTarget
  <2> QED BY <1>4, <2>1, <2>2 DEF JobOK
<1>6. /\ job[s].todo \in ToMove => Same(s) /\ job'[s].todo \in ToPath
      /\ job[s].todo \in ToRows => Same(s) /\ job'[s].todo \in ToPath
      /\ job[s].todo \in ToPath => Same(s) /\ job'[s].todo \in ToBook
      /\ job[s].todo \in ToBook => Same(s) /\ job'[s].todo \in ToMark
      /\ job[s].todo \in ToMark => \/ Same(s) /\ job'[s].todo \in ToGather
                                   \/ Off(job'[s])
      /\ job[s].todo \in ToGather => Off(job'[s])
  BY <1>2, <1>3, TodoTails, Zenon DEF Past, Unnamed
<1>7. /\ job[s].todo \in FirstBook => Same(s) /\ job'[s].todo \in FirstMark
      /\ job[s].todo \in FirstMark => Same(s) /\ job'[s].todo \in FirstPath
      /\ job[s].todo \in FirstPath => Same(s) /\ job'[s].todo \in FirstFile
      /\ job[s].todo \in FirstFile => Same(s) /\ job'[s].todo \in FirstRow
      /\ job[s].todo \in FirstRow => Same(s) /\ job'[s].todo \in ToPlan
  BY <1>2, <1>3, FirstTails, Zenon DEF Ahead, Placed
<1> QED BY <1>1, <1>2, <1>5, <1>6, <1>7

(* A call has looked for its case's folder and says where it will work.       *)
Looked(s, cur, tgt) ==
  /\ cur \in Found(C(s)) /\ C(s) \in Made
  /\ job'[s].case = C(s) /\ job'[s].cur = cur /\ job'[s].tgt = tgt
  /\ job'[s].path = case[C(s)].path /\ Meets(s, C(s), cur, tgt)

LEMMA PlanTyped ==
  ASSUME Types, NEW s \in Sessions, Plan(s)
  PROVE  /\ Types' /\ Others(s) /\ job[s].todo \in ToPlan /\ job'[s].todo \in ToMove
         /\ UNCHANGED <<trip, case, rows, disk, usb, seen, root, clock>>
         /\ \E cur : Looked(s, cur, FreePath(C(s), cur))
<1>1. /\ C(s) \in Made /\ job[s].todo \in Ahead \cup Past
      /\ Head(job[s].todo) = "plan" /\ DOMAIN job[s] = DOMAIN NoJob /\ job[s].rest \in Seq(Made)
      /\ job[s] # NoJob
  BY AtStep DEF Plan
<1>2. job[s].todo \in ToPlan
  BY <1>1, PhaseOf
<1>3. UNCHANGED <<trip, case, rows, disk, usb, seen, root, clock>> /\ Made' = Made
  BY DEF Plan, caseDb, Made
<1>4. PICK cur \in Found(C(s)) :
        /\ Goes(s, [job[s] EXCEPT !.cur = cur, !.tgt = FreePath(C(s), cur), !.path = case[C(s)].path,
                     !.todo = <<"move", "path", "book", "mark">> \o Tail(@)])
        /\ Meets(s, C(s), cur, FreePath(C(s), cur))
  BY Zenon DEF Plan
<1> DEFINE j == [job[s] EXCEPT !.cur = cur, !.tgt = FreePath(C(s), cur), !.path = case[C(s)].path,
                   !.todo = <<"move", "path", "book", "mark">> \o Tail(@)]
           todo == <<"move", "path", "book", "mark">> \o Tail(job[s].todo)
<1>5. /\ DOMAIN j = DOMAIN NoJob /\ j.rest = job[s].rest /\ j.todo = todo
      /\ j.case = C(s) /\ j.cur = cur /\ j.tgt = FreePath(C(s), cur) /\ j.path = case[C(s)].path
  BY <1>1, IdleIs DEF C
<1>6. Goes(s, j)
  BY <1>4
<1> HIDE DEF j, todo
<1>7. todo \in ToMove
  BY <1>2, TodoHeads DEF todo
<1>8. IsTarget(j.tgt)
  BY <1>1, <1>5, TargetIs
<1>9. j.todo \in Past /\ j.todo \notin Placed /\ j.todo # <<>>
  BY <1>5, <1>7, PhasesApart DEF Past, Unnamed, Ahead
<1>10. /\ Calls' /\ DOMAIN job' = Sessions /\ job'[s] = j /\ Others(s)
  BY <1>1, <1>3, <1>5, <1>6, <1>8, <1>9, GoesOn DEF Others
<1>11. Types'
  BY <1>3, <1>10, StayTyped DEF Types
<1>12. Looked(s, cur, FreePath(C(s), cur))
  BY <1>1, <1>4, <1>5, <1>10 DEF Looked
<1> QED BY <1>2, <1>3, <1>5, <1>7, <1>10, <1>11, <1>12

LEMMA EnsureTyped ==
  ASSUME Types, NEW s \in Sessions, Ensure(s)
  PROVE  /\ Types' /\ Others(s) /\ job[s].todo \in ToEnsure /\ job'[s].todo \in FirstBook
         /\ UNCHANGED <<trip, case, rows, disk, usb, seen, root, clock>>
         /\ \E cur : Looked(s, cur, IF cur # None THEN cur ELSE FreePath(C(s), cur))
<1>1. /\ C(s) \in Made /\ job[s].todo \in Ahead \cup Past
      /\ Head(job[s].todo) = "ensure" /\ DOMAIN job[s] = DOMAIN NoJob /\ job[s].rest \in Seq(Made)
      /\ job[s] # NoJob
  BY AtStep DEF Ensure
<1>2. job[s].todo \in ToEnsure
  BY <1>1, PhaseOf
<1>3. UNCHANGED <<trip, case, rows, disk, usb, seen, root, clock>> /\ Made' = Made
  BY DEF Ensure, caseDb, Made
<1> DEFINE At(cur) == IF cur # None THEN cur ELSE FreePath(C(s), cur)
<1>4. PICK cur \in Found(C(s)) :
        /\ Goes(s, [job[s] EXCEPT !.cur = cur, !.tgt = At(cur), !.path = case[C(s)].path,
                     !.todo = <<"book", "mark", "path", "file", "row">> \o Tail(@)])
        /\ Meets(s, C(s), cur, At(cur))
  BY Zenon DEF Ensure
<1> DEFINE j == [job[s] EXCEPT !.cur = cur, !.tgt = At(cur), !.path = case[C(s)].path,
                     !.todo = <<"book", "mark", "path", "file", "row">> \o Tail(@)]
           todo == <<"book", "mark", "path", "file", "row">> \o Tail(job[s].todo)
<1>5. /\ DOMAIN j = DOMAIN NoJob /\ j.rest = job[s].rest /\ j.todo = todo
      /\ j.case = C(s) /\ j.cur = cur /\ j.tgt = At(cur) /\ j.path = case[C(s)].path
  BY <1>1, IdleIs DEF C
<1>6. Goes(s, j)
  BY <1>4
<1> HIDE DEF j, todo
<1>7. todo \in FirstBook
  BY <1>2, TodoHeads DEF todo
<1>8. At(cur) # None
  BY <1>1, TargetIs
<1> HIDE DEF At
<1>9. j.todo \in Ahead /\ j.todo \notin Past /\ j.todo # <<>>
  BY <1>5, <1>7, PhasesApart DEF Ahead, Placed
<1>10. /\ Calls' /\ DOMAIN job' = Sessions /\ job'[s] = j /\ Others(s)
  BY <1>1, <1>3, <1>5, <1>6, <1>8, <1>9, GoesOn DEF Others
<1>11. Types'
  BY <1>3, <1>10, StayTyped DEF Types
<1>12. Looked(s, cur, At(cur))
  BY <1>1, <1>4, <1>5, <1>10 DEF Looked
<1> QED BY <1>2, <1>3, <1>5, <1>7, <1>10, <1>11, <1>12 DEF At

(* The folders at other places than ps are what they were.                    *)
KeptBut(ps) ==
  /\ DOMAIN disk \ ps = DOMAIN disk' \ ps
  /\ \A q \in DOMAIN disk \ ps : disk'[q] = disk[q]

(* A move: of what is there to a place that is free, or a folder is made, or  *)
(* nothing happens.                                                          *)
Moved(s) ==
  LET cur == job[s].cur
      tgt == job[s].tgt
  IN  /\ cur # None /\ cur \in DOMAIN disk /\ cur # tgt
      /\ \E to : /\ to = (IF tgt \in DOMAIN disk THEN Inside(tgt) ELSE tgt)
                 /\ to \notin DOMAIN disk /\ to.base = tgt.base
                 /\ DOMAIN disk' = (DOMAIN disk \ {cur}) \cup {to}
                 /\ disk'[to] = disk[cur] /\ KeptBut({cur, to})
      /\ job'[s].todo \in ToRows
MadeHere(s) ==
  LET tgt == job[s].tgt
  IN  /\ job[s].cur = None /\ DOMAIN disk' = DOMAIN disk \cup {tgt}
      /\ disk'[tgt] = Dir(tgt) /\ KeptBut({tgt}) /\ job'[s].todo \in ToPath
LeftAlone(s) ==
  /\ job[s].cur # None /\ (job[s].cur \notin Reached \/ job[s].cur = job[s].tgt)
  /\ disk' = disk /\ job'[s].todo \in ToPath

LEMMA MoveKeepsTypes ==
  ASSUME Types, NEW s \in Sessions, Move(s)
  PROVE  /\ Types' /\ Others(s) /\ Same(s) /\ C(s) \in Made
         /\ job[s].todo \in ToMove /\ IsTarget(job[s].tgt)
         /\ UNCHANGED <<trip, case, rows, usb, seen, root, clock, astray>>
         /\ Moved(s) \/ MadeHere(s) \/ LeftAlone(s)
<1> DEFINE cur == job[s].cur
           tgt == job[s].tgt
           to == IF tgt \in Reached THEN Inside(tgt) ELSE tgt
<1>1. /\ C(s) \in Made /\ C(s) \in CaseIds /\ job[s].todo \in Ahead \cup Past
      /\ Head(job[s].todo) = "move" /\ DOMAIN job[s] = DOMAIN NoJob /\ job[s].rest \in Seq(Made)
      /\ job[s] # NoJob
  BY AtStep DEF Move
<1>2. job[s].todo \in ToMove
  BY <1>1, PhaseOf
<1>3. UNCHANGED <<trip, case, rows, usb, seen, root, clock, astray>> /\ Made' = Made
  BY DEF Move, caseDb, Made
<1>4. IsTarget(tgt) /\ tgt # None /\ Inside(tgt) # None /\ Inside(tgt).base = tgt.base
  <2>1. JobOK(job[s], Made)
    BY DEF Types, Calls
  <2>2. IsTarget(tgt)
    BY <1>2, <2>1 DEF JobOK, Past, Unnamed
  <2>3. None.n = 0
    BY DEF None, Place
  <2> QED BY <2>2, <2>3, InsideIs DEF IsTarget
<1>5. tgt \in Reached <=> tgt \in DOMAIN disk
  BY DEF Move, Touches, Tgt, Reached
<1>6. \A p \in DOMAIN disk : DOMAIN disk[p] = FolderFields /\ BookFrom(disk[p].book)
  BY DEF Types, FolderOK, BookFrom
<1>7. IsFiniteSet(DOMAIN disk) /\ None \notin DOMAIN disk
  BY DEF Types
<1>8. CASE /\ cur # None /\ cur \in Reached /\ cur # tgt /\ to \notin DOMAIN disk
           /\ disk' = PutInto(Removed(disk, cur), to, disk[cur])
           /\ Goes(s, [job[s] EXCEPT !.moved = TRUE, !.todo = <<"rows">> \o Tail(@)])
  <2> DEFINE j == [job[s] EXCEPT !.moved = TRUE, !.todo = <<"rows">> \o Tail(@)]
             todo == <<"rows">> \o Tail(job[s].todo)
  <2>1. /\ DOMAIN j = DOMAIN NoJob /\ j.rest = job[s].rest /\ j.todo = todo
        /\ j.case = C(s) /\ j.cur = cur /\ j.tgt = tgt /\ j.path = job[s].path
    BY <1>1, IdleIs DEF C
  <2>2. Goes(s, j)
    BY <1>8
  <2> HIDE DEF j, todo
  <2>3. todo \in ToRows
    BY <1>2, TodoHeads DEF todo
  <2>4. j.todo \in Past /\ j.todo \notin Placed /\ j.todo # <<>>
    BY <2>1, <2>3, PhasesApart DEF Past, Unnamed, Ahead
  <2>5. /\ Calls' /\ DOMAIN job' = Sessions /\ job'[s] = j /\ Others(s)
    BY <1>1, <1>3, <1>4, <2>1, <2>2, <2>4, GoesOn DEF Others
  <2>6. Same(s) /\ job'[s].todo \in ToRows
    BY <2>1, <2>3, <2>5 DEF Same, C
  <2>7. cur \in DOMAIN disk
    BY <1>8 DEF Reached
  <2>8. /\ to = (IF tgt \in DOMAIN disk THEN Inside(tgt) ELSE tgt) /\ to # None
        /\ to.base = tgt.base
    BY <1>4, <1>5
  <2> HIDE DEF to
  <2>9. /\ DOMAIN disk' = (DOMAIN disk \ {cur}) \cup {to} /\ disk'[to] = disk[cur]
        /\ \A q \in DOMAIN disk \ {cur, to} : disk'[q] = disk[q]
    <3>1. /\ DOMAIN Removed(disk, cur) = DOMAIN disk \ {cur}
          /\ \A q \in DOMAIN disk \ {cur} : Removed(disk, cur)[q] = disk[q]
      BY WithoutIs
    <3>2. /\ DOMAIN disk' = DOMAIN Removed(disk, cur) \cup {to} /\ disk'[to] = disk[cur]
          /\ \A q \in DOMAIN Removed(disk, cur) \ {to} : disk'[q] = Removed(disk, cur)[q]
      <4> DEFINE d == Removed(disk, cur)
                 e == PutInto(d, to, disk[cur])
      <4>1. DOMAIN e = DOMAIN d \cup {to} /\ e[to] = disk[cur] /\ \A q \in DOMAIN d \ {to} : e[q] = d[q]
        BY DEF PutInto
      <4>2. disk' = e
        BY <1>8
      <4> HIDE DEF d, e
      <4> QED BY <4>1, <4>2 DEF d
    <3> QED BY <3>1, <3>2
  <2>10. IsFiniteSet(DOMAIN disk') /\ None \notin DOMAIN disk'
    <3>1. IsFiniteSet(DOMAIN disk \ {cur})
      BY <1>7, FS_Subset
    <3>2. IsFiniteSet((DOMAIN disk \ {cur}) \cup {to})
      BY <3>1, FS_AddElement
    <3> QED BY <1>7, <2>8, <2>9, <3>2
  <2>11. \A p \in DOMAIN disk' : DOMAIN disk'[p] = FolderFields /\ BookFrom(disk'[p].book)
    <3> SUFFICES ASSUME NEW p \in DOMAIN disk'
                 PROVE  DOMAIN disk'[p] = FolderFields /\ BookFrom(disk'[p].book)
      OBVIOUS
    <3>1. \E q \in DOMAIN disk : disk'[p] = disk[q]
      BY <2>7, <2>9
    <3> QED BY <1>6, <3>1
  <2>12. Types'
    BY <1>3, <2>5, <2>10, <2>11, DiskTyped
  <2>13. KeptBut({cur, to})
    BY <2>9 DEF KeptBut
  <2>14. Moved(s)
    BY <1>8, <2>6, <2>7, <2>8, <2>9, <2>13 DEF Moved
  <2> QED BY <1>1, <1>2, <1>3, <1>4, <2>5, <2>6, <2>12, <2>14
<1>9. CASE cur = None /\ disk' = PutInto(disk, tgt, Dir(tgt)) /\ Passes(s)
  <2>1. Calls' /\ DOMAIN job' = Sessions /\ Others(s) /\ Same(s) /\ job'[s].todo \in ToPath
    BY <1>2, <1>3, <1>9, NextPhase DEF Move
  <2>2. /\ DOMAIN disk' = DOMAIN disk \cup {tgt} /\ disk'[tgt] = Dir(tgt)
        /\ \A q \in DOMAIN disk \ {tgt} : disk'[q] = disk[q]
    <3> DEFINE e == PutInto(disk, tgt, Dir(tgt))
    <3>1. /\ DOMAIN e = DOMAIN disk \cup {tgt} /\ e[tgt] = Dir(tgt)
          /\ \A q \in DOMAIN disk \ {tgt} : e[q] = disk[q]
      BY DEF PutInto
    <3>2. disk' = e
      BY <1>9
    <3> HIDE DEF e
    <3> QED BY <3>1, <3>2
  <2>3. IsFiniteSet(DOMAIN disk') /\ None \notin DOMAIN disk'
    BY <1>4, <1>7, <2>2, FS_AddElement
  <2>4. DOMAIN Dir(tgt) = FolderFields /\ BookFrom(Dir(tgt).book)
    <3>1. DOMAIN Dir(tgt) = FolderFields
      BY DirIs
    <3> QED BY <3>1, DirIs DEF BookFrom
  <2>5. \A p \in DOMAIN disk' : DOMAIN disk'[p] = FolderFields /\ BookFrom(disk'[p].book)
    BY <1>6, <2>2, <2>4
  <2>6. Types'
    BY <1>3, <2>1, <2>3, <2>5, DiskTyped
  <2>7. MadeHere(s)
    BY <1>9, <2>1, <2>2 DEF MadeHere, KeptBut
  <2> QED BY <1>1, <1>2, <1>3, <1>4, <2>1, <2>6, <2>7
<1>10. CASE cur # None /\ (cur \notin Reached \/ cur = tgt) /\ Passes(s) /\ disk' = disk
  <2>1. Calls' /\ DOMAIN job' = Sessions /\ Others(s) /\ Same(s) /\ job'[s].todo \in ToPath
    BY <1>2, <1>3, <1>10, NextPhase DEF Move
  <2>2. Types'
    BY <1>3, <1>10, <2>1, StayTyped DEF Types
  <2>3. LeftAlone(s)
    BY <1>10, <2>1 DEF LeftAlone
  <2> QED BY <1>1, <1>2, <1>3, <1>4, <2>1, <2>2, <2>3
<1> QED BY <1>8, <1>9, <1>10 DEF Move, Tgt

(* The steps that write into the folder a call works in.                      *)
Writes(s, f) ==
  /\ DOMAIN disk' = DOMAIN disk \cup {job[s].tgt} /\ disk'[job[s].tgt] = f
  /\ KeptBut({job[s].tgt})

LEMMA WriteTyped ==
  ASSUME Types, NEW s \in Sessions, NEW name, Step(s, name),
         name \in {"book", "mark", "file"}, Passes(s), NEW f, Writes(s, f),
         DOMAIN f = FolderFields, BookFrom(f.book), UNCHANGED <<trip, case, clock, root>>
  PROVE  Types'
<1>1. Made' = Made
  BY DEF Made
<1>2. Calls' /\ DOMAIN job' = Sessions /\ job[s].tgt # None
  BY <1>1, NextPhase
<1>3. IsFiniteSet(DOMAIN disk') /\ None \notin DOMAIN disk'
  <2>1. IsFiniteSet(DOMAIN disk) /\ None \notin DOMAIN disk
    BY DEF Types
  <2>2. IsFiniteSet(DOMAIN disk \cup {job[s].tgt})
    BY <2>1, FS_AddElement
  <2>3. DOMAIN disk' = DOMAIN disk \cup {job[s].tgt}
    BY DEF Writes
  <2> QED BY <1>2, <2>1, <2>2, <2>3
<1>4. ASSUME NEW p \in DOMAIN disk'
      PROVE  DOMAIN disk'[p] = FolderFields /\ BookFrom(disk'[p].book)
  <2>1. CASE p = job[s].tgt
    BY <2>1 DEF Writes
  <2>2. CASE p # job[s].tgt
    <3>1. p \in DOMAIN disk /\ disk'[p] = disk[p]
      BY <1>4, <2>2 DEF Writes, KeptBut
    <3> QED BY <3>1 DEF Types, FolderOK, BookFrom
  <2> QED BY <2>1, <2>2
<1> QED BY <1>2, <1>3, <1>4, DiskTyped

LEMMA BookTyped ==
  ASSUME Types, NEW s \in Sessions, Book(s)
  PROVE  /\ Types' /\ Others(s) /\ Same(s) /\ C(s) \in Made /\ job[s].tgt # None
         /\ job[s].todo \in Past => IsTarget(job[s].tgt)
         /\ \/ job[s].todo \in ToBook /\ job'[s].todo \in ToMark
            \/ job[s].todo \in FirstBook /\ job'[s].todo \in FirstMark
         /\ UNCHANGED <<trip, case, rows, usb, seen, root, clock, astray>>
         /\ \E f : /\ Writes(s, f) /\ f.mark = Dir(job[s].tgt).mark
                   /\ f.print = Dir(job[s].tgt).print /\ f.files = Dir(job[s].tgt).files
                   /\ \/ f.book = Written(C(s))
                      \/ /\ f.book = Dir(job[s].tgt).book /\ f.book # NoBook
                         /\ job[s].tgt \in DOMAIN disk
                         /\ ~(case[C(s)].stamp > f.book.at)
<1> DEFINE p == job[s].tgt
           d == PutInto(disk, p, Dir(p))
           due == \/ d[p].book = NoBook \/ NeedsBook(C(s), p, job[s].force)
           w == [d EXCEPT ![p].book = Written(C(s))]
<1>1. UNCHANGED <<trip, case, rows, usb, seen, root, clock, astray>> /\ Made' = Made
  BY DEF Book, caseDb, Made
<1>2. Step(s, "book") /\ Passes(s)
  BY DEF Book
<1>3. /\ C(s) \in Made /\ C(s) \in CaseIds /\ job[s].todo \in Ahead \cup Past
      /\ Head(job[s].todo) = "book"
  BY <1>2, AtStep
<1>4. job[s].todo \in ToBook \cup FirstBook
  BY <1>3, PhaseOf
<1>5. /\ Calls' /\ DOMAIN job' = Sessions /\ Others(s) /\ p # None
      /\ job[s].todo \in Past => IsTarget(p)
      /\ job[s].todo \in ToBook => Same(s) /\ job'[s].todo \in ToMark
      /\ job[s].todo \in FirstBook => Same(s) /\ job'[s].todo \in FirstMark
  BY <1>1, <1>2, NextPhase
<1>6. DOMAIN Dir(p) = FolderFields /\ (p \in DOMAIN disk => Dir(p) = disk[p])
      /\ (Dir(p).book # NoBook => p \in DOMAIN disk)
  BY DirIs
<1>7. /\ DOMAIN d = DOMAIN disk \cup {p} /\ d[p] = Dir(p)
      /\ \A q \in DOMAIN disk \ {p} : d[q] = disk[q]
  BY DEF PutInto
<1>8. disk' = IF due THEN w ELSE d
  BY Zenon DEF Book, Tgt, Written
<1> HIDE DEF d
<1>9. CASE due
  <2> DEFINE f == [Dir(p) EXCEPT !.book = Written(C(s))]
  <2>1. /\ DOMAIN w = DOMAIN d /\ w[p] = f /\ \A q \in DOMAIN d \ {p} : w[q] = d[q]
    BY <1>7
  <2>2. /\ DOMAIN f = FolderFields /\ f.book = Written(C(s)) /\ f.mark = Dir(p).mark
        /\ f.print = Dir(p).print /\ f.files = Dir(p).files
    BY <1>6 DEF FolderFields
  <2>3. disk' = w
    BY <1>8, <1>9
  <2> HIDE DEF w, f, due
  <2>4. Writes(s, f)
    BY <1>7, <2>1, <2>3 DEF Writes, KeptBut
  <2>5. BookFrom(f.book)
    BY <1>3, <2>2 DEF BookFrom
  <2>6. Types'
    BY <1>1, <1>2, <2>2, <2>4, <2>5, WriteTyped
  <2> QED BY <1>1, <1>3, <1>4, <1>5, <2>2, <2>4, <2>6
<1>10. CASE ~due
  <2> DEFINE f == Dir(p)
  <2>1. disk' = d
    BY <1>8, <1>10
  <2>2. d[p].book # NoBook /\ ~NeedsBook(C(s), p, job[s].force)
    BY <1>10
  <2>3. f.book # NoBook /\ p \in DOMAIN disk /\ f = disk[p]
    BY <1>6, <1>7, <2>2
  <2>4. ~(case[C(s)].stamp > f.book.at)
    BY <2>2, <2>3 DEF NeedsBook
  <2> HIDE DEF f, due
  <2>5. Writes(s, f)
    BY <1>7, <2>1 DEF Writes, KeptBut, f
  <2>6. DOMAIN f = FolderFields /\ BookFrom(f.book)
    BY <1>6, <2>3 DEF BookFrom, f
  <2>7. Types'
    BY <1>1, <1>2, <2>5, <2>6, WriteTyped
  <2> QED BY <1>1, <1>3, <1>4, <1>5, <2>3, <2>4, <2>5, <2>7 DEF f
<1> QED BY <1>9, <1>10

LEMMA MarkTyped ==
  ASSUME Types, NEW s \in Sessions, Mark(s)
  PROVE  /\ Types' /\ Others(s) /\ C(s) \in Made /\ job[s].tgt # None
         /\ job[s].todo \in Past => IsTarget(job[s].tgt)
         /\ \/ /\ job[s].todo \in ToMark
               /\ (Same(s) /\ job'[s].todo \in ToGather) \/ Off(job'[s])
            \/ job[s].todo \in FirstMark /\ Same(s) /\ job'[s].todo \in FirstPath
         /\ UNCHANGED <<trip, case, rows, usb, seen, root, clock, astray>>
         /\ \E f : /\ Writes(s, f) /\ f.mark = C(s) /\ f.print = Stamped(C(s))
                   /\ f.files = Dir(job[s].tgt).files /\ f.book = Dir(job[s].tgt).book
<1> DEFINE p == job[s].tgt
           f == [Dir(p) EXCEPT !.mark = C(s), !.print = Stamped(C(s))]
<1>1. UNCHANGED <<trip, case, rows, usb, seen, root, clock, astray>> /\ Made' = Made
  BY DEF Mark, caseDb, Made
<1>2. Step(s, "mark") /\ Passes(s) /\ disk' = PutInto(disk, p, f)
  BY DEF Mark, Tgt
<1>3. /\ C(s) \in Made /\ C(s) \in CaseIds /\ job[s].todo \in Ahead \cup Past
      /\ Head(job[s].todo) = "mark"
  BY <1>2, AtStep
<1>4. job[s].todo \in ToMark \cup FirstMark
  BY <1>3, PhaseOf
<1>5. /\ Calls' /\ DOMAIN job' = Sessions /\ Others(s) /\ p # None
      /\ job[s].todo \in Past => IsTarget(p)
      /\ job[s].todo \in ToMark => (Same(s) /\ job'[s].todo \in ToGather) \/ Off(job'[s])
      /\ job[s].todo \in FirstMark => Same(s) /\ job'[s].todo \in FirstPath
  BY <1>1, <1>2, NextPhase
<1>6. DOMAIN Dir(p) = FolderFields /\ BookFrom(Dir(p).book)
  <2>1. DOMAIN Dir(p) = FolderFields
    BY DirIs
  <2> QED BY <2>1, DirIs DEF BookFrom
<1>7. /\ DOMAIN f = FolderFields /\ f.book = Dir(p).book /\ f.files = Dir(p).files
      /\ f.mark = C(s) /\ f.print = Stamped(C(s))
  BY <1>6 DEF FolderFields
<1> HIDE DEF f
<1>8. /\ DOMAIN disk' = DOMAIN disk \cup {p} /\ disk'[p] = f
      /\ \A q \in DOMAIN disk \ {p} : disk'[q] = disk[q]
  BY <1>2 DEF PutInto
<1>9. Writes(s, f)
  BY <1>8 DEF Writes, KeptBut
<1>10. Types'
  BY <1>1, <1>2, <1>6, <1>7, <1>9, WriteTyped
<1> QED BY <1>1, <1>3, <1>4, <1>5, <1>7, <1>9, <1>10

LEMMA FileTyped ==
  ASSUME Types, NEW s \in Sessions, File(s)
  PROVE  /\ Types' /\ Others(s) /\ Same(s) /\ C(s) \in Made /\ job[s].tgt # None
         /\ job[s].todo \in FirstFile /\ job'[s].todo \in FirstRow
         /\ UNCHANGED <<trip, case, rows, usb, seen, root, clock, astray>>
         /\ \E f : /\ Writes(s, f) /\ f.mark = Dir(job[s].tgt).mark
                   /\ f.print = Dir(job[s].tgt).print /\ f.book = Dir(job[s].tgt).book
                   /\ Dir(job[s].tgt).files \subseteq f.files
<1> DEFINE p == job[s].tgt
           f == [Dir(p) EXCEPT !.files = @ \cup {C(s)}]
<1>1. UNCHANGED <<trip, case, rows, usb, seen, root, clock, astray>> /\ Made' = Made
  BY DEF File, caseDb, Made
<1>2. Step(s, "file") /\ Passes(s) /\ disk' = PutInto(disk, p, f)
  BY DEF File, Tgt
<1>3. /\ C(s) \in Made /\ C(s) \in CaseIds /\ job[s].todo \in Ahead \cup Past
      /\ Head(job[s].todo) = "file"
  BY <1>2, AtStep
<1>4. job[s].todo \in FirstFile
  BY <1>3, PhaseOf
<1>5. /\ Calls' /\ DOMAIN job' = Sessions /\ Others(s) /\ p # None
      /\ job[s].todo \in FirstFile => Same(s) /\ job'[s].todo \in FirstRow
  BY <1>1, <1>2, NextPhase
<1>6. DOMAIN Dir(p) = FolderFields /\ BookFrom(Dir(p).book)
  <2>1. DOMAIN Dir(p) = FolderFields
    BY DirIs
  <2> QED BY <2>1, DirIs DEF BookFrom
<1>7. /\ DOMAIN f = FolderFields /\ f.book = Dir(p).book /\ Dir(p).files \subseteq f.files
      /\ f.mark = Dir(p).mark /\ f.print = Dir(p).print
  BY <1>6 DEF FolderFields
<1> HIDE DEF f
<1>8. /\ DOMAIN disk' = DOMAIN disk \cup {p} /\ disk'[p] = f
      /\ \A q \in DOMAIN disk \ {p} : disk'[q] = disk[q]
  BY <1>2 DEF PutInto
<1>9. Writes(s, f)
  BY <1>8 DEF Writes, KeptBut
<1>10. Types'
  BY <1>1, <1>2, <1>6, <1>7, <1>9, WriteTyped
<1> QED BY <1>1, <1>3, <1>4, <1>5, <1>7, <1>9, <1>10

(* The copy of a batch goes to the folder copies are gathered in, and what a  *)
(* call of another session was to move from there is its case's no more.     *)
CopiedTo(s, p) ==
  /\ p.base = "gather" /\ p.n = job[s].tgt.n /\ p # None
  /\ DOMAIN disk' = DOMAIN disk \cup {p} /\ KeptBut({p})
  /\ disk'[p].mark = disk[job[s].tgt].mark
  /\ astray' = astray \cup {C(z) : z \in {z \in Sessions \ {s} : job[z].cur = p}}

LEMMA GatherTyped ==
  ASSUME Types, NEW s \in Sessions, Gather(s)
  PROVE  /\ Types' /\ Others(s) /\ Off(job'[s]) /\ C(s) \in Made /\ IsTarget(job[s].tgt)
         /\ job[s].todo \in ToGather /\ job[s].tgt \in DOMAIN disk
         /\ UNCHANGED <<trip, case, rows, usb, seen, root, clock>>
         /\ \E p : CopiedTo(s, p)
<1> DEFINE t == job[s].tgt
           p == Place(t.root, "gather", t.name, t.n)
           f == [disk[t] EXCEPT !.files = @ \cup Dir(p).files]
<1>1. UNCHANGED <<trip, case, rows, usb, seen, root, clock>> /\ Made' = Made
  BY DEF Gather, caseDb, Made
<1>2. /\ Step(s, "gather") /\ Passes(s) /\ disk' = PutInto(disk, p, f) /\ t \in DOMAIN disk
      /\ astray' = astray \cup {C(z) : z \in {z \in Sessions \ {s} : job[z].cur = p}}
  BY DEF Gather, Tgt
<1>3. /\ C(s) \in Made /\ C(s) \in CaseIds /\ job[s].todo \in Ahead \cup Past
      /\ Head(job[s].todo) = "gather"
  BY <1>2, AtStep
<1>4. job[s].todo \in ToGather
  BY <1>3, PhaseOf
<1>5. /\ Calls' /\ DOMAIN job' = Sessions /\ Others(s)
      /\ job[s].todo \in Past => IsTarget(t)
      /\ job[s].todo \in ToGather => Off(job'[s])
  BY <1>1, <1>2, NextPhase
<1>6. DOMAIN disk[t] = FolderFields
  BY <1>2 DEF Types, FolderOK
<1>7. /\ DOMAIN f = FolderFields /\ f.book = disk[t].book /\ f.mark = disk[t].mark
  BY <1>6 DEF FolderFields
<1>8. IsTarget(t)
  BY <1>4, <1>5 DEF Past
<1>9. p.base = "gather" /\ p.n = t.n /\ p # None
  BY <1>8 DEF Place, IsTarget, None
<1> HIDE DEF f, p
<1>10. /\ DOMAIN disk' = DOMAIN disk \cup {p} /\ disk'[p] = f
       /\ \A q \in DOMAIN disk \ {p} : disk'[q] = disk[q]
  BY <1>2 DEF PutInto
<1>11. IsFiniteSet(DOMAIN disk') /\ None \notin DOMAIN disk'
  <2>1. IsFiniteSet(DOMAIN disk) /\ None \notin DOMAIN disk
    BY DEF Types
  <2>2. IsFiniteSet(DOMAIN disk \cup {p})
    BY <2>1, FS_AddElement
  <2> QED BY <1>9, <1>10, <2>1, <2>2
<1>12. \A q \in DOMAIN disk' : DOMAIN disk'[q] = FolderFields /\ BookFrom(disk'[q].book)
  <2>1. \A q \in DOMAIN disk : DOMAIN disk[q] = FolderFields
    BY DEF Types, FolderOK
  <2> QED BY <1>2, <1>7, <1>10, <2>1 DEF BookFrom
<1>13. Types'
  BY <1>1, <1>5, <1>11, <1>12, DiskTyped
<1>14. KeptBut({p})
  BY <1>10 DEF KeptBut
<1>15. disk'[p].mark = disk[t].mark
  BY <1>7, <1>10
<1>16. CopiedTo(s, p)
  BY <1>2, <1>9, <1>10, <1>14, <1>15 DEF CopiedTo
<1> QED BY <1>1, <1>2, <1>3, <1>4, <1>5, <1>8, <1>13, <1>16

(* The rows of files that say where a folder was, or that a file is there.    *)
Listed == \A r \in rows : DOMAIN r = {"case", "path"}

LEMMA RowsTyped ==
  ASSUME Types, Listed, NEW s \in Sessions, Rows(s) \/ NewRow(s)
  PROVE  /\ Types' /\ Others(s) /\ Same(s) /\ C(s) \in Made
         /\ \/ job[s].todo \in ToRows /\ job'[s].todo \in ToPath
            \/ job[s].todo \in FirstRow /\ job'[s].todo \in ToPlan
         /\ UNCHANGED <<trip, case, disk, usb, seen, root, clock, astray>>
         /\ Listed'
         /\ \A c \in CaseIds \ {C(s)} : {r \in rows' : r.case = c} = {r \in rows : r.case = c}
<1>1. UNCHANGED <<trip, case, disk, usb, seen, root, clock, astray>> /\ Made' = Made
  BY DEF Rows, NewRow, Made
<1>2. PICK name \in {"rows", "row"} : Step(s, name) /\ Passes(s)
  BY DEF Rows, NewRow
<1>3. /\ C(s) \in Made /\ C(s) \in CaseIds /\ job[s].todo \in Ahead \cup Past
      /\ Head(job[s].todo) = name
  BY <1>2, AtStep
<1>4. job[s].todo \in ToRows \cup FirstRow
  BY <1>2, <1>3, PhaseOf
<1>5. /\ Calls' /\ DOMAIN job' = Sessions /\ Others(s)
      /\ job[s].todo \in ToRows => Same(s) /\ job'[s].todo \in ToPath
      /\ job[s].todo \in FirstRow => Same(s) /\ job'[s].todo \in ToPlan
  BY <1>1, <1>2, NextPhase
<1>6. Types'
  BY <1>1, <1>5, StayTyped DEF Types
<1>7. /\ Listed'
      /\ \A c \in CaseIds \ {C(s)} : {r \in rows' : r.case = c} = {r \in rows : r.case = c}
  <2>1. CASE NewRow(s)
    <3> DEFINE n == [case |-> C(s), path |-> Stored(Tgt(s))]
    <3>1. rows' = rows \cup {n} /\ n.case = C(s) /\ DOMAIN n = {"case", "path"}
      BY <2>1 DEF NewRow
    <3> HIDE DEF n
    <3> QED BY <3>1 DEF Listed
  <2>2. CASE Rows(s)
    <3> DEFINE New == {[r EXCEPT !.path = Stored(Tgt(s))] : r \in Moves(s)}
    <3>1. \A r \in Moves(s) : r.case = C(s)
      BY DEF Moves
    <3>2. \A n \in New : n.case = C(s) /\ DOMAIN n = {"case", "path"}
      <4> TAKE n \in New
      <4>1. PICK r \in Moves(s) : n = [r EXCEPT !.path = Stored(Tgt(s))]
        OBVIOUS
      <4>2. r \in rows /\ DOMAIN r = {"case", "path"}
        BY DEF Moves, Listed
      <4> QED BY <3>1, <4>1, <4>2
    <3>3. rows' = (rows \ Moves(s)) \cup New
      BY <2>2 DEF Rows
    <3> HIDE DEF New
    <3> QED BY <3>1, <3>2, <3>3 DEF Listed
  <2> QED BY <2>1, <2>2
<1> QED BY <1>1, <1>3, <1>4, <1>5, <1>6, <1>7

(* The row of the case says where its folder is.                             *)
LEMMA PathTyped ==
  ASSUME Types, NEW s \in Sessions, Path(s)
  PROVE  /\ Types' /\ Made' = Made /\ Others(s) /\ Same(s) /\ C(s) \in Made
         /\ \/ job[s].todo \in ToPath /\ job'[s].todo \in ToBook
            \/ job[s].todo \in FirstPath /\ job'[s].todo \in FirstFile
         /\ UNCHANGED <<trip, rows, disk, usb, seen, root, clock, astray>>
         /\ \A d \in Made \ {C(s)} : case'[d] = case[d]
         /\ case'[C(s)].base = case[C(s)].base /\ case'[C(s)].label = case[C(s)].label
         /\ case'[C(s)].cancelled = case[C(s)].cancelled
         /\ \/ case'[C(s)].path = Stored(job[s].tgt)
            \/ job[s].path = Stored(job[s].tgt) /\ case'[C(s)] = case[C(s)]
<1>1. UNCHANGED <<trip, rows, disk, usb, seen, root, clock, astray>>
  BY DEF Path
<1>2. Step(s, "path") /\ Passes(s)
  BY DEF Path
<1>3. /\ C(s) \in Made /\ C(s) \in CaseIds /\ job[s].todo \in Ahead \cup Past
      /\ Head(job[s].todo) = "path"
  BY <1>2, AtStep
<1>4. job[s].todo \in ToPath \cup FirstPath
  BY <1>3, PhaseOf
<1> DEFINE r == [case[C(s)] EXCEPT !.path = Stored(Tgt(s)), !.stamp = clock]
<1>5. CASE case' = case /\ job[s].path = Stored(job[s].tgt)
  <2>1. Made' = Made
    BY <1>5 DEF Made
  <2>2. /\ Calls' /\ DOMAIN job' = Sessions /\ Others(s)
        /\ job[s].todo \in ToPath => Same(s) /\ job'[s].todo \in ToBook
        /\ job[s].todo \in FirstPath => Same(s) /\ job'[s].todo \in FirstFile
    BY <1>1, <1>2, <2>1, NextPhase
  <2>3. Types'
    BY <1>1, <1>5, <2>2, StayTyped DEF Types
  <2> QED BY <1>1, <1>3, <1>4, <1>5, <2>1, <2>2, <2>3
<1>6. CASE case' = [case EXCEPT ![C(s)] = r]
  <2>1. FileOK(case[C(s)], clock) /\ clock \in Nat
    BY <1>3 DEF Types
  <2>2. /\ DOMAIN r = FileFields /\ r.base = case[C(s)].base /\ r.stamp = clock
        /\ r.path = Stored(Tgt(s)) /\ r.label = case[C(s)].label
        /\ r.cancelled = case[C(s)].cancelled
    BY <2>1 DEF FileOK, FileFields
  <2> HIDE DEF r
  <2>3. FileOK(r, clock)
    BY <2>1, <2>2 DEF FileOK
  <2>4. /\ DOMAIN case' = CaseIds /\ case'[C(s)] = r
        /\ \A d \in CaseIds \ {C(s)} : case'[d] = case[d]
    BY <1>3, <1>6 DEF Types
  <2>5. DOMAIN Absent = {"data"}
    BY DEF Absent
  <2>6. case'[C(s)] # Absent
    BY <2>2, <2>4, <2>5 DEF FileFields
  <2>7. Made' = Made
    BY <1>3, <2>4, <2>6 DEF Made
  <2>8. /\ Calls' /\ DOMAIN job' = Sessions /\ Others(s)
        /\ job[s].todo \in ToPath => Same(s) /\ job'[s].todo \in ToBook
        /\ job[s].todo \in FirstPath => Same(s) /\ job'[s].todo \in FirstFile
    BY <1>1, <1>2, <2>7, NextPhase
  <2>9. Types'
    BY <1>1, <1>3, <2>2, <2>3, <2>4, <2>8, RowTyped
  <2>10. \A d \in Made \ {C(s)} : case'[d] = case[d]
    BY <2>4 DEF Made
  <2> QED BY <1>1, <1>3, <1>4, <2>2, <2>4, <2>7, <2>8, <2>9, <2>10 DEF Tgt
<1>7. \/ case' = case /\ job[s].path = Stored(job[s].tgt)
      \/ case' = [case EXCEPT ![C(s)] = r]
  BY DEF Path, Tgt
<1> QED BY <1>5, <1>6, <1>7

(* A batch takes up its next case, or passes it over.                        *)
LEMMA NextCaseTyped ==
  ASSUME Types, NEW s \in Sessions, NextCase(s)
  PROVE  /\ Types' /\ Others(s) /\ job[s].case = 0 /\ job[s].cur = None /\ job[s].tgt = None
         /\ \/ Off(job'[s])
            \/ /\ job'[s].case \in Made /\ job'[s].cur = None /\ job'[s].tgt = None
               /\ job'[s].todo \in ToPlan
         /\ UNCHANGED <<trip, case, rows, disk, usb, seen, root, clock, astray>>
<1> DEFINE c == Head(job[s].rest)
           rest == Tail(job[s].rest)
           j1 == [job[s] EXCEPT !.todo = <<>>, !.rest = rest]
           j2 == [NoJob EXCEPT !.case = c, !.rest = rest, !.force = TRUE, !.todo = ToSync \o <<"gather">>]
<1>1. UNCHANGED <<trip, case, rows, disk, usb, seen, root, clock, astray>> /\ Made' = Made
  BY DEF NextCase, caseDb, Made
<1>2. JobOK(job[s], Made)
  BY DEF Types, Calls
<1>3. job[s] # NoJob /\ job[s].todo # <<>> /\ Head(job[s].todo) = "next"
  BY IdleIs DEF NextCase, Step
<1>4. /\ job[s].todo = <<"next">> /\ job[s].case = 0 /\ job[s].cur = None /\ job[s].tgt = None
      /\ job[s].rest # <<>> /\ DOMAIN job[s] = DOMAIN NoJob /\ job[s].rest \in Seq(Made)
  BY <1>2, <1>3, PhaseOf DEF JobOK
<1>5. c \in Made /\ rest \in Seq(Made)
  BY <1>4
<1>6. \E cur \in Found(c) : Goes(s, j1) \/ Goes(s, j2)
  BY DEF NextCase
<1>7. /\ DOMAIN j1 = DOMAIN NoJob /\ j1.rest = rest /\ j1.todo = <<>>
  BY <1>4, IdleIs
<1>8. /\ DOMAIN j2 = DOMAIN NoJob /\ j2.rest = rest /\ j2.todo = ToSync \o <<"gather">>
      /\ j2.case = c /\ j2.cur = None /\ j2.tgt = None
  BY IdleIs
<1>9. ToSync \o <<"gather">> \in ToPlan
  BY TodoHeads DEF ToSync
<1> HIDE DEF c, rest, j1, j2
<1>10. CASE Goes(s, j1)
  <2>1. Calls' /\ DOMAIN job' = Sessions /\ Others(s) /\ Off(job'[s])
    BY <1>1, <1>3, <1>5, <1>7, <1>10, GoesOn DEF Others
  <2>2. Types'
    BY <1>1, <2>1, StayTyped DEF Types
  <2> QED BY <1>1, <1>4, <2>1, <2>2
<1>11. CASE Goes(s, j2)
  <2>1. j2.todo \in Ahead \cup Past /\ j2.todo \notin Past /\ j2.todo \notin Placed /\ j2.todo # <<>>
    <3>1. ToPlan \cap Placed = {}
      BY TodoTails, FirstTails DEF Placed
    <3> QED BY <1>8, <1>9, <3>1, PhasesApart DEF Ahead
  <2>2. Calls' /\ DOMAIN job' = Sessions /\ Others(s) /\ job'[s] = j2
    BY <1>1, <1>3, <1>5, <1>8, <1>11, <2>1, GoesOn DEF Others
  <2>3. Types'
    BY <1>1, <2>2, StayTyped DEF Types
  <2> QED BY <1>1, <1>4, <1>5, <1>8, <1>9, <2>2, <2>3
<1> QED BY <1>6, <1>10, <1>11

(* A call stops where it is.                                                 *)
LEMMA StopTyped ==
  ASSUME Types, NEW s \in Sessions, Stop(s)
  PROVE  /\ Types' /\ Others(s) /\ C(s) \in Made /\ job[s].todo \in Past \cup Ahead
         /\ Off(job'[s]) \/ /\ job'[s].case = C(s) /\ job'[s].todo \in ToPlan
                            /\ job'[s].cur = job[s].cur /\ job'[s].tgt = job[s].tgt
         /\ UNCHANGED <<trip, case, rows, disk, usb, seen, root, clock>>
         /\ astray' = astray \cup {C(s)}
<1>1. UNCHANGED <<trip, case, rows, disk, usb, seen, root, clock>> /\ Made' = Made
  BY DEF Stop, caseDb, Made
<1>2. JobOK(job[s], Made)
  BY DEF Types, Calls
<1>3. C(s) # 0 /\ astray' = astray \cup {C(s)}
  BY DEF Stop
<1>4. /\ job[s] # NoJob /\ job[s].todo \in Past \cup Ahead /\ C(s) \in Made
      /\ DOMAIN job[s] = DOMAIN NoJob /\ job[s].rest \in Seq(Made)
  BY <1>2, <1>3, IdleIs DEF JobOK, C
<1>5. PICK left \in {<<>>, ToSync} : Goes(s, [job[s] EXCEPT !.todo = left])
  BY DEF Stop
<1> DEFINE j == [job[s] EXCEPT !.todo = left]
<1>6. /\ DOMAIN j = DOMAIN NoJob /\ j.rest = job[s].rest /\ j.todo = left
      /\ j.case = C(s) /\ j.cur = job[s].cur /\ j.tgt = job[s].tgt
  BY <1>4, IdleIs DEF C
<1>7. Goes(s, j)
  BY <1>5
<1> HIDE DEF j
<1>8. ToSync \in ToPlan
  BY DEF ToSync, ToPlan
<1>9. ToSync # <<>> /\ ToSync \in Ahead /\ ToSync \notin Past /\ ToSync \notin Placed
  <2>1. ToPlan \cap Placed = {}
    BY TodoTails, FirstTails DEF Placed
  <2> QED BY <1>8, <2>1, TodoTails, PhasesApart DEF Ahead
<1>10. /\ Calls' /\ DOMAIN job' = Sessions /\ Others(s)
       /\ left = <<>> => Off(job'[s])
       /\ left # <<>> => job'[s] = j
  BY <1>1, <1>4, <1>5, <1>6, <1>7, <1>9, GoesOn DEF Others
<1>11. Types'
  BY <1>1, <1>10, StayTyped DEF Types
<1> QED BY <1>1, <1>3, <1>4, <1>5, <1>6, <1>8, <1>10, <1>11

(* What a step of the folders is.                                            *)
LEMMA StepIs ==
  ASSUME Types, [FoldersNext]_fileVars
  PROVE  \/ \E s \in Sessions :
              \/ \E c \in CaseIds, b \in Bases, l \in trip.labels, file \in BOOLEAN : Create(s, c, b, l, file)
              \/ \E c \in CaseIds : Amends(s, c)
              \/ Batch(s) \/ Ensure(s) \/ Plan(s) \/ Move(s) \/ Rows(s) \/ NewRow(s) \/ Path(s)
              \/ Book(s) \/ Mark(s) \/ File(s) \/ NextCase(s) \/ Gather(s) \/ Stop(s)
         \/ Tick
         \/ Plug \/ Look \/ (\E r \in {"", "disk"} : SetRoot(r)) \/ UNCHANGED fileVars
<1>1. ASSUME NEW s \in Sessions, User(s)
      PROVE  \/ \E c \in CaseIds, b \in Bases, l \in trip.labels, file \in BOOLEAN : Create(s, c, b, l, file)
             \/ \E c \in CaseIds : Amends(s, c)
             \/ Batch(s)
  BY <1>1, SaveAmends DEF User
<1> QED BY <1>1, Zenon DEF FoldersNext, Runs

LEMMA TypesStep ==
  ASSUME Types, Listed, [FoldersNext]_fileVars
  PROVE  Types' /\ Listed'
<1>1. ASSUME NEW s \in Sessions, NEW c \in CaseIds, NEW b \in Bases, NEW l \in trip.labels,
             NEW file \in BOOLEAN, Create(s, c, b, l, file)
      PROVE  Types' /\ rows' = rows
  BY <1>1, CreateTyped
<1>2. ASSUME NEW s \in Sessions, NEW c \in CaseIds, Amends(s, c) PROVE Types' /\ rows' = rows
  BY <1>2, AmendTyped DEF Amends
<1>3. ASSUME NEW s \in Sessions, Batch(s) PROVE Types' /\ rows' = rows
  BY <1>3, BatchTyped DEF caseDb
<1>4. ASSUME NEW s \in Sessions, Ensure(s) \/ Plan(s) \/ NextCase(s) \/ Stop(s)
      PROVE  Types' /\ rows' = rows
  BY <1>4, EnsureTyped, PlanTyped, NextCaseTyped, StopTyped, Zenon
<1>5. ASSUME NEW s \in Sessions, Move(s) \/ Book(s) \/ Mark(s) \/ File(s) \/ Gather(s) \/ Path(s)
      PROVE  Types' /\ rows' = rows
  BY <1>5, MoveKeepsTypes, BookTyped, MarkTyped, FileTyped, GatherTyped, PathTyped, Zenon
<1>6. ASSUME NEW s \in Sessions, Rows(s) \/ NewRow(s) PROVE Types' /\ Listed'
  BY <1>6, RowsTyped, Zenon
<1>7. CASE Tick
  BY <1>7, TickTyped DEF Tick, caseDb, Listed
<1>8. CASE Plug \/ Look \/ (\E r \in {"", "disk"} : SetRoot(r)) \/ UNCHANGED fileVars
  BY <1>8, SurroundingsTyped DEF caseDb, Listed
<1>9. rows' = rows => Listed'
  BY DEF Listed
<1> QED BY <1>1, <1>2, <1>3, <1>4, <1>5, <1>6, <1>7, <1>8, <1>9, StepIs, Zenon

-----------------------------------------------------------------------------
(* No step loses a user's file.                                              *)

LEMMA FilesStep ==
  ASSUME Types, Listed, [FoldersNext]_fileVars, NEW c, NEW p \in DOMAIN disk, p.base # "gather",
         c \in disk[p].files
  PROVE  \E q \in DOMAIN disk' : q.base # "gather" /\ c \in disk'[q].files
<1> DEFINE Kept == p \in DOMAIN disk' /\ c \in disk'[p].files
<1>1. disk' = disk => Kept
  OBVIOUS
<1>2. ASSUME NEW s \in Sessions, Move(s)
      PROVE  \E q \in DOMAIN disk' : q.base # "gather" /\ c \in disk'[q].files
  <2>1. IsTarget(job[s].tgt) /\ (Moved(s) \/ MadeHere(s) \/ LeftAlone(s))
    BY <1>2, MoveKeepsTypes
  <2>2. CASE Moved(s)
    <3>1. PICK to : /\ to \notin DOMAIN disk /\ to.base = job[s].tgt.base
                    /\ DOMAIN disk' = (DOMAIN disk \ {job[s].cur}) \cup {to}
                    /\ disk'[to] = disk[job[s].cur] /\ KeptBut({job[s].cur, to})
      BY <2>2 DEF Moved
    <3>2. to.base # "gather"
      BY FoldersOK, <2>1, <3>1 DEF IsTarget
    <3>3. CASE p = job[s].cur
      BY <3>1, <3>2, <3>3
    <3>4. CASE p # job[s].cur
      BY <3>1, <3>4 DEF KeptBut
    <3> QED BY <3>3, <3>4
  <2>3. CASE MadeHere(s)
    <3>1. p # job[s].tgt => Kept
      BY <2>3 DEF MadeHere, KeptBut
    <3>2. p = job[s].tgt => Kept
      BY <2>3, DirIs DEF MadeHere
    <3> QED BY <3>1, <3>2
  <2>4. CASE LeftAlone(s)
    BY <1>1, <2>4 DEF LeftAlone
  <2> QED BY <2>1, <2>2, <2>3, <2>4
<1>3. ASSUME NEW s \in Sessions, NEW f, Writes(s, f), Dir(job[s].tgt).files \subseteq f.files
      PROVE  Kept
  <2>1. CASE p = job[s].tgt
    BY <1>3, <2>1, DirIs DEF Writes
  <2>2. CASE p # job[s].tgt
    BY <1>3, <2>2 DEF Writes, KeptBut
  <2> QED BY <2>1, <2>2
<1>4. ASSUME NEW s \in Sessions, Book(s) \/ Mark(s) \/ File(s) PROVE Kept
  <2>1. \E f : Writes(s, f) /\ Dir(job[s].tgt).files \subseteq f.files
    BY <1>4, BookTyped, MarkTyped, FileTyped
  <2> QED BY <1>3, <2>1
<1>5. ASSUME NEW s \in Sessions, Gather(s) PROVE Kept
  <2>1. PICK g : CopiedTo(s, g)
    BY <1>5, GatherTyped, Zenon
  <2>2. g.base = "gather" /\ KeptBut({g})
    BY <2>1 DEF CopiedTo
  <2> QED BY <2>2 DEF KeptBut
<1>6. ASSUME NEW s \in Sessions,
             \/ \E d \in CaseIds, b \in Bases, l \in trip.labels, file \in BOOLEAN : Create(s, d, b, l, file)
             \/ \E d \in CaseIds : Amends(s, d)
             \/ Batch(s) \/ Ensure(s) \/ Plan(s) \/ Rows(s) \/ NewRow(s) \/ Path(s)
             \/ NextCase(s) \/ Stop(s)
      PROVE  disk' = disk
  BY <1>6 DEF Create, Amends, Batch, Ensure, Plan, Rows, NewRow, Path, NextCase, Stop
<1>7. Tick \/ Plug \/ Look \/ (\E r \in {"", "disk"} : SetRoot(r)) \/ UNCHANGED fileVars => disk' = disk
  BY DEF Tick, Plug, Look, SetRoot, fileVars
<1> HIDE DEF Kept
<1>8. disk' = disk \/ Kept \/ \E s \in Sessions : Move(s)
  BY <1>4, <1>5, <1>6, <1>7, StepIs, Zenon
<1> QED BY <1>1, <1>2, <1>8 DEF Kept

-----------------------------------------------------------------------------
(* What holds of a case while a call works on it and when none does.          *)
(* A call that has planned works in folders no other call works in; until the *)
(* row of the case names its folder the row says what the call has read; the *)
(* folder it moves from or writes to holds no workbook of another case.      *)
Here(s) == {job[s].cur, job[s].tgt} \ {None}
Working(c) == {s \in Sessions : job[s].case = c}
Waiting(c) == \E s \in Working(c) : job[s].todo \in Ahead
Named(c, p) == p.base = Base(c) /\ p.name = Name(c)
OwnBook(c, p) == disk[p].book.of \in {0, c}
Booked(c, p) ==
  /\ p \in DOMAIN disk /\ disk[p].book.of = c
  /\ disk[p].book.data = case[c].data \/ disk[p].book.at = case[c].stamp
Signed(c, p) == disk[p].mark = c /\ disk[p].print = Stamped(c)
UnderWay(c, s) ==
  /\ Named(c, job[s].tgt)
  /\ \A z \in Sessions \ {s} : Here(z) \cap Here(s) = {}
  /\ job[s].todo \in Unnamed => job[s].path = case[c].path
  /\ job[s].todo \notin Unnamed => case[c].path.at = job[s].tgt
  /\ job[s].todo \in ToMove =>
       /\ job[s].cur # job[s].tgt => job[s].tgt \notin DOMAIN disk
       /\ job[s].cur # None => job[s].cur \in DOMAIN disk /\ OwnBook(c, job[s].cur)
  /\ job[s].todo \in ToRows \cup ToPath \cup ToBook =>
       (job[s].tgt \in DOMAIN disk => OwnBook(c, job[s].tgt))
  /\ job[s].todo \in ToMark \cup ToGather => Booked(c, job[s].tgt)
  /\ job[s].todo \in ToGather => Signed(c, job[s].tgt)
Settled(c) ==
  LET p == case[c].path.at
  IN  Named(c, p) /\ Booked(c, p) /\ Signed(c, p) /\ \A z \in Sessions : p \notin Here(z)
Claim(c) ==
  c \in Made \ astray /\ ~Waiting(c) =>
    /\ \A s, z \in Working(c) : s = z
    /\ \A s \in Working(c) : UnderWay(c, s)
    /\ Working(c) = {} => Settled(c)
Claims == \A c \in CaseIds : Claim(c)

(* The places a call on a case depends on, and that a step leaves alone.      *)
Spots(s) ==
  ({job[s].tgt} \cup (IF job[s].todo \in ToMove THEN {job[s].cur} ELSE {})) \ {None}
SameAt(q) == (q \in DOMAIN disk' <=> q \in DOMAIN disk) /\ (q \in DOMAIN disk => disk'[q] = disk[q])
Hereafter(s) == {job'[s].cur, job'[s].tgt} \ {None}

LEMMA WorkingIs ==
  ASSUME Types, NEW c \in Made, NEW s \in Working(c), ~Waiting(c)
  PROVE  job[s].todo \in Past /\ IsTarget(job[s].tgt) /\ job[s].tgt # None
<1>1. JobOK(job[s], Made) /\ job[s].case = c /\ c # 0
  BY FoldersOK DEF Types, Calls, Working, Made
<1>2. job[s].todo \in Ahead \cup Past
  BY <1>1, IdleIs DEF JobOK
<1>3. job[s].todo \in Past
  BY <1>2 DEF Waiting
<1>4. None.n = 0
  BY DEF None, Place
<1> QED BY <1>1, <1>3, <1>4 DEF JobOK, IsTarget

(* A step of a call on another case, or of none, that keeps away from the     *)
(* places a case depends on leaves what holds of the case as it is.          *)
LEMMA ClaimFrame ==
  ASSUME Types, NEW s \in Sessions, NEW c \in Made, Claim(c), c \notin astray,
         job[s].case # c, job'[s].case # c, Others(s), case'[c] = case[c],
         {r \in rows' : r.case = c} = {r \in rows : r.case = c},
         ~Waiting(c) => \A z \in Working(c) :
            Hereafter(s) \cap Here(z) = {} /\ \A q \in Spots(z) : SameAt(q),
         ~Waiting(c) /\ Working(c) = {} =>
            case[c].path.at \notin Hereafter(s) /\ SameAt(case[c].path.at)
  PROVE  Claim(c)'
<1>1. Working(c)' = Working(c) /\ s \notin Working(c)
  BY DEF Working, Others
<1>2. \A z \in Working(c) : z \in Sessions \ {s} /\ job'[z] = job[z]
  BY <1>1 DEF Working, Others
<1>3. SUFFICES ASSUME ~Waiting(c)
      PROVE  /\ \A y, z \in Working(c) : y = z
             /\ \A z \in Working(c) : UnderWay(c, z)'
             /\ Working(c) = {} => Settled(c)'
  BY <1>1, <1>2 DEF Claim, Waiting
<1>4. /\ \A y, z \in Working(c) : y = z
      /\ \A z \in Working(c) : UnderWay(c, z)
      /\ Working(c) = {} => Settled(c)
  BY <1>3 DEF Claim
<1>5. Stamped(c)' = Stamped(c) /\ Base(c)' = Base(c) /\ Name(c)' = Name(c)
  BY DEF Stamped, Base, Name
<1>6. ASSUME NEW z \in Working(c)
      PROVE  UnderWay(c, z)'
  <2>1. UnderWay(c, z) /\ job'[z] = job[z] /\ z \in Sessions \ {s}
    BY <1>2, <1>4, <1>6
  <2>2. job[z].todo \in Past /\ job[z].tgt # None
    BY <1>3, <1>6, WorkingIs
  <2>3. SameAt(job[z].tgt) /\ (job[z].todo \in ToMove /\ job[z].cur # None => SameAt(job[z].cur))
    BY <1>3, <1>6, <2>2 DEF Spots
  <2>4. \A y \in Sessions \ {z} : Here(y)' \cap Here(z)' = {}
    <3> TAKE y \in Sessions \ {z}
    <3>1. CASE y = s
      BY <1>3, <1>6, <2>1, <3>1 DEF Here, Hereafter
    <3>2. CASE y # s
      <4>1. job'[y] = job[y]
        BY <3>2 DEF Others
      <4>2. Here(y) \cap Here(z) = {}
        BY <2>1 DEF UnderWay
      <4> QED BY <2>1, <4>1, <4>2 DEF Here
    <3> QED BY <3>1, <3>2
  <2>5. Named(c, job[z].tgt)'
    BY <1>5, <2>1 DEF UnderWay, Named
  <2>6. /\ job[z].todo \in Unnamed => job'[z].path = case'[c].path
        /\ job[z].todo \notin Unnamed => case'[c].path.at = job'[z].tgt
    BY <2>1 DEF UnderWay
  <2>7. job[z].todo \in ToMove =>
       /\ job[z].cur # job[z].tgt => job[z].tgt \notin DOMAIN disk'
       /\ job[z].cur # None => job[z].cur \in DOMAIN disk' /\ disk'[job[z].cur].book.of \in {0, c}
    BY <2>1, <2>3 DEF UnderWay, OwnBook, SameAt
  <2>8. job[z].todo \in ToRows \cup ToPath \cup ToBook =>
       (job[z].tgt \in DOMAIN disk' => disk'[job[z].tgt].book.of \in {0, c})
    BY <2>1, <2>3 DEF UnderWay, OwnBook, SameAt
  <2>9. /\ job[z].todo \in ToMark \cup ToGather => Booked(c, job[z].tgt)'
        /\ job[z].todo \in ToGather => Signed(c, job[z].tgt)'
    <3>1. Booked(c, job[z].tgt) => Booked(c, job[z].tgt)'
      BY <2>1, <2>3 DEF SameAt, Booked
    <3>2. Booked(c, job[z].tgt) /\ Signed(c, job[z].tgt) => Signed(c, job[z].tgt)'
      BY <1>5, <2>1, <2>3 DEF SameAt, Booked, Signed
    <3> QED BY <2>1, <3>1, <3>2 DEF UnderWay
  <2> QED BY <2>1, <2>4, <2>5, <2>6, <2>7, <2>8, <2>9 DEF UnderWay, OwnBook
<1>7. ASSUME Working(c) = {}
      PROVE  Settled(c)'
  <2> DEFINE p == case[c].path.at
  <2>1. Settled(c) /\ p \notin Hereafter(s) /\ SameAt(p)
    BY <1>3, <1>4, <1>7
  <2>2. Named(c, p) /\ Booked(c, p) /\ Signed(c, p) /\ (\A z \in Sessions : p \notin Here(z))
    BY <2>1 DEF Settled
  <2>3. case'[c].path.at = p
    OBVIOUS
  <2>4. p \in DOMAIN disk' /\ disk'[p] = disk[p]
    BY <2>1, <2>2 DEF SameAt, Booked
  <2> HIDE DEF p
  <2>5. \A z \in Sessions : p \notin Here(z)'
    <3> TAKE z \in Sessions
    <3>1. CASE z = s
      BY <2>1, <3>1 DEF Here, Hereafter
    <3>2. CASE z # s
      BY <2>2, <3>2 DEF Here, Others
    <3> QED BY <3>1, <3>2
  <2>6. p.base = Base(c)' /\ p.name = Name(c)'
    BY <1>5, <2>2 DEF Named
  <2>7. /\ disk'[p].book.of = c /\ disk'[p].mark = c /\ disk'[p].print = Stamped(c)'
        /\ disk'[p].book.data = case'[c].data \/ disk'[p].book.at = case'[c].stamp
    BY <1>5, <2>2, <2>4 DEF Booked, Signed
  <2> QED BY <2>3, <2>4, <2>5, <2>6, <2>7 DEF Settled, Named, Booked, Signed
<1> QED BY <1>4, <1>6, <1>7

LEMMA OtherClaim ==
  ASSUME Types, NEW s \in Sessions, NEW c \in Made, Claim(c), c \notin astray,
         job[s].case # c, job'[s].case # c, Others(s), case'[c] = case[c],
         {r \in rows' : r.case = c} = {r \in rows : r.case = c},
         Hereafter(s) \subseteq Here(s),
         \A q : q \notin Here(s) /\ (q \in DOMAIN disk \/ IsTarget(q)) => SameAt(q)
  PROVE  Claim(c)'
<1>1. ASSUME ~Waiting(c), NEW z \in Working(c)
      PROVE  Hereafter(s) \cap Here(z) = {} /\ \A q \in Spots(z) : SameAt(q)
  <2>1. UnderWay(c, z) /\ z # s /\ z \in Sessions
    BY <1>1 DEF Claim, Working
  <2>2. job[z].todo \in Past /\ IsTarget(job[z].tgt) /\ job[z].tgt # None
    BY <1>1, WorkingIs
  <2>3. Here(s) \cap Here(z) = {}
    BY <2>1 DEF UnderWay
  <2>4. \A q \in Spots(z) : q \in Here(z)
    BY DEF Spots, Here
  <2>5. \A q \in Spots(z) : IsTarget(q) \/ q \in DOMAIN disk
    BY <2>1, <2>2 DEF UnderWay, Spots
  <2> QED BY <2>3, <2>4, <2>5
<1>2. ASSUME ~Waiting(c), Working(c) = {}
      PROVE  case[c].path.at \notin Hereafter(s) /\ SameAt(case[c].path.at)
  <2>1. Settled(c)
    BY <1>2 DEF Claim
  <2>2. case[c].path.at \notin Here(s) /\ case[c].path.at \in DOMAIN disk
    BY <2>1 DEF Settled, Booked
  <2> QED BY <2>2
<1> QED BY <1>1, <1>2, ClaimFrame

LEMMA WaitClaim ==
  ASSUME NEW s \in Sessions, NEW c, job'[s].case = c, job'[s].todo \in Ahead
  PROVE  Claim(c)'
BY DEF Claim, Waiting, Working

LEMMA AstrayClaim == ASSUME NEW c, c \in astray' PROVE Claim(c)'
BY DEF Claim

(* The call on a case goes on, or ends.                                      *)
LEMMA OwnClaim ==
  ASSUME Types, NEW s \in Sessions, NEW c \in Made, c = C(s), Claim(c), c \notin astray,
         job[s].todo \in Past, Others(s),
         UnderWay(c, s) =>
           \/ job'[s].case = c /\ UnderWay(c, s)'
           \/ job'[s].case # c /\ (Working(c) = {s} => Settled(c)')
  PROVE  Claim(c)'
<1>1. s \in Working(c)
  BY DEF Working, C
<1>2. CASE Waiting(c)
  <2>1. PICK z \in Working(c) : job[z].todo \in Ahead
    BY <1>2 DEF Waiting
  <2>2. z \in Sessions /\ z # s /\ job'[z] = job[z] /\ job[z].case = c
    BY <2>1, PhasesApart DEF Working, Others
  <2> QED BY <2>1, <2>2, WaitClaim
<1>3. CASE ~Waiting(c)
  <2>1. UnderWay(c, s) /\ Working(c) = {s}
    BY <1>1, <1>3 DEF Claim
  <2>2. \A z \in Sessions \ {s} : job'[z].case # c
    BY <2>1 DEF Working, Others
  <2>3. CASE job'[s].case = c /\ UnderWay(c, s)'
    <3>1. Working(c)' = {s}
      BY <2>2, <2>3 DEF Working
    <3> QED BY <2>3, <3>1 DEF Claim
  <2>4. CASE job'[s].case # c /\ Settled(c)'
    <3>1. Working(c)' = {}
      BY <2>2, <2>4 DEF Working
    <3> QED BY <2>4, <3>1 DEF Claim
  <2> QED BY <2>1, <2>3, <2>4
<1> QED BY <1>2, <1>3

LEMMA StillApart ==
  ASSUME NEW c, NEW s \in Sessions, UnderWay(c, s), Same(s), Others(s)
  PROVE  \A z \in Sessions \ {s} : Here(z)' \cap Here(s)' = {}
<1> TAKE z \in Sessions \ {s}
<1>1. Here(z) \cap Here(s) = {} /\ job'[z] = job[z]
  BY DEF UnderWay, Others
<1> QED BY <1>1 DEF Same, Here

(* A call works on no other case than it says.                               *)
LEMMA CaseOf ==
  ASSUME Types, NEW s \in Sessions, C(s) \in Made
  PROVE  C(s) \in CaseIds /\ C(s) # 0
BY FoldersOK DEF Made

-----------------------------------------------------------------------------
(* A call that has looked meets no case that stays in order.                 *)
LEMMA MeetsIs ==
  ASSUME NEW s \in Sessions, NEW c, NEW cur, NEW tgt, Meets(s, c, cur, tgt),
         NEW d \in Made, d # c, d # 0, d \notin astray'
  PROVE  /\ d \notin astray
         /\ \A z \in Sessions \ {s} : C(z) = d => {job[z].cur, Tgt(z)} \cap ({cur, tgt} \ {None}) = {}
         /\ case[d].path.at \notin {cur, tgt} \ {None}
<1> DEFINE here == {cur, tgt} \ {None}
           calls == {C(z) : z \in {z \in Sessions \ {s} : C(z) # 0 /\
                  \/ Name(C(z)) = Name(c) /\ Base(C(z)) = Base(c)
                  \/ C(z) = c \/ {job[z].cur, Tgt(z)} \cap here # {}}}
           owners == {e \in Made \ {c} : case[e].path.at \in here}
           books == {disk[p].book.of : p \in here \cap DOMAIN disk} \ {0, c}
<1>1. astray' = IF calls \cup owners \cup books = {} THEN astray \ {c}
                ELSE astray \cup {c} \cup calls \cup owners
  BY Zenon DEF Meets
<1>2. d \notin calls /\ d \notin owners /\ d \notin astray
  <2> HIDE DEF calls, owners, books
  <2> QED BY <1>1
<1>3. \A z \in Sessions \ {s} : C(z) = d => {job[z].cur, Tgt(z)} \cap here = {}
  BY <1>2
<1>4. case[d].path.at \notin here
  BY <1>2
<1> QED BY <1>2, <1>3, <1>4

LEMMA MeetsNone ==
  ASSUME NEW s \in Sessions, NEW c, NEW cur, NEW tgt, Meets(s, c, cur, tgt), c \notin astray'
  PROVE  /\ \A z \in Sessions \ {s} : C(z) # 0 =>
              C(z) # c /\ {job[z].cur, Tgt(z)} \cap ({cur, tgt} \ {None}) = {}
         /\ \A p \in ({cur, tgt} \ {None}) \cap DOMAIN disk : disk[p].book.of \in {0, c}
<1> DEFINE here == {cur, tgt} \ {None}
           calls == {C(z) : z \in {z \in Sessions \ {s} : C(z) # 0 /\
                  \/ Name(C(z)) = Name(c) /\ Base(C(z)) = Base(c)
                  \/ C(z) = c \/ {job[z].cur, Tgt(z)} \cap here # {}}}
           owners == {e \in Made \ {c} : case[e].path.at \in here}
           books == {disk[p].book.of : p \in here \cap DOMAIN disk} \ {0, c}
<1>1. astray' = IF calls \cup owners \cup books = {} THEN astray \ {c}
                ELSE astray \cup {c} \cup calls \cup owners
  BY Zenon DEF Meets
<1>2. calls = {} /\ books = {}
  <2> HIDE DEF calls, owners, books
  <2> QED BY <1>1
<1>3. \A z \in Sessions \ {s} : C(z) # 0 => C(z) # c /\ {job[z].cur, Tgt(z)} \cap here = {}
  BY <1>2
<1>4. \A p \in here \cap DOMAIN disk : disk[p].book.of \in {0, c}
  BY <1>2
<1> QED BY <1>3, <1>4

(* Who works on nothing is nowhere.                                          *)
LEMMA Nowhere ==
  ASSUME Types, NEW s \in Sessions, job[s].case = 0
  PROVE  Here(s) = {}
<1>1. JobOK(job[s], Made) /\ 0 \notin Made
  BY FoldersOK DEF Types, Calls, Made
<1>2. job[s].cur = None /\ job[s].tgt = None
  BY <1>1, IdleIs DEF JobOK
<1> QED BY <1>2 DEF Here

LEMMA LookedOther ==
  ASSUME Types, NEW s \in Sessions, NEW cur, NEW tgt, Looked(s, cur, tgt), Others(s),
         UNCHANGED <<case, rows, disk>>, NEW c \in Made, c # C(s), Claim(c), c \notin astray',
         job[s].case = C(s)
  PROVE  Claim(c)'
<1>1. c # 0
  BY FoldersOK DEF Made
<1>2. /\ c \notin astray
      /\ \A z \in Sessions \ {s} : C(z) = c => {job[z].cur, Tgt(z)} \cap ({cur, tgt} \ {None}) = {}
      /\ case[c].path.at \notin {cur, tgt} \ {None}
  BY <1>1, MeetsIs DEF Looked
<1>3. Hereafter(s) = {cur, tgt} \ {None}
  BY DEF Hereafter, Looked
<1>4. \A q : SameAt(q)
  BY DEF SameAt
<1>5. \A z \in Working(c) : Hereafter(s) \cap Here(z) = {}
  BY <1>2, <1>3 DEF Working, Here, C, Tgt
<1>6. job'[s].case # c /\ case'[c] = case[c] /\ rows' = rows
  BY DEF Looked
<1> QED BY <1>2, <1>3, <1>4, <1>5, <1>6, ClaimFrame

-----------------------------------------------------------------------------
(* Each step keeps the claims.                                               *)

LEMMA QuietClaim ==
  ASSUME Types, Claims, NEW s \in Sessions, NEW c \in Made, c \notin astray, Others(s),
         disk' = disk, job[s].case # c, job'[s].case # c, case'[c] = case[c],
         {r \in rows' : r.case = c} = {r \in rows : r.case = c}, Hereafter(s) \subseteq Here(s)
  PROVE  Claim(c)'
<1>1. Claim(c) /\ \A q : SameAt(q)
  BY DEF Claims, Made, SameAt
<1> QED BY <1>1, OtherClaim

LEMMA AfterSame == ASSUME NEW s, Same(s) PROVE Hereafter(s) = Here(s) /\ job'[s].case = C(s)
BY DEF Same, Hereafter, Here, C

LEMMA AfterOff ==
  ASSUME NEW s, Off(job'[s]) PROVE Hereafter(s) = {} /\ job'[s].case = 0
BY DEF Off, Hereafter

LEMMA NotZero == 0 \notin Made
BY FoldersOK DEF Made

LEMMA UserClaims ==
  ASSUME Types, Claims, NEW s \in Sessions,
         \/ \E c \in CaseIds, b \in Bases, l \in trip.labels, file \in BOOLEAN : Create(s, c, b, l, file)
         \/ \E c \in CaseIds : Amends(s, c)
         \/ Batch(s)
  PROVE  Claims'
<1> SUFFICES ASSUME NEW d \in CaseIds, d \in Made' \ astray' PROVE Claim(d)'
  BY DEF Claims, Claim
<1>1. /\ Others(s) /\ job[s] = NoJob /\ disk' = disk /\ rows' = rows /\ astray' = astray
      /\ Hereafter(s) = {}
      /\ \/ job'[s].case = d /\ job'[s].todo \in ToPlan \cup ToEnsure
         \/ d \in Made /\ case'[d] = case[d] /\ job'[s].case # d
  <2>1. ASSUME NEW c \in CaseIds, NEW b \in Bases, NEW l \in trip.labels, NEW file \in BOOLEAN,
               Create(s, c, b, l, file)
        PROVE  <1>1!:
    <3>1. /\ Made' = Made \cup {c} /\ c \notin Made /\ (\A e \in Made : case'[e] = case[e])
          /\ job'[s].case = c /\ job'[s].cur = None /\ job'[s].tgt = None
          /\ job'[s].todo \in ToPlan \cup ToEnsure /\ job[s] = NoJob
          /\ UNCHANGED <<rows, disk, astray>> /\ Others(s)
      BY <2>1, CreateTyped DEF Others
    <3> QED BY <3>1 DEF Hereafter
  <2>2. ASSUME NEW c \in CaseIds, Amends(s, c) PROVE <1>1!:
    <3>1. /\ Made' = Made /\ c \in Made /\ (\A e \in Made \ {c} : case'[e] = case[e])
          /\ job'[s].case = c /\ job'[s].cur = None /\ job'[s].tgt = None
          /\ job'[s].todo \in ToPlan /\ job[s] = NoJob
          /\ UNCHANGED <<rows, disk, astray>> /\ Others(s)
      BY <2>2, AmendTyped DEF Others, Amends
    <3> QED BY <3>1 DEF Hereafter
  <2>3. CASE Batch(s)
    <3>1. /\ Off(job'[s]) /\ job[s] = NoJob /\ UNCHANGED <<case, rows, disk, astray>> /\ Others(s)
      BY <2>3, BatchTyped DEF Others, caseDb
    <3>2. Made' = Made
      BY <3>1 DEF Made
    <3> QED BY <3>1, <3>2, AfterOff, NotZero
  <2> QED BY <2>1, <2>2, <2>3
<1>2. CASE job'[s].case = d /\ job'[s].todo \in ToPlan \cup ToEnsure
  BY <1>2, WaitClaim DEF Ahead
<1>3. CASE d \in Made /\ case'[d] = case[d] /\ job'[s].case # d
  <2>1. job[s].case # d
    BY <1>1, <1>3, NotZero, IdleIs
  <2> QED BY <1>1, <1>3, <2>1, QuietClaim
<1> QED BY <1>1, <1>2, <1>3

LEMMA NextCaseClaims ==
  ASSUME Types, Claims, NEW s \in Sessions, NextCase(s)
  PROVE  Claims'
<1> SUFFICES ASSUME NEW d \in CaseIds, d \in Made' \ astray' PROVE Claim(d)'
  BY DEF Claims, Claim
<1>1. /\ Others(s) /\ job[s].case = 0
      /\ \/ Off(job'[s])
         \/ /\ job'[s].case \in Made /\ job'[s].cur = None /\ job'[s].tgt = None
            /\ job'[s].todo \in ToPlan
      /\ UNCHANGED <<case, rows, disk, astray>>
  BY NextCaseTyped
<1>2. Hereafter(s) = {}
  BY <1>1, AfterOff DEF Hereafter
<1>3. d \in Made
  BY <1>1 DEF Made
<1>4. CASE job'[s].case = d
  <2>1. job'[s].todo \in Ahead
    BY <1>1, <1>3, <1>4, NotZero, AfterOff DEF Ahead
  <2> QED BY <1>4, <2>1, WaitClaim
<1>5. CASE job'[s].case # d
  BY <1>1, <1>2, <1>3, <1>5, NotZero, QuietClaim
<1> QED BY <1>4, <1>5

LEMMA StopClaims ==
  ASSUME Types, Claims, NEW s \in Sessions, Stop(s)
  PROVE  Claims'
<1> SUFFICES ASSUME NEW d \in CaseIds, d \in Made' \ astray' PROVE Claim(d)'
  BY DEF Claims, Claim
<1>1. /\ Others(s) /\ C(s) \in Made
      /\ Off(job'[s]) \/ /\ job'[s].case = C(s)
                         /\ job'[s].cur = job[s].cur /\ job'[s].tgt = job[s].tgt
      /\ UNCHANGED <<case, rows, disk>> /\ astray' = astray \cup {C(s)}
  BY StopTyped, Zenon
<1>2. Hereafter(s) \subseteq Here(s)
  BY <1>1, AfterOff DEF Hereafter, Here
<1>3. d \in Made /\ d # C(s) /\ d \notin astray
  BY <1>1 DEF Made
<1>4. job'[s].case # d /\ job[s].case # d
  BY <1>1, <1>3, NotZero, AfterOff DEF C
<1> QED BY <1>1, <1>2, <1>3, <1>4, QuietClaim

LEMMA EnsureClaims ==
  ASSUME Types, Claims, NEW s \in Sessions, Ensure(s)
  PROVE  Claims'
<1> SUFFICES ASSUME NEW d \in CaseIds, d \in Made' \ astray' PROVE Claim(d)'
  BY DEF Claims, Claim
<1>1. /\ Others(s) /\ job'[s].todo \in FirstBook /\ UNCHANGED <<case, rows, disk>>
      /\ \E cur, tgt : Looked(s, cur, tgt)
  BY EnsureTyped, Zenon
<1>2. d \in Made /\ Claim(d)
  BY <1>1 DEF Made, Claims
<1>3. CASE d = C(s)
  BY <1>1, <1>3, WaitClaim DEF Ahead, Placed, Looked
<1>4. CASE d # C(s)
  BY <1>1, <1>2, <1>4, LookedOther DEF C
<1> QED BY <1>3, <1>4

LEMMA PlanClaims ==
  ASSUME Types, Claims, NEW s \in Sessions, Plan(s)
  PROVE  Claims'
<1> SUFFICES ASSUME NEW d \in CaseIds, d \in Made' \ astray' PROVE Claim(d)'
  BY DEF Claims, Claim
<1>1. /\ Others(s) /\ job'[s].todo \in ToMove /\ UNCHANGED <<case, rows, disk>>
      /\ \E cur : Looked(s, cur, FreePath(C(s), cur))
  BY PlanTyped, Zenon
<1>2. d \in Made /\ Claim(d)
  BY <1>1 DEF Made, Claims
<1>3. CASE d = C(s)
  <2> DEFINE tgt(cur) == FreePath(C(s), cur)
  <2>1. PICK cur : Looked(s, cur, tgt(cur))
    BY <1>1
  <2>2. /\ job'[s].case = d /\ job'[s].cur = cur /\ job'[s].tgt = tgt(cur)
        /\ job'[s].path = case[d].path /\ Meets(s, d, cur, tgt(cur)) /\ cur \in Found(d)
    BY <1>3, <2>1 DEF Looked
  <2>3. /\ \A z \in Sessions \ {s} : C(z) # 0 =>
             C(z) # d /\ {job[z].cur, Tgt(z)} \cap ({cur, tgt(cur)} \ {None}) = {}
        /\ \A p \in ({cur, tgt(cur)} \ {None}) \cap DOMAIN disk : disk[p].book.of \in {0, d}
    BY <2>2, MeetsNone
  <2>4. /\ Named(d, tgt(cur)) /\ (tgt(cur) = cur \/ tgt(cur) \notin DOMAIN disk) /\ tgt(cur) # None
    BY <1>2, <1>3, TargetIs DEF Named
  <2>5. cur # None => cur \in DOMAIN disk
    BY <1>2, <2>2, FoundIs
  <2>6. \A z \in Sessions \ {s} : Here(z)' \cap Here(s)' = {}
    <3> TAKE z \in Sessions \ {s}
    <3>1. job'[z] = job[z]
      BY <1>1 DEF Others
    <3>2. Here(s)' = {cur, tgt(cur)} \ {None} /\ Here(z)' = Here(z)
      BY <2>2, <3>1 DEF Here
    <3>3. CASE C(z) = 0
      BY <3>2, <3>3, Nowhere DEF C
    <3>4. CASE C(z) # 0
      BY <2>3, <3>2, <3>4 DEF Here, Tgt
    <3> QED BY <3>3, <3>4
  <2> HIDE DEF tgt
  <2>7. job'[s].todo \in Unnamed
    BY <1>1 DEF Unnamed
  <2>8. job'[s].todo \notin ToRows \cup ToPath \cup ToBook \cup ToMark \cup ToGather
    BY <1>1, PhasesApart
  <2>9. job'[s].tgt.base = Base(d)' /\ job'[s].tgt.name = Name(d)'
    <3>1. Base(d)' = Base(d) /\ Name(d)' = Name(d)
      BY <1>1 DEF Base, Name
    <3> QED BY <2>2, <2>4, <3>1 DEF Named
  <2>10. UnderWay(d, s)'
    <3>1. /\ job'[s].cur # job'[s].tgt => job'[s].tgt \notin DOMAIN disk'
          /\ job'[s].cur # None => job'[s].cur \in DOMAIN disk' /\ disk'[job'[s].cur].book.of \in {0, d}
      BY <1>1, <2>2, <2>3, <2>4, <2>5
    <3>2. job'[s].path = case'[d].path
      BY <1>1, <2>2
    <3> QED BY <2>6, <2>7, <2>8, <2>9, <3>1, <3>2 DEF UnderWay, OwnBook, Named
  <2>11. Working(d)' = {s}
    <3>1. \A z \in Sessions \ {s} : job'[z].case # d
      BY <1>1, <1>2, <2>3, NotZero DEF Others, C
    <3> QED BY <2>2, <3>1 DEF Working
  <2> QED BY <2>10, <2>11 DEF Claim
<1>4. CASE d # C(s)
  BY <1>1, <1>2, <1>4, LookedOther DEF C
<1> QED BY <1>3, <1>4

(* Writing into the call's own folder concerns no other case.                 *)
LEMMA WriteOther ==
  ASSUME Types, Claims, NEW s \in Sessions, NEW c \in Made, c \notin astray, Others(s),
         c # C(s), \/ Same(s)
                   \/ Off(job'[s]),
         case'[c] = case[c], rows' = rows, KeptBut({job[s].tgt}), job[s].tgt # None
  PROVE  Claim(c)'
<1>1. Hereafter(s) \subseteq Here(s) /\ job'[s].case # c /\ job[s].case # c
  BY AfterSame, AfterOff, NotZero DEF C
<1>2. \A q : q \notin Here(s) => SameAt(q)
  BY DEF Here, KeptBut, SameAt
<1>3. Claim(c)
  BY DEF Claims, Made
<1> QED BY <1>1, <1>2, <1>3, OtherClaim

LEMMA MoveClaims ==
  ASSUME Types, Claims, NEW s \in Sessions, Move(s)
  PROVE  Claims'
<1> SUFFICES ASSUME NEW d \in CaseIds, d \in Made' \ astray' PROVE Claim(d)'
  BY DEF Claims, Claim
<1> DEFINE cur == job[s].cur
           tgt == job[s].tgt
<1>1. /\ Others(s) /\ Same(s) /\ C(s) \in Made /\ job[s].todo \in ToMove /\ IsTarget(tgt)
      /\ UNCHANGED <<case, rows, astray>> /\ (Moved(s) \/ MadeHere(s) \/ LeftAlone(s))
  BY MoveKeepsTypes, Zenon
<1>2. d \in Made /\ Claim(d) /\ d \notin astray
  BY <1>1 DEF Made, Claims
<1>3. tgt # None /\ \A q : IsTarget(q) => Inside(tgt) # q
  <2>1. None.n = 0
    BY DEF None, Place
  <2> QED BY <1>1, <2>1, InsideIs DEF IsTarget
<1>4. CASE d # C(s)
  <2>1. Hereafter(s) \subseteq Here(s) /\ job'[s].case # d /\ job[s].case # d
    BY <1>1, <1>4, AfterSame DEF C
  <2>2. \A q : q \notin Here(s) /\ (q \in DOMAIN disk \/ IsTarget(q)) => SameAt(q)
    <3> TAKE q
    <3> HAVE q \notin Here(s) /\ (q \in DOMAIN disk \/ IsTarget(q))
    <3>1. q # tgt /\ (cur # None => q # cur)
      BY <1>3 DEF Here
    <3>2. CASE Moved(s)
      <4>1. PICK to : /\ to = (IF tgt \in DOMAIN disk THEN Inside(tgt) ELSE tgt)
                      /\ to \notin DOMAIN disk
                      /\ DOMAIN disk' = (DOMAIN disk \ {cur}) \cup {to}
                      /\ KeptBut({cur, to})
        BY <3>2 DEF Moved
      <4>2. q # to /\ q # cur
        BY <1>3, <3>1, <3>2, <4>1 DEF Moved
      <4> QED BY <4>1, <4>2 DEF KeptBut, SameAt
    <3>3. CASE MadeHere(s)
      BY <3>1, <3>3 DEF MadeHere, KeptBut, SameAt
    <3>4. CASE LeftAlone(s)
      BY <3>4 DEF LeftAlone, SameAt
    <3> QED BY <1>1, <3>2, <3>3, <3>4
  <2>3. case'[d] = case[d] /\ rows' = rows
    BY <1>1
  <2> QED BY <1>1, <1>2, <2>1, <2>2, <2>3, OtherClaim
<1>5. CASE d = C(s)
  <2>1. ASSUME UnderWay(d, s) PROVE UnderWay(d, s)'
    <3>1. /\ Named(d, tgt) /\ job[s].path = case[d].path
          /\ cur # tgt => tgt \notin DOMAIN disk
          /\ cur # None => cur \in DOMAIN disk /\ disk[cur].book.of \in {0, d}
      BY <1>1, <2>1 DEF UnderWay, Unnamed, OwnBook
    <3>2. \A z \in Sessions \ {s} : Here(z)' \cap Here(s)' = {}
      BY <1>1, <2>1, StillApart
    <3>3. job'[s].todo \in ToRows \cup ToPath
      BY <1>1 DEF Moved, MadeHere, LeftAlone
    <3>4. tgt \in DOMAIN disk' => disk'[tgt].book.of \in {0, d}
      <4>1. CASE Moved(s)
        <5>1. tgt \notin DOMAIN disk
          BY <3>1, <4>1 DEF Moved
        <5>2. disk'[tgt] = disk[cur] /\ cur # None
          BY <4>1, <5>1 DEF Moved
        <5> QED BY <3>1, <5>2
      <4>2. CASE MadeHere(s)
        <5>1. tgt \notin DOMAIN disk /\ disk'[tgt] = Dir(tgt)
          BY <1>3, <3>1, <4>2 DEF MadeHere
        <5>2. Dir(tgt).book = NoBook /\ NoBook.of = 0
          BY <5>1, DirIs DEF NoBook
        <5> QED BY <5>1, <5>2
      <4>3. CASE LeftAlone(s)
        BY <1>3, <3>1, <4>3 DEF LeftAlone
      <4> QED BY <1>1, <4>1, <4>2, <4>3
    <3>5. job'[s].tgt = tgt /\ job'[s].path = case'[d].path
      BY <1>1, <3>1 DEF Same
    <3>6. tgt.base = Base(d)' /\ tgt.name = Name(d)'
      <4>1. Base(d)' = Base(d) /\ Name(d)' = Name(d)
        BY <1>1 DEF Base, Name
      <4> QED BY <3>1, <4>1 DEF Named
    <3>7. /\ job'[s].todo \in Unnamed
          /\ job'[s].todo \notin ToMove \cup ToMark \cup ToGather
      BY <3>3, PhasesApart DEF Unnamed
    <3> QED BY <3>2, <3>4, <3>5, <3>6, <3>7 DEF UnderWay, OwnBook, Named
  <2>2. job'[s].case = d /\ job[s].todo \in Past
    BY <1>1, <1>5, AfterSame DEF Past, Unnamed
  <2> QED BY <1>1, <1>2, <1>5, <2>1, <2>2, OwnClaim
<1> QED BY <1>4, <1>5

LEMMA RowsClaims ==
  ASSUME Types, Listed, Claims, NEW s \in Sessions, Rows(s) \/ NewRow(s)
  PROVE  Claims'
<1> SUFFICES ASSUME NEW d \in CaseIds, d \in Made' \ astray' PROVE Claim(d)'
  BY DEF Claims, Claim
<1>1. /\ Others(s) /\ Same(s) /\ C(s) \in Made
      /\ \/ job[s].todo \in ToRows /\ job'[s].todo \in ToPath
         \/ job[s].todo \in FirstRow /\ job'[s].todo \in ToPlan
      /\ UNCHANGED <<case, disk, astray>>
      /\ \A c \in CaseIds \ {C(s)} : {r \in rows' : r.case = c} = {r \in rows : r.case = c}
  BY RowsTyped, Zenon
<1>2. d \in Made /\ Claim(d) /\ d \notin astray
  BY <1>1 DEF Made, Claims
<1>3. Hereafter(s) \subseteq Here(s) /\ job'[s].case = C(s) /\ job[s].case = C(s)
  BY <1>1, AfterSame DEF C
<1>4. CASE d # C(s)
  BY <1>1, <1>2, <1>3, <1>4, QuietClaim
<1>5. CASE d = C(s) /\ job'[s].todo \in ToPlan
  BY <1>3, <1>5, WaitClaim DEF Ahead
<1>6. CASE d = C(s) /\ job[s].todo \in ToRows /\ job'[s].todo \in ToPath
  <2>1. ASSUME UnderWay(d, s) PROVE UnderWay(d, s)'
    <3>1. /\ Named(d, job[s].tgt) /\ job[s].path = case[d].path
          /\ job[s].tgt \in DOMAIN disk => disk[job[s].tgt].book.of \in {0, d}
      BY <1>6, <2>1 DEF UnderWay, Unnamed, OwnBook
    <3>2. \A z \in Sessions \ {s} : Here(z)' \cap Here(s)' = {}
      BY <1>1, <2>1, StillApart
    <3>3. job'[s].tgt = job[s].tgt /\ job'[s].path = case'[d].path
      BY <1>1, <3>1 DEF Same
    <3>4. job[s].tgt.base = Base(d)' /\ job[s].tgt.name = Name(d)'
      <4>1. Base(d)' = Base(d) /\ Name(d)' = Name(d)
        BY <1>1 DEF Base, Name
      <4> QED BY <3>1, <4>1 DEF Named
    <3>5. /\ job'[s].todo \in Unnamed
          /\ job'[s].todo \notin ToMove \cup ToMark \cup ToGather
      BY <1>6, PhasesApart DEF Unnamed
    <3> QED BY <1>1, <3>1, <3>2, <3>3, <3>4, <3>5 DEF UnderWay, OwnBook, Named
  <2>2. job[s].todo \in Past
    BY <1>6 DEF Past, Unnamed
  <2> QED BY <1>1, <1>2, <1>3, <1>6, <2>1, <2>2, OwnClaim
<1> QED BY <1>1, <1>4, <1>5, <1>6

LEMMA PathClaims ==
  ASSUME Types, Claims, NEW s \in Sessions, Path(s)
  PROVE  Claims'
<1> SUFFICES ASSUME NEW d \in CaseIds, d \in Made' \ astray' PROVE Claim(d)'
  BY DEF Claims, Claim
<1>1. /\ Made' = Made /\ Others(s) /\ Same(s) /\ C(s) \in Made
      /\ \/ job[s].todo \in ToPath /\ job'[s].todo \in ToBook
         \/ job[s].todo \in FirstPath /\ job'[s].todo \in FirstFile
      /\ UNCHANGED <<rows, disk, astray>>
      /\ \A e \in Made \ {C(s)} : case'[e] = case[e]
      /\ case'[C(s)].base = case[C(s)].base /\ case'[C(s)].label = case[C(s)].label
      /\ case'[C(s)].cancelled = case[C(s)].cancelled
      /\ \/ case'[C(s)].path = Stored(job[s].tgt)
         \/ job[s].path = Stored(job[s].tgt) /\ case'[C(s)] = case[C(s)]
  BY PathTyped, Zenon
<1>2. d \in Made /\ Claim(d) /\ d \notin astray
  BY <1>1 DEF Claims
<1>3. Hereafter(s) \subseteq Here(s) /\ job'[s].case = C(s) /\ job[s].case = C(s)
  BY <1>1, AfterSame DEF C
<1>4. CASE d # C(s)
  BY <1>1, <1>2, <1>3, <1>4, QuietClaim
<1>5. CASE d = C(s) /\ job'[s].todo \in FirstFile
  BY <1>3, <1>5, WaitClaim DEF Ahead, Placed
<1>6. CASE d = C(s) /\ job[s].todo \in ToPath /\ job'[s].todo \in ToBook
  <2>1. ASSUME UnderWay(d, s) PROVE UnderWay(d, s)'
    <3>1. /\ Named(d, job[s].tgt) /\ job[s].path = case[d].path
          /\ job[s].tgt \in DOMAIN disk => disk[job[s].tgt].book.of \in {0, d}
      BY <1>6, <2>1 DEF UnderWay, Unnamed, OwnBook
    <3>2. \A z \in Sessions \ {s} : Here(z)' \cap Here(s)' = {}
      BY <1>1, <2>1, StillApart
    <3>3. job'[s].tgt = job[s].tgt
      BY <1>1 DEF Same
    <3>4. job[s].tgt.base = Base(d)' /\ job[s].tgt.name = Name(d)'
      <4>1. Base(d)' = Base(d) /\ Name(d)' = Name(d)
        BY <1>1, <1>6 DEF Base, Name
      <4> QED BY <3>1, <4>1 DEF Named
    <3>5. /\ job'[s].todo \notin Unnamed
          /\ job'[s].todo \notin ToMove \cup ToMark \cup ToGather
      BY <1>6, PhasesApart DEF Unnamed
    <3>6. case'[d].path.at = job[s].tgt
      <4>1. Stored(job[s].tgt).at = job[s].tgt
        BY DEF Stored
      <4> QED BY <1>1, <1>6, <3>1, <4>1
    <3> QED BY <1>1, <3>1, <3>2, <3>3, <3>4, <3>5, <3>6 DEF UnderWay, OwnBook, Named
  <2>2. job[s].todo \in Past
    BY <1>6 DEF Past, Unnamed
  <2> QED BY <1>1, <1>2, <1>3, <1>6, <2>1, <2>2, OwnClaim
<1> QED BY <1>1, <1>4, <1>5, <1>6

LEMMA BookClaims ==
  ASSUME Types, Claims, NEW s \in Sessions, Book(s)
  PROVE  Claims'
<1> SUFFICES ASSUME NEW d \in CaseIds, d \in Made' \ astray' PROVE Claim(d)'
  BY DEF Claims, Claim
<1> DEFINE tgt == job[s].tgt
<1>1. /\ Others(s) /\ Same(s) /\ C(s) \in Made /\ tgt # None
      /\ \/ job[s].todo \in ToBook /\ job'[s].todo \in ToMark
         \/ job[s].todo \in FirstBook /\ job'[s].todo \in FirstMark
      /\ UNCHANGED <<case, rows, clock, astray>>
      /\ \E f : /\ Writes(s, f)
                /\ \/ f.book = Written(C(s))
                   \/ /\ f.book = Dir(tgt).book /\ f.book # NoBook
                      /\ tgt \in DOMAIN disk
                      /\ ~(case[C(s)].stamp > f.book.at)
  BY BookTyped, Zenon
<1>2. d \in Made /\ Claim(d) /\ d \notin astray
  BY <1>1 DEF Made, Claims
<1>3. job'[s].case = C(s)
  BY <1>1, AfterSame
<1>4. CASE d # C(s)
  <2>1. KeptBut({tgt}) /\ case'[d] = case[d] /\ rows' = rows
    BY <1>1 DEF Writes
  <2> QED BY <1>1, <1>2, <1>4, <2>1, WriteOther
<1>5. CASE d = C(s) /\ job'[s].todo \in FirstMark
  BY <1>3, <1>5, WaitClaim DEF Ahead, Placed
<1>6. CASE d = C(s) /\ job[s].todo \in ToBook /\ job'[s].todo \in ToMark
  <2>1. ASSUME UnderWay(d, s) PROVE UnderWay(d, s)'
    <3>1. /\ Named(d, tgt) /\ case[d].path.at = tgt
          /\ tgt \in DOMAIN disk => disk[tgt].book.of \in {0, d}
      BY <1>6, <2>1, PhasesApart DEF UnderWay, OwnBook
    <3>2. \A z \in Sessions \ {s} : Here(z)' \cap Here(s)' = {}
      BY <1>1, <2>1, StillApart
    <3>3. job'[s].tgt = tgt
      BY <1>1 DEF Same
    <3>4. tgt.base = Base(d)' /\ tgt.name = Name(d)'
      <4>1. Base(d)' = Base(d) /\ Name(d)' = Name(d)
        BY <1>1 DEF Base, Name
      <4> QED BY <3>1, <4>1 DEF Named
    <3>5. /\ job'[s].todo \notin Unnamed
          /\ job'[s].todo \notin ToMove \cup ToRows \cup ToPath \cup ToBook \cup ToGather
      BY <1>6, PhasesApart DEF Unnamed
    <3>6. /\ tgt \in DOMAIN disk' /\ disk'[tgt].book.of = d
          /\ disk'[tgt].book.data = case[d].data \/ disk'[tgt].book.at = case[d].stamp
      <4>1. PICK f : /\ Writes(s, f)
                     /\ \/ f.book = Written(d)
                        \/ /\ f.book = Dir(tgt).book /\ f.book # NoBook
                           /\ tgt \in DOMAIN disk
                           /\ ~(case[d].stamp > f.book.at)
        BY <1>1, <1>6
      <4>2. tgt \in DOMAIN disk' /\ disk'[tgt] = f
        BY <4>1 DEF Writes
      <4>3. CASE f.book = Written(d)
        <5>1. f.book.of = d /\ f.book.data = case[d].data
          BY <4>3 DEF Written
        <5> QED BY <4>2, <5>1
      <4>4. CASE /\ f.book = Dir(tgt).book /\ f.book # NoBook /\ tgt \in DOMAIN disk
                 /\ ~(case[d].stamp > f.book.at)
        <5>1. f.book = disk[tgt].book
          BY <4>4, DirIs
        <5>2. f.book.of = d /\ f.book.at \in Nat
          <6>1. FolderOK(disk[tgt], Made)
            BY <4>4 DEF Types
          <6> QED BY <3>1, <4>4, <5>1, <6>1, NotZero DEF FolderOK
        <5>3. case[d].stamp \in Nat /\ UpToDate(d)
          BY <1>2 DEF Types, FileOK
        <5>4. f.book.data = case[d].data \/ f.book.at = case[d].stamp
          BY <4>4, <5>1, <5>2, <5>3 DEF UpToDate
        <5> QED BY <4>2, <5>2, <5>4
      <4> QED BY <4>1, <4>3, <4>4
    <3>7. Booked(d, tgt)' <=> /\ tgt' \in DOMAIN disk' /\ disk'[tgt'].book.of = d
                              /\ disk'[tgt'].book.data = case'[d].data \/ disk'[tgt'].book.at = case'[d].stamp
      BY DEF Booked
    <3>8. Booked(d, tgt)'
      BY <1>1, <3>3, <3>6, <3>7
    <3> QED BY <1>1, <3>1, <3>2, <3>3, <3>4, <3>5, <3>8 DEF UnderWay, Named
  <2>2. job[s].todo \in Past
    BY <1>6 DEF Past
  <2> QED BY <1>1, <1>2, <1>3, <1>6, <2>1, <2>2, OwnClaim
<1> QED BY <1>1, <1>4, <1>5, <1>6

LEMMA MarkClaims ==
  ASSUME Types, Claims, NEW s \in Sessions, Mark(s)
  PROVE  Claims'
<1> SUFFICES ASSUME NEW d \in CaseIds, d \in Made' \ astray' PROVE Claim(d)'
  BY DEF Claims, Claim
<1> DEFINE tgt == job[s].tgt
<1>1. /\ Others(s) /\ C(s) \in Made /\ tgt # None
      /\ \/ /\ job[s].todo \in ToMark
            /\ (Same(s) /\ job'[s].todo \in ToGather) \/ Off(job'[s])
         \/ job[s].todo \in FirstMark /\ Same(s) /\ job'[s].todo \in FirstPath
      /\ UNCHANGED <<case, rows, astray>>
      /\ \E f : /\ Writes(s, f) /\ f.mark = C(s) /\ f.print = Stamped(C(s))
                /\ f.book = Dir(tgt).book
  BY MarkTyped, Zenon
<1>2. d \in Made /\ Claim(d) /\ d \notin astray
  BY <1>1 DEF Made, Claims
<1>3. CASE d # C(s)
  <2>1. KeptBut({tgt}) /\ case'[d] = case[d] /\ rows' = rows
    BY <1>1 DEF Writes
  <2> QED BY <1>1, <1>2, <1>3, <2>1, WriteOther
<1>4. CASE d = C(s) /\ job[s].todo \in FirstMark /\ Same(s) /\ job'[s].todo \in FirstPath
  BY <1>4, AfterSame, WaitClaim DEF Ahead, Placed
<1>5. CASE d = C(s) /\ job[s].todo \in ToMark
  <2>1. ASSUME UnderWay(d, s)
        PROVE  /\ case'[d].path.at = tgt /\ tgt.base = Base(d)' /\ tgt.name = Name(d)'
               /\ tgt \in DOMAIN disk' /\ disk'[tgt].book.of = d /\ disk'[tgt].mark = d
               /\ disk'[tgt].print = Stamped(d)'
               /\ disk'[tgt].book.data = case'[d].data \/ disk'[tgt].book.at = case'[d].stamp
               /\ \A z \in Sessions \ {s} : tgt \notin Here(z)
    <3>1. /\ Named(d, tgt) /\ case[d].path.at = tgt /\ Booked(d, tgt)
          /\ \A z \in Sessions \ {s} : Here(z) \cap Here(s) = {}
      BY <1>5, <2>1, PhasesApart DEF UnderWay
    <3>2. Base(d)' = Base(d) /\ Name(d)' = Name(d) /\ Stamped(d)' = Stamped(d)
      BY <1>1 DEF Base, Name, Stamped
    <3>3. PICK f : /\ Writes(s, f) /\ f.mark = d /\ f.print = Stamped(d)
                   /\ f.book = Dir(tgt).book
      BY <1>1, <1>5
    <3>4. tgt \in DOMAIN disk' /\ disk'[tgt] = f /\ f.book = disk[tgt].book
      BY <3>1, <3>3, DirIs DEF Writes, Booked
    <3>5. tgt \in Here(s)
      BY <1>1 DEF Here
    <3> QED BY <1>1, <3>1, <3>2, <3>3, <3>4, <3>5 DEF Named, Booked
  <2>2. ASSUME UnderWay(d, s), Same(s), job'[s].todo \in ToGather PROVE UnderWay(d, s)'
    <3>1. job'[s].tgt = tgt
      BY <2>2 DEF Same
    <3>2. \A z \in Sessions \ {s} : Here(z)' \cap Here(s)' = {}
      BY <1>1, <2>2, StillApart
    <3>3. /\ job'[s].todo \notin Unnamed
          /\ job'[s].todo \notin ToMove \cup ToRows \cup ToPath \cup ToBook
      BY <2>2, PhasesApart DEF Unnamed
    <3> QED BY <2>1, <2>2, <3>1, <3>2, <3>3 DEF UnderWay, Named, Booked, Signed
  <2>3. ASSUME UnderWay(d, s), Off(job'[s]) PROVE Settled(d)'
    <3>1. Hereafter(s) = {}
      BY <2>3, AfterOff
    <3>2. \A z \in Sessions : tgt \notin Here(z)'
      BY <1>1, <2>1, <2>3, <3>1 DEF Hereafter, Here, Others
    <3> HIDE DEF tgt
    <3> QED BY <2>1, <2>3, <3>2 DEF Settled, Named, Booked, Signed
  <2>4. Same(s) => job'[s].case = d
    BY <1>5, AfterSame
  <2>5. Off(job'[s]) => job'[s].case # d
    BY <1>2, AfterOff, NotZero
  <2>6. (Same(s) /\ job'[s].todo \in ToGather) \/ Off(job'[s])
    BY <1>1, <1>5, PhasesApart DEF Past, Ahead, Placed
  <2>7. job[s].todo \in Past
    BY <1>5 DEF Past
  <2> QED BY <1>1, <1>2, <1>5, <2>2, <2>3, <2>4, <2>5, <2>6, <2>7, OwnClaim
<1> QED BY <1>1, <1>3, <1>4, <1>5

LEMMA FileClaims ==
  ASSUME Types, Claims, NEW s \in Sessions, File(s)
  PROVE  Claims'
<1> SUFFICES ASSUME NEW d \in CaseIds, d \in Made' \ astray' PROVE Claim(d)'
  BY DEF Claims, Claim
<1>1. /\ Others(s) /\ Same(s) /\ C(s) \in Made /\ job[s].tgt # None
      /\ job'[s].todo \in FirstRow
      /\ UNCHANGED <<case, rows, astray>> /\ \E f : Writes(s, f)
  BY FileTyped, Zenon
<1>2. d \in Made /\ d \notin astray
  BY <1>1 DEF Made
<1>3. CASE d # C(s)
  <2>1. KeptBut({job[s].tgt}) /\ case'[d] = case[d] /\ rows' = rows
    BY <1>1 DEF Writes
  <2> QED BY <1>1, <1>2, <1>3, <2>1, WriteOther
<1>4. CASE d = C(s)
  BY <1>1, <1>4, AfterSame, WaitClaim DEF Ahead, Placed
<1> QED BY <1>3, <1>4

LEMMA GatherClaims ==
  ASSUME Types, Claims, NEW s \in Sessions, Gather(s)
  PROVE  Claims'
<1> SUFFICES ASSUME NEW d \in CaseIds, d \in Made' \ astray' PROVE Claim(d)'
  BY DEF Claims, Claim
<1> DEFINE tgt == job[s].tgt
<1>1. /\ Others(s) /\ Off(job'[s]) /\ C(s) \in Made /\ IsTarget(tgt)
      /\ job[s].todo \in ToGather /\ tgt \in DOMAIN disk /\ UNCHANGED <<case, rows>>
  BY GatherTyped, Zenon
<1>p. PICK p : CopiedTo(s, p)
  BY GatherTyped, Zenon
<1>2. /\ p.base = "gather" /\ p # None
      /\ DOMAIN disk' = DOMAIN disk \cup {p} /\ KeptBut({p})
      /\ astray' = astray \cup {C(z) : z \in {z \in Sessions \ {s} : job[z].cur = p}}
  BY <1>p DEF CopiedTo
<1>3. d \in Made /\ Claim(d) /\ d \notin astray
  BY <1>1, <1>2 DEF Made, Claims
<1>4. \A z \in Sessions \ {s} : C(z) = d => job[z].cur # p
  BY <1>2
<1>5. Hereafter(s) = {} /\ job'[s].case = 0 /\ d # 0
  BY <1>1, <1>3, AfterOff, NotZero
<1>6. \A q : q # p => SameAt(q)
  BY <1>2 DEF KeptBut, SameAt
<1>7. \A q : IsTarget(q) => q # p
  BY FoldersOK, <1>2 DEF IsTarget
<1>8. \A q : Named(d, q) => q # p
  <2>1. Base(d) \in Bases
    BY <1>3 DEF Types, FileOK, Base
  <2> QED BY FoldersOK, <1>2, <2>1 DEF Named
<1>9. CASE d # C(s)
  <2>1. ASSUME ~Waiting(d), NEW z \in Working(d) PROVE \A q \in Spots(z) : SameAt(q)
    <3>1. IsTarget(job[z].tgt) /\ z \in Sessions \ {s} /\ C(z) = d
      BY <1>3, <1>9, <2>1, WorkingIs DEF Working, C
    <3> QED BY <1>4, <1>6, <1>7, <3>1 DEF Spots
  <2>2. ASSUME ~Waiting(d), Working(d) = {} PROVE SameAt(case[d].path.at)
    BY <1>3, <1>6, <1>8, <2>2 DEF Claim, Settled
  <2>3. job[s].case # d /\ case'[d] = case[d] /\ rows' = rows
    BY <1>1, <1>9 DEF C
  <2> QED BY <1>1, <1>3, <1>5, <2>1, <2>2, <2>3, ClaimFrame
<1>10. CASE d = C(s)
  <2>1. ASSUME UnderWay(d, s) PROVE Settled(d)'
    <3>1. /\ Named(d, tgt) /\ case[d].path.at = tgt /\ Booked(d, tgt) /\ Signed(d, tgt)
          /\ \A z \in Sessions \ {s} : Here(z) \cap Here(s) = {}
      BY <1>1, <2>1, PhasesApart DEF UnderWay
    <3>2. Base(d)' = Base(d) /\ Name(d)' = Name(d) /\ Stamped(d)' = Stamped(d)
      BY <1>1 DEF Base, Name, Stamped
    <3>3. tgt \in DOMAIN disk' /\ disk'[tgt] = disk[tgt]
      BY <1>1, <1>6, <1>7 DEF SameAt
    <3>4. tgt \in Here(s)
      <4>1. None.n = 0
        BY DEF None, Place
      <4> QED BY <1>1, <4>1 DEF Here, IsTarget
    <3>5. \A z \in Sessions : tgt \notin Here(z)'
      BY <1>1, <1>5, <3>1, <3>4 DEF Hereafter, Here, Others
    <3>6. case'[d].path.at = tgt /\ tgt.base = Base(d)' /\ tgt.name = Name(d)'
      BY <1>1, <3>1, <3>2 DEF Named
    <3>7. /\ disk'[tgt].book.of = d /\ disk'[tgt].mark = d /\ disk'[tgt].print = Stamped(d)'
          /\ disk'[tgt].book.data = case'[d].data \/ disk'[tgt].book.at = case'[d].stamp
      BY <1>1, <3>1, <3>2, <3>3 DEF Booked, Signed
    <3> HIDE DEF tgt
    <3> QED BY <3>3, <3>5, <3>6, <3>7 DEF Settled, Named, Booked, Signed
  <2>2. job[s].todo \in Past
    BY <1>1 DEF Past
  <2>3. job'[s].case # d
    BY <1>5
  <2> QED BY <1>1, <1>3, <1>10, <2>1, <2>2, <2>3, OwnClaim
<1> QED BY <1>9, <1>10

LEMMA ClaimsStep ==
  ASSUME Types, Listed, Claims, [FoldersNext]_fileVars
  PROVE  Claims'
<1>1. ASSUME Tick \/ Plug \/ Look \/ (\E r \in {"", "disk"} : SetRoot(r)) \/ UNCHANGED fileVars
      PROVE  Claims'
  <2>1. UNCHANGED <<case, rows, disk, job, astray>>
    BY <1>1 DEF Tick, Plug, Look, SetRoot, fileVars, caseDb
  <2>2. ASSUME NEW c \in CaseIds, Claim(c) PROVE Claim(c)'
    <3>1. Made' = Made /\ Working(c)' = Working(c) /\ Waiting(c)' = Waiting(c)
      BY <2>1 DEF Made, Working, Waiting
    <3>2. Settled(c)' = Settled(c)
      BY <2>1 DEF Settled, Named, Booked, Signed, Here, Base, Name, Stamped
    <3>3. \A s : UnderWay(c, s)' = UnderWay(c, s)
      BY <2>1 DEF UnderWay, Named, Booked, Signed, OwnBook, Here, Base, Name, Stamped
    <3> QED BY <2>1, <2>2, <3>1, <3>2, <3>3 DEF Claim
  <2> QED BY <2>2 DEF Claims
<1> QED BY <1>1, StepIs, UserClaims, NextCaseClaims, StopClaims, EnsureClaims, PlanClaims,
           MoveClaims, RowsClaims, PathClaims, BookClaims, MarkClaims, FileClaims, GatherClaims

-----------------------------------------------------------------------------
(* One session, no stop and no drive: no case ever goes astray, because what  *)
(* a case's call finds is nothing or the case's own folder.                  *)
Calm == Cardinality(trip.sessions) = 1 /\ ~trip.stop /\ ~trip.usb
Unseen(c) == case[c].path = NoPath /\ \A p \in DOMAIN disk : disk[p].mark # c
Known(c) ==
  LET p == case[c].path.at
  IN  p \in DOMAIN disk /\ disk[p].mark = c /\ OwnBook(c, p)
Coming(s) ==
  LET c == job[s].case
      t == job[s].tgt
      todo == job[s].todo
  IN  /\ todo \in Placed => IsTarget(t)
      /\ todo \in FirstBook \cup FirstMark \cup FirstPath => job[s].path = case[c].path
      /\ todo \in ToPlan => Unseen(c) \/ Known(c)
      /\ todo \in ToEnsure => Unseen(c)
      /\ todo \in FirstBook => Unseen(c) /\ t \notin DOMAIN disk
      /\ todo \in FirstMark => Unseen(c) /\ t \in DOMAIN disk /\ OwnBook(c, t)
      /\ todo \in FirstPath => t \in DOMAIN disk /\ disk[t].mark = c /\ OwnBook(c, t)
      /\ todo \in FirstFile \cup FirstRow => Known(c)
Tidy(d, made) == \A p \in DOMAIN d : p.n \in Nat \ {0} /\ d[p].mark \in made \cup {0}
Fixed(r) == ~r.path.rel /\ r.path.at.root # "usb"
CalmInv == Calm =>
  /\ astray = {} /\ ~usb /\ ~seen
  /\ Tidy(disk, Made) /\ \A c \in Made : Fixed(case[c])
  /\ \A s \in Sessions : job[s].tgt.root # "usb" /\ Coming(s)

LEMMA OneSession ==
  ASSUME Types, Calm, NEW s \in trip.sessions
  PROVE  \A z \in Sessions \ {s} : job[z] = NoJob
<1>1. IsFiniteSet(trip.sessions)
  BY FoldersOK DEF Types
<1>2. Cardinality(trip.sessions) = 1
  BY DEF Calm
<1>3. \E x : trip.sessions = {x}
  BY <1>1, <1>2, FS_Singleton
<1> QED BY <1>3 DEF Types, Calls

(* Nobody works on a case but the session there is, if it does.               *)
LEMMA NobodyElse ==
  ASSUME Types, Calm, CalmInv, Claims, NEW s \in Sessions, s \in trip.sessions, NEW c \in Made,
         job[s].case # c
  PROVE  Settled(c)
<1>1. Working(c) = {}
  BY OneSession, NotZero, IdleIs DEF Working
<1>2. ~Waiting(c)
  BY <1>1 DEF Waiting
<1> QED BY <1>1, <1>2 DEF Claims, Claim, CalmInv, Made

LEMMA CalmUnderWay ==
  ASSUME Types, Calm, CalmInv, Claims, NEW s \in Sessions, job[s].todo \in Past
  PROVE  UnderWay(C(s), s) /\ C(s) \in Made /\ IsTarget(job[s].tgt)
<1>1. JobOK(job[s], Made) /\ (job[s] # NoJob => s \in trip.sessions)
  BY DEF Types, Calls
<1>2. job[s] # NoJob /\ C(s) \in Made /\ IsTarget(job[s].tgt)
  BY <1>1, IdleIs, PhasesApart DEF JobOK, C
<1>3. \A z \in Working(C(s)) : z = s
  BY <1>1, <1>2, OneSession, NotZero, IdleIs DEF Working
<1>4. ~Waiting(C(s)) /\ s \in Working(C(s))
  BY <1>3, PhasesApart DEF Waiting, Working, C
<1> QED BY <1>2, <1>4 DEF Claims, Claim, CalmInv, Made

LEMMA ComingPast ==
  ASSUME NEW s \in Sessions, job'[s].todo \in Past \/ Off(job'[s])
  PROVE  Coming(s)'
<1>1. job'[s].todo \notin Ahead
  BY PhasesApart DEF Off
<1> QED BY <1>1 DEF Coming, Ahead, Placed

LEMMA CalmStep ==
  ASSUME Types, Calm, CalmInv, NEW s \in Sessions, s \in trip.sessions, Others(s),
         UNCHANGED <<trip, usb, seen>>, astray' = {}, Tidy(disk', Made'),
         \A c \in Made' : Fixed(case'[c]), job'[s].tgt.root # "usb", Coming(s)'
  PROVE  CalmInv'
<1>1. ASSUME NEW z \in Sessions PROVE job'[z].tgt.root # "usb" /\ Coming(z)'
  <2>1. CASE z = s
    BY <2>1
  <2>2. CASE z # s
    <3>1. job'[z] = NoJob
      BY <2>2, OneSession DEF Others
    <3>2. Off(job'[z])
      BY <3>1, IdleIs DEF Off
    <3>3. Coming(z)'
      BY <3>2, ComingPast
    <3>4. None.root = ""
      BY DEF None, Place
    <3> QED BY <3>1, <3>3, <3>4, IdleIs
  <2> QED BY <2>1, <2>2
<1>2. ~usb' /\ ~seen'
  BY DEF CalmInv
<1> QED BY <1>1, <1>2 DEF CalmInv

(* The places a calm call is sent to, and what it meets there: nothing.       *)
LEMMA CalmRoot == ASSUME Types, Calm, CalmInv PROVE Root # "usb"
BY DEF Root, CalmInv, Types

LEMMA CalmMeets ==
  ASSUME Types, Calm, CalmInv, Claims, NEW s \in Sessions, s \in trip.sessions,
         C(s) \in Made, NEW cur, NEW tgt, Meets(s, C(s), cur, tgt),
         cur # None => cur \in DOMAIN disk /\ disk[cur].mark = C(s) /\ OwnBook(C(s), cur),
         tgt = cur \/ tgt \notin DOMAIN disk
  PROVE  astray' = {}
<1> DEFINE c == C(s)
           here == {cur, tgt} \ {None}
           calls == {C(z) : z \in {z \in Sessions \ {s} : C(z) # 0 /\
                  \/ Name(C(z)) = Name(c) /\ Base(C(z)) = Base(c)
                  \/ C(z) = c \/ {job[z].cur, Tgt(z)} \cap here # {}}}
           owners == {e \in Made \ {c} : case[e].path.at \in here}
           books == {disk[p].book.of : p \in here \cap DOMAIN disk} \ {0, c}
<1>1. astray' = IF calls \cup owners \cup books = {} THEN astray \ {c}
                ELSE astray \cup {c} \cup calls \cup owners
  BY Zenon DEF Meets
<1>2. calls = {}
  BY OneSession, IdleIs DEF C
<1>3. owners = {}
  <2> SUFFICES ASSUME NEW e \in Made \ {c}, case[e].path.at \in here PROVE FALSE
    OBVIOUS
  <2>1. Settled(e)
    BY NobodyElse DEF C
  <2>2. case[e].path.at \in DOMAIN disk /\ disk[case[e].path.at].mark = e
    BY <2>1 DEF Settled, Booked, Signed
  <2> QED BY <2>2
<1>4. books = {}
  BY DEF OwnBook
<1>5. astray = {}
  BY DEF CalmInv
<1> HIDE DEF calls, owners, books, c
<1> QED BY <1>1, <1>2, <1>3, <1>4, <1>5

(* A new case has no folder; a known one has its own.                         *)
LEMMA CalmFound ==
  ASSUME Types, Calm, CalmInv, NEW c \in Made, NEW cur \in Found(c), Unseen(c) \/ Known(c), c # 0
  PROVE  /\ Unseen(c) => cur = None
         /\ cur # None => cur \in DOMAIN disk /\ disk[cur].mark = c /\ OwnBook(c, cur)
<1>1. None \notin DOMAIN disk /\ Fixed(case[c])
  BY DEF Types, CalmInv
<1>2. CASE Unseen(c)
  <2>1. case[c].path.at = None
    BY <1>2 DEF Unseen, NoPath
  <2>2. Resolved(case[c].path) = None /\ Marked(c) = {}
    BY <1>2, <2>1 DEF Unseen, Resolved, Marked, Reached
  <2> QED BY <2>2 DEF Found
<1>3. CASE Known(c) /\ ~Unseen(c)
  <2>1. case[c].path.at \in Reached /\ case[c].path.at # None
    BY <1>1, <1>3 DEF Known, Reached, Fixed
  <2>2. Resolved(case[c].path) = case[c].path.at
    BY <1>1, <2>1 DEF Resolved, Fixed
  <2>3. cur = case[c].path.at
    BY <2>1, <2>2 DEF Found
  <2> QED BY <1>3, <2>3 DEF Known
<1> QED BY <1>2, <1>3

LEMMA TidySame ==
  ASSUME Tidy(disk, Made), disk' = disk, Made \subseteq Made' PROVE Tidy(disk', Made')
BY DEF Tidy

LEMMA CalmUser ==
  ASSUME Types, Types', Calm, CalmInv, Claims, NEW s \in Sessions,
         \/ \E c \in CaseIds, b \in Bases, l \in trip.labels, file \in BOOLEAN : Create(s, c, b, l, file)
         \/ \E c \in CaseIds : Amends(s, c)
         \/ Batch(s)
  PROVE  CalmInv'
<1>1. /\ astray = {} /\ Tidy(disk, Made) /\ (\A c \in Made : Fixed(case[c]))
  BY DEF CalmInv
<1>2. None.root = ""
  BY DEF None, Place
<1>3. ASSUME NEW c \in CaseIds, NEW b \in Bases, NEW l \in trip.labels, NEW file \in BOOLEAN,
             Create(s, c, b, l, file)
      PROVE  CalmInv'
  <2>1. /\ Made' = Made \cup {c} /\ c \notin Made /\ (\A d \in Made : case'[d] = case[d])
        /\ case'[c].path = NoPath
        /\ job'[s].case = c /\ job'[s].cur = None /\ job'[s].tgt = None
        /\ job'[s].todo \in ToPlan \cup ToEnsure /\ Others(s)
        /\ UNCHANGED <<trip, rows, disk, usb, seen, root, clock, astray>> /\ job[s] = NoJob
    BY <1>3, CreateTyped DEF Others
  <2>2. s \in trip.sessions
    BY <1>3 DEF Create, Free
  <2>3. c # 0 /\ \A p \in DOMAIN disk : disk[p].mark # c
    BY FoldersOK, <1>1, <2>1 DEF Tidy
  <2>4. Fixed(case'[c])
    <3>1. ~NoPath.rel /\ NoPath.at = None
      BY DEF NoPath
    <3>2. None.root # "usb"
      BY <1>2
    <3> QED BY <2>1, <3>1, <3>2 DEF Fixed
  <2>5. Tidy(disk', Made') /\ \A d \in Made' : Fixed(case'[d])
    BY <1>1, <2>1, <2>4, TidySame
  <2>6. Unseen(c)'
    BY <2>1, <2>3 DEF Unseen
  <2>7. Coming(s)'
    <3>1. job'[s].todo \notin Placed
      BY <2>1, TodoTails, FirstTails DEF Placed
    <3> QED BY <2>1, <2>6, <3>1 DEF Coming, Placed, Unseen
  <2> QED BY <1>1, <1>2, <2>1, <2>2, <2>5, <2>7, CalmStep
<1>4. ASSUME NEW c \in CaseIds, Amends(s, c) PROVE CalmInv'
  <2>1. /\ Made' = Made /\ c \in Made /\ (\A d \in Made \ {c} : case'[d] = case[d])
        /\ case'[c].path = case[c].path
        /\ job'[s].case = c /\ job'[s].cur = None /\ job'[s].tgt = None
        /\ job'[s].todo \in ToPlan /\ Others(s)
    BY <1>4, AmendTyped DEF Others
  <2>2. /\ job[s] = NoJob /\ s \in trip.sessions
        /\ UNCHANGED <<trip, rows, disk, usb, seen, root, clock, astray>>
    BY <1>4 DEF Amends
  <2>3. Settled(c)
    BY <2>1, <2>2, NobodyElse, NotZero, IdleIs
  <2>4. Known(c)
    BY <2>3 DEF Settled, Booked, Signed, Known, OwnBook
  <2>5. Known(c)'
    BY <2>1, <2>2, <2>4 DEF Known, OwnBook
  <2>6. \A d \in Made' : Fixed(case'[d])
    BY <1>1, <2>1 DEF Fixed
  <2>7. Coming(s)'
    <3>1. job'[s].todo \notin Placed /\ job'[s].todo \notin ToEnsure
      BY <2>1, TodoTails, FirstTails DEF Placed
    <3> QED BY <2>1, <2>5, <3>1 DEF Coming, Placed, Known
  <2>8. Tidy(disk', Made')
    BY <1>1, <2>1, <2>2, TidySame
  <2> QED BY <1>1, <1>2, <2>1, <2>2, <2>6, <2>7, <2>8, CalmStep
<1>5. CASE Batch(s)
  <2>1. /\ Off(job'[s]) /\ UNCHANGED <<trip, case, rows, disk, usb, seen, root, clock, astray>>
        /\ Others(s)
    BY <1>5, BatchTyped DEF Others, caseDb
  <2>2. s \in trip.sessions /\ Made' = Made
    BY <1>5, <2>1 DEF Batch, Free, Made
  <2>3. Coming(s)' /\ job'[s].tgt.root # "usb"
    BY <1>2, <2>1, ComingPast DEF Off
  <2>4. Tidy(disk', Made')
    BY <1>1, <2>1, <2>2, TidySame
  <2> QED BY <1>1, <2>1, <2>2, <2>3, <2>4, CalmStep
<1> QED BY <1>3, <1>4, <1>5

LEMMA CalmNextCase ==
  ASSUME Types, Types', Calm, CalmInv, Claims, NEW s \in Sessions, NextCase(s)
  PROVE  CalmInv'
<1>1. /\ astray = {} /\ Tidy(disk, Made) /\ (\A c \in Made : Fixed(case[c]))
  BY DEF CalmInv
<1>2. None.root = ""
  BY DEF None, Place
<1>3. /\ Others(s) /\ job[s].case = 0
      /\ \/ Off(job'[s])
         \/ /\ job'[s].case \in Made /\ job'[s].tgt = None /\ job'[s].todo \in ToPlan
      /\ UNCHANGED <<trip, case, rows, disk, usb, seen, root, clock, astray>>
  BY NextCaseTyped
<1>4. s \in trip.sessions
  <2>1. job[s] # NoJob
    BY IdleIs DEF NextCase, Step
  <2> QED BY <2>1 DEF Types, Calls
<1>5. Made' = Made
  BY <1>3 DEF Made
<1>6. CASE Off(job'[s])
  <2>1. Coming(s)' /\ job'[s].tgt.root # "usb"
    BY <1>2, <1>6, ComingPast DEF Off
  <2>2. Tidy(disk', Made')
    BY <1>1, <1>3, <1>5, TidySame
  <2> QED BY <1>1, <1>3, <1>4, <1>5, <2>1, <2>2, CalmStep
<1>7. CASE job'[s].case \in Made /\ job'[s].tgt = None /\ job'[s].todo \in ToPlan
  <2> DEFINE c == job'[s].case
  <2>1. Settled(c)
    BY <1>3, <1>4, <1>7, NobodyElse, NotZero
  <2>2. Known(c)
    BY <2>1 DEF Settled, Booked, Signed, Known, OwnBook
  <2>3. /\ case'[c].path.at \in DOMAIN disk' /\ disk'[case'[c].path.at].mark = c
        /\ disk'[case'[c].path.at].book.of \in {0, c}
    BY <1>3, <2>2 DEF Known, OwnBook
  <2>4. job'[s].todo \notin Placed /\ job'[s].todo \notin ToEnsure
    BY <1>7, TodoTails, FirstTails DEF Placed
  <2>5. Coming(s)'
    BY <1>7, <2>3, <2>4 DEF Coming, Placed, Known, OwnBook
  <2>6. Tidy(disk', Made')
    BY <1>1, <1>3, <1>5, TidySame
  <2> QED BY <1>1, <1>2, <1>3, <1>4, <1>5, <1>7, <2>5, <2>6, CalmStep
<1> QED BY <1>3, <1>6, <1>7

LEMMA CalmLook ==
  ASSUME Types, Calm, CalmInv, Claims, NEW s \in Sessions, Ensure(s) \/ Plan(s)
  PROVE  CalmInv'
<1>1. /\ astray = {} /\ Tidy(disk, Made) /\ (\A c \in Made : Fixed(case[c])) /\ Coming(s)
  BY DEF CalmInv
<1>2. JobOK(job[s], Made) /\ (job[s] # NoJob => s \in trip.sessions)
  BY DEF Types, Calls
<1>3. job[s] # NoJob
  BY IdleIs DEF Ensure, Plan, Step
<1>4. s \in trip.sessions
  BY <1>2, <1>3
<1>5. CASE Plan(s)
  <2>1. /\ Others(s) /\ job[s].todo \in ToPlan /\ job'[s].todo \in ToMove
        /\ UNCHANGED <<trip, case, rows, disk, usb, seen, root, clock>>
    BY <1>5, PlanTyped
  <2>2. PICK cur : Looked(s, cur, FreePath(C(s), cur))
    BY <1>5, PlanTyped
  <2>3. /\ cur \in Found(C(s)) /\ C(s) \in Made /\ Meets(s, C(s), cur, FreePath(C(s), cur))
        /\ job'[s].tgt = FreePath(C(s), cur)
    BY <2>2 DEF Looked
  <2>4. Unseen(C(s)) \/ Known(C(s))
    BY <1>1, <2>1 DEF Coming, C
  <2>5. cur # None => cur \in DOMAIN disk /\ disk[cur].mark = C(s) /\ OwnBook(C(s), cur)
    BY <2>3, <2>4, NotZero, CalmFound
  <2>6. /\ FreePath(C(s), cur) = cur \/ FreePath(C(s), cur) \notin DOMAIN disk
        /\ FreePath(C(s), cur).root # "usb"
    BY <2>3, TargetIs, CalmRoot
  <2>7. astray' = {}
    BY <1>4, <2>3, <2>5, <2>6, CalmMeets
  <2>8. Made' = Made
    BY <2>1 DEF Made
  <2>9. Coming(s)'
    BY <2>1, ComingPast DEF Past, Unnamed
  <2>10. Tidy(disk', Made') /\ \A c \in Made' : Fixed(case'[c])
    BY <1>1, <2>1, <2>8, TidySame
  <2>11. job'[s].tgt.root # "usb"
    BY <2>3, <2>6
  <2> QED BY <1>4, <2>1, <2>7, <2>9, <2>10, <2>11, CalmStep
<1>6. CASE Ensure(s)
  <2>1. /\ Others(s) /\ job[s].todo \in ToEnsure /\ job'[s].todo \in FirstBook
        /\ UNCHANGED <<trip, case, rows, disk, usb, seen, root, clock>>
    BY <1>6, EnsureTyped
  <2>2. PICK cur : Looked(s, cur, IF cur # None THEN cur ELSE FreePath(C(s), cur))
    BY <1>6, EnsureTyped
  <2>3. Unseen(C(s)) /\ C(s) \in Made /\ cur \in Found(C(s))
    BY <1>1, <2>1, <2>2 DEF Coming, C, Looked
  <2>4. cur = None
    BY <2>3, NotZero, CalmFound
  <2> DEFINE tgt == FreePath(C(s), cur)
  <2>5. /\ Meets(s, C(s), cur, tgt) /\ job'[s].case = C(s) /\ job'[s].tgt = tgt
        /\ job'[s].path = case[C(s)].path
    BY <2>2, <2>4 DEF Looked
  <2>6. IsTarget(tgt) /\ tgt \notin DOMAIN disk /\ tgt.root # "usb"
    <3>1. IsTarget(tgt) /\ (tgt = cur \/ tgt \notin DOMAIN disk) /\ tgt # None /\ tgt.root = Root
      BY <2>3, TargetIs
    <3> QED BY <2>4, <3>1, CalmRoot
  <2> HIDE DEF tgt
  <2>7. astray' = {}
    BY <1>4, <2>3, <2>4, <2>5, <2>6, CalmMeets
  <2>8. Made' = Made
    BY <2>1 DEF Made
  <2>9. Coming(s)'
    <3>1. /\ job'[s].todo \notin ToPlan \cup ToEnsure \cup FirstMark \cup FirstPath \cup FirstFile \cup FirstRow
          /\ job'[s].todo \in Placed
      BY <2>1, TodoTails, FirstTails DEF Placed
    <3>2. /\ case'[C(s)].path = NoPath /\ \A p \in DOMAIN disk' : disk'[p].mark # C(s)
      BY <2>1, <2>3 DEF Unseen
    <3> QED BY <2>1, <2>5, <2>6, <3>1, <3>2 DEF Coming, Unseen
  <2>10. Tidy(disk', Made') /\ \A c \in Made' : Fixed(case'[c])
    BY <1>1, <2>1, <2>8, TidySame
  <2>11. job'[s].tgt.root # "usb"
    BY <2>5, <2>6
  <2> QED BY <1>4, <2>1, <2>7, <2>9, <2>10, <2>11, CalmStep
<1> QED BY <1>5, <1>6

LEMMA CalmRow ==
  ASSUME Types, Types', Listed, Calm, CalmInv, Claims, NEW s \in Sessions, Rows(s) \/ NewRow(s) \/ Path(s)
  PROVE  CalmInv'
<1>1. /\ astray = {} /\ Tidy(disk, Made) /\ (\A c \in Made : Fixed(case[c])) /\ Coming(s)
      /\ ~seen /\ job[s].tgt.root # "usb"
  BY DEF CalmInv
<1>2. JobOK(job[s], Made) /\ (job[s] # NoJob => s \in trip.sessions)
  BY DEF Types, Calls
<1>3. job[s] # NoJob
  BY IdleIs DEF Rows, NewRow, Path, Step
<1>4. s \in trip.sessions
  BY <1>2, <1>3
<1>5. CASE Rows(s) \/ NewRow(s)
  <2>1. /\ Others(s) /\ Same(s) /\ C(s) \in Made
        /\ \/ job[s].todo \in ToRows /\ job'[s].todo \in ToPath
           \/ job[s].todo \in FirstRow /\ job'[s].todo \in ToPlan
        /\ UNCHANGED <<trip, case, disk, usb, seen, root, clock, astray>>
    BY <1>5, RowsTyped, Zenon
  <2>2. Made' = Made
    BY <2>1 DEF Made
  <2>3. Coming(s)'
    <3>1. CASE job'[s].todo \in ToPath
      BY <3>1, ComingPast DEF Past, Unnamed
    <3>2. CASE job[s].todo \in FirstRow /\ job'[s].todo \in ToPlan
      <4>1. Known(C(s))
        BY <1>1, <3>2 DEF Coming, C
      <4>2. /\ case'[C(s)].path.at \in DOMAIN disk' /\ disk'[case'[C(s)].path.at].mark = C(s)
            /\ disk'[case'[C(s)].path.at].book.of \in {0, C(s)}
        BY <2>1, <4>1 DEF Known, OwnBook
      <4>3. job'[s].todo \notin Placed /\ job'[s].todo \notin ToEnsure /\ job'[s].case = C(s)
        BY <2>1, <3>2, TodoTails, FirstTails DEF Placed, Same, C
      <4> QED BY <3>2, <4>2, <4>3 DEF Coming, Placed, Known, OwnBook
    <3> QED BY <2>1, <3>1, <3>2
  <2>4. Tidy(disk', Made') /\ (\A c \in Made' : Fixed(case'[c])) /\ job'[s].tgt.root # "usb"
    BY <1>1, <2>1, <2>2, TidySame DEF Same
  <2> QED BY <1>1, <1>4, <2>1, <2>3, <2>4, CalmStep
<1>6. CASE Path(s)
  <2> DEFINE tgt == job[s].tgt
  <2>1. /\ Made' = Made /\ Others(s) /\ Same(s) /\ C(s) \in Made
        /\ \/ job[s].todo \in ToPath /\ job'[s].todo \in ToBook
           \/ job[s].todo \in FirstPath /\ job'[s].todo \in FirstFile
        /\ UNCHANGED <<trip, rows, disk, usb, seen, root, clock, astray>>
        /\ \A d \in Made \ {C(s)} : case'[d] = case[d]
        /\ \/ case'[C(s)].path = Stored(tgt)
           \/ job[s].path = Stored(tgt) /\ case'[C(s)] = case[C(s)]
    BY <1>6, PathTyped, Zenon
  <2>2. ~Stored(tgt).rel /\ Stored(tgt).at = tgt
    BY <1>1 DEF Stored
  <2>3. Fixed(case'[C(s)])
    <3>1. Fixed(case[C(s)])
      BY <1>1, <2>1
    <3> QED BY <1>1, <2>1, <2>2, <3>1 DEF Fixed
  <2>4. \A d \in Made' : Fixed(case'[d])
    BY <1>1, <2>1, <2>3
  <2>5. Coming(s)'
    <3>1. CASE job'[s].todo \in ToBook
      BY <3>1, ComingPast DEF Past
    <3>2. CASE job[s].todo \in FirstPath /\ job'[s].todo \in FirstFile
      <4>1. /\ tgt \in DOMAIN disk /\ disk[tgt].mark = C(s) /\ OwnBook(C(s), tgt)
            /\ job[s].path = case[C(s)].path /\ IsTarget(tgt)
        BY <1>1, <3>2 DEF Coming, C, Placed
      <4>2. case'[C(s)].path.at = tgt
        BY <2>1, <2>2, <4>1
      <4>3. /\ case'[C(s)].path.at \in DOMAIN disk' /\ disk'[case'[C(s)].path.at].mark = C(s)
            /\ disk'[case'[C(s)].path.at].book.of \in {0, C(s)}
        BY <2>1, <4>1, <4>2 DEF OwnBook
      <4>4. /\ job'[s].todo \notin ToPlan \cup ToEnsure \cup FirstBook \cup FirstMark \cup FirstPath
            /\ job'[s].case = C(s) /\ job'[s].tgt = tgt
        BY <2>1, <3>2, TodoTails, FirstTails DEF Same, C
      <4> QED BY <4>1, <4>3, <4>4 DEF Coming, Known, OwnBook
    <3> QED BY <2>1, <3>1, <3>2
  <2>6. Tidy(disk', Made') /\ job'[s].tgt.root # "usb"
    BY <1>1, <2>1, TidySame DEF Same
  <2> QED BY <1>1, <1>4, <2>1, <2>4, <2>5, <2>6, CalmStep
<1> QED BY <1>5, <1>6

(* A folder written at a number of its own, for a case or for none, is tidy.   *)
LEMMA TidyWrite ==
  ASSUME Tidy(disk, Made), NEW p, p.n \in Nat \ {0}, KeptBut({p}), DOMAIN disk' = DOMAIN disk \cup {p},
         disk'[p].mark \in Made \cup {0}
  PROVE  Tidy(disk', Made)
BY DEF Tidy, KeptBut

LEMMA CalmMove ==
  ASSUME Types, Types', Calm, CalmInv, Claims, NEW s \in Sessions, Move(s)
  PROVE  CalmInv'
<1> DEFINE cur == job[s].cur
           tgt == job[s].tgt
<1>1. /\ astray = {} /\ Tidy(disk, Made) /\ (\A c \in Made : Fixed(case[c])) /\ tgt.root # "usb"
  BY DEF CalmInv
<1>2. JobOK(job[s], Made) /\ (job[s] # NoJob => s \in trip.sessions)
  BY DEF Types, Calls
<1>3. job[s] # NoJob
  BY IdleIs DEF Move, Step
<1>4. s \in trip.sessions
  BY <1>2, <1>3
<1>5. /\ Others(s) /\ Same(s) /\ C(s) \in Made /\ job[s].todo \in ToMove /\ IsTarget(tgt)
      /\ UNCHANGED <<trip, case, rows, usb, seen, root, clock, astray>>
      /\ Moved(s) \/ MadeHere(s) \/ LeftAlone(s)
  BY MoveKeepsTypes, Zenon
<1>6. Made' = Made
  BY <1>5 DEF Made
<1>7. UnderWay(C(s), s)
  BY <1>5, CalmUnderWay DEF Past, Unnamed
<1>8. tgt.n \in Nat \ {0}
  BY <1>5 DEF IsTarget
<1>9. Tidy(disk', Made)
  <2>1. CASE Moved(s)
    <3>1. tgt \notin DOMAIN disk /\ cur \in DOMAIN disk
      BY <1>5, <1>7, <2>1 DEF UnderWay, Moved
    <3>2. /\ DOMAIN disk' = (DOMAIN disk \ {cur}) \cup {tgt}
          /\ disk'[tgt] = disk[cur] /\ KeptBut({cur, tgt})
      BY <2>1, <3>1 DEF Moved
    <3> QED BY <1>1, <1>8, <3>1, <3>2 DEF Tidy, KeptBut
  <2>2. CASE MadeHere(s)
    <3>1. disk'[tgt].mark \in Made \cup {0}
      BY <1>1, <2>2, DirIs DEF MadeHere, Tidy
    <3> QED BY <1>1, <1>8, <2>2, <3>1, TidyWrite DEF MadeHere
  <2>3. CASE LeftAlone(s)
    BY <1>1, <2>3 DEF LeftAlone
  <2> QED BY <1>5, <2>1, <2>2, <2>3
<1>10. Coming(s)'
  BY <1>5, ComingPast DEF Past, Unnamed, Moved, MadeHere, LeftAlone
<1>11. job'[s].tgt.root # "usb"
  BY <1>1, <1>5 DEF Same
<1> HIDE DEF cur, tgt
<1> QED BY <1>1, <1>4, <1>5, <1>6, <1>9, <1>10, <1>11, CalmStep

LEMMA CalmBook ==
  ASSUME Types, Types', Calm, CalmInv, Claims, NEW s \in Sessions, Book(s)
  PROVE  CalmInv'
<1> DEFINE tgt == job[s].tgt
<1>1. /\ astray = {} /\ Tidy(disk, Made) /\ (\A c \in Made : Fixed(case[c])) /\ Coming(s)
      /\ tgt.root # "usb"
  BY DEF CalmInv
<1>2. JobOK(job[s], Made) /\ (job[s] # NoJob => s \in trip.sessions)
  BY DEF Types, Calls
<1>3. job[s] # NoJob
  BY IdleIs DEF Book, Step
<1>4. s \in trip.sessions
  BY <1>2, <1>3
<1>5. /\ Others(s) /\ Same(s) /\ C(s) \in Made
      /\ job[s].todo \in Past => IsTarget(tgt)
      /\ \/ job[s].todo \in ToBook /\ job'[s].todo \in ToMark
         \/ job[s].todo \in FirstBook /\ job'[s].todo \in FirstMark
      /\ UNCHANGED <<trip, case, rows, usb, seen, root, clock, astray>>
  BY BookTyped, Zenon
<1>6. PICK f : /\ Writes(s, f) /\ f.mark = Dir(tgt).mark
               /\ \/ f.book = Written(C(s))
                  \/ f.book = Dir(tgt).book /\ tgt \in DOMAIN disk
  BY BookTyped
<1>7. Made' = Made
  BY <1>5 DEF Made
<1>8. IsTarget(tgt)
  BY <1>1, <1>5 DEF Coming, Placed, Past
<1>9. disk'[tgt] = f /\ tgt \in DOMAIN disk' /\ KeptBut({tgt}) /\ DOMAIN disk' = DOMAIN disk \cup {tgt}
  BY <1>6 DEF Writes
<1>10. Tidy(disk', Made)
  <2>1. disk'[tgt].mark \in Made \cup {0}
    BY <1>1, <1>6, <1>9, DirIs DEF Tidy
  <2>2. tgt.n \in Nat \ {0}
    BY <1>8 DEF IsTarget
  <2> QED BY <1>1, <1>9, <2>1, <2>2, TidyWrite
<1>11. Coming(s)'
  <2>1. CASE job'[s].todo \in ToMark
    BY <2>1, ComingPast DEF Past
  <2>2. CASE job[s].todo \in FirstBook /\ job'[s].todo \in FirstMark
    <3>1. Unseen(C(s)) /\ tgt \notin DOMAIN disk /\ job[s].path = case[C(s)].path
      BY <1>1, <2>2 DEF Coming, C
    <3>2. disk'[tgt].mark = 0 /\ disk'[tgt].book.of = C(s)
      BY <1>6, <1>9, <3>1, DirIs DEF Written
    <3>3. \A p \in DOMAIN disk' : disk'[p].mark # C(s)
      BY <1>5, <1>9, <3>1, <3>2, NotZero DEF Unseen, KeptBut
    <3>4. /\ job'[s].todo \notin ToPlan \cup ToEnsure \cup FirstBook \cup FirstPath \cup FirstFile \cup FirstRow
          /\ job'[s].case = C(s) /\ job'[s].tgt = tgt /\ job'[s].path = job[s].path
      BY <1>5, <2>2, TodoTails, FirstTails, PhasesApart DEF Same, C
    <3>5. case'[C(s)].path = NoPath /\ case'[C(s)].path = job[s].path
      BY <1>5, <3>1 DEF Unseen
    <3> HIDE DEF tgt
    <3> QED BY <1>8, <1>9, <3>2, <3>3, <3>4, <3>5 DEF Coming, Unseen, OwnBook
  <2> QED BY <1>5, <2>1, <2>2
<1>12. job'[s].tgt.root # "usb"
  BY <1>1, <1>5 DEF Same
<1> HIDE DEF tgt
<1> QED BY <1>1, <1>4, <1>5, <1>7, <1>10, <1>11, <1>12, CalmStep

LEMMA CalmMark ==
  ASSUME Types, Types', Calm, CalmInv, Claims, NEW s \in Sessions, Mark(s)
  PROVE  CalmInv'
<1> DEFINE tgt == job[s].tgt
<1>1. /\ astray = {} /\ Tidy(disk, Made) /\ (\A c \in Made : Fixed(case[c])) /\ Coming(s)
      /\ tgt.root # "usb"
  BY DEF CalmInv
<1>2. JobOK(job[s], Made) /\ (job[s] # NoJob => s \in trip.sessions)
  BY DEF Types, Calls
<1>3. job[s] # NoJob
  BY IdleIs DEF Mark, Step
<1>4. s \in trip.sessions
  BY <1>2, <1>3
<1>5. /\ Others(s) /\ C(s) \in Made
      /\ job[s].todo \in Past => IsTarget(tgt)
      /\ \/ /\ job[s].todo \in ToMark
            /\ (Same(s) /\ job'[s].todo \in ToGather) \/ Off(job'[s])
         \/ job[s].todo \in FirstMark /\ Same(s) /\ job'[s].todo \in FirstPath
      /\ UNCHANGED <<trip, case, rows, usb, seen, root, clock, astray>>
  BY MarkTyped, Zenon
<1>6. PICK f : Writes(s, f) /\ f.mark = C(s) /\ f.book = Dir(tgt).book
  BY MarkTyped
<1>7. Made' = Made
  BY <1>5 DEF Made
<1>8. IsTarget(tgt)
  BY <1>1, <1>5 DEF Coming, Placed, Past
<1>9. disk'[tgt] = f /\ tgt \in DOMAIN disk' /\ KeptBut({tgt}) /\ DOMAIN disk' = DOMAIN disk \cup {tgt}
  BY <1>6 DEF Writes
<1>10. Tidy(disk', Made)
  <2>1. disk'[tgt].mark \in Made \cup {0}
    BY <1>5, <1>6, <1>9
  <2>2. tgt.n \in Nat \ {0}
    BY <1>8 DEF IsTarget
  <2> QED BY <1>1, <1>9, <2>1, <2>2, TidyWrite
<1>11. Coming(s)'
  <2>1. CASE job'[s].todo \in ToGather \/ Off(job'[s])
    BY <2>1, ComingPast DEF Past
  <2>2. CASE job[s].todo \in FirstMark /\ Same(s) /\ job'[s].todo \in FirstPath
    <3>1. /\ tgt \in DOMAIN disk /\ disk[tgt].book.of \in {0, C(s)}
          /\ job[s].path = case[C(s)].path
      BY <1>1, <2>2 DEF Coming, C, OwnBook
    <3>2. disk'[tgt].mark = C(s) /\ disk'[tgt].book.of \in {0, C(s)}
      BY <1>6, <1>9, <3>1, DirIs
    <3>3. /\ job'[s].todo \notin ToPlan \cup ToEnsure \cup FirstBook \cup FirstMark \cup FirstFile \cup FirstRow
          /\ job'[s].case = C(s) /\ job'[s].tgt = tgt /\ job'[s].path = job[s].path
      BY <2>2, TodoTails, FirstTails, PhasesApart DEF Same, C
    <3>4. case'[C(s)].path = job[s].path
      BY <1>5, <3>1
    <3> HIDE DEF tgt
    <3> QED BY <1>8, <1>9, <3>2, <3>3, <3>4 DEF Coming, OwnBook
  <2> QED BY <1>5, <2>1, <2>2
<1>12. job'[s].tgt.root # "usb"
  <2>1. None.root = ""
    BY DEF None, Place
  <2> QED BY <1>1, <1>5, <2>1 DEF Same, Off
<1> HIDE DEF tgt
<1> QED BY <1>1, <1>4, <1>5, <1>7, <1>10, <1>11, <1>12, CalmStep

LEMMA CalmFile ==
  ASSUME Types, Types', Calm, CalmInv, Claims, NEW s \in Sessions, File(s)
  PROVE  CalmInv'
<1> DEFINE tgt == job[s].tgt
<1>1. /\ astray = {} /\ Tidy(disk, Made) /\ (\A c \in Made : Fixed(case[c])) /\ Coming(s)
      /\ tgt.root # "usb"
  BY DEF CalmInv
<1>2. JobOK(job[s], Made) /\ (job[s] # NoJob => s \in trip.sessions)
  BY DEF Types, Calls
<1>3. job[s] # NoJob
  BY IdleIs DEF File, Step
<1>4. s \in trip.sessions
  BY <1>2, <1>3
<1>5. /\ Others(s) /\ Same(s) /\ C(s) \in Made
      /\ job[s].todo \in FirstFile /\ job'[s].todo \in FirstRow
      /\ UNCHANGED <<trip, case, rows, usb, seen, root, clock, astray>>
  BY FileTyped, Zenon
<1>6. PICK f : Writes(s, f) /\ f.mark = Dir(tgt).mark /\ f.book = Dir(tgt).book
  BY FileTyped
<1>7. Made' = Made
  BY <1>5 DEF Made
<1>8. IsTarget(tgt) /\ Known(C(s))
  BY <1>1, <1>5 DEF Coming, Placed, C
<1>9. disk'[tgt] = f /\ tgt \in DOMAIN disk' /\ KeptBut({tgt}) /\ DOMAIN disk' = DOMAIN disk \cup {tgt}
  BY <1>6 DEF Writes
<1>10. Tidy(disk', Made)
  <2>1. disk'[tgt].mark \in Made \cup {0}
    BY <1>1, <1>6, <1>9, DirIs DEF Tidy
  <2>2. tgt.n \in Nat \ {0}
    BY <1>8 DEF IsTarget
  <2> QED BY <1>1, <1>9, <2>1, <2>2, TidyWrite
<1>11. Coming(s)'
  <2> DEFINE p == case[C(s)].path.at
  <2>1. p \in DOMAIN disk /\ disk[p].mark = C(s) /\ disk[p].book.of \in {0, C(s)}
    BY <1>8 DEF Known, OwnBook
  <2>2. p \in DOMAIN disk' /\ disk'[p].mark = C(s) /\ disk'[p].book.of \in {0, C(s)}
    <3>1. CASE p = tgt
      BY <1>6, <1>9, <2>1, <3>1, DirIs
    <3>2. CASE p # tgt
      BY <1>9, <2>1, <3>2 DEF KeptBut
    <3> QED BY <3>1, <3>2
  <2>3. case'[C(s)].path.at = p
    BY <1>5
  <2>4. /\ job'[s].todo \notin ToPlan \cup ToEnsure \cup FirstBook \cup FirstMark \cup FirstPath
        /\ job'[s].case = C(s) /\ job'[s].tgt = tgt
    BY <1>5, TodoTails, FirstTails, PhasesApart DEF Same, C
  <2> HIDE DEF p, tgt
  <2> QED BY <1>8, <2>2, <2>3, <2>4 DEF Coming, Known, OwnBook
<1>12. job'[s].tgt.root # "usb"
  BY <1>1, <1>5 DEF Same
<1> HIDE DEF tgt
<1> QED BY <1>1, <1>4, <1>5, <1>7, <1>10, <1>11, <1>12, CalmStep

LEMMA CalmGather ==
  ASSUME Types, Types', Calm, CalmInv, Claims, NEW s \in Sessions, Gather(s)
  PROVE  CalmInv'
<1> DEFINE tgt == job[s].tgt
<1>1. /\ astray = {} /\ Tidy(disk, Made) /\ (\A c \in Made : Fixed(case[c]))
  BY DEF CalmInv
<1>2. JobOK(job[s], Made) /\ (job[s] # NoJob => s \in trip.sessions)
  BY DEF Types, Calls
<1>3. job[s] # NoJob
  BY IdleIs DEF Gather, Step
<1>4. s \in trip.sessions
  BY <1>2, <1>3
<1>5. /\ Others(s) /\ Off(job'[s]) /\ IsTarget(tgt) /\ tgt \in DOMAIN disk
      /\ UNCHANGED <<trip, case, rows, usb, seen, root, clock>>
  BY GatherTyped, Zenon
<1>p. PICK p : CopiedTo(s, p)
  BY GatherTyped, Zenon
<1>6. /\ p.n = tgt.n /\ p # None
      /\ DOMAIN disk' = DOMAIN disk \cup {p} /\ KeptBut({p})
      /\ disk'[p].mark = disk[tgt].mark
      /\ astray' = astray \cup {C(z) : z \in {z \in Sessions \ {s} : job[z].cur = p}}
  BY <1>p DEF CopiedTo
<1>7. Made' = Made
  BY <1>5 DEF Made
<1>8. astray' = {}
  BY <1>1, <1>4, <1>6, OneSession, IdleIs
<1>9. Tidy(disk', Made)
  <2>1. disk'[p].mark \in Made \cup {0} /\ p.n \in Nat \ {0}
    BY <1>1, <1>5, <1>6 DEF Tidy
  <2> QED BY <1>1, <1>6, <2>1, TidyWrite
<1>10. Coming(s)' /\ job'[s].tgt.root # "usb"
  <2>1. None.root = ""
    BY DEF None, Place
  <2> QED BY <1>5, <2>1, ComingPast DEF Off
<1> HIDE DEF tgt
<1> QED BY <1>1, <1>4, <1>5, <1>7, <1>8, <1>9, <1>10, CalmStep

(* A calm call is never stopped.                                             *)
LEMMA CalmStop ==
  ASSUME Types, Calm, CalmInv, Claims, NEW s \in Sessions, Stop(s)
  PROVE  FALSE
<1>1. Tidy(disk, Made) /\ job[s].tgt.root # "usb" /\ ~trip.stop
  BY DEF CalmInv, Calm
<1>2. job[s].todo \in Past \cup Ahead
  BY StopTyped
<1>3. ~(Step(s, "move") /\ Inside(Tgt(s)) \in DOMAIN disk)
  <2> SUFFICES ASSUME Step(s, "move"), Inside(Tgt(s)) \in DOMAIN disk PROVE FALSE
    OBVIOUS
  <2>1. job[s].todo \in ToMove
    BY <1>2, PhaseOf DEF Step
  <2>2. IsTarget(job[s].tgt)
    BY <2>1, CalmUnderWay DEF Past, Unnamed
  <2>3. Inside(job[s].tgt).n = 0 - job[s].tgt.n /\ job[s].tgt.n \in Nat \ {0}
    BY <2>2, InsideIs DEF IsTarget
  <2>4. Inside(job[s].tgt).n \in Nat
    BY <1>1 DEF Tidy, Tgt
  <2> QED BY <2>3, <2>4
<1>4. ~(Step(s, "gather") /\ Tgt(s) \notin DOMAIN disk)
  <2> SUFFICES ASSUME Step(s, "gather"), Tgt(s) \notin DOMAIN disk PROVE FALSE
    OBVIOUS
  <2>1. job[s].todo \in ToGather
    BY <1>2, PhaseOf DEF Step
  <2>2. UnderWay(C(s), s)
    BY <2>1, CalmUnderWay DEF Past
  <2> QED BY <2>1, <2>2 DEF UnderWay, Booked, Tgt
<1>5. Touches(Tgt(s))
  BY <1>1 DEF Touches, Tgt
<1> QED BY <1>1, <1>3, <1>4, <1>5 DEF Stop

LEMMA CalmInvStep ==
  ASSUME Types, Listed, Claims, CalmInv, [FoldersNext]_fileVars
  PROVE  CalmInv'
<1>1. trip' = trip
  <2>1. ASSUME NEW s \in Sessions, User(s) PROVE trip' = trip
    <3>1. ASSUME NEW c, NEW b, NEW l, NEW file, Create(s, c, b, l, file) PROVE trip' = trip
      BY <3>1 DEF Create
    <3>2. ASSUME NEW c, NEW b, NEW l, Save(s, c, b, l) PROVE trip' = trip
      BY <3>2 DEF Save
    <3>3. ASSUME NEW c, Cancel(s, c) PROVE trip' = trip
      BY <3>3 DEF Cancel
    <3>4. Batch(s) => trip' = trip
      BY DEF Batch
    <3> QED BY <2>1, <3>1, <3>2, <3>3, <3>4 DEF User
  <2>2. ASSUME NEW s \in Sessions, Runs(s) PROVE trip' = trip
    BY <2>2, Zenon DEF Runs, Ensure, Plan, Move, Rows, Path, Book, Mark, File, NewRow, NextCase, Gather
  <2>3. ASSUME NEW s \in Sessions, Stop(s) PROVE trip' = trip
    BY <2>3 DEF Stop
  <2>4. Plug \/ Look \/ Tick \/ (\E r \in {"", "disk"} : SetRoot(r)) \/ UNCHANGED fileVars => trip' = trip
    BY DEF Plug, Look, Tick, SetRoot, fileVars
  <2> QED BY <2>1, <2>2, <2>3, <2>4, Zenon DEF FoldersNext
<1>2. CASE ~Calm
  BY <1>1, <1>2 DEF CalmInv, Calm
<1>3. CASE Calm
  <2>1. Types'
    BY TypesStep
  <2>2. ASSUME Tick \/ Plug \/ Look \/ (\E r \in {"", "disk"} : SetRoot(r)) \/ UNCHANGED fileVars
        PROVE  CalmInv'
    <3>1. UNCHANGED <<case, rows, disk, usb, seen, job, astray>>
      BY <1>3, <2>2 DEF Tick, Plug, Look, SetRoot, fileVars, caseDb, Calm
    <3>2. Made' = Made /\ \A s \in Sessions : Coming(s)' = Coming(s)
      BY <3>1 DEF Made, Coming, Unseen, Known, OwnBook
    <3> QED BY <1>3, <3>1, <3>2 DEF CalmInv
  <2> QED BY <1>3, <2>1, <2>2, StepIs, CalmUser, CalmNextCase, CalmLook, CalmRow, CalmMove,
             CalmBook, CalmMark, CalmFile, CalmGather, CalmStop
<1> QED BY <1>2, <1>3

-----------------------------------------------------------------------------
(* The folders' invariant, and what it says.                                 *)
InOrder == Types /\ Listed /\ Claims /\ CalmInv

LEMMA OrderInit == ASSUME FoldersInit PROVE InOrder
<1>1. /\ Made = {} /\ DOMAIN disk = {} /\ rows = {} /\ astray = {}
      /\ \A s \in Sessions : job[s] = NoJob
      /\ DOMAIN job = Sessions /\ DOMAIN case = CaseIds /\ trip \in Trips /\ root = "" /\ clock = 1
      /\ seen = usb /\ (~trip.usb => ~usb)
  BY DEF FoldersInit, Made
<1>2. Calls
  <2>1. <<>> \in Seq(Made) /\ <<>> \notin Past \cup Placed
    BY PhasesApart DEF Ahead
  <2> QED BY <1>1, <2>1, IdleIs DEF Calls, JobOK
<1>3. IsFiniteSet(DOMAIN disk)
  BY <1>1, FS_EmptySet
<1>4. Types
  BY <1>1, <1>2, <1>3 DEF Types
<1>5. Claims
  BY <1>1 DEF Claims, Claim
<1>6. ASSUME NEW s \in Sessions PROVE job[s].tgt.root # "usb" /\ Coming(s)
  <2>1. None.root = ""
    BY DEF None, Place
  <2>2. job[s].tgt = None /\ job[s].todo = <<>>
    BY <1>1, IdleIs
  <2>3. job[s].todo \notin Ahead
    BY <2>2, PhasesApart
  <2> QED BY <2>1, <2>2, <2>3 DEF Coming, Ahead, Placed
<1>7. CalmInv
  BY <1>1, <1>6 DEF CalmInv, Calm, Tidy
<1> QED BY <1>1, <1>4, <1>5, <1>7 DEF InOrder, Listed

LEMMA OrderStep == ASSUME InOrder, [FoldersNext]_fileVars PROVE InOrder'
BY TypesStep, ClaimsStep, CalmInvStep DEF InOrder

LEMMA OrderFollows == ASSUME InOrder PROVE FoldersFollowCases
<1>1. ASSUME AtRest, NEW c \in Made \ astray
      PROVE  LET p == case[c].path.at
             IN  /\ p \in DOMAIN disk /\ p.base = Base(c) /\ p.name = Name(c)
                 /\ disk[p].mark = c /\ disk[p].print = Stamped(c)
                 /\ \/ disk[p].book.data = case[c].data
                    \/ disk[p].book.at = case[c].stamp
  <2>1. Working(c) = {}
    BY <1>1, NotZero, IdleIs DEF AtRest, Working
  <2>2. Settled(c)
    BY <1>1, <2>1 DEF InOrder, Claims, Claim, Waiting, Made
  <2> QED BY <2>2 DEF Settled, Named, Booked, Signed
<1>2. Cardinality(trip.sessions) = 1 /\ ~trip.stop /\ ~trip.usb => astray = {}
  BY DEF InOrder, CalmInv, Calm
<1> QED BY <1>1, <1>2 DEF FoldersFollowCases

(* When every call has ended a case's folder is its own, with its marker and  *)
(* the workbook of what it is, unless its last call was stopped or met       *)
(* another; one session without stops and drives never leaves such a case.   *)
THEOREM CasesKeepTheirFolders ==
  FoldersSpec => []FoldersFollowCases
<1>1. FoldersInit => InOrder
  BY OrderInit
<1>2. InOrder /\ [FoldersNext]_fileVars => InOrder'
  BY OrderStep
<1>3. InOrder => FoldersFollowCases
  BY OrderFollows
<1> QED BY <1>1, <1>2, <1>3, PTL DEF FoldersSpec

(* No step loses the file a user put into a folder.                          *)
THEOREM UserFilesAreKept ==
  FoldersSpec => FilesKept
<1> DEFINE Keeps ==
      \A c \in CaseIds :
         (\E p \in DOMAIN disk : p.base # "gather" /\ c \in disk[p].files) =>
         (\E p \in DOMAIN disk' : p.base # "gather" /\ c \in disk'[p].files)
<1>1. FoldersInit => InOrder
  BY OrderInit
<1>2. InOrder /\ [FoldersNext]_fileVars => InOrder'
  BY OrderStep
<1>3. InOrder /\ [FoldersNext]_fileVars => [Keeps]_fileVars
  BY FilesStep DEF InOrder
<1>4. FilesKept <=> [][Keeps]_fileVars
  BY DEF FilesKept
<1> HIDE DEF Keeps
<1> QED BY <1>1, <1>2, <1>3, <1>4, PTL DEF FoldersSpec
=============================================================================
