------------------------------ MODULE DataFacts ------------------------------
(****************************************************************************)
(* Facts about naturals, sums and sequences the proofs need and the library   *)
(* does not state, or states only for an operator: least elements, extrema   *)
(* and induction; sums over finite sets, of which any element may be split   *)
(* off first; and sequence operators of the community modules.               *)
(****************************************************************************)
EXTENDS Integers, Functions, SequencesExt, FiniteSetTheorems, SequenceTheorems,
        WellFoundedInduction, TLAPS

(* The order of the naturals is well founded, as a relation. *)
LEMMA LessWellFounded == IsWellFoundedOn({ss \in Nat \X Nat : ss[1] < ss[2]}, Nat)
  BY NatLessThanWellFounded, Zenon DEF OpToRel
(* A set of naturals that has an element has a least one. *)
LEMMA LeastNat ==
  ASSUME NEW S, S \subseteq Nat, S # {}
  PROVE  \E x \in S : \A y \in S : x <= y
<1> DEFINE R == {ss \in Nat \X Nat : ss[1] < ss[2]}
<1>1. PICK x \in S : \A y \in S : ~(<<y, x>> \in R)
  <2>1. IsWellFoundedOn(R, Nat)
    BY LessWellFounded
  <2> HIDE DEF R
  <2> QED BY <2>1, WFMin
<1>2. ASSUME NEW y \in S, ~(x <= y) PROVE FALSE
  <2>1. <<y, x>> \in R
    BY <1>2
  <2> QED BY <1>1, <2>1
<1> QED BY <1>2

(* Min and Max of the community modules return an element of their set. *)
LEMMA MinIn ==
  ASSUME NEW S, S \subseteq Nat, S # {}
  PROVE  Min(S) \in S /\ \A y \in S : Min(S) <= y
  BY LeastNat DEF Min

(* The greatest element of a bounded set of naturals, likewise. *)
LEMMA MaxIn ==
  ASSUME NEW n \in Nat, NEW S, S \subseteq 0 .. n, S # {}
  PROVE  Max(S) \in S /\ \A y \in S : Max(S) >= y
<1> DEFINE D == {n - x : x \in S}
<1>1. PICK z \in D : \A y \in D : z <= y
  <2>1. \A x \in S : n - x \in Nat
    OBVIOUS
  <2>2. D \subseteq Nat /\ D # {}
    BY <2>1
  <2> HIDE DEF D
  <2> QED BY <2>2, LeastNat
<1>2. PICK x \in S : z = n - x
  BY <1>1
<1>3. \A y \in S : x >= y
  <2> TAKE y \in S
  <2>1. z <= n - y
    BY <1>1
  <2> QED BY <1>2, <2>1
<1> QED BY <1>3 DEF Max

(* Induction over the naturals, as a statement about sets. *)
LEMMA NatSetInduction ==
  ASSUME NEW S, 0 \in S, \A n \in Nat : n \in S => n + 1 \in S
  PROVE  Nat \subseteq S
<1> SUFFICES ASSUME Nat \ S # {} PROVE FALSE
  OBVIOUS
<1>1. PICK x \in Nat \ S : \A y \in Nat \ S : x <= y
  <2>1. Nat \ S \subseteq Nat
    OBVIOUS
  <2> QED BY <2>1, LeastNat
<1>2. x # 0 /\ x - 1 \in Nat /\ x = (x - 1) + 1
  BY <1>1
<1>3. x - 1 \in S
  BY <1>1, <1>2
<1> QED BY <1>1, <1>2, <1>3

-----------------------------------------------------------------------------
Pick(s) == CHOOSE x \in s : TRUE
IsSumOf(f, T, g) ==
  g = [s \in SUBSET T |-> IF s = {} THEN 0 ELSE f[Pick(s)] + g[s \ {Pick(s)}]]

(* What the operator of the community modules stands for.                    *)
LEMMA SumDef ==
  ASSUME NEW f, NEW S
  PROVE  SumFunctionOnSet(f, S) = (CHOOSE g : IsSumOf(f, S, g))[S]
  BY Zenon DEF SumFunctionOnSet, FoldFunctionOnSet, MapThenFoldSet, IsSumOf, Pick

(* An element is picked, and a smaller set is left.                          *)
LEMMA PickFacts ==
  ASSUME NEW s, IsFiniteSet(s), s # {}
  PROVE  /\ Pick(s) \in s /\ IsFiniteSet(s \ {Pick(s)}) /\ Cardinality(s) \in Nat \ {0}
         /\ Cardinality(s \ {Pick(s)}) = Cardinality(s) - 1
<1>1. Pick(s) \in s
  BY DEF Pick
<1>2. Cardinality(s) \in Nat /\ Cardinality(s) # 0
  BY FS_CardinalityType, FS_EmptySet
<1> QED BY <1>1, <1>2, FS_RemoveElement

(* Induction on the size of a finite set, as a statement about a set of sizes. *)
LEMMA SizeInduction ==
  ASSUME NEW N, 0 \in N, \A n \in Nat : n \in N => n + 1 \in N,
         NEW S, IsFiniteSet(S)
  PROVE  Cardinality(S) \in N
  BY NatSetInduction, FS_CardinalityType

(* The equation of the sum has a solution on the small subsets of T...       *)
SolvedTo(f, T, n) ==
  \E g : \A s \in SUBSET T : IsFiniteSet(s) /\ Cardinality(s) <= n =>
           g[s] = IF s = {} THEN 0 ELSE f[Pick(s)] + g[s \ {Pick(s)}]

(* ... and on the subsets one larger ...                                     *)
LEMMA SolutionGrows ==
  ASSUME NEW f, NEW T, NEW n \in Nat, SolvedTo(f, T, n)
  PROVE  SolvedTo(f, T, n + 1)
<1>1. PICK g : \A s \in SUBSET T : IsFiniteSet(s) /\ Cardinality(s) <= n =>
                 g[s] = IF s = {} THEN 0 ELSE f[Pick(s)] + g[s \ {Pick(s)}]
  BY DEF SolvedTo
<1> DEFINE h == [s \in SUBSET T |-> IF Cardinality(s) <= n THEN g[s]
                                    ELSE f[Pick(s)] + g[s \ {Pick(s)}]]
<1>2. ASSUME NEW s \in SUBSET T, IsFiniteSet(s), Cardinality(s) <= n + 1
      PROVE  h[s] = IF s = {} THEN 0 ELSE f[Pick(s)] + h[s \ {Pick(s)}]
  <2>1. CASE s = {}
    <3>1. Cardinality(s) <= n
      BY <2>1, FS_EmptySet
    <3>2. g[s] = 0
      BY <1>1, <1>2, <2>1, <3>1
    <3> QED BY <2>1, <3>1, <3>2
  <2>2. CASE s # {}
    <3> DEFINE r == s \ {Pick(s)}
    <3>1. r \in SUBSET T /\ IsFiniteSet(r) /\ Cardinality(r) = Cardinality(s) - 1 /\ Cardinality(s) \in Nat
      BY <1>2, <2>2, PickFacts
    <3>2. Cardinality(r) <= n
      BY <1>2, <3>1
    <3>3. h[r] = g[r]
      BY <3>1, <3>2
    <3>4. CASE Cardinality(s) <= n
      <4>1. g[s] = f[Pick(s)] + g[r]
        BY <1>1, <1>2, <2>2, <3>4
      <4>2. h[s] = g[s]
        BY <3>4
      <4> QED BY <2>2, <3>3, <4>1, <4>2
    <3>5. CASE ~(Cardinality(s) <= n)
      <4>1. h[s] = f[Pick(s)] + g[r]
        BY <3>5
      <4> QED BY <2>2, <3>3, <4>1
    <3> QED BY <3>4, <3>5
  <2> QED BY <2>1, <2>2
<1> HIDE DEF h
<1> QED BY <1>2 DEF SolvedTo

(* ... and so on all of them.                                                *)
LEMMA SumEquation ==
  ASSUME NEW f, NEW T, IsFiniteSet(T)
  PROVE  \E g : IsSumOf(f, T, g)
<1>1. SolvedTo(f, T, 0)
  <2> DEFINE g == [s \in SUBSET T |-> 0]
  <2>1. \A s \in SUBSET T : IsFiniteSet(s) /\ Cardinality(s) <= 0 => s = {}
    BY FS_EmptySet, FS_CardinalityType
  <2>2. \A s \in SUBSET T : IsFiniteSet(s) /\ Cardinality(s) <= 0 =>
          g[s] = IF s = {} THEN 0 ELSE f[Pick(s)] + g[s \ {Pick(s)}]
    BY <2>1
  <2> HIDE DEF g
  <2> QED BY <2>2 DEF SolvedTo
<1> DEFINE N == {n \in Nat : SolvedTo(f, T, n)}
<1>2. 0 \in N /\ \A n \in Nat : n \in N => n + 1 \in N
  BY <1>1, SolutionGrows
<1>3. Cardinality(T) \in N
  <2> HIDE DEF N
  <2> QED BY <1>2, SizeInduction
<1>4. SolvedTo(f, T, Cardinality(T)) /\ Cardinality(T) \in Nat
  BY <1>3
<1>5. PICK g : \A s \in SUBSET T : IsFiniteSet(s) /\ Cardinality(s) <= Cardinality(T) =>
                 g[s] = IF s = {} THEN 0 ELSE f[Pick(s)] + g[s \ {Pick(s)}]
  BY <1>4 DEF SolvedTo
<1> DEFINE h == [s \in SUBSET T |-> g[s]]
<1>6. ASSUME NEW s \in SUBSET T
      PROVE  h[s] = IF s = {} THEN 0 ELSE f[Pick(s)] + h[s \ {Pick(s)}]
  <2>1. IsFiniteSet(s) /\ Cardinality(s) <= Cardinality(T)
    BY FS_Subset
  <2>2. g[s] = IF s = {} THEN 0 ELSE f[Pick(s)] + g[s \ {Pick(s)}]
    BY <1>5, <2>1
  <2>3. s \ {Pick(s)} \in SUBSET T
    OBVIOUS
  <2> QED BY <2>2, <2>3
<1>7. h = [s \in SUBSET T |-> IF s = {} THEN 0 ELSE f[Pick(s)] + h[s \ {Pick(s)}]]
  <2>1. \A s \in SUBSET T : h[s] = IF s = {} THEN 0 ELSE f[Pick(s)] + h[s \ {Pick(s)}]
    BY <1>6
  <2>2. h = [s \in SUBSET T |-> h[s]]
    OBVIOUS
  <2> HIDE DEF h
  <2> QED BY <2>1, <2>2
<1> HIDE DEF h
<1> QED BY <1>7 DEF IsSumOf

(* Two solutions agree wherever both are defined.                            *)
LEMMA SumsAgree ==
  ASSUME NEW f, NEW T, NEW U, NEW g, NEW h, IsSumOf(f, T, g), IsSumOf(f, U, h),
         NEW S \in SUBSET (T \cap U), IsFiniteSet(S)
  PROVE  g[S] = h[S]
<1> DEFINE N == {n \in Nat : \A s \in SUBSET (T \cap U) :
                               IsFiniteSet(s) /\ Cardinality(s) = n => g[s] = h[s]}
<1>1. ASSUME NEW s \in SUBSET (T \cap U)
      PROVE  /\ g[s] = IF s = {} THEN 0 ELSE f[Pick(s)] + g[s \ {Pick(s)}]
             /\ h[s] = IF s = {} THEN 0 ELSE f[Pick(s)] + h[s \ {Pick(s)}]
  <2>1. s \in SUBSET T /\ s \in SUBSET U
    OBVIOUS
  <2>2. g[s] = IF s = {} THEN 0 ELSE f[Pick(s)] + g[s \ {Pick(s)}]
    BY <2>1 DEF IsSumOf
  <2>3. h[s] = IF s = {} THEN 0 ELSE f[Pick(s)] + h[s \ {Pick(s)}]
    BY <2>1 DEF IsSumOf
  <2> QED BY <2>2, <2>3
<1>2. 0 \in N
  <2>1. \A s : IsFiniteSet(s) /\ Cardinality(s) = 0 => s = {}
    BY FS_EmptySet
  <2> QED BY <1>1, <2>1
<1>3. ASSUME NEW n \in Nat, n \in N PROVE n + 1 \in N
  <2>1. ASSUME NEW s \in SUBSET (T \cap U), IsFiniteSet(s), Cardinality(s) = n + 1
        PROVE  g[s] = h[s]
    <3>1. s # {}
      BY <2>1, FS_EmptySet
    <3> DEFINE r == s \ {Pick(s)}
    <3>2. r \in SUBSET (T \cap U) /\ IsFiniteSet(r) /\ Cardinality(r) = n
      BY <2>1, <3>1, PickFacts
    <3>3. g[r] = h[r]
      BY <1>3, <3>2
    <3> QED BY <1>1, <2>1, <3>1, <3>3
  <2> QED BY <2>1
<1>4. Cardinality(S) \in N
  <2> HIDE DEF N
  <2> QED BY <1>2, <1>3, SizeInduction
<1> QED BY <1>4

(* The empty sum, and the sum of a set as its picked element and the rest.   *)
LEMMA SumStep ==
  ASSUME NEW f, NEW S, IsFiniteSet(S)
  PROVE  SumFunctionOnSet(f, S) = IF S = {} THEN 0
                                  ELSE f[Pick(S)] + SumFunctionOnSet(f, S \ {Pick(S)})
<1> DEFINE g == CHOOSE h : IsSumOf(f, S, h)
           r == S \ {Pick(S)}
           k == CHOOSE h : IsSumOf(f, r, h)
<1>1. IsSumOf(f, S, g)
  BY SumEquation
<1>2. SumFunctionOnSet(f, S) = g[S]
  BY SumDef
<1>3. S \in SUBSET S
  OBVIOUS
<1>4. g[S] = IF S = {} THEN 0 ELSE f[Pick(S)] + g[r]
  <2> HIDE DEF g
  <2> QED BY <1>1, <1>3 DEF IsSumOf
<1>5. CASE S # {}
  <2>1. IsFiniteSet(r)
    BY <1>5, PickFacts
  <2>2. IsSumOf(f, r, k)
    BY <2>1, SumEquation
  <2>3. SumFunctionOnSet(f, r) = k[r]
    BY SumDef
  <2>4. r \in SUBSET (S \cap r)
    OBVIOUS
  <2> HIDE DEF g, r, k
  <2>5. g[r] = k[r]
    BY <1>1, <2>1, <2>2, <2>4, SumsAgree
  <2>6. SumFunctionOnSet(f, S) = f[Pick(S)] + SumFunctionOnSet(f, r)
    BY <1>2, <1>4, <1>5, <2>3, <2>5
  <2> QED BY <1>5, <2>6 DEF r
<1> QED BY <1>2, <1>4, <1>5

(* The sum of nothing.                                                       *)
LEMMA SumEmpty ==
  ASSUME NEW f
  PROVE  SumFunctionOnSet(f, {}) = 0
  BY SumStep, FS_EmptySet

(* A sum of naturals is a natural, a sum of integers an integer.             *)
LEMMA SumIn ==
  ASSUME NEW f, NEW S, IsFiniteSet(S), NEW R \in {Nat, Int}, \A x \in S : f[x] \in R
  PROVE  SumFunctionOnSet(f, S) \in R
<1> DEFINE N == {n \in Nat : \A s \in SUBSET S :
                               Cardinality(s) = n => SumFunctionOnSet(f, s) \in R}
<1>0. \A s \in SUBSET S : IsFiniteSet(s)
  BY FS_Subset
<1>1. 0 \in N
  <2>1. \A s \in SUBSET S : Cardinality(s) = 0 => s = {}
    BY <1>0, FS_EmptySet
  <2> QED BY <2>1, SumEmpty
<1>2. ASSUME NEW n \in Nat, n \in N PROVE n + 1 \in N
  <2>1. ASSUME NEW s \in SUBSET S, Cardinality(s) = n + 1
        PROVE  SumFunctionOnSet(f, s) \in R
    <3>1. IsFiniteSet(s) /\ s # {}
      BY <1>0, <2>1, FS_EmptySet
    <3> DEFINE r == s \ {Pick(s)}
    <3>2. r \in SUBSET S /\ Cardinality(r) = n /\ Pick(s) \in S
      BY <2>1, <3>1, PickFacts
    <3>3. SumFunctionOnSet(f, r) \in R
      BY <1>2, <3>2
    <3>4. SumFunctionOnSet(f, s) = f[Pick(s)] + SumFunctionOnSet(f, r)
      BY <3>1, SumStep
    <3>5. f[Pick(s)] \in R
      BY <3>2
    <3> HIDE DEF r
    <3> QED BY <3>3, <3>4, <3>5
  <2> QED BY <2>1
<1>3. Cardinality(S) \in N
  <2> HIDE DEF N
  <2> QED BY <1>1, <1>2, SizeInduction
<1> QED BY <1>3

(* Any element may be split off: the order does not matter.                  *)
LEMMA SumSplit ==
  ASSUME NEW f, NEW S, IsFiniteSet(S), \A x \in S : f[x] \in Int, NEW e \in S
  PROVE  SumFunctionOnSet(f, S) = f[e] + SumFunctionOnSet(f, S \ {e})
<1> DEFINE N == {n \in Nat : \A s \in SUBSET S : Cardinality(s) = n =>
                   \A x \in s : SumFunctionOnSet(f, s) = f[x] + SumFunctionOnSet(f, s \ {x})}
<1>0. \A s \in SUBSET S : IsFiniteSet(s) /\ SumFunctionOnSet(f, s) \in Int
  BY FS_Subset, SumIn
<1>1. 0 \in N
  <2>1. \A s \in SUBSET S : Cardinality(s) = 0 => s = {}
    BY <1>0, FS_EmptySet
  <2> QED BY <2>1
<1>2. ASSUME NEW n \in Nat, n \in N PROVE n + 1 \in N
  <2>1. ASSUME NEW s \in SUBSET S, Cardinality(s) = n + 1, NEW x \in s
        PROVE  SumFunctionOnSet(f, s) = f[x] + SumFunctionOnSet(f, s \ {x})
    <3>1. IsFiniteSet(s) /\ s # {}
      BY <1>0, <2>1
    <3>2. PICK c \in s : SumFunctionOnSet(f, s) = f[c] + SumFunctionOnSet(f, s \ {c})
      BY <3>1, PickFacts, SumStep
    <3>3. CASE x # c
      <4>1. Cardinality(s \ {c}) = n /\ Cardinality(s \ {x}) = n
        <5>1. \A y \in s : Cardinality(s \ {y}) = Cardinality(s) - 1
          BY <3>1, FS_RemoveElement
        <5>2. \A y \in s : Cardinality(s \ {y}) = n
          BY <2>1, <5>1
        <5> QED BY <2>1, <5>2
      <4>2. s \ {c} \in SUBSET S /\ x \in s \ {c} /\ s \ {x} \in SUBSET S /\ c \in s \ {x}
        BY <3>2, <3>3
      <4>3. SumFunctionOnSet(f, s \ {c}) = f[x] + SumFunctionOnSet(f, (s \ {c}) \ {x})
        BY <1>2, <4>1, <4>2
      <4>4. SumFunctionOnSet(f, s \ {x}) = f[c] + SumFunctionOnSet(f, (s \ {x}) \ {c})
        BY <1>2, <4>1, <4>2
      <4>5. (s \ {c}) \ {x} = (s \ {x}) \ {c} /\ (s \ {x}) \ {c} \in SUBSET S
        OBVIOUS
      <4> DEFINE rest == SumFunctionOnSet(f, (s \ {x}) \ {c})
      <4>6. rest \in Int /\ f[c] \in Int /\ f[x] \in Int
        BY <1>0, <3>2, <4>5
      <4>7. /\ SumFunctionOnSet(f, s \ {c}) = f[x] + rest
            /\ SumFunctionOnSet(f, s \ {x}) = f[c] + rest
        BY <4>3, <4>4, <4>5
      <4> HIDE DEF rest
      <4>8. f[c] + (f[x] + rest) = f[x] + (f[c] + rest)
        BY <4>6
      <4> QED BY <3>2, <4>7, <4>8
    <3> QED BY <3>2, <3>3
  <2> QED BY <2>1
<1>3. Cardinality(S) \in N
  <2> HIDE DEF N
  <2> QED BY <1>1, <1>2, SizeInduction
<1> QED BY <1>3

(* A sum depends on the values in the set only.                              *)
LEMMA SumSame ==
  ASSUME NEW f, NEW g, NEW S, IsFiniteSet(S), \A x \in S : f[x] = g[x]
  PROVE  SumFunctionOnSet(f, S) = SumFunctionOnSet(g, S)
<1> DEFINE N == {n \in Nat : \A s \in SUBSET S :
                   Cardinality(s) = n => SumFunctionOnSet(f, s) = SumFunctionOnSet(g, s)}
<1>0. \A s \in SUBSET S : IsFiniteSet(s)
  BY FS_Subset
<1>1. 0 \in N
  <2>1. \A s \in SUBSET S : Cardinality(s) = 0 => s = {}
    BY <1>0, FS_EmptySet
  <2> QED BY <2>1, SumEmpty
<1>2. ASSUME NEW n \in Nat, n \in N PROVE n + 1 \in N
  <2>1. ASSUME NEW s \in SUBSET S, Cardinality(s) = n + 1
        PROVE  SumFunctionOnSet(f, s) = SumFunctionOnSet(g, s)
    <3>1. IsFiniteSet(s) /\ s # {}
      BY <1>0, <2>1, FS_EmptySet
    <3> DEFINE r == s \ {Pick(s)}
    <3>2. r \in SUBSET S /\ Cardinality(r) = n /\ Pick(s) \in S
      BY <2>1, <3>1, PickFacts
    <3>3. SumFunctionOnSet(f, r) = SumFunctionOnSet(g, r)
      BY <1>2, <3>2
    <3>4. /\ SumFunctionOnSet(f, s) = f[Pick(s)] + SumFunctionOnSet(f, r)
          /\ SumFunctionOnSet(g, s) = g[Pick(s)] + SumFunctionOnSet(g, r)
      BY <3>1, SumStep
    <3> HIDE DEF r
    <3> QED BY <3>2, <3>3, <3>4
  <2> QED BY <2>1
<1>3. Cardinality(S) \in N
  <2> HIDE DEF N
  <2> QED BY <1>1, <1>2, SizeInduction
<1> QED BY <1>3

-----------------------------------------------------------------------------
(* Deleting a row leaves a table of rows, one shorter, the rows before it    *)
(* where they were and the others one place down.                            *)
LEMMA RemoveAtFacts ==
  ASSUME NEW S, NEW s \in Seq(S), NEW n \in DOMAIN s
  PROVE  /\ RemoveAt(s, n) \in Seq(S)
         /\ Len(RemoveAt(s, n)) = Len(s) - 1
         /\ \A i \in 1 .. Len(s) - 1 : RemoveAt(s, n)[i] = IF i < n THEN s[i] ELSE s[i + 1]
<1> DEFINE a == SubSeq(s, 1, n - 1)
           b == SubSeq(s, n + 1, Len(s))
<1>1. /\ n \in 1 .. Len(s) /\ Len(s) \in Nat /\ \A i \in 1 .. Len(s) : s[i] \in S
  BY LenProperties, ElementOfSeq
<1>2. /\ a \in Seq(S) /\ Len(a) = n - 1
      /\ \A i \in 1 .. n - 1 : a[i] = s[i]
  <2>1. /\ a \in Seq(S) /\ Len(a) = IF 1 <= n - 1 THEN n - 1 - 1 + 1 ELSE 0
        /\ \A i \in 1 .. n - 1 - 1 + 1 : a[i] = s[1 + i - 1]
    <3> HIDE DEF a
    <3>1. \A i \in 1 .. n - 1 : s[i] \in S
      BY <1>1
    <3> QED BY <1>1, <3>1, SubSeqProperties DEF a
  <2> QED BY <1>1, <2>1
<1>3. /\ b \in Seq(S) /\ Len(b) = Len(s) - n
      /\ \A i \in 1 .. Len(s) - n : b[i] = s[n + i]
  <2>1. /\ b \in Seq(S) /\ Len(b) = IF n + 1 <= Len(s) THEN Len(s) - (n + 1) + 1 ELSE 0
        /\ \A i \in 1 .. Len(s) - (n + 1) + 1 : b[i] = s[n + 1 + i - 1]
    <3>1. \A i \in n + 1 .. Len(s) : s[i] \in S
      BY <1>1
    <3> QED BY <1>1, <3>1, SubSeqProperties
  <2> QED BY <1>1, <2>1
<1>4. RemoveAt(s, n) = a \o b
  BY DEF RemoveAt
<1> HIDE DEF a, b
<1>5. /\ a \o b \in Seq(S) /\ Len(a \o b) = Len(a) + Len(b)
      /\ \A i \in 1 .. Len(a) + Len(b) : (a \o b)[i] = IF i <= Len(a) THEN a[i] ELSE b[i - Len(a)]
  BY <1>2, <1>3, ConcatProperties
<1>6. \A i \in 1 .. Len(s) - 1 : (a \o b)[i] = IF i < n THEN s[i] ELSE s[i + 1]
  <2> TAKE i \in 1 .. Len(s) - 1
  <2>1. i \in 1 .. Len(a) + Len(b) /\ (i <= Len(a) <=> i < n)
    BY <1>1, <1>2, <1>3
  <2>2. CASE i < n
    BY <1>1, <1>2, <1>5, <2>1, <2>2
  <2>3. CASE ~(i < n)
    <3>1. i - Len(a) \in 1 .. Len(s) - n /\ n + (i - Len(a)) = i + 1
      BY <1>1, <1>2, <2>3
    <3>2. b[i - Len(a)] = s[i + 1]
      BY <1>3, <3>1
    <3> QED BY <1>5, <2>1, <2>3, <3>2
  <2> QED BY <2>2, <2>3
<1>7. Len(a \o b) = Len(s) - 1
  BY <1>1, <1>2, <1>3, <1>5
<1> QED BY <1>4, <1>5, <1>6, <1>7

(* The rows of a set come in some order, each from the set.                  *)
LEMMA SetToSeqType ==
  ASSUME NEW S, IsFiniteSet(S)
  PROVE  SetToSeq(S) \in Seq(S)
<1>1. Cardinality(S) \in Nat /\ ExistsBijection(1 .. Cardinality(S), S)
  BY FS_CardinalityType
<1>2. \E f \in [1 .. Cardinality(S) -> S] : IsInjective(f)
  BY <1>1 DEF ExistsBijection, Bijection, Injection
<1>3. SetToSeq(S) \in [1 .. Cardinality(S) -> S]
  BY <1>2 DEF SetToSeq
<1> QED BY <1>1, <1>3, SeqDef

(* ... and all of them do.                                                   *)
LEMMA SetToSeqCovers ==
  ASSUME NEW S, IsFiniteSet(S)
  PROVE  /\ DOMAIN SetToSeq(S) = 1 .. Cardinality(S) /\ Cardinality(S) \in Nat
         /\ \A x \in S : \E i \in 1 .. Cardinality(S) : SetToSeq(S)[i] = x
<1> DEFINE n == Cardinality(S)
           f == SetToSeq(S)
<1>1. n \in Nat /\ ExistsBijection(1 .. n, S)
  BY FS_CardinalityType
<1>2. \E g \in [1 .. n -> S] : IsInjective(g)
  BY <1>1 DEF ExistsBijection, Bijection, Injection
<1>3. f \in [1 .. n -> S] /\ IsInjective(f)
  BY <1>2 DEF SetToSeq
<1>4. IsFiniteSet(1 .. n) /\ Cardinality(1 .. n) = n
  BY <1>1, FS_Interval
<1>5. f \in Injection(1 .. n, S)
  BY <1>3 DEF Injection
<1> HIDE DEF f
<1>6. f \in Surjection(1 .. n, S)
  BY <1>4, <1>5, FS_Injection
<1> QED BY <1>1, <1>3, <1>6 DEF Surjection, f

(* The sum of a table that adds two others is the sum of their sums.         *)
LEMMA SumPlus ==
  ASSUME NEW f, NEW g, NEW h, NEW S, IsFiniteSet(S),
         \A x \in S : f[x] \in Int /\ g[x] \in Int /\ h[x] = f[x] + g[x]
  PROVE  SumFunctionOnSet(h, S) = SumFunctionOnSet(f, S) + SumFunctionOnSet(g, S)
<1> DEFINE N == {n \in Nat : \A s \in SUBSET S : Cardinality(s) = n =>
                   SumFunctionOnSet(h, s) = SumFunctionOnSet(f, s) + SumFunctionOnSet(g, s)}
<1>0. \A s \in SUBSET S : /\ IsFiniteSet(s) /\ SumFunctionOnSet(f, s) \in Int
                          /\ SumFunctionOnSet(g, s) \in Int
  BY FS_Subset, SumIn
<1>1. 0 \in N
  <2>1. \A s \in SUBSET S : Cardinality(s) = 0 => s = {}
    BY <1>0, FS_EmptySet
  <2>2. SumFunctionOnSet(h, {}) = 0 /\ SumFunctionOnSet(f, {}) = 0 /\ SumFunctionOnSet(g, {}) = 0
    BY ONLY SumEmpty
  <2>3. SumFunctionOnSet(h, {}) = SumFunctionOnSet(f, {}) + SumFunctionOnSet(g, {})
    BY <2>2
  <2> QED BY ONLY <2>1, <2>3
<1>2. ASSUME NEW n \in Nat, n \in N PROVE n + 1 \in N
  <2>1. ASSUME NEW s \in SUBSET S, Cardinality(s) = n + 1
        PROVE  SumFunctionOnSet(h, s) = SumFunctionOnSet(f, s) + SumFunctionOnSet(g, s)
    <3>1. IsFiniteSet(s) /\ s # {}
      BY <1>0, <2>1, FS_EmptySet
    <3> DEFINE r == s \ {Pick(s)}
    <3>2. r \in SUBSET S /\ Cardinality(r) = n /\ Pick(s) \in S
      <4>1. Pick(s) \in s /\ Cardinality(r) = Cardinality(s) - 1
        BY ONLY <3>1, PickFacts
      <4> QED BY <2>1, <4>1
    <3>3. SumFunctionOnSet(h, r) = SumFunctionOnSet(f, r) + SumFunctionOnSet(g, r)
      BY <1>2, <3>2
    <3>4. /\ SumFunctionOnSet(f, s) = f[Pick(s)] + SumFunctionOnSet(f, r)
          /\ SumFunctionOnSet(g, s) = g[Pick(s)] + SumFunctionOnSet(g, r)
          /\ SumFunctionOnSet(h, s) = h[Pick(s)] + SumFunctionOnSet(h, r)
      BY <3>1, SumStep
    <3>5. SumFunctionOnSet(f, r) \in Int /\ SumFunctionOnSet(g, r) \in Int
      BY <1>0, <3>2
    <3> HIDE DEF r
    <3> QED BY <3>2, <3>3, <3>4, <3>5
  <2> QED BY <2>1
<1>3. Cardinality(S) \in N
  <2> HIDE DEF N
  <2> QED BY <1>1, <1>2, SizeInduction
<1> QED BY <1>3

-----------------------------------------------------------------------------
(* Tables: the weights of the first n rows, where a row x weighs w[x].       *)
Weigh(w, t, n) == SumFunctionOnSet([i \in 1 .. n |-> w[t[i]]], 1 .. n)
Weighs(w, t, n) == n \in Nat /\ \A i \in 1 .. n : w[t[i]] \in Nat

LEMMA SumNat ==
  ASSUME NEW f, NEW S, IsFiniteSet(S), \A x \in S : f[x] \in Nat
  PROVE  SumFunctionOnSet(f, S) \in Nat
  BY SumIn

LEMMA WeighIn ==
  ASSUME NEW w, NEW t, NEW n, Weighs(w, t, n)
  PROVE  Weigh(w, t, n) \in Nat
<1> DEFINE f == [i \in 1 .. n |-> w[t[i]]]
           S == 1 .. n
<1>1. IsFiniteSet(S) /\ \A i \in S : f[i] \in Nat
  BY FS_Interval DEF Weighs
<1> HIDE DEF f, S
<1>2. SumFunctionOnSet(f, S) \in Nat
  BY ONLY <1>1, SumIn
<1> QED BY <1>2 DEF Weigh, f, S

(* Rows of the same weights weigh the same.                                  *)
LEMMA WeighSame ==
  ASSUME NEW w, NEW t, NEW v, NEW u, NEW n \in Nat, \A i \in 1 .. n : w[t[i]] = v[u[i]]
  PROVE  Weigh(w, t, n) = Weigh(v, u, n)
<1> DEFINE f == [i \in 1 .. n |-> w[t[i]]]
           g == [i \in 1 .. n |-> v[u[i]]]
<1>1. f = g
  OBVIOUS
<1> QED BY <1>1 DEF Weigh

LEMMA WeighPrefix ==
  ASSUME NEW w, NEW t, NEW v, NEW u, NEW n, \A i \in 1 .. n : w[t[i]] = v[u[i]], n \in Nat
  PROVE  \A m \in 0 .. n : Weigh(w, t, m) = Weigh(v, u, m)
<1> TAKE m \in 0 .. n
<1>1. m \in Nat /\ \A i \in 1 .. m : w[t[i]] = v[u[i]]
  OBVIOUS
<1> QED BY <1>1, WeighSame

(* A row of many: the others weigh the same whatever it is.                  *)
OneOfMany(w, t, n, m) ==
  \E rest \in Nat : /\ Weigh(w, t, n) = rest + w[t[m]]
                     /\ \A u : (\A i \in 1 .. n : i # m => u[i] = t[i]) /\ w[u[m]] \in Nat
                             => Weigh(w, u, n) = rest + w[u[m]]
LEMMA WeighSplit ==
  ASSUME NEW w, NEW t, NEW n, Weighs(w, t, n)
  PROVE  \A m \in 1 .. n : OneOfMany(w, t, n, m)
<1> TAKE m \in 1 .. n
<1> DEFINE f == [i \in 1 .. n |-> w[t[i]]]
           S == 1 .. n
           R == S \ {m}
<1>1. IsFiniteSet(S) /\ IsFiniteSet(R) /\ m \in S /\ \A i \in S : f[i] \in Nat
  <2>1. IsFiniteSet(S) /\ \A i \in S : f[i] \in Nat
    BY FS_Interval DEF Weighs
  <2>2. R \subseteq S
    OBVIOUS
  <2> HIDE DEF f
  <2> QED BY <2>1, <2>2, FS_Subset
<1>2. f[m] = w[t[m]] /\ Weigh(w, t, n) = SumFunctionOnSet(f, S)
  BY DEF Weigh
<1>4. SumFunctionOnSet(f, R) \in Nat
  <2>1. \A i \in R : f[i] \in Nat
    BY <1>1
  <2> HIDE DEF f, R
  <2> QED BY <1>1, <2>1, SumNat
<1>3. ASSUME NEW u, \A i \in 1 .. n : i # m => u[i] = t[i], w[u[m]] \in Nat
      PROVE  Weigh(w, u, n) = SumFunctionOnSet(f, R) + w[u[m]]
  <2> DEFINE g == [i \in 1 .. n |-> w[u[i]]]
  <2>1. /\ \A i \in S : g[i] \in Int
        /\ \A i \in R : g[i] = f[i]
        /\ g[m] = w[u[m]] /\ Weigh(w, u, n) = SumFunctionOnSet(g, S)
    BY <1>1, <1>3 DEF Weigh, Weighs
  <2> HIDE DEF f, g, S
  <2>4. IsFiniteSet(S) /\ m \in S /\ \A i \in S : g[i] \in Int
    BY <1>1, <2>1
  <2>2. SumFunctionOnSet(g, S) = g[m] + SumFunctionOnSet(g, S \ {m})
    <3>1. \A e \in S : SumFunctionOnSet(g, S) = g[e] + SumFunctionOnSet(g, S \ {e})
      BY ONLY <2>4, SumSplit
    <3> QED BY ONLY <2>4, <3>1
  <2>3. SumFunctionOnSet(g, R) = SumFunctionOnSet(f, R)
    <3> HIDE DEF R
    <3> QED BY <1>1, <2>1, SumSame
  <2> QED BY <1>3, <1>4, <2>1, <2>2, <2>3
<1>5. Weigh(w, t, n) = SumFunctionOnSet(f, R) + w[t[m]]
  BY <1>3 DEF Weighs
<1> HIDE DEF f, R
<1> QED BY <1>3, <1>4, <1>5 DEF OneOfMany

(* No row, and one row more.                                                 *)
LEMMA WeighNext ==
  ASSUME NEW w, NEW t, NEW n, Weighs(w, t, n + 1), n \in Nat
  PROVE  /\ Weigh(w, t, n) \in Nat /\ Weigh(w, t, n + 1) = Weigh(w, t, n) + w[t[n + 1]]
         /\ Weigh(w, t, 0) = 0
<1> DEFINE m == n + 1
           f == [i \in 1 .. m |-> w[t[i]]]
           g == [i \in 1 .. n |-> w[t[i]]]
           S == 1 .. m
           R == 1 .. n
<1>1. /\ IsFiniteSet(S) /\ IsFiniteSet(R) /\ m \in S /\ S \ {m} = R
      /\ \A i \in S : f[i] \in Int
      /\ \A i \in R : f[i] = g[i] /\ g[i] \in Nat
      /\ f[m] = w[t[m]]
  <2>1. n \in Int /\ m \in Int /\ 1 \in Int
    OBVIOUS
  <2>2. IsFiniteSet(1 .. n) /\ IsFiniteSet(1 .. m)
    <3> HIDE DEF m
    <3> QED BY <2>1, FS_Interval
  <2>3. \A i \in 1 .. m : w[t[i]] \in Nat
    BY DEF Weighs
  <2>4. m \in S /\ S \ {m} = R /\ R \subseteq S
    OBVIOUS
  <2> QED BY <2>2, <2>3, <2>4
<1>2. SumFunctionOnSet(f, S) = f[m] + SumFunctionOnSet(f, S \ {m})
  <2>1. IsFiniteSet(S) /\ m \in S /\ \A i \in S : f[i] \in Int
    BY <1>1
  <2> HIDE DEF f, S, m
  <2>2. \A e \in S : SumFunctionOnSet(f, S) = f[e] + SumFunctionOnSet(f, S \ {e})
    BY ONLY <2>1, SumSplit
  <2> QED BY ONLY <2>1, <2>2
<1>3. SumFunctionOnSet(f, R) = SumFunctionOnSet(g, R) /\ SumFunctionOnSet(g, R) \in Nat
  <2>1. IsFiniteSet(R) /\ (\A i \in R : f[i] = g[i]) /\ \A i \in R : g[i] \in Nat
    BY <1>1
  <2> HIDE DEF f, g, R
  <2>2. SumFunctionOnSet(f, R) = SumFunctionOnSet(g, R)
    BY ONLY <2>1, SumSame
  <2>3. SumFunctionOnSet(g, R) \in Nat
    BY ONLY <2>1, SumNat
  <2> QED BY <2>2, <2>3
<1>4. w[t[m]] \in Nat
  BY DEF Weighs
<1>5. Weigh(w, t, n) = SumFunctionOnSet(g, R) /\ Weigh(w, t, n + 1) = SumFunctionOnSet(f, S)
  BY DEF Weigh
<1>6. Weigh(w, t, 0) = 0
  <2>1. 1 .. 0 = {}
    OBVIOUS
  <2> QED BY <2>1, SumEmpty DEF Weigh
<1> HIDE DEF f, g, S, R
<1> QED BY <1>1, <1>2, <1>3, <1>4, <1>5, <1>6

(* The table grows row by row.                                               *)
LEMMA WeighSteps ==
  ASSUME NEW w, NEW t, NEW n, Weighs(w, t, n)
  PROVE  /\ Weigh(w, t, 0) = 0
         /\ \A j \in 0 .. n : Weigh(w, t, j) \in Nat
         /\ \A j \in 0 .. n : j # n => Weigh(w, t, j + 1) = Weigh(w, t, j) + w[t[j + 1]]
<1>1. Weigh(w, t, 0) = 0
  <2>1. 1 .. 0 = {}
    OBVIOUS
  <2> QED BY <2>1, SumEmpty DEF Weigh
<1>2. \A j \in 0 .. n : Weighs(w, t, j) /\ j \in Nat
  BY DEF Weighs
<1>3. \A j \in 0 .. n : j # n => Weighs(w, t, j + 1)
  BY DEF Weighs
<1> QED BY <1>1, <1>2, <1>3, WeighIn, WeighNext

(* A row is taken out.                                                       *)
Without(t, u, n, m) == m \in 1 .. n /\ \A i \in 1 .. n - 1 : u[i] = IF i < m THEN t[i] ELSE t[i + 1]
LEMMA WeighLess ==
  ASSUME NEW w, NEW t, NEW u, NEW n, Weighs(w, t, n), NEW m, Without(t, u, n, m)
  PROVE  /\ Weigh(w, t, n) = Weigh(w, u, n - 1) + w[t[m]]
         /\ Weighs(w, u, n - 1) /\ Weigh(w, u, n - 1) \in Nat
<1> USE DEF Without
<1>0. n \in Nat \ {0} /\ Weighs(w, u, n - 1) /\ \A i \in 1 .. n : w[t[i]] \in Nat
  BY DEF Weighs
<1>1. /\ \A j \in 0 .. n : Weigh(w, t, j) \in Nat
      /\ \A j \in 0 .. n : j # n => Weigh(w, t, j + 1) = Weigh(w, t, j) + w[t[j + 1]]
  BY WeighSteps
<1>2. /\ Weigh(w, u, 0) = 0 /\ Weigh(w, t, 0) = 0
      /\ \A j \in 0 .. n - 1 : Weigh(w, u, j) \in Nat
      /\ \A j \in 0 .. n - 1 : j # n - 1 => Weigh(w, u, j + 1) = Weigh(w, u, j) + w[u[j + 1]]
  BY <1>0, WeighSteps
<1> DEFINE N == {j \in Nat : m <= j + 1 /\ j + 1 <= n => Weigh(w, t, j + 1) = Weigh(w, u, j) + w[t[m]]}
<1>3. 0 \in N
  <2> SUFFICES ASSUME m <= 1, 1 <= n PROVE Weigh(w, t, 1) = Weigh(w, u, 0) + w[t[m]]
    OBVIOUS
  <2>1. m = 1 /\ 0 \in 0 .. n /\ 0 # n /\ 0 + 1 = 1
    BY <1>0
  <2>2. Weigh(w, t, 0 + 1) = Weigh(w, t, 0) + w[t[0 + 1]]
    BY <1>1, <2>1
  <2> QED BY <1>2, <2>1, <2>2
<1>4. ASSUME NEW j \in Nat, j \in N PROVE j + 1 \in N
  <2> DEFINE k == j + 1
  <2> SUFFICES ASSUME m <= k + 1, k + 1 <= n PROVE Weigh(w, t, k + 1) = Weigh(w, u, k) + w[t[m]]
    OBVIOUS
  <2>1. /\ k \in 0 .. n /\ k # n /\ j \in 0 .. n - 1 /\ j # n - 1 /\ k \in Nat
        /\ k \in 1 .. n - 1 /\ k \in 0 .. n - 1
    BY <1>0
  <2>2. Weigh(w, t, k + 1) = Weigh(w, t, k) + w[t[k + 1]] /\ Weigh(w, t, k) \in Nat
    BY <1>1, <2>1
  <2>3. CASE m = k + 1
    <3>1. \A i \in 1 .. k : w[t[i]] = w[u[i]]
      BY <1>0, <2>1, <2>3
    <3>2. Weigh(w, t, k) = Weigh(w, u, k)
      <4> HIDE DEF k
      <4> QED BY <2>1, <3>1, WeighSame
    <3> QED BY <2>2, <2>3, <3>2
  <2>4. CASE m # k + 1
    <3>1. Weigh(w, t, k) = Weigh(w, u, j) + w[t[m]]
      BY <1>0, <1>4, <2>4
    <3>2. Weigh(w, u, k) = Weigh(w, u, j) + w[u[k]] /\ Weigh(w, u, j) \in Nat
      BY <1>2, <2>1
    <3>3. u[k] = t[k + 1]
      BY <2>1, <2>4
    <3>4. w[t[m]] \in Nat /\ w[t[k + 1]] \in Nat
      BY <1>0, <2>1
    <3> HIDE DEF k
    <3> QED BY <2>2, <3>1, <3>2, <3>3, <3>4
  <2> QED BY <2>3, <2>4
<1>5. n - 1 \in N
  <2> HIDE DEF N
  <2>1. Nat \subseteq N
    BY <1>3, <1>4, NatSetInduction
  <2> QED BY <1>0, <2>1
<1>6. n - 1 + 1 = n /\ n - 1 \in 0 .. n - 1
  BY <1>0
<1> QED BY <1>0, <1>2, <1>5, <1>6

(* The first rows weigh no more than all of them.                            *)
LEMMA WeighGrows ==
  ASSUME NEW w, NEW t, NEW n, Weighs(w, t, n)
  PROVE  \A j \in 0 .. n : Weigh(w, t, j) <= Weigh(w, t, n)
<1>0. n \in Nat /\ \A i \in 1 .. n : w[t[i]] \in Nat
  BY DEF Weighs
<1>1. /\ \A j \in 0 .. n : Weigh(w, t, j) \in Nat
      /\ \A j \in 0 .. n : j # n => Weigh(w, t, j + 1) = Weigh(w, t, j) + w[t[j + 1]]
  BY WeighSteps
<1> DEFINE N == {d \in Nat : d <= n => Weigh(w, t, n - d) <= Weigh(w, t, n)}
<1>2. 0 \in N
  BY <1>0, <1>1
<1>3. ASSUME NEW d \in Nat, d \in N PROVE d + 1 \in N
  <2> SUFFICES ASSUME d + 1 <= n PROVE Weigh(w, t, n - (d + 1)) <= Weigh(w, t, n)
    OBVIOUS
  <2>1. PICK j \in 0 .. n : j = n - (d + 1)
    BY <1>0
  <2>2. j # n /\ j + 1 = n - d /\ j + 1 \in 1 .. n /\ n \in 0 .. n
    BY <1>0, <2>1
  <2>3. Weigh(w, t, j + 1) <= Weigh(w, t, n)
    BY <1>0, <1>3, <2>2
  <2>4. /\ Weigh(w, t, j + 1) = Weigh(w, t, j) + w[t[j + 1]] /\ w[t[j + 1]] \in Nat
        /\ Weigh(w, t, j) \in Nat /\ Weigh(w, t, n) \in Nat
    BY <1>0, <1>1, <2>2
  <2> QED BY <2>1, <2>3, <2>4
<1>4. Nat \subseteq N
  <2> HIDE DEF N
  <2> QED BY <1>2, <1>3, NatSetInduction
<1> QED
  <2> TAKE j \in 0 .. n
  <2>1. n - j \in Nat /\ n - j <= n /\ n - (n - j) = j
    BY <1>0
  <2> QED BY <1>4, <2>1

LEMMA WeighBefore ==
  ASSUME NEW w, NEW t, NEW u, NEW n, NEW m, n \in Nat, Without(t, u, n, m)
  PROVE  \A j \in 0 .. m - 1 : Weigh(w, u, j) = Weigh(w, t, j)
<1> DEFINE l == m - 1
<1>1. l \in Nat /\ \A i \in 1 .. l : w[u[i]] = w[t[i]]
  BY DEF Without
<1> HIDE DEF l
<1>2. \A j \in 0 .. l : Weigh(w, u, j) = Weigh(w, t, j)
  BY ONLY <1>1, WeighPrefix
<1> QED BY <1>2 DEF l

(* A row is replaced.                                                        *)
Replaced(t, u, n, m) == m \in 1 .. n /\ \A i \in 1 .. n : i # m => u[i] = t[i]
Reweighed(w, t, u, n, m) ==
  /\ Weigh(w, t, n) - w[t[m]] \in Nat
  /\ Weigh(w, u, n) = Weigh(w, t, n) - w[t[m]] + w[u[m]]
  /\ \A j \in 0 .. m - 1 : Weigh(w, u, j) = Weigh(w, t, j)
LEMMA WeighPut ==
  ASSUME NEW w, NEW t, NEW u, NEW n, NEW m, Weighs(w, t, n), Replaced(t, u, n, m), w[u[m]] \in Nat
  PROVE  Reweighed(w, t, u, n, m)
<1>0. \A j \in 1 .. n : OneOfMany(w, t, n, j)
  BY ONLY Weighs(w, t, n), WeighSplit
<1>1. m \in 1 .. n /\ w[t[m]] \in Nat
  BY DEF Weighs, Replaced
<1>2. PICK rest \in Nat : /\ Weigh(w, t, n) = rest + w[t[m]]
                          /\ \A v : (\A i \in 1 .. n : i # m => v[i] = t[i]) /\ w[v[m]] \in Nat
                                    => Weigh(w, v, n) = rest + w[v[m]]
  BY <1>0, <1>1 DEF OneOfMany
<1>3. Weigh(w, u, n) = rest + w[u[m]]
  BY <1>2 DEF Replaced
<1> DEFINE l == m - 1
<1>4. l \in Nat /\ \A i \in 1 .. l : w[u[i]] = w[t[i]]
  BY <1>1 DEF Weighs, Replaced
<1> HIDE DEF l
<1>5. \A j \in 0 .. l : Weigh(w, u, j) = Weigh(w, t, j)
  BY ONLY <1>4, WeighPrefix
<1> QED BY <1>1, <1>2, <1>3, <1>5 DEF l, Reweighed

(* Two tables, one after the other.                                          *)
LEMMA WeighBoth ==
  ASSUME NEW w, NEW t, NEW s, NEW u, NEW n, NEW m, Weighs(w, t, n), Weighs(w, s, m),
         \A i \in 1 .. n + m : u[i] = IF i <= n THEN t[i] ELSE s[i - n]
  PROVE  Weigh(w, u, n + m) = Weigh(w, t, n) + Weigh(w, s, m) /\ Weighs(w, u, n + m)
<1>0. n \in Nat /\ m \in Nat /\ Weighs(w, u, n + m)
  BY DEF Weighs
<1>1. /\ Weigh(w, s, 0) = 0 /\ \A j \in 0 .. m : Weigh(w, s, j) \in Nat
      /\ \A j \in 0 .. m : j # m => Weigh(w, s, j + 1) = Weigh(w, s, j) + w[s[j + 1]]
  BY WeighSteps
<1>2. /\ \A j \in 0 .. n + m : Weigh(w, u, j) \in Nat
      /\ \A j \in 0 .. n + m : j # n + m => Weigh(w, u, j + 1) = Weigh(w, u, j) + w[u[j + 1]]
  BY <1>0, WeighSteps
<1>3. Weigh(w, t, n) \in Nat /\ Weigh(w, u, n) = Weigh(w, t, n)
  BY <1>0, WeighIn, WeighSame
<1> DEFINE N == {j \in Nat : j <= m => Weigh(w, u, n + j) = Weigh(w, t, n) + Weigh(w, s, j)}
<1>4. 0 \in N
  <2>1. n + 0 = n
    BY <1>0
  <2> QED BY <1>1, <1>3, <2>1
<1>5. ASSUME NEW j \in Nat, j \in N PROVE j + 1 \in N
  <2> SUFFICES ASSUME j + 1 <= m PROVE Weigh(w, u, n + (j + 1)) = Weigh(w, t, n) + Weigh(w, s, j + 1)
    OBVIOUS
  <2>1. /\ n + j \in 0 .. n + m /\ n + j # n + m /\ j \in 0 .. m /\ j # m
        /\ n + (j + 1) = n + j + 1 /\ u[n + j + 1] = s[j + 1] /\ w[s[j + 1]] \in Nat
    <3>1. n + j + 1 \in 1 .. n + m /\ ~(n + j + 1 <= n) /\ n + j + 1 - n = j + 1 /\ j + 1 \in 1 .. m
      BY <1>0
    <3> QED BY <1>0, <3>1 DEF Weighs
  <2>2. Weigh(w, u, n + j + 1) = Weigh(w, u, n + j) + w[u[n + j + 1]]
    BY <1>2, <2>1
  <2>3. Weigh(w, s, j + 1) = Weigh(w, s, j) + w[s[j + 1]] /\ Weigh(w, s, j) \in Nat
    BY <1>1, <2>1
  <2>4. Weigh(w, u, n + j) = Weigh(w, t, n) + Weigh(w, s, j)
    BY <1>5, <2>1
  <2> QED BY <1>3, <2>1, <2>2, <2>3, <2>4
<1>6. m \in N
  <2> HIDE DEF N
  <2> QED BY <1>0, <1>4, <1>5, NatSetInduction
<1> QED BY <1>0, <1>6

(* The sum of f over some of the rows, when no other row weighs anything.     *)
WeighsAs(w, t, n, f, S) ==
  /\ n \in Nat /\ S \subseteq 1 .. n /\ \A i \in S : f[i] \in Nat
  /\ \A i \in 1 .. n : w[t[i]] = IF i \in S THEN f[i] ELSE 0
LEMMA WeighSome ==
  ASSUME NEW w, NEW t, NEW n, NEW f, NEW S, WeighsAs(w, t, n, f, S)
  PROVE  SumFunctionOnSet(f, S) = Weigh(w, t, n)
<1> SUFFICES ASSUME n \in Nat, S \subseteq 1 .. n, \A i \in S : f[i] \in Nat,
                     \A i \in 1 .. n : w[t[i]] = IF i \in S THEN f[i] ELSE 0
              PROVE  SumFunctionOnSet(f, S) = Weigh(w, t, n)
  BY DEF WeighsAs
<1>0. Weighs(w, t, n)
  BY DEF Weighs
<1>1. /\ Weigh(w, t, 0) = 0 /\ \A j \in 0 .. n : Weigh(w, t, j) \in Nat
      /\ \A j \in 0 .. n : j # n => Weigh(w, t, j + 1) = Weigh(w, t, j) + w[t[j + 1]]
  BY <1>0, WeighSteps
<1> DEFINE N == {j \in Nat : j <= n => SumFunctionOnSet(f, S \cap 1 .. j) = Weigh(w, t, j)}
<1>2. 0 \in N
  <2>1. S \cap 1 .. 0 = {}
    OBVIOUS
  <2>2. SumFunctionOnSet(f, {}) = 0
    BY ONLY SumEmpty
  <2> QED BY <1>1, <2>1, <2>2
<1>3. ASSUME NEW j \in Nat, j \in N PROVE j + 1 \in N
  <2> SUFFICES ASSUME j + 1 <= n PROVE SumFunctionOnSet(f, S \cap 1 .. j + 1) = Weigh(w, t, j + 1)
    OBVIOUS
  <2> DEFINE T == S \cap 1 .. j + 1
             R == S \cap 1 .. j
  <2>1. SumFunctionOnSet(f, R) = Weigh(w, t, j) /\ Weigh(w, t, j) \in Nat
    BY <1>1, <1>3
  <2>2. Weigh(w, t, j + 1) = Weigh(w, t, j) + w[t[j + 1]]
    BY <1>1
  <2>3. CASE j + 1 \notin S
    <3>1. T = R
      <4>1. 1 .. j + 1 = 1 .. j \cup {j + 1}
        OBVIOUS
      <4> QED BY ONLY <2>3, <4>1
    <3>2. w[t[j + 1]] = 0
      BY <2>3
    <3> HIDE DEF T, R
    <3>3. SumFunctionOnSet(f, T) = Weigh(w, t, j + 1)
      BY ONLY <2>1, <2>2, <3>1, <3>2
    <3> QED BY <3>3 DEF T
  <2>4. CASE j + 1 \in S
    <3>1. j + 1 \in T /\ T \ {j + 1} = R /\ w[t[j + 1]] = f[j + 1] /\ f[j + 1] \in Nat
      BY <2>4
    <3>2. IsFiniteSet(T) /\ \A i \in T : f[i] \in Int
      <4>1. IsFiniteSet(1 .. j + 1)
        <5>1. 1 \in Int /\ j + 1 \in Int
          OBVIOUS
        <5> QED BY ONLY <5>1, FS_Interval
      <4>2. T \subseteq 1 .. j + 1 /\ T \subseteq S
        OBVIOUS
      <4>3. \A i \in S : f[i] \in Int
        OBVIOUS
      <4> HIDE DEF T
      <4>4. IsFiniteSet(T)
        BY ONLY <4>1, <4>2, FS_Subset
      <4> QED BY ONLY <4>2, <4>3, <4>4
    <3> HIDE DEF T, R
    <3>3. \A e \in T : SumFunctionOnSet(f, T) = f[e] + SumFunctionOnSet(f, T \ {e})
      BY ONLY <3>2, SumSplit
    <3>4. SumFunctionOnSet(f, T) = f[j + 1] + SumFunctionOnSet(f, R)
      BY <3>1, <3>3
    <3>5. SumFunctionOnSet(f, T) = Weigh(w, t, j + 1)
      BY <2>1, <2>2, <3>1, <3>4
    <3> QED BY <3>5 DEF T
  <2> QED BY <2>3, <2>4
<1>4. n \in N
  <2> HIDE DEF N
  <2> QED BY <1>2, <1>3, NatSetInduction
<1>5. S \cap 1 .. n = S
  OBVIOUS
<1> QED BY <1>4, <1>5
=============================================================================
