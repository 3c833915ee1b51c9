-------------------------- MODULE MCExportWaiting --------------------------
(* ExportWaiting on small instances.                                         *)
EXTENDS ExportWaiting

CONSTANTS key1, key2, A, B, P, T

Ask(key, l, n) == IF n > 0 THEN << [row |-> <<key, l>>, qty |-> n] >> ELSE << >>

(* One key on one shelf, and a cart that asks for unreserved staged stock.   *)
StagedCarts == {Ask(key1, A, a) \o Ask(key1, T, t) : <<a, t>> \in {<<1, 0>>, <<2, 0>>, <<0, 1>>, <<1, 1>>}}
(* Two keys on one shelf.                                                    *)
TwoKeyCarts == {Ask(key1, A, a) \o Ask(key2, A, b) : <<a, b>> \in {<<1, 0>>, <<2, 0>>, <<0, 1>>, <<1, 1>>}}

Stock(n, l) == [r \in Rows |-> IF r[2] = l THEN n ELSE 0]
TwoOnA == Stock(2, A)
OneStaged == [r \in Rows |-> IF r[2] = A THEN 2 ELSE IF r[2] = T THEN 1 ELSE 0]

(* Sales differ in their customer only by its name.                         *)
Alike == Permutations(Customers)

NoMoves == {}
BothWays == {<<key1, key2>>, <<key2, key1>>}
=============================================================================
