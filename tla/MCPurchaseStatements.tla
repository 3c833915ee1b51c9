------------------------ MODULE MCPurchaseStatements ------------------------
(* Instances of PurchaseStatements for TLC.                                  *)
EXTENDS PurchaseStatements

Calls(c, u, o, l) == [calls |-> c, sessions |-> u, orders |-> o, lines |-> l]
Work == {Calls({"register", "delete", "crash"}, 2, 2, 1), Calls({"register", "delete"}, 1, 2, 2),
         Calls({"register", "edit", "delete"}, 1, 1, 1), Calls({"register", "return", "edit"}, 1, 1, 1),
         Calls({"register", "correct"}, 1, 2, 2), Calls({"register", "return", "correct"}, 1, 1, 2),
         Calls({"register", "drop", "reorder"}, 1, 2, 2)}
One(p) == [product |-> p, qty |-> 1]
\* One product, two, or the same one on two rows.
Asked == {<<One(p)>> : p \in Products} \cup {<<One(p), One(q)>> : p, q \in Products}
Alike == Permutations(Products) \cup Permutations(Orders) \cup Permutations(Users)
\* A behaviour is followed until two saves meet or one is cut off.
SavesApart == clean
=============================================================================
