-------------------------- MODULE MCOutboundOrders --------------------------
(* OutboundOrders on small instances.                                        *)
EXTENDS OutboundOrders

CONSTANTS key1, key2, row1, row2, row3, s1, s2

Only(row, n) == << [row |-> row, qty |-> n] >>

(* Key key1 is in rows row1 and row2, key key2 in row3.                      *)
RowKeys == [r \in Rows |-> IF r = row3 THEN key2 ELSE key1]
OwnKey == [s \in Sessions |-> IF s = s1 THEN {key1} ELSE {key2}]

WorkloadCarts == {Only(row1, 1), Only(row1, 1) \o Only(row2, 1), Only(row3, 1)}

OneEach == [r \in Rows |-> 1]
=============================================================================
