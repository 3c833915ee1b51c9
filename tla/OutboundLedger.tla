---------------------------- MODULE OutboundLedger ----------------------------
(****************************************************************************)
(* What outbound orders promise about quantities: a unit of a stock key is   *)
(* on hand or taken by one order.  Saving, editing and cancelling an order   *)
(* move units between the two and touch nobody else's; only receipts, counts *)
(* and deletions of history change the sum, and a cancellation that takes    *)
(* the restoration of another order for its own.                             *)
(****************************************************************************)
EXTENDS Integers

CONSTANTS Keys, Orders, CompanyMoves
VARIABLES onHand, taken

ledger == <<onHand, taken>>

Init == onHand \in [Keys -> Nat] /\ taken = [o \in Orders |-> [k \in Keys |-> 0]]

(* add_inventory, adjust_inventory, and a history row deleted with its effect. *)
Correct(k) ==
  /\ onHand' = [onHand EXCEPT ![k] = onHand'[k]] /\ onHand'[k] >= 0
  /\ UNCHANGED taken

(* move_inventory to another company, or its reversal. *)
Transfer(k, m) ==
  /\ <<k, m>> \in CompanyMoves /\ onHand'[k] \in 0 .. onHand[k]
  /\ onHand' = [[onHand EXCEPT ![k] = onHand'[k]] EXCEPT ![m] = @ + (onHand[k] - onHand'[k])]
  /\ UNCHANGED taken

(* save_outbound_order, update_outbound_order, cancel_outbound_order. *)
Exchange(o) ==
  /\ \A p \in Orders \ {o} : taken'[p] = taken[p]
  /\ \A k \in Keys : /\ onHand'[k] >= 0 /\ taken'[o][k] >= 0
                     /\ onHand'[k] + taken'[o][k] = onHand[k] + taken[o][k]

(* cancel_outbound_order, when it finds a restoration in the history. *)
Forget(o) ==
  /\ taken' = [taken EXCEPT ![o] = [k \in Keys |-> 0]]
  /\ UNCHANGED onHand

Next ==
  \/ \E k \in Keys : Correct(k)
  \/ \E k, m \in Keys : Transfer(k, m)
  \/ \E o \in Orders : Exchange(o) \/ Forget(o)

Spec == Init /\ [][Next]_ledger
=============================================================================
