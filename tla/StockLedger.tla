----------------------------- MODULE StockLedger -----------------------------
(****************************************************************************)
(* What the export warehouse promises about quantities, without locations,   *)
(* reservations, orders' states or transactions: units of a stock key are on *)
(* hand or sold to an export order.  They come in by a receipt, change by a  *)
(* count, change company by a move, and pass from one side to the other by a *)
(* sale and its return; nothing else makes or loses a unit, except that an   *)
(* edit which ties a sale to another stock row writes the sold units off     *)
(* that row once more (_apply_confirmed_export_item_changes).                *)
(****************************************************************************)
EXTENDS Integers

CONSTANTS Keys, Orders, CompanyMoves
VARIABLES onHand, sold

ledger == <<onHand, sold>>

TypeOK == onHand \in [Keys -> Nat] /\ sold \in [Orders -> [Keys -> Nat]]

Init == onHand \in [Keys -> Nat] /\ sold = [o \in Orders |-> [k \in Keys |-> 0]]

(* add_inventory, adjust_inventory: one key, by any amount. *)
Correct(k) ==
  /\ onHand' = [onHand EXCEPT ![k] = onHand'[k]] /\ onHand'[k] >= 0
  /\ UNCHANGED sold

(* move_inventory to another company. *)
Transfer(k, m) ==
  /\ <<k, m>> \in CompanyMoves /\ onHand'[k] \in 0 .. onHand[k]
  /\ onHand' = [[onHand EXCEPT ![k] = onHand'[k]] EXCEPT ![m] = @ + (onHand[k] - onHand'[k])]
  /\ UNCHANGED sold

OnlySale(o) == \A p \in Orders \ {o} : sold'[p] = sold[p]

(* confirm_export_waiting_items: sold is what leaves the stock.  The return  *)
(* of a confirmed export is the same the other way.                          *)
Sell(o) ==
  /\ OnlySale(o)
  /\ \A k \in Keys : /\ sold'[o][k] >= sold[o][k]
                     /\ onHand'[k] + sold'[o][k] = onHand[k] + sold[o][k]
Return(o) ==
  /\ OnlySale(o)
  /\ \A k \in Keys : /\ sold'[o][k] = 0
                     /\ onHand'[k] = onHand[k] + sold[o][k]

(* The edit of a confirmed export never sells: what the cart no longer asks  *)
(* for comes back, less what is taken from other rows for the sales kept.    *)
Edit(o) ==
  /\ OnlySale(o)
  /\ \A k \in Keys :
       LET relinked == onHand[k] + sold[o][k] - sold'[o][k] - onHand'[k]
       IN  sold'[o][k] <= sold[o][k] /\ relinked \in 0 .. sold'[o][k]

Next ==
  \/ \E k \in Keys : Correct(k)
  \/ \E k, m \in Keys : Transfer(k, m)
  \/ \E o \in Orders : Sell(o) \/ Return(o) \/ Edit(o)

Spec == Init /\ [][Next]_ledger
=============================================================================
