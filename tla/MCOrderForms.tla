---------------------------- MODULE MCOrderForms ----------------------------
(* The order forms for TLC, beside statements nobody saves.                  *)
EXTENDS OrderManagement

Clicks == {{"rows"}, {"two", "draft", "list"}, {"rename", "draft"}, {"two", "products"},
           {"aliases", "rename"}}
NoWork == {[calls |-> {}, sessions |-> 0, orders |-> 0, lines |-> 0]}
ASSUME Forms!FormsOK

FormsInit == Init /\ Forms!Init
FormsNext == Forms!Next /\ UNCHANGED vars
FormsAlone == FormsInit /\ [][FormsNext]_<<vars, Forms!vars>>
Alike == Permutations(Products) \cup Permutations(Codes) \cup Permutations(Names)
           \cup Permutations(Users) \cup Permutations(OrderIds)
=============================================================================
