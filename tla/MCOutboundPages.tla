--------------------------- MODULE MCOutboundPages ---------------------------
(* The outbound pages for TLC, beside outbound calls nobody makes.           *)
EXTENDS Outbound, TLC

Clients == 1 .. 2
OneName == [c \in Clients |-> "kim"]
Days == 1 .. 2
OnShelf(n) == [r \in Rows |-> IF r \in Soon THEN 1 ELSE n]
Made(S, n) == [calls |-> S, stock |-> OnShelf(n)]
Work == {Made({"choose", "edit", "cancel", "history"}, 2), Made({"expiry", "lines", "edit", "fail"}, 2),
         Made({"edit", "cancel", "upload", "fail"}, 2), Made({"two", "edit"}, 1),
         Made({"two", "cancel"}, 1), Made({"two", "intake"}, 1)}
ASSUME Pages!PagesOK

OneKey == [r \in Rows |-> "key"]
Nobodys == [s \in {} |-> {}]
PagesInit == Init /\ Pages!Init
PagesNext == Pages!Next /\ UNCHANGED vars
PagesAlone == PagesInit /\ [][PagesNext]_<<vars, Pages!vars>>
Alike == Permutations(Users) \cup Permutations(Slips)
=============================================================================
