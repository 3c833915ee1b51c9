--------------------------- MODULE MCExportCases ---------------------------
(* Instances of ExportCases for TLC.                                        *)
EXTENDS ExportCases

\* Each order item is picked from stock of its own.
OwnKeys == [o \in OrderIds |-> o]
\* One case from its order to its delivery, needing all the stock or nothing.
OneCase ==
  [cases |-> {1}, items |-> {1}, reservations |-> {1}, calls |-> Ops \ {"merge", "units"},
   entered |-> [o \in OrderIds |-> NotEntered], needs |-> {3}, picks |-> {2, 3}, shelf |-> 3]
\* One case whose order changes while it is picked, packed and delivered.
EditedCase ==
  [OneCase EXCEPT !.needs = {2, 3},
     !.calls = {"orders", "units", "open", "save", "purge", "assign", "deliver"}]
\* Two cases, each with one order item of one unit, from picking to merge and sale.
TwoCases ==
  [cases |-> {1, 2}, items |-> {1, 2}, reservations |-> {1, 2},
   calls |-> {"save", "cancel", "assign", "merge", "register"},
   entered |-> [o \in OrderIds |-> [case |-> o, need |-> 1]],
   needs |-> {1}, picks |-> {1}, shelf |-> 1]
CaseWorks == {OneCase, EditedCase, TwoCases}
=============================================================================
