SPECIFICATION Spec
CONSTANTS
  Users = {u, v}
  Products = {a, b}
  Orders = {o1, o2}
  Amounts = {1}
  Baskets <- Asked
  Prices = {1}
  Workloads <- Work
  MaxStatements = 3
  MaxLines = 2
  MaxChanges = 1
INVARIANTS StatementsWhole ReceivedIsClosed
PROPERTY PaidReturnsStand
CONSTRAINT SavesApart
SYMMETRY Alike
CHECK_DEADLOCK FALSE
