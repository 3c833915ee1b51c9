SPECIFICATION FormsAlone
CONSTANTS
  Users = {u, v}
  Products = {a, b}
  Codes = {c, d}
  Names = {m, n}
  OrderIds = {o1, o2}
  DraftIds = {t}
  Quantities = {1}
  CallSets <- Clicks
  MaxRows = 3
  Orders = {}
  Amounts = {}
  Baskets = {}
  Prices = {}
  Workloads <- NoWork
  MaxStatements = 0
  MaxLines = 1
  MaxChanges = 0
 
PROPERTY NewFormsMakeNewOrders
SYMMETRY Alike
CHECK_DEADLOCK FALSE
