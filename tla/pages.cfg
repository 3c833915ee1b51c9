SPECIFICATION PagesAlone
CONSTANTS
  Users = {u, v}
  Rows = {a, b}
  Soon = {b}
  Arke = {b}
  Slips = {o1, o2}
  Customers <- Clients
  NameOf <- OneName
  Registered <- Clients
  Dates <- Days
  MaxQty = 1
  MaxFaults = 1
  Works <- Work
  Keys = {"key"}
  KeyOf <- OneKey
  Orders = {}
  Base = 10
  Sessions = {}
  Handles <- Nobodys
  Carts = {}
  InitialStock <- Zero
  ReceivedQty = {}
  CountedQty = {}
  Deletable = {}
  MaxStock = 0
  MaxLog = 0
INVARIANTS EditsOverwriteTheirOrder 
SYMMETRY Alike
CHECK_DEADLOCK FALSE
