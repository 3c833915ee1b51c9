SPECIFICATION Spec
CONSTANTS
  key1 = key1
  key2 = key2
  A = A
  B = B
  P = P
  T = T
  Unsold = Unsold
  NoOrder = NoOrder
  NoLoc = NoLoc
  Keys = {key1, key2}
  Shelves = {A}
  Staging = {P, T}
  Orders = {o1}
  Customers = {c1}
  Carts <- TwoKeyCarts
  InitialStock <- TwoOnA
  ReceivedQty = {1}
  CountedQty = {0}
  MaxStock = 2
  MaxItems = 2
  CompanyMoves <- BothWays
PROPERTIES LedgerKept 
