SPECIFICATION Spec
CONSTANTS
  key1 = key1
  key2 = key2
  A = A
  B = B
  P = P
  T = T
  Unsold = Unsold
  NoOrder = NoOrder
  NoLoc = NoLoc
  Keys = {key1}
  Shelves = {A}
  Staging = {P, T}
  Orders = {o1, o2}
  Customers = {c1, c2}
  Carts <- StagedCarts
  InitialStock <- OneStaged
  ReceivedQty = {}
  CountedQty = {}
  MaxStock = 3
  MaxItems = 3
  CompanyMoves <- NoMoves
INVARIANT StatusAgrees
PROPERTIES SavesAchieveCart SoldKept BackingKept CancelReturnsStock
SYMMETRY Alike
