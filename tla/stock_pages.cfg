SPECIFICATION PagesSpec
CONSTANTS
  Names <- Wares
  Types = {p1, p2}
  NoType = none
  Master <- Marked
  Bills <- KitBill
  Quantities = {1}
  Unit = 2
  Amounts = {1, 2}
  Rows <- Batches
  NoDate = nodate
  InitialStock <- OneEach
  Changes <- MaterialChanges
  Files <- MasterFiles
  Sessions = {s1, s2}
  MaxEdits = 2
  box = box
  label = label
  tray = tray
  kit = kit
  p1 = p1
  p2 = p2
  A = A
  B = B
  m1 = m1
  m2 = m2
  stray = stray
  fee = fee
  Empty = empty
  Depot = depot
  Products = {a, b}
  Staging = {P1, T}
INVARIANTS AmountsAddUp StockAccounted TypesAreOfMaterials
PROPERTIES  ImportRestores IgnoredByHand ProductionsFollowBill
SYMMETRY Alike
CHECK_DEADLOCK FALSE
