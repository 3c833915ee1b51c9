SPECIFICATION Spec
CONSTANTS
  key1 = key1
  key2 = key2
  row1 = row1
  row2 = row2
  row3 = row3
  s1 = s1
  s2 = s2
  Keys = {key1, key2}
  Rows = {row1, row2, row3}
  KeyOf <- RowKeys
  Orders = {2, 21}
  Base = 10
  Sessions = {s1, s2}
  Handles <- OwnKey
  Carts <- WorkloadCarts
  InitialStock <- OneEach
  ReceivedQty = {1}
  CountedQty = {0}
  Deletable = {"cancel"}
  MaxStock = 3
  MaxLog = 3
PROPERTIES LedgerKept HistoryMatchesStock 
