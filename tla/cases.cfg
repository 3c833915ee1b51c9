SPECIFICATION Spec
CONSTANTS
  Cases = {1, 2}
  OrderIds = {1, 2}
  Keys = {1, 2}
  KeyOf <- OwnKeys
  StagedKeys = {2}
  RowIds = {1, 2, 3, 4}
  Boxes = {1, 2}
  Reservations = {1, 2}
  NoCase = NoCase
  NoOrder = NoOrder
  NoRow = NoRow
  NoReservation = NoReservation
  Works <- CaseWorks
  MaxFaults = 1
  MaxRows = 2
INVARIANTS UnitsKept RegistrationReconciles
PROPERTIES StagesFollowRows PackingKeepsGoods FailedSaveRestores
  
CHECK_DEADLOCK FALSE
