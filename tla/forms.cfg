SPECIFICATION Spec
CONSTANTS
  Sessions = {1, 2}
  Stocks = {1, 2}
  Works <- Work
  MaxLine = 3
  MaxBox = 2
  Most = 3
INVARIANT RowsAreBacked
PROPERTIES  SavesKeepPacking PacksWhereShown
CHECK_DEADLOCK FALSE
