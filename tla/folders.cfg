SPECIFICATION FoldersSpec
CONSTANTS
  CaseIds = {1, 2}
  Bases = {"b"}
  Labels = {"x", "y"}
  Sessions = {1, 2}
  MaxEdits = 2
  Trips <- FolderTrips
INVARIANT FoldersFollowCases
 
CHECK_DEADLOCK FALSE
