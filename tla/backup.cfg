SPECIFICATION Spec
CONSTANTS
  Worker = worker
  Users = {u1}
  Roots = {r1}
  Local = local
  None = none
  NumDbs = 2
  Interval = 1
  MaxBackups = 1
  MaxFiles = 1
INVARIANT RecordedSetsExist
PROPERTY BackupsRecur
