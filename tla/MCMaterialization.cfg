CONSTANTS
  short = short
  long = long
  Callers = {w1, w2}
  Contents = {short, long}
  Length <- MCLength
  Thresholds = {1}
  Foreign <- MCForeign
  MaxNameAttempts = 2
  StorageLimit = 2
  Occupied <- MCOccupied
  MaxRecords = 1
  MaxCalls = 2
  MaxCrashes = 1
  None = none
  Planted = planted
SPECIFICATION Spec
INVARIANTS DirectoryIsTruthful
PROPERTIES NothingIsOverwritten CallsEnd
CHECK_DEADLOCK FALSE
