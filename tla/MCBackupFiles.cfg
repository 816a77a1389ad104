SPECIFICATION BackupFilesSpec
CONSTANTS
  a = a
  b = b
  db = db
  w1 = w1
  w2 = w2
  w3 = w3
  w4 = w4
  None = None
  Names = {a, b}
  Jobs = {w1, w2, w3, w4}
  Job <- Mixed
  DbOf <- OneDb
  Quota = 3
  MaxCrashes = 1
INVARIANTS
  TempsAreTemporary
PROPERTIES
  PushedBeforeDeleted
CHECK_DEADLOCK FALSE
