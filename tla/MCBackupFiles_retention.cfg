SPECIFICATION BackupFilesSpec
CONSTANTS
  a = a
  b = b
  db = db
  w1 = w1
  w2 = w2
  w3 = w3
  w4 = w4
  None = None
  Names = {a, b}
  Jobs = {w1, w2}
  Job <- TwoSchedules
  DbOf <- OneDb
  Quota = 0
  MaxCrashes = 0
PROPERTIES
  BackupSurvivesRetention
CHECK_DEADLOCK FALSE
