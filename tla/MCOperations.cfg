SPECIFICATION FairOperationSpec
CONSTANTS
  f1 = f1
  f2 = f2
  o1 = o1
  o2 = o2
  Ops = {o1}
  Followers = {f1}
  Messages <- OperationMessages
  Requests <- OneOfEach
  Capacity = 20
  MaxMessages = 3
  MaxHistory = 1
  MaxCrashes = 1
  None = None
INVARIANTS
  LiveAndStoredAgree
  RecordsTellTheTruth
  RunningMeansRunning
PROPERTIES
  OutcomesAreFinal
  OperationsConclude
