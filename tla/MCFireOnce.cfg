SPECIFICATION FairFireSpec
CONSTANTS
  Names = {n1}
  Tasks = {t1}
  MaxConcurrent = 1
  None = None
  Admins = {a1}
  Settings = {local, remote}
  Remote = {remote}
  CronMinutes <- TwoCrons
  AutoDisableAfter = 2
  MaxSchedules = 1
  Minutes = {0, 1}
  MaxFailures = 3
INVARIANTS
  BackupTypeOK
  AutoDisabled
  RunningIsReal
  OperationIsReal
  OncePerClockMinute
PROPERTIES
  AdminsOwnDefinitions
  RunsSettle
  OperationsSettle
