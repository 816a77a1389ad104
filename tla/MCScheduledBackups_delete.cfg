SPECIFICATION BackupSpec
CONSTANTS
  Names = {n1}
  Tasks = {t1}
  MaxConcurrent = 1
  None = None
  Admins = {a1}
  Settings = {local}
  Remote = {}
  CronMinutes <- OneCron
  AutoDisableAfter = 2
  MaxSchedules = 1
  Minutes = {0}
  MaxFailures = 1
INVARIANT DeleteRemovesState
