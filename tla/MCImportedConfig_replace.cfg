SPECIFICATION ImportSpec
CONSTANTS
  Names = {n1}
  Tasks = {t1}
  MaxConcurrent = 1
  None = None
  Admins = {a1}
  Settings = {old, new}
  Remote = {}
  CronMinutes <- AtMidnight
  AutoDisableAfter = 2
  MaxSchedules = 1
  Minutes = {0}
  MaxFailures = 3
PROPERTY ImportReplaces
