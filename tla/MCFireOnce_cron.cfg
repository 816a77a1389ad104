SPECIFICATION FireSpec
CONSTANTS
  Names = {n1}
  Tasks = {t1}
  MaxConcurrent = 1
  None = None
  Admins = {a1}
  Settings = {local}
  Remote = {}
  CronMinutes <- OnTheQuarter
  AutoDisableAfter = 2
  MaxSchedules = 1
  Minutes = {0, 1}
  MaxFailures = 3
INVARIANT OncePerCronMinute
