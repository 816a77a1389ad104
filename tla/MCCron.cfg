SPECIFICATION CronSpec
CONSTANTS
  Expressions <- Entered
  Clock <- Minutes
  MinInterval = 15
  Unset = Unset
PROPERTIES
  FiresAsWritten
  FarEnough
  NextRunKept
