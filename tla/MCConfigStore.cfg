SPECIFICATION ConfigSpec
CONSTANTS
  a = a
  loop = loop
  thread = thread
  k1 = k1
  k3 = k3
  kf = kf
  None = None
  Missing = Missing
  Torn = Torn
  Absent = Absent
  Blank = Blank
  Plain = Plain
  Endpoints = {a}
  Loop = loop
  Readers = {thread}
  Keys = {k1, k3, kf}
  Foreign = kf
  Envs = {None, k1}
  Edits <- MixedEdits
  CanCrash = TRUE
  KeyFileFails = TRUE
VIEW ButTheCopy
INVARIANTS
  OwnSecretsReadable
PROPERTIES
  ImportedSchedulesResolve
