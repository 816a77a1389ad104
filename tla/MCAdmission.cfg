SPECIFICATION AdmissionSpec
CONSTANTS
  ana = ana
  east = east
  west = west
  ws = ws
  v16 = v16
  v17 = v17
  None = None
  Users = {ana}
  Endpoints = {east, west}
  Sockets = {ws}
  Versions = {v16, v17}
  Default = v17
  Requests <- Everything
INVARIANTS
  ScopesKept
PROPERTIES
  ReadOnlyFromThenOn
