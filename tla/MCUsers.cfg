SPECIFICATION UsersSpec
CONSTANTS
  a = a
  b = b
  ip = ip
  r1 = r1
  r2 = r2
  None = None
  First = a
  Names = {a, b}
  Ips = {ip}
  Requests = {r1, r2}
  Window = 2
  MaxAttempts = 2
  Threshold = 2
  SessionAge = 1
  ResetAge = 1
  MaxTime = 6
  MaxPasswords = 2
  MaxTokens = 2
  MaxCrashes = 1
CONSTRAINT Bound
SYMMETRY Symmetry
INVARIANTS
  AnAdministratorRemains
  LockedByFailures
  RateLimited
PROPERTIES
  ResetsOnce
