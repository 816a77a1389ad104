SPECIFICATION TunnelsSpec
CONSTANTS
  a = a
  b = b
  loop = loop
  thread = thread
  p1 = p1
  p2 = p2
  p3 = p3
  p4 = p4
  None = None
  Endpoints = {a, b}
  Loop = loop
  Threads = {thread}
  Ports = {1, 2}
  Chosen = {1}
  Processes = {p1, p2, p3}
SYMMETRY Symmetry
INVARIANTS
  TunnelsLeadHome
  NoOrphans
PROPERTIES
  GivenAddressesWork
