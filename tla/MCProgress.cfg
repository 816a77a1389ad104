SPECIFICATION FairProgressSpec
CONSTANTS
  s3 = s3
  share = share
  link = link
  pull = pull
  w1 = w1
  w2 = w2
  Transfers = {s3, share, link, pull}
  Parallel = {s3}
  Lengthless = {link}
  Workers = {w1, w2}
  Threads = 2
  MaxOps = 3
  Size = 2
  None = None
INVARIANTS
  RunningShown
PROPERTIES
  BarsEnd
