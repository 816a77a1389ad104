SPECIFICATION FairBroadcasterSpec
CONSTANTS
  f1 = f1
  f2 = f2
  o1 = o1
  o2 = o2
  m1 = m1
  m2 = m2
  Ops = {o1}
  Followers = {f1, f2}
  Messages = {m1, m2}
  Capacity = 3
  MaxMessages = 3
  None = None
INVARIANTS
  NothingMissed
PROPERTIES
  FollowersAreReleased
  ImplementsStream
CHECK_DEADLOCK FALSE
