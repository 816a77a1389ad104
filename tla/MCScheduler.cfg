SPECIFICATION FairSpec
CONSTANTS
  Names = {n1, n2, n3, n4}
  Tasks = {t1, t2, t3, t4}
  MaxConcurrent = 2
  None = None
INVARIANTS
  TypeOK
  NonOverlap
  ReservationsExact
  AtMostMaxConcurrent
PROPERTIES
  ReservationEnds
  ImplementsRunSlots
