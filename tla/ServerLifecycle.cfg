CONSTANTS
  s1 = s1
  s2 = s2
  MaxSeats = 2
  Server <- MCServer
  NSeats <- MCNSeats
  Office = {o1, o2}
  MaxUses = 2
  None = None
SPECIFICATION FairSpec
INVARIANTS
  TypeOK
  FifoIsLock
  SeatLockKept
  SemaphoresFresh
  LeftOvers
PROPERTY ServerEnds
CHECK_DEADLOCK FALSE
