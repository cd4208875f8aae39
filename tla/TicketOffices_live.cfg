CONSTANTS
  o1 = o1
  o2 = o2
  p1 = p1
  p2 = p2
  Main = Main
  Free = Free
  Nobody = Nobody
  Star = Star
  Office <- MCOffice
  Pid <- OnePid
  Request <- AllVerdicts
  NSeats = 2
  MaxCliSeats = 3
SPECIFICATION FairSpec
PROPERTIES
  EventuallyClosed
  ClientsEnd
