CONSTANTS
  MaxLen = 4
  Args <- MCArgs
  Rooms = {0, 1, 3}
  MaxCliSeats = 2
  WidthSeat = 2
  Null = Null
  Unset = Unset
SPECIFICATION Spec
INVARIANTS
  TypeOK
  ServerSeesArgs
  ServerAgreesWithClient
  StoresInBounds
  ListsFit
  AyeIsBookable
CHECK_DEADLOCK FALSE
