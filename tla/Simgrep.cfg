CONSTANTS
  d1 = d1
  d2 = d2
  d3 = d3
  f1 = f1
  f2 = f2
  f3 = f3
  MaxLen = 3
  Dir = {d1, d2, d3}
  Main = Main
  ExitModulus = 4
  Searches <- MCSearches
SPECIFICATION FairSpec
INVARIANTS
  TypeOK
  PrintsRightLines
  SearchComplete
  HaltedWhileAsked
PROPERTY SearchEnds
CHECK_DEADLOCK FALSE
