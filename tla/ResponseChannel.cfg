CONSTANT Answers <- MCAnswers
SPECIFICATION FairSpec
INVARIANTS
  TypeOK
  BooksAreAnswer
  EndedByAnswer
  NoEarlySigpipe
  SemLeftTaken
PROPERTIES
  ClientEnds
  OfficeReturns
CHECK_DEADLOCK FALSE
