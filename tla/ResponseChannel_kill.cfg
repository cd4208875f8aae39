CONSTANT Answers <- MCSeatAnswers
SPECIFICATION Spec
PROPERTY ChildFinishesReading
CHECK_DEADLOCK FALSE
