SPECIFICATION FairSpec
CONSTANTS
  MaxSubmissions = 2
  MaxQuestions = 1
  MaxAttempts = 2
  MaxTurns = 2
INVARIANTS OneUnderWay AnsweredIsNotAsked
PROPERTIES EveryMessageEnds OrderUnlessOverruled
CHECK_DEADLOCK FALSE
