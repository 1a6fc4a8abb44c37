SPECIFICATION FairSpec
CONSTANTS
  Id = "admin"
  None = None
  MaxStream = 3
  MaxCut = 2
  MaxAsk = 2
  LateEvents = TRUE
  LatePong = TRUE
  MaxAnswer = 2
CHECK_DEADLOCK FALSE
INVARIANTS
  CallbackIsOwedOrCalled
  LoginIsHeld
PROPERTIES
  QuestionsAreAnswered
  IdIsReleased
