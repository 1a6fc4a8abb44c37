SPECIFICATION FairSpec
CONSTANTS
  Id = "connector-1"
  Address = x1
  None = None
  MaxStream = 6
  MaxCut = 1
  MaxRestart = 1
  MaxReboot = 1
  MaxReq = 2
  MaxNotify = 0
  LateEvents = FALSE
  LatePong = FALSE
  AsyncHandler = FALSE
  AsyncToken = FALSE
  PromptClose = TRUE
  MayRefuse = TRUE
  MayClose = FALSE
CHECK_DEADLOCK FALSE
INVARIANTS
  AgreeWhenQuiet
  AnsweredIsNotRunAgain
PROPERTIES
  RequestsAreAnswered
  FinallyRegistered
