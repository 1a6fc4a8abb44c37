SPECIFICATION FairSpec
CONSTANTS
  Id = "connector-1"
  Address = x1
  None = None
  MaxStream = 5
  MaxCut = 1
  MaxRestart = 0
  MaxReboot = 0
  MaxReq = 1
  MaxNotify = 0
  LateEvents = FALSE
  LatePong = FALSE
  AsyncHandler = TRUE
  AsyncToken = FALSE
  PromptClose = TRUE
  MayRefuse = FALSE
  MayClose = FALSE
CHECK_DEADLOCK FALSE
PROPERTIES
  RequestsAreAnswered
