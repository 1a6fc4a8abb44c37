SPECIFICATION SafeSpec
CONSTANTS
  Id = "connector-1"
  Address = x1
  None = None
  MaxStream = 3
  MaxCut = 1
  MaxRestart = 0
  MaxReboot = 1
  MaxReq = 1
  MaxNotify = 1
  LateEvents = TRUE
  LatePong = TRUE
  AsyncHandler = TRUE
  AsyncToken = FALSE
  PromptClose = FALSE
  MayRefuse = TRUE
  MayClose = TRUE
CHECK_DEADLOCK FALSE
INVARIANTS
  GreetingsAreExpected
  NeverItsOwnSlave
