SPECIFICATION Spec
CONSTANTS
  MaxStream = 3
  LateEvents = FALSE
  LatePong = TRUE
  MaxReq = 1
  AsyncHandler = TRUE
  AsyncToken = TRUE
  MaxNotify = 1
CHECK_DEADLOCK FALSE
INVARIANTS
  AgentTypeOK
PROPERTIES
  LostOnlyBetweenConnections
