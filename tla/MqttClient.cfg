SPECIFICATION ClientSpec
CONSTANTS
  MaxStream = 4
  LateEvents = TRUE
  LatePong = TRUE
CHECK_DEADLOCK FALSE
INVARIANTS
  ClientTypeOK
  ExitsOnlyBeforeConnect
  OneRetry
  LiveHasOneKeepAlive
  TimersHaveSocket
  OnlyFirstAttemptIsTimed
