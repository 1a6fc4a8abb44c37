SPECIFICATION Spec
CONSTANTS
  Server = {"connector-1"}
  Client = {}
  Socket = {s1, s2, s3}
  Type = {"connector"}
  TypeOf <- OneType
  Info = {x1, x2}
  NoInfo = NoInfo
  MaxReq = 2
  AsyncAuth = FALSE
  NoOverlap = TRUE
  None = None
SYMMETRY Symmetry
CHECK_DEADLOCK FALSE
INVARIANTS
  OutstandingIsQueued
  AnsweredAtMostOnce
  PrimaryHasOutstanding
  RegisteredHasRecord
