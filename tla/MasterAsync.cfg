SPECIFICATION Spec
CONSTANTS
  Server = {"connector-1"}
  Client = {"admin"}
  Socket = {s1, s2, s3}
  Type = {"connector"}
  TypeOf <- OneType
  Info = {x1}
  NoInfo = NoInfo
  MaxReq = 1
  AsyncAuth = TRUE
  NoOverlap = FALSE
  None = None
SYMMETRY Symmetry
CHECK_DEADLOCK FALSE
INVARIANTS
  ByTypeIndexesPrimaries
  ClientOwnsId
  OutstandingIsQueued
PROPERTIES
  ImplementsRequestTable
