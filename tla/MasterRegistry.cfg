SPECIFICATION Spec
CONSTANTS
  Server = {"connector-1", "connector-2"}
  Client = {"admin"}
  Socket = {s1, s2, s3}
  Type = {"connector"}
  TypeOf <- OneType
  Info = {x1, x2}
  NoInfo = NoInfo
  MaxReq = 0
  AsyncAuth = FALSE
  NoOverlap = FALSE
  None = None
SYMMETRY Symmetry
CHECK_DEADLOCK FALSE
INVARIANTS
  TypeOK
  PrimaryIsRegistered
  RecipientsAreOpen
  ByTypeIndexesPrimaries
  ClientOwnsId
