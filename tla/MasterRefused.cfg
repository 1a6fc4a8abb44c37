SPECIFICATION Spec
CONSTANTS
  Server = {"connector-1"}
  Client = {}
  Socket = {s1, s2}
  Type = {"connector"}
  TypeOf <- OneType
  Info = {x1, x2}
  NoInfo = NoInfo
  MaxReq = 1
  AsyncAuth = FALSE
  NoOverlap = FALSE
  None = None
SYMMETRY Symmetry
CHECK_DEADLOCK FALSE
INVARIANTS
  RefusedIsNotAnswered
