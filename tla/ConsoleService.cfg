SPECIFICATION Spec
CONSTANTS
  Process = {"master", "monitor"}
  Master = "master"
  Module = {m1, m2}
  Client = {c1}
  MaxRecord = 2
  FirstJob = 0
  MaxJob = 2
  MaxCommand = 1
  Reregister = TRUE
CHECK_DEADLOCK FALSE
SYMMETRY Symmetry
INVARIANTS
  TypeOK
  OneJobPerRecord
