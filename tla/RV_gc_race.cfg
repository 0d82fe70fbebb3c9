CONSTANTS
  Sessions = {p, q, s}
  Nobody = Nobody
  Records = {r}
  Operations = {"modify", "erase"}
  MaxTransaction = 3
  TRA_ACTIVE_CLEANUP = 100
  SweepInterval = 0
  Retaining = {}
  Mortal = {}
SPECIFICATION Spec
INVARIANTS RecordPresent
SYMMETRY Alike
CHECK_DEADLOCK FALSE
