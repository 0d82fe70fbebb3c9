CONSTANTS
  Sessions = {p, q}
  Nobody = Nobody
  Records = {r}
  Operations = {"modify"}
  MaxTransaction = 4
  TRA_ACTIVE_CLEANUP = 2
  SweepInterval = 1
  Retaining = {q}
  Mortal = {p}
SPECIFICATION Spec
INVARIANTS OldestIsSettled ActiveIsAlive
PROPERTIES CommittedKept
CHECK_DEADLOCK FALSE
