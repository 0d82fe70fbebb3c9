CONSTANTS
  Sessions = {p, q, s}
  Nobody = Nobody
  Records = {r}
  Operations = {"read", "modify", "erase"}
  MaxTransaction = 3
  TRA_ACTIVE_CLEANUP = 2
  SweepInterval = 0
  Retaining = {p, q, s}
  Mortal = {}
SPECIFICATION Spec
INVARIANTS TypeOK BackVersionsCommitted BasedOnPredecessor VisibleIsCommitted SnapshotsOrdered
PROPERTIES SnapshotStable
SYMMETRY Alike
CHECK_DEADLOCK FALSE
