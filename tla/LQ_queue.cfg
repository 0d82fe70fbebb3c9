CONSTANTS
  Owners = {o1, o2}
  Requests = {r1, r2, r3}
  NoOwner = NoOwner
  Deaths = 1
SPECIFICATION Spec
INVARIANTS TypeOK Whole AlwaysOwned StillQueued
PROPERTIES Implements
SYMMETRY SameProcesses
CHECK_DEADLOCK FALSE
