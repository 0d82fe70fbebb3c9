CONSTANTS
  Owners = {o1, o2}
  Requests = {r1, r2}
  NoOwner = NoOwner
  Deaths = 1
SPECIFICATION Spec
INVARIANT ChecksHold
CHECK_DEADLOCK FALSE
