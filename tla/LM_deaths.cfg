CONSTANTS
  Owners = {o1, o2}
  Locks = {l1}
  Requests = {r1, r2}
  NoOwner = NoOwner
  NoLock = NoLock
  NoRequest = NoRequest
  Manager = Manager
  AstLocks = {}
  EnqLevels = {3, 6}
  ConvLevels = {6}
  WaitModes = {"wait"}
  LockOrdering = TRUE
  TimedWaiters = {o2}
  LazyOwners = {}
  Mortal = {o1}
SPECIFICATION ReleasingSpec
INVARIANTS CallerViewAgrees
PROPERTIES WaitsEnd
