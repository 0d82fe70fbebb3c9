CONSTANTS
  Owners = {o1, o2}
  Locks = {l1, l2}
  Requests = {r1, r2, r3, r4}
  NoOwner = NoOwner
  NoLock = NoLock
  NoRequest = NoRequest
  Manager = Manager
  AstLocks = {}
  EnqLevels = {6}
  ConvLevels = {}
  WaitModes = {"wait"}
  LockOrdering = TRUE
  TimedWaiters = {}
  LazyOwners = {}
  Mortal = {}
SPECIFICATION FairSpec
INVARIANTS PendingHasWaiter
PROPERTIES DeadlocksEnd
