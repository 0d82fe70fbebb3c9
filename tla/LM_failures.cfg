CONSTANTS
  Owners = {o1, o2}
  Locks = {l1}
  Requests = {r1, r2}
  NoOwner = NoOwner
  NoLock = NoLock
  NoRequest = NoRequest
  Manager = Manager
  AstLocks = {l1}
  EnqLevels = {3, 6}
  ConvLevels = {3, 6}
  WaitModes = {"wait", "nowait"}
  LockOrdering = TRUE
  TimedWaiters = {}
  LazyOwners = {o2}
  Mortal = {o1}
SPECIFICATION FairSpec
INVARIANTS LockBlocksAgree CallerViewAgrees OneBlockingAction DeadlockStaysVisible
PROPERTIES NoTakingAway NoticesTaken
