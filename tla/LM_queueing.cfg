CONSTANTS
  Owners = {o1, o2, o3, o4}
  Locks = {l1}
  Requests = {r1, r2, r3, r4}
  NoOwner = NoOwner
  NoLock = NoLock
  NoRequest = NoRequest
  Manager = Manager
  AstLocks = {}
  EnqLevels = {3, 6}
  ConvLevels = {}
  WaitModes = {"wait"}
  LockOrdering = TRUE
  TimedWaiters = {}
  LazyOwners = {}
  Mortal = {}
SPECIFICATION Spec
INVARIANTS TypeOK GrantedCompatible NoForgottenGrant
PROPERTIES NoOvertaking
SYMMETRY SameProcesses
