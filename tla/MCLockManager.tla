--------------------------- MODULE MCLockManager ---------------------------
(* Instances of LockManager for TLC; the .cfg files give the constants.     *)
EXTENDS LockManager, TLC

SameRequests  == Permutations(Requests)
SameProcesses == Permutations(Requests) \cup Permutations(Owners)
=============================================================================
