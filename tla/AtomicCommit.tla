---------------------------- MODULE AtomicCommit ----------------------------
(***************************************************************************)
(* What a transaction over several databases promises: its parts end all   *)
(* the same way. A part is committed once every part is prepared, and is   *)
(* rolled back only while no part has committed.                           *)
(***************************************************************************)
CONSTANT Databases

VARIABLE fate   \* how the part in each database stands

Fates == {"active", "limbo", "committed", "dead"}

Init == fate = [d \in Databases |-> "active"]

Prepare(d) ==
  /\ fate[d] = "active"
  /\ fate' = [fate EXCEPT ![d] = "limbo"]

Commit(d) ==
  /\ fate[d] = "limbo"
  /\ \A e \in Databases : fate[e] \in {"limbo", "committed"}
  /\ fate' = [fate EXCEPT ![d] = "committed"]

Rollback(d) ==
  /\ fate[d] \in {"active", "limbo"}
  /\ \A e \in Databases : fate[e] # "committed"
  /\ fate' = [fate EXCEPT ![d] = "dead"]

Next == \E d \in Databases : Prepare(d) \/ Commit(d) \/ Rollback(d)

Spec == Init /\ [][Next]_fate
=============================================================================
