-------------------------- MODULE MCRecordVersions --------------------------
(* Small instances of RecordVersions.  The processes are alike unless only  *)
(* some of them may die.                                                    *)
EXTENDS RecordVersions

Alike == Permutations(Sessions)
=============================================================================
