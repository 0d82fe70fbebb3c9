--------------------------- MODULE RecordVersions ---------------------------
(* Records and their chains of versions (jrd/vio.c) on top of the           *)
(* transactions: reading through the chain, updating and the conflicts of   *)
(* that, backing out the versions of dead transactions, collecting the      *)
(* versions nobody needs, rolling back, sweeping.  A record has a page of   *)
(* its own, which one process at a time has changed in its cache; what a    *)
(* process did not write before it dies is lost (jrd/cch.c, by its use).    *)
EXTENDS Transactions, SequencesExt

CONSTANTS Records, Nobody,
          Operations           \* what statements do: read, modify, erase

VARIABLES
    chain,     \* the versions of a record, the newest first
    disk,      \* the same as the page in the file has it
    dirty,     \* the process with a changed copy of the page, Nobody
    mark,      \* changed pages that the running transaction of it changed
    rpb        \* what the transaction of a process does to a record

vars == <<transactionVars, chain, disk, dirty, mark, rpb>>

(* A version: who wrote it, from whose version, and whether it is erased.   *)
Version(n, base, del) == [tra |-> n, base |-> base, del |-> del]
NoVersion == Version(0, 0, TRUE)

VersionType == [tra : 0..MaxTransaction, base : 0..MaxTransaction, del : BOOLEAN]

NoRpb == [at |-> "none", rec |-> Nobody, op |-> "none", read |-> 0,
          temp |-> <<0, 0>>, conflict |-> 0, on |-> 0, swept |-> {}]

RpbType ==
    [at : {"none", "expunge", "update", "wait", "backout", "disappeared"},
     rec : Records \cup {Nobody}, op : Operations \cup {"none"}, read : 0..MaxTransaction,
     temp : (0..MaxTransaction) \X Nat, conflict : 0..MaxTransaction,
     on : 0..MaxTransaction, swept : SUBSET Records]

(* Record versions of the system transaction, 0, are committed always.      *)
State(p, n) == IF n = 0 THEN "committed" ELSE TRA_snapshot_state(p, n)

(* The newest version the snapshot of p has, and what a statement of p      *)
(* finds: nothing if that version says the record is erased.                *)
Seen(p, r)   == {i \in DOMAIN chain[r] : State(p, chain[r][i].tra) \in {"us", "committed"}}
Newest(p, r) == IF Seen(p, r) = {} THEN NoVersion ELSE chain[r][Min(Seen(p, r))]
View(p, r)   == IF Newest(p, r).del THEN NoVersion ELSE Newest(p, r)

Init ==
    /\ Init_tra
    /\ chain = [r \in Records |-> <<Version(0, 0, FALSE)>>]
    /\ disk  = chain
    /\ dirty = [r \in Records |-> Nobody]
    /\ mark  = {}
    /\ rpb   = [p \in Sessions |-> NoRpb]

-----------------------------------------------------------------------------
(* The page of r comes to p: another process that changed it writes it.     *)
(* Where nobody dies a changed page is written at once.                     *)
Access(p, r) ==
    /\ disk'  = [disk EXCEPT ![r] = IF dirty[r] = p THEN @ ELSE chain[r]]
    /\ dirty' = [dirty EXCEPT ![r] = IF @ = p THEN p ELSE Nobody]
    /\ mark'  = IF dirty[r] = p THEN mark ELSE mark \ {r}
    /\ UNCHANGED chain

Change(p, r, versions) ==
    /\ chain' = [chain EXCEPT ![r] = versions]
    /\ IF Mortal = {}
       THEN disk' = chain' /\ UNCHANGED <<dirty, mark>>
       ELSE /\ disk'  = [disk EXCEPT ![r] = IF dirty[r] = p THEN @ ELSE chain[r]]
            /\ dirty' = [dirty EXCEPT ![r] = p]
            /\ mark'  = mark \cup {r}

(* CCH_flush: the pages in rs that p changed are written.                   *)
Flush(p, rs) ==
    LET going == {r \in rs : dirty[r] = p}
    IN  /\ disk'  = [r \in Records |-> IF r \in going THEN chain[r] ELSE disk[r]]
        /\ dirty' = [r \in Records |-> IF r \in going THEN Nobody ELSE dirty[r]]
        /\ mark'  = {r \in mark : dirty[r] # p}
        /\ UNCHANGED chain

Forget(p) == mark' = {r \in mark : dirty[r] # p}

(* A cache may write a page at any time.                                    *)
CacheWrites(r) ==
    /\ dirty[r] # Nobody
    /\ disk'  = [disk EXCEPT ![r] = chain[r]]
    /\ dirty' = [dirty EXCEPT ![r] = Nobody]
    /\ mark'  = mark \ {r}
    /\ UNCHANGED <<transactionVars, chain, rpb>>

-----------------------------------------------------------------------------
(* VIO_chase_record_version, from the primary version each time round.      *)
Primary(r)      == Head(chain[r])
Mature(p, r)    == Primary(r).tra < tra[p].oldest_active
(* A mutant: what the writer is doing is not asked if its number is older.  *)
HeadStateByAge(p, r) ==
    LET n == Primary(r).tra
    IN  IF State(p, n) = "active" /\ n < tra[p].number THEN "committed" ELSE State(p, n)
HeadState(p, r) == State(p, Primary(r).tra)

Step(p, at) == rpb' = [rpb EXCEPT ![p].at = at]
(* The record is done with: a sweep goes on to the next.                    *)
Finished(p, r) ==
    rpb' = [rpb EXCEPT ![p] = [NoRpb EXCEPT !.swept =
               IF tra[p].at = "sweep" THEN rpb[p].swept \cup {r} ELSE {}]]

(* A statement looks at a record, a sweep at one it did not see yet.  The   *)
(* chase keeps nothing from one time round to the next.                     *)
Chases(p, r) ==
    /\ tra[p].at = "active" \/ (tra[p].at = "sweep" /\ r \notin rpb[p].swept)
    /\ rpb[p].at = "none"
    /\ UNCHANGED transactionVars

(* The writer of the primary version is dead: its predecessor takes its     *)
(* place.                                                                   *)
ChaseBacksOut(p, r) ==
    /\ Chases(p, r) /\ chain[r] # <<>> /\ HeadState(p, r) = "dead"
    /\ Change(p, r, Tail(chain[r]))
    /\ UNCHANGED rpb

(* All snapshots have the primary version: nobody needs those behind it.    *)
purge(p, r) ==
    /\ Chases(p, r) /\ Len(chain[r]) > 1
    /\ HeadState(p, r) = "committed" /\ ~Primary(r).del /\ Mature(p, r)
    /\ Change(p, r, <<Primary(r)>>)
    /\ UNCHANGED rpb

(* All snapshots have the record erased: the page is let go, and expunge    *)
(* looks again at what it finds then, but not at the state of its writer.   *)
ChaseExpunges(p, r) ==
    /\ Chases(p, r) /\ chain[r] # <<>>
    /\ HeadState(p, r) = "committed" /\ Primary(r).del /\ Mature(p, r)
    /\ rpb' = [rpb EXCEPT ![p].at = "expunge", ![p].rec = r]
    /\ Access(p, r)

expunge(p, r) ==
    /\ rpb[p].at = "expunge" /\ rpb[p].rec = r
    /\ IF chain[r] # <<>> /\ Primary(r).del /\ Mature(p, r)
       THEN Change(p, r, <<>>) ELSE Access(p, r)
    /\ Finished(p, r)
    /\ UNCHANGED transactionVars

(* The transaction of the primary version and where its predecessor is: a   *)
(* purge or backing out changes them.                                       *)
Pointers(r) == <<Primary(r).tra, Len(chain[r])>>

(* The end of a chase, with nothing to clean up.                            *)
ChaseReturns(p, r) ==
    /\ Chases(p, r)
    /\ chain[r] # <<>> =>
         /\ HeadState(p, r) # "dead"
         /\ HeadState(p, r) = "committed" /\ Mature(p, r) =>
               ~Primary(r).del /\ Len(chain[r]) = 1
    /\ Access(p, r)

(* A statement has the version of its snapshot, if there is one, and starts *)
(* an update from it or not.  A version of its own it would change in place.*)
VIO_get(p, r, op) ==
    /\ tra[p].at = "active" /\ ChaseReturns(p, r)
    /\ LET v == View(p, r)
       IN  rpb' = IF v = NoVersion \/ v.tra = tra[p].number \/ op = "read" THEN rpb
                  ELSE [rpb EXCEPT ![p].at = "update", ![p].rec = r, ![p].op = op,
                          ![p].read = v.tra,
                          ![p].temp = IF v = Primary(r) THEN Pointers(r) ELSE <<v.tra, 0>>]

VIO_sweep(p, r) == tra[p].at = "sweep" /\ ChaseReturns(p, r) /\ Finished(p, r)

-----------------------------------------------------------------------------
(* prepare_update, once round its loop, and the replacement of the record.  *)
Updates(p, r) == rpb[p].at = "update" /\ rpb[p].rec = r

Updatable(p, r) == \/ HeadState(p, r) = "us"
                   \/ HeadState(p, r) = "committed" /\ ~Primary(r).del

(* The primary version is the one the new version was made from, by the     *)
(* pointers of the copy that was stored behind it.                          *)
Replaces(p, r) ==
    /\ Updates(p, r) /\ chain[r] # <<>> /\ Updatable(p, r)
    /\ rpb[p].temp = Pointers(r)
    /\ Change(p, r, <<Version(tra[p].number, rpb[p].read, rpb[p].op = "erase")>> \o chain[r])
    /\ tra' = [tra EXCEPT ![p].write = TRUE]
    /\ Finished(p, r)
    /\ UNCHANGED <<tip, hdr, dbb, lck, overtook>>

(* Somebody backed out or purged: the data of the new version is taken to   *)
(* be right, the pointers of the copy are put right.                        *)
CorrectsPointers(p, r) ==
    /\ Updates(p, r) /\ chain[r] # <<>> /\ Updatable(p, r)
    /\ rpb[p].temp # Pointers(r)
    /\ rpb' = [rpb EXCEPT ![p].temp = Pointers(r)]
    /\ Access(p, r)
    /\ UNCHANGED transactionVars

(* The writer is waited for, or backed out at once if the snapshot has it   *)
(* dead.                                                                    *)
UpdateBlocked(p, r) ==
    /\ Updates(p, r) /\ chain[r] # <<>> /\ HeadState(p, r) \in {"active", "dead"}
    /\ rpb' = [rpb EXCEPT ![p].at = IF HeadState(p, r) = "dead" THEN "backout" ELSE "wait",
                          ![p].on = Primary(r).tra]
    /\ Access(p, r)
    /\ UNCHANGED transactionVars

(* The record is not there any more, msg 186 and the end of the process, or *)
(* it is erased, msg 188.                                                   *)
NothingToUpdate(p, r) ==
    /\ Updates(p, r)
    /\ chain[r] # <<>> => HeadState(p, r) = "committed" /\ Primary(r).del
    /\ IF chain[r] = <<>> THEN Step(p, "disappeared") ELSE Finished(p, r)
    /\ Access(p, r)
    /\ UNCHANGED transactionVars

(* The writer is over.  It committed: once the record is looked at again,   *)
(* as the writer may have undone its work before; the second time that is   *)
(* an update conflict.  It died: its version is backed out.                 *)
WaitEnds(p) ==
    /\ rpb[p].at = "wait"
    /\ TRA_wait(p, rpb[p].on)
    /\ IF WaitedState(rpb[p].on) = "dead" THEN Step(p, "backout")
       ELSE IF rpb[p].conflict # rpb[p].on
       THEN rpb' = [rpb EXCEPT ![p].at = "update", ![p].conflict = rpb[p].on]
       ELSE Finished(p, rpb[p].rec)
    /\ UNCHANGED <<chain, disk, dirty, mark>>

(* No wait, or the wait is denied: a deadlock.                              *)
WaitDenied(p) ==
    /\ rpb[p].at = "wait" /\ lck[rpb[p].on] # 0
    /\ Finished(p, rpb[p].rec)
    /\ UNCHANGED <<transactionVars, chain, disk, dirty, mark>>

(* VIO_backout gives up if the record is not what it was before the wait.   *)
VIO_backout(p, r) ==
    /\ rpb[p].at = "backout" /\ rpb[p].rec = r
    /\ IF chain[r] # <<>> /\ Primary(r).tra = rpb[p].on
       THEN Change(p, r, Tail(chain[r])) ELSE Access(p, r)
    /\ Step(p, "update")
    /\ UNCHANGED transactionVars

(* A record is stored under a number that is free.                          *)
VIO_store(p, r) ==
    /\ tra[p].at = "active" /\ rpb[p].at = "none" /\ chain[r] = <<>>
    /\ Change(p, r, <<Version(tra[p].number, 0, FALSE)>>)
    /\ tra' = [tra EXCEPT ![p].write = TRUE]
    /\ UNCHANGED <<tip, hdr, dbb, lck, overtook, rpb>>

-----------------------------------------------------------------------------
(* The transactions' actions with what they do to records and pages.        *)
Pages == <<chain, disk, dirty, mark, rpb>>
Quiet(p) == rpb[p].at = "none"

Starts(p) ==
    /\ \/ TRA_start(p) \/ TRA_get_inventory(p) \/ CleansUp(p) \/ FindsOldest(p)
       \/ retain_context(p) \/ retain_release(p) \/ TRA_release_transaction(p)
       \/ Attach(p)
    /\ UNCHANGED Pages

(* A mutant: the state is written first.                                    *)
CommitsUnflushed(p) ==
    /\ Quiet(p)
    /\ TRA_commit(p) \/ TRA_commit_retaining(p)
    /\ UNCHANGED Pages

(* What the transaction changed is in the file before its state is.         *)
Commits(p) ==
    /\ Quiet(p)
    /\ TRA_commit(p) \/ TRA_commit_retaining(p)
    /\ Flush(p, mark)
    /\ UNCHANGED rpb

(* Before it is undone the work of the transaction is written.              *)
RollsBack(p) ==
    /\ Quiet(p) /\ TRA_rollback(p)
    /\ IF tra'[p].at = "undo" THEN Flush(p, mark) ELSE Forget(p) /\ UNCHANGED <<chain, disk, dirty>>
    /\ UNCHANGED rpb

Unmade(p) == {r \in Records : chain[r] # <<>> /\ Primary(r).tra = tra[p].number}

(* VIO_verb_cleanup: one record of the transaction's savepoint.             *)
VIO_verb_cleanup(p, r) ==
    /\ tra[p].at = "undo" /\ r \in Unmade(p)
    /\ Change(p, r, Tail(chain[r]))
    /\ UNCHANGED <<transactionVars, rpb>>

UndoEnds(p) ==
    /\ Unmade(p) = {} /\ Undone(p)
    /\ Flush(p, mark)
    /\ UNCHANGED rpb

UndoGivesUp(p) == UndoFails(p) /\ Forget(p) /\ UNCHANGED <<chain, disk, dirty, rpb>>

(* A mutant: the header page is written first.                              *)
TRA_sweepUnflushed(p) ==
    /\ SweepEnds(p) /\ rpb[p].swept = Records /\ Quiet(p)
    /\ rpb' = [rpb EXCEPT ![p] = NoRpb]
    /\ UNCHANGED <<chain, disk, dirty, mark>>

TRA_sweep(p) ==
    /\ SweepEnds(p) /\ rpb[p].swept = Records /\ Quiet(p)
    /\ Flush(p, Records)
    /\ rpb' = [rpb EXCEPT ![p] = NoRpb]

ProcessDies(p) ==
    /\ Dies(p)
    /\ chain' = [r \in Records |-> IF dirty[r] = p THEN disk[r] ELSE chain[r]]
    /\ dirty' = [r \in Records |-> IF dirty[r] = p THEN Nobody ELSE dirty[r]]
    /\ Forget(p)
    /\ rpb' = [rpb EXCEPT ![p] = NoRpb]
    /\ UNCHANGED disk

Next ==
    \/ \E p \in Sessions :
         \/ Starts(p) \/ Commits(p) \/ RollsBack(p) \/ UndoEnds(p) \/ UndoGivesUp(p)
         \/ TRA_sweep(p) \/ ProcessDies(p) \/ WaitEnds(p) \/ WaitDenied(p)
    \/ \E p \in Sessions, r \in Records :
         \/ \E op \in Operations : VIO_get(p, r, op)
         \/ VIO_sweep(p, r) \/ VIO_store(p, r) \/ VIO_verb_cleanup(p, r)
         \/ ChaseBacksOut(p, r) \/ purge(p, r) \/ ChaseExpunges(p, r) \/ expunge(p, r)
         \/ Replaces(p, r) \/ CorrectsPointers(p, r) \/ NothingToUpdate(p, r)
         \/ UpdateBlocked(p, r) \/ VIO_backout(p, r)
    \/ \E r \in Records : CacheWrites(r)

Spec == Init /\ [][Next]_vars

-----------------------------------------------------------------------------
(* The type invariant: the counters of the header page and of the           *)
(* transactions stay within the numbers, no counter goes below zero.        *)
TypeOK ==
    /\ tip \in [Numbers -> States]
    /\ hdr \in [next : 0..MaxTransaction, oldest_transaction : 0..MaxTransaction,
                oldest_active : 0..MaxTransaction, oldest_snapshot : 0..MaxTransaction]
    /\ dbb \in [Sessions -> [oldest_transaction : 0..MaxTransaction,
                oldest_active : 0..MaxTransaction, oldest_snapshot : 0..MaxTransaction]]
    /\ lck \in [Numbers -> 0..MaxTransaction]
    /\ tra \in [Sessions -> TraType] /\ rpb \in [Sessions -> RpbType]
    /\ overtook \subseteq Sessions
    /\ chain \in [Records -> Seq(VersionType)] /\ disk \in [Records -> Seq(VersionType)]
    /\ dirty \in [Records -> Sessions \cup {Nobody}] /\ mark \subseteq Records

(* A transaction finds the same version of a record from its start to its   *)
(* end, its own work apart: nobody who updates, backs out, purges, expunges *)
(* or sweeps takes the version its snapshot has.  Not so if it is overtaken *)
(* (overtook), as RecordPresent shows.                                      *)
SnapshotStable ==
    [][\A p \in Sessions, r \in Records :
          /\ Reads(p) /\ Reads(p)' /\ tra'[p].top = tra[p].top
          /\ p \notin overtook'
          /\ Newest(p, r).tra \notin Own(p) /\ Newest(p, r)'.tra \notin Own(p)'
          => View(p, r)' = View(p, r)]_vars

Committed(n) == n = 0 \/ tip[n] = "committed"

(* Only the primary version of a record may be the work of a transaction    *)
(* that did not commit: whoever updates a record waits for its last writer  *)
(* or backs it out first.                                                   *)
BackVersionsCommitted ==
    \A r \in Records : \A i \in 2..Len(chain[r]) : Committed(chain[r][i].tra)

(* No lost update: a version was made from the one behind it.               *)
BasedOnPredecessor ==
    \A r \in Records : \A i \in 1..(Len(chain[r]) - 1) :
        chain[r][i].base = chain[r][i + 1].tra

(* What committed and the snapshot of p has.                                *)
Sees(p) == {n \in Numbers : Committed(n) /\ State(p, n) \in {"us", "committed"}}

(* The snapshots are in the order in which their transactions started: what *)
(* an earlier one has of the others' commits every later one has, so no two *)
(* of them disagree about which of two commits came first, whatever was     *)
(* corrected after the inventory was read.  Not so if the later one was     *)
(* overtaken.                                                               *)
SnapshotsOrdered ==
    \A p, q \in Sessions :
        Reads(p) /\ Reads(q) /\ tra[q].top < tra[p].top /\ p \notin overtook
          => Sees(q) \ Own(q) \subseteq Sees(p)

(* Nobody declares a transaction dead whose process lives and has not       *)
(* decided about it.                                                        *)
ActiveIsAlive ==
    \A p \in Sessions : Undecided(p) => tip[tra[p].number] = "active"

(* No dirty read: what a transaction sees of the others is committed, by    *)
(* its snapshot or because it is older than all the inventory was read for. *)
VisibleIsCommitted ==
    \A p \in Sessions, r \in Records :
        Reads(p) /\ View(p, r).tra \notin Own(p) => Committed(View(p, r).tra)

(* What is older than the oldest interesting transaction of the header page *)
(* needs no inventory: it committed, or nothing of it is left in the file   *)
(* nor in a cache.                                                          *)
OldestIsSettled ==
    \A r \in Records : \A v \in ToSet(chain[r]) \cup ToSet(disk[r]) :
        v.tra < hdr.oldest_transaction => Committed(v.tra)

NewestCommitted(r) ==
    LET is == {i \in DOMAIN chain[r] : Committed(chain[r][i].tra)}
    IN  IF is = {} THEN NoVersion ELSE chain[r][Min(is)]

(* Durability: the newest committed version of a record stays, also when    *)
(* processes die with changed pages, until another one commits; an erased   *)
(* record stays erased, expunged or not.                                    *)
CommittedKept ==
    [][\A r \in Records :
          LET old == NewestCommitted(r)
              new == NewestCommitted(r)'
          IN  new = old \/ (old.del /\ new.del) \/ ~Committed(new.tra)]_vars

(* "There is no reason why this record would disappear for a snapshot       *)
(* transaction" (prepare_update): the record an update started from is      *)
(* there when its page is fetched again to put the new version in.          *)
RecordPresent == \A p \in Sessions : rpb[p].at # "disappeared"
=============================================================================
