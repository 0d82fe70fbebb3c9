---------------------------- MODULE Transactions ----------------------------
(* The transactions of a database file served by several processes, each    *)
(* with one transaction at a time (Classic, jrd/tra.c): the states on the   *)
(* transaction inventory pages, the counters on the header page, the lock   *)
(* every transaction holds for its lifetime with the number of its oldest   *)
(* active transaction as data, and what a transaction makes of all that     *)
(* when it starts.  All transactions are of the concurrency (snapshot)      *)
(* kind.  A page is read or written under its latch: each action touches    *)
(* the pages it names once.                                                 *)
EXTENDS Integers, FiniteSets, FiniteSetsExt

CONSTANTS Sessions,            \* processes attached to the database
          MaxTransaction,      \* bound: the last transaction number
          TRA_ACTIVE_CLEANUP,  \* each so many transactions looks for dead ones
          SweepInterval,       \* dbb_sweep_interval, 0 for none
          Retaining,           \* processes that commit with the context retained
          Mortal               \* processes that may die

ASSUME NumbersAssumption ==
    /\ MaxTransaction \in Nat \ {0}
    /\ TRA_ACTIVE_CLEANUP \in Nat \ {0}
    /\ SweepInterval \in Nat
    /\ Mortal \subseteq Sessions /\ Retaining \subseteq Sessions

Numbers == 1..MaxTransaction
States  == {"active", "dead", "committed"}

VARIABLES
    tip,       \* the inventory pages: the state of every number
    hdr,       \* the header page
    dbb,       \* what each process remembers to put on the header page
    lck,       \* data of the lock on a number, 0: nobody holds it
    tra,       \* the transaction of each process
    overtook   \* history: sessions that had their inventory before a
               \* transaction of a lower number had its own or corrected it

transactionVars == <<tip, hdr, dbb, lck, tra, overtook>>

NoTra == [at |-> "idle", number |-> 0, top |-> 0, oldest |-> 0, active |-> 0,
          oldest_active |-> 0, hdr_snapshot |-> 0, cleanup |-> FALSE,
          write |-> FALSE, new |-> 0, sub |-> {},
          snapshot |-> [n \in Numbers |-> "active"]]

Phases == {"detached", "idle", "inventory", "oldest", "sweep", "active",
           "undo", "ending", "retain", "retained"}

TraType ==
    [at : Phases, number : 0..MaxTransaction, top : 0..MaxTransaction,
     oldest : 0..MaxTransaction, active : 0..MaxTransaction,
     oldest_active : 0..MaxTransaction, hdr_snapshot : 0..MaxTransaction,
     cleanup : BOOLEAN, write : BOOLEAN, new : 0..MaxTransaction,
     sub : SUBSET Numbers, snapshot : [Numbers -> States]]

(* A transaction that has its snapshot and may look at records.             *)
Reads(p)   == tra[p].at \in {"sweep", "active", "undo", "retain", "retained"}
(* One that has a number whose state on the page is its own to decide.      *)
Undecided(p) == Reads(p) \/ tra[p].at \in {"inventory", "oldest"}
Own(p)     == tra[p].sub \cup {tra[p].number}

Larger(a, b)  == IF a > b THEN a ELSE b
Smaller(a, b) == IF a < b THEN a ELSE b

Init_tra ==
    /\ tip = [n \in Numbers |-> "active"]
    /\ hdr = [next |-> 0, oldest_transaction |-> 1, oldest_active |-> 0,
              oldest_snapshot |-> 0]
    /\ dbb = [p \in Sessions |-> [oldest_transaction |-> 1, oldest_active |-> 0,
                                  oldest_snapshot |-> 0]]
    /\ lck = [n \in Numbers |-> 0]
    /\ tra = [p \in Sessions |-> NoTra]
    /\ overtook = {}

-----------------------------------------------------------------------------
(* Starting.                                                                *)

(* The header page with the next number taken and the counters this process *)
(* has seen since it wrote the page last.                                   *)
bump_transaction_id(p) ==
    [next               |-> hdr.next + 1,
     oldest_transaction |-> Larger(hdr.oldest_transaction, dbb[p].oldest_transaction),
     oldest_active      |-> Larger(hdr.oldest_active, dbb[p].oldest_active),
     oldest_snapshot    |-> Larger(hdr.oldest_snapshot, dbb[p].oldest_snapshot)]

(* The number and the lock on it are taken before the header page is let    *)
(* go; the lock's data is the oldest active number the header page knows.   *)
TRA_start(p) ==
    /\ tra[p].at = "idle"
    /\ hdr.next < MaxTransaction
    /\ hdr' = bump_transaction_id(p)
    /\ LET n      == hdr'.next
           active == Larger(hdr'.oldest_active, hdr'.oldest_transaction)
       IN  /\ tra' = [tra EXCEPT ![p] =
                        [NoTra EXCEPT !.at = "inventory", !.number = n, !.top = n,
                           !.oldest = hdr'.oldest_transaction, !.active = active,
                           !.oldest_active = active,
                           !.hdr_snapshot = hdr'.oldest_snapshot,
                           !.cleanup = (n % TRA_ACTIVE_CLEANUP = 0)]]
           /\ lck' = [lck EXCEPT ![n] = active]
    /\ UNCHANGED <<tip, dbb, overtook>>

(* Who has an inventory though its number is higher: p does not see the     *)
(* lock on that number when it looks for active ones.                       *)
Earlier(p) == {q \in Sessions : /\ Reads(q) \/ tra[q].at = "oldest"
                                /\ tra[q].number > tra[p].number}

(* The inventory fits on one page.                                          *)
TRA_get_inventory(p) ==
    /\ tra[p].at = "inventory"
    /\ tra' = [tra EXCEPT ![p].at = "oldest",
                 ![p].snapshot = [n \in Numbers |->
                     IF n >= tra[p].oldest /\ n < tra[p].number
                     THEN tip[n] ELSE "active"]]
    /\ overtook' = (overtook \ {p}) \cup Earlier(p)
    /\ UNCHANGED <<tip, hdr, dbb, lck>>

(* Where the search for active transactions in the snapshot is: numbers it  *)
(* has passed are not active there any more.                                *)
ActiveBelow(p) == {n \in tra[p].active..(tra[p].number - 1) :
                       tra[p].snapshot[n] = "active"}

(* The first active one holds no lock and this transaction cleans up: it    *)
(* asks the inventory page again (TRA_wait without waiting), says so there  *)
(* if the transaction died, and corrects its snapshot.                      *)
CleansUp(p) ==
    /\ tra[p].at = "oldest" /\ tra[p].cleanup /\ ActiveBelow(p) # {}
    /\ LET n     == Min(ActiveBelow(p))
           state == IF tip[n] = "active" THEN "dead" ELSE tip[n]
       IN  /\ lck[n] = 0
           /\ tip' = [tip EXCEPT ![n] = state]
           /\ tra' = [tra EXCEPT ![p].snapshot[n] = state,
                                 ![p].cleanup = (state # "committed")]
           /\ overtook' = IF state = "committed" THEN overtook \cup Earlier(p)
                          ELSE overtook
    /\ UNCHANGED <<hdr, dbb, lck>>

(* The data of the lock on the first active number, that number itself if   *)
(* its lock is gone; and unless this is the value the header page has, the  *)
(* least data of all locks of transactions.  With no active number below    *)
(* its own the locks are not asked.                                         *)
OldestSnapshot(p) ==
    LET found == ActiveBelow(p) # {}
        first == Min(ActiveBelow(p))
        data  == Smaller(tra[p].number, IF lck[first] = 0 THEN first ELSE lck[first])
    IN  IF ~found THEN tra[p].number
        ELSE IF data = tra[p].hdr_snapshot THEN data
        ELSE Smaller(data, Min({lck[n] : n \in Numbers} \ {0}))

(* A mutant: one too many is taken off.                                     *)
OldestInterestingLess(p) ==
    Min({n \in tra[p].oldest..(tra[p].number - 1) : tra[p].snapshot[n] # "committed"}
        \cup {tra[p].number}) - 2

OldestInteresting(p) ==
    Min({n \in tra[p].oldest..(tra[p].number - 1) : tra[p].snapshot[n] # "committed"}
        \cup {tra[p].number}) - 1

(* A mutant: the minimum is not taken.                                      *)
OldestActiveOwn(p) == tra[p].number

OldestActive(p) == Min(ActiveBelow(p) \cup {tra[p].number})

(* The end of TRA_start: what was found goes to the lock's data and to the  *)
(* process, from where the next start puts it on the header page; and a     *)
(* sweep if the interval is exceeded and nobody sweeps.                     *)
FindsOldest(p) ==
    /\ tra[p].at = "oldest"
    /\ tra[p].cleanup /\ ActiveBelow(p) # {} => lck[Min(ActiveBelow(p))] # 0
    /\ LET snapshot == OldestSnapshot(p)
           sweeps   == /\ SweepInterval > 0
                       /\ snapshot - tra[p].oldest > SweepInterval
                       /\ \A q \in Sessions : tra[q].at # "sweep"
       IN  /\ lck' = [lck EXCEPT ![tra[p].number] = OldestActive(p)]
           /\ dbb' = [dbb EXCEPT ![p] =
                        [oldest_transaction |-> OldestInteresting(p),
                         oldest_active      |-> OldestActive(p),
                         oldest_snapshot    |-> Larger(@.oldest_snapshot, snapshot)]]
           /\ tra' = [tra EXCEPT ![p].oldest_active = snapshot,
                        ![p].active = 0, ![p].hdr_snapshot = 0, ![p].cleanup = FALSE,
                        ![p].at = IF sweeps THEN "sweep" ELSE "active"]
    /\ UNCHANGED <<tip, hdr, overtook>>

(* The sweep is through all records and its pages are written: the oldest   *)
(* interesting transaction goes up.                                         *)
SweepEnds(p) ==
    /\ tra[p].at = "sweep"
    /\ LET oldest == tra[p].oldest_active - 1
       IN  hdr' = IF hdr.oldest_transaction < oldest
                  THEN [hdr EXCEPT !.oldest_transaction = Smaller(tra[p].top, oldest)]
                  ELSE hdr
    /\ tra' = [tra EXCEPT ![p].at = "active"]
    /\ UNCHANGED <<tip, dbb, lck, overtook>>

-----------------------------------------------------------------------------
(* A mutant: off by one at the oldest interesting transaction.              *)
TRA_snapshot_state_off(p, n) ==
    IF n = tra[p].number THEN "us"
    ELSE IF n <= tra[p].oldest \/ n \in tra[p].sub THEN "committed"
    ELSE IF n > tra[p].top THEN "active"
    ELSE tra[p].snapshot[n]

(* The state of number n as the snapshot of p has it.                       *)
TRA_snapshot_state(p, n) ==
    IF n = tra[p].number THEN "us"
    ELSE IF n < tra[p].oldest \/ n \in tra[p].sub THEN "committed"
    ELSE IF n > tra[p].top THEN "active"
    ELSE tra[p].snapshot[n]

(* p got the lock on n, so n is over: without a state on its page it died.  *)
(* Only what n turned out not to be corrects the snapshot.                  *)
WaitedState(n) == IF tip[n] = "active" THEN "dead" ELSE tip[n]

(* Mutants: the snapshot is corrected to what committed meanwhile; the lock *)
(* is not waited for.                                                       *)
TRA_wait_corrects(p, n) ==
    /\ lck[n] = 0
    /\ tip' = [tip EXCEPT ![n] = WaitedState(n)]
    /\ tra' = [tra EXCEPT ![p].snapshot[n] = WaitedState(n)]
    /\ UNCHANGED <<hdr, dbb, lck, overtook>>

TRA_wait_impatient(p, n) ==
    /\ tip' = [tip EXCEPT ![n] = WaitedState(n)]
    /\ tra' = IF WaitedState(n) = "committed" \/ n > tra[p].top THEN tra
              ELSE [tra EXCEPT ![p].snapshot[n] = WaitedState(n)]
    /\ UNCHANGED <<hdr, dbb, lck, overtook>>

TRA_wait(p, n) ==
    /\ lck[n] = 0
    /\ tip' = [tip EXCEPT ![n] = WaitedState(n)]
    /\ tra' = IF WaitedState(n) = "committed" \/ n > tra[p].top THEN tra
              ELSE [tra EXCEPT ![p].snapshot[n] = WaitedState(n)]
    /\ UNCHANGED <<hdr, dbb, lck, overtook>>

-----------------------------------------------------------------------------
(* Ending.  The state goes to the page first, the lock second; nothing but  *)
(* the number is looked at between them.                                    *)
SetState(p, state) ==
    /\ tip' = [tip EXCEPT ![tra[p].number] = state]
    /\ tra' = [tra EXCEPT ![p] = [NoTra EXCEPT !.at = "ending", !.number = tra[p].number]]
    /\ overtook' = overtook \ {p}
    /\ UNCHANGED <<hdr, dbb, lck>>

TRA_commit(p) == tra[p].at = "active" /\ SetState(p, "committed")

(* With a savepoint of the transaction level its work is undone first and   *)
(* the number is then as good as committed; without one, or when the undo   *)
(* fails, it is dead.                                                       *)
TRA_rollback(p) ==
    /\ tra[p].at = "active"
    /\ \/ SetState(p, "dead")
       \/ /\ tra' = [tra EXCEPT ![p].at = "undo"]
          /\ UNCHANGED <<tip, hdr, dbb, lck, overtook>>
Undone(p)    == tra[p].at = "undo" /\ SetState(p, "committed")
UndoFails(p) == tra[p].at = "undo" /\ SetState(p, "dead")

TRA_release_transaction(p) ==
    /\ tra[p].at = "ending"
    /\ lck' = [lck EXCEPT ![tra[p].number] = 0]
    /\ tra' = [tra EXCEPT ![p] = NoTra]
    /\ UNCHANGED <<tip, hdr, dbb, overtook>>

(* Commit retaining: a new number with a lock of the same data, then the    *)
(* old number is committed, then its lock goes.  The snapshot stays.        *)
TRA_commit_retaining(p) ==
    /\ p \in Retaining /\ tra[p].at = "active" /\ tra[p].write
    /\ hdr.next < MaxTransaction
    /\ hdr' = bump_transaction_id(p)
    /\ lck' = [lck EXCEPT ![hdr'.next] = lck[tra[p].number]]
    /\ tra' = [tra EXCEPT ![p].at = "retain", ![p].new = hdr'.next,
                          ![p].sub = Own(p)]
    /\ UNCHANGED <<tip, dbb, overtook>>

retain_context(p) ==
    /\ tra[p].at = "retain"
    /\ tip' = [tip EXCEPT ![tra[p].number] = "committed"]
    /\ tra' = [tra EXCEPT ![p].at = "retained", ![p].number = tra[p].new,
                          ![p].new = tra[p].number]
    /\ UNCHANGED <<hdr, dbb, lck, overtook>>

retain_release(p) ==
    /\ tra[p].at = "retained"
    /\ lck' = [lck EXCEPT ![tra[p].new] = 0]
    /\ tra' = [tra EXCEPT ![p].at = "active", ![p].new = 0, ![p].write = FALSE]
    /\ UNCHANGED <<tip, hdr, dbb, overtook>>

-----------------------------------------------------------------------------
(* A process dies and the lock manager frees its locks; one attaches, and   *)
(* alone it knows that nobody is active.                                    *)
Dies(p) ==
    /\ p \in Mortal /\ tra[p].at # "detached"
    /\ lck' = [n \in Numbers |->
                  IF n \in {tra[p].number, tra[p].new} THEN 0 ELSE lck[n]]
    /\ tra' = [tra EXCEPT ![p] = [NoTra EXCEPT !.at = "detached"]]
    /\ overtook' = overtook \ {p}
    /\ dbb' = [dbb EXCEPT ![p] = [f \in DOMAIN @ |-> 0]]
    /\ UNCHANGED <<tip, hdr>>

TRA_cleanup ==
    [n \in Numbers |-> IF n >= hdr.oldest_active /\ n <= hdr.next /\ tip[n] = "active"
                       THEN "dead" ELSE tip[n]]

Attach(p) ==
    /\ tra[p].at = "detached"
    /\ dbb' = [dbb EXCEPT ![p] = [oldest_transaction |-> hdr.oldest_transaction,
                                  oldest_active      |-> hdr.oldest_active,
                                  oldest_snapshot    |-> hdr.oldest_snapshot]]
    /\ tip' = IF \A q \in Sessions : tra[q].at = "detached"
              THEN TRA_cleanup ELSE tip
    /\ tra' = [tra EXCEPT ![p] = NoTra]
    /\ UNCHANGED <<hdr, lck, overtook>>
=============================================================================
