# InterBase 6 in TLA+

A verification development for the InterBase 6 sources in `src/`: TLA+ models of
the parts of the engine whose correctness rests on interleavings, failures and
order, the TLC runs that check them on small instances, and proofs, checked by
TLAPS, of what holds for every instance.

Five models stand: the lock manager, the queues of its table, the transactions with
the record versions they read and write, the page caches, and the two-phase commit
over several databases with its recovery. `tlc -config LM_queueing.cfg MCLockManager`,
`tlc -config RV_snapshots.cfg MCRecordVersions`, `tlc -config PC_pages.cfg PageCache`,
`tlc -config TP_two_phase.cfg TwoPhaseCommit` and `tlc -config LQ_queue.cfg LockQueue`
run one instance of each (the table of runs names the others); the modules `*Proofs`
are checked by `tlapm`.

## 1. The system

InterBase 6 is a multi-generational relational database engine in C. In its
Classic form every attachment is served by a process of its own; the processes
share the database file and one piece of shared memory, the lock table. Their
agreement on everything else, page contents in caches, states of transactions,
existence of metadata objects, shutdown, rests on that table.

| Component | Sources | State | Operations | Hard behaviour |
|---|---|---|---|---|
| Lock manager | `lock/lock.c`, `lock/lock.h` | lock table: owners, locks, requests, queues between them | enqueue, convert, downgrade, dequeue, attach and detach an owner, blocking AST, wait, deadlock scan | processes that die, lost signals, ASTs on top of the main line, starvation, deadlocks |
| Engine lock layer | `jrd/lck.c` | `lck` blocks, per process sharing of one physical request | `LCK_lock`, `LCK_convert`, `LCK_release`, `internal_*` | compatibility decided twice, external AST fanned out |
| Transactions | `jrd/tra.c` | TIP pages, header page counters, transaction bitmap (snapshot), savepoints | start, commit, rollback, retaining, savepoint verbs, limbo, sweep | oldest interesting/active moving while others start, cleanup of dead transactions |
| Record versions | `jrd/vio.c` | version chains, transaction of every version | read, modify, erase, backout, garbage collection | update conflicts, garbage collected under a reader |
| TIP cache | `jrd/tpc.c` | cached transaction states | `TPC_snapshot_state`, `TPC_cache_state` | stale cache entries |
| Page cache | `jrd/cch.c` | buffers, latches, dirty bits, precedence graph, page locks | fetch, mark, precedence, write, blocking AST | careful write order, AST against the thread in the engine, cycles in the precedence graph |
| Page allocation, data pages | `jrd/pag.c`, `jrd/dpm.e` | page inventory, pointer pages, line index | allocate, release, store, fragment, delete | crash between two writes leaks pages, never loses them |
| Indices | `jrd/btr.c`, `jrd/idx.c` | B-trees with prefix compression | insert, split, remove, garbage collect | splits and crashes, duplicates |
| Y-valve, two-phase commit | `jrd/why.c` | handles, transaction over several databases | prepare, commit, rollback | one of several databases fails |
| Limbo resolution | `alice/tdr.c` | list of a limbo transaction's databases | advise, commit or roll back each | advice from partial knowledge |
| Events | `jrd/event.c` | event table in shared memory: processes, sessions, requests, interests | queue, cancel, post, deliver, watcher | post against queue, process death, delivery outside the mutex |
| Shutdown | `jrd/shut.c` | shutdown lock data, attachment count | shutdown, online, blocking AST | attachments that come during shutdown |
| Thread scheduler | `jrd/sch.c` | ring of threads, AST inhibition | enter, exit, stall, AST enter/exit | an AST thread between two engine threads |
| Deferred work | `jrd/dfw.e` | work per transaction and phase | post, perform, delete | a phase fails after others are done |
| Shadows | `jrd/sdw.c` | shadow set | add, start, dump, close | activation in another process |
| Write-ahead log | `wal/` | log buffers in shared memory, log files | put, flush, checkpoint, rollover, recover | writer process, crash in any step |
| Remote protocol | `remote/` | ports, remote handles, message batches | packets of `protocol.c` | asynchronous event port, batches in flight |
| Compilers, tools, data | `dsql/`, `gpre/`, `isql/`, `qli/`, `burp/`, `dudley/`, `pyxis/`, `intl/`, `msgs/`, most of `jrd/` | per request | sequential | little control; left aside |

How they interact: the page cache asks the engine lock layer for a lock of series
LCK_bdb on every page it holds, with a blocking AST that writes the page and
gives the lock up; a transaction holds a lock of series LCK_tra in EX so that
others tell an active transaction from a dead one and can wait for its end;
relations, database, attachment, shutdown and shadow locks have ASTs of their
own. All of them are requests in the one lock table, which is why the lock
manager comes first here. Of what is built on it, the transactions and the chains
of record versions come next: they are the reason why the engine can let readers
and writers pass each other, and their agreement rests on a handful of counters
and one number of data in each transaction's lock. The page caches bring what these
write into one file, in an order that keeps the file consistent at every moment; the
Y-valve and gfix bind transactions of several databases together.

### What makes each component correct

* Lock manager: no two granted requests conflict; nobody waits for nothing; a
  deadlock is found; a death frees what the dead held; what a call returned to
  its caller is what the table says.
* Engine lock layer: sharing one request between attachments grants no more
  than separate requests would.
* Transactions and versions: a snapshot reads the last version committed before
  it started; two active transactions never write the same record; a version a
  snapshot can still need is not garbage collected; the oldest interesting
  transaction never passes one that is not committed.
* Page cache: one writer per page over all processes; a page is on disk before
  the pages that point to it, and the precedence graph has no cycle.
* Two-phase commit: after a crash of any participant all databases end on the
  same side, or the transaction is in limbo and its resolution agrees.
* Events: an event posted after an interest was queued is delivered once.
* Algorithms (record compression, LIKE, sparse bitmaps, prefix compression):
  agree with a reference definition.

## 2. Modules

| Module | Models | Extends |
|---|---|---|
| `LockLevels` | levels, matrix `compatibility`, `lock_state`, counts | |
| `LockManager` | `lock.c`: all that changes the table | `LockLevels` |
| `MCLockManager` | symmetry sets for TLC | `LockManager` |
| `LockManagerProofs` | inductive invariant, theorems | `LockManager`, `TLAPS` |
| `LockOrderProofs` | the invariant of order, waits and scans, theorems | `LockManagerProofs` |
| `Transactions` | `tra.c`: inventory, header page counters, transaction locks, snapshots | |
| `RecordVersions` | `vio.c`: version chains, and the pages they are on, composed with the transactions | `Transactions` |
| `MCRecordVersions` | symmetry set for TLC | `RecordVersions` |
| `RecordVersionsProofs` | theorems and proofs | `RecordVersions` |
| `SnapshotProofs` | the invariants of updates and the file, and of snapshots and what is mature, theorems | `RecordVersionsProofs` |
| `Queues` | abstract: what the queues of the lock table promise | |
| `LockQueue` | `lock.c`: `insert_tail`, `remove_que`, `acquire` and their callers, write by write; refines `Queues` | |
| `LockQueueProofs` | inductive invariant, theorems | `LockQueue`, `TLAPS` |
| `CarefulWrite` | abstract: one current image per page, written after all it refers to | |
| `PageCache` | `cch.c`: buffers, page locks, blocking ASTs, precedence; refines `CarefulWrite` | |
| `MCPageCache` | one schedule of three pages, for the run `order` | `PageCache` |
| `PageCacheProofs` | inductive invariant, theorems | `PageCache`, `TLAPS` |
| `WriteOrderProofs` | the invariant of the order of writes and of the current images, theorems | `PageCacheProofs` |
| `AtomicCommit` | abstract: the parts of a transaction end the same way | |
| `TwoPhaseCommit` | `why.c`, `tra.c`, `tdr.c`: prepare, commit, rollback, recovery; refines `AtomicCommit` | |
| `TwoPhaseCommitProofs` | inductive invariant, theorems | `TwoPhaseCommit`, `TLAPS` |

`RecordVersions` has the next-state relation of both: every action of `Transactions`
is one of it, with what the call does to records and pages besides (`Commits` writes
the pages of the transaction before `TRA_commit` sets its state, and so on). The
lock of a transaction is used from `LockManager` at its interface only: it is held or
not, has data, and can be waited for. `PageCache` uses it in the same way: a page lock is
held at a level, is refused, is waited for, and its holders are posted. `LockQueue` is
below `LockManager`: it shows that what is one step there (a request that enters or
leaves a queue) is one step also when a process dies in the middle of it.

### LockManager: state

| Variable | In the code |
|---|---|
| `lrq` | request blocks `struct lrq`; the place in `lbl_requests` is the set `ahead` of the requests queued before it, a free block is on no lock |
| `lbl` | lock blocks `struct lbl`: `lbl_counts`, `lbl_state`, `lbl_pending_lrq_count`; the fields of a free block are brought to zero |
| `own` | owner blocks `struct own`: `own_pending_request`, `own_flags`, `own_ast_flags` and `own_semaphore` as one set of flags; with the control state of the process (`pc`), of its blocking action (`handler`, `ast`) and the request of its `wait_for_request` (`waits`) |
| `held` | the level the last call returned to the process for a request |
| `active` | `lhb_active_owner`: who is inside `acquire` ... `release` |
| `job` | where the active owner is between them: the waiters `post_pending` has still to look at, the dead owners to purge, the request whose blockers `post_blockage` has still to tell, and what comes after |

`own_requests`, `own_blocks` and `lbl_requests` are queues in the code and views
of `lrq` here (`OwnedBy`, `own_blocks`, `OnLock`); the queues' order is kept where
the code depends on it (`ahead`), else a loop over them takes any next element.

### LockManager: actions

An interface call is one action up to and including its first change of the
table under the mutex. The loops it goes on to run and its `release` are actions
of the active owner (`Section`): the handlers of other processes and the unlocked
reads of waiters interleave with them, as they do in the program.

| Action | Code |
|---|---|
| `LOCK_enq`, `LOCK_convert`, `LOCK_deq`, `LOCK_downgrade` | the calls of the same name with `grant_or_que`, `convert`, `dequeue`, `grant`, `release_request` and the start of `wait_for_request` |
| `LOCK_init`, `create_owner`, `LOCK_fini` | attach (purging owners that died or an earlier self) and detach |
| `post_pending`, `purge_owner`, `post_blockage` | one element of the loop of the same name |
| `deadlock_scan` | the body of `wait_for_request` from the expired timer to the next sleep: `deadlock_scan`, `deadlock_walk`, rejection of the victim, `OWN_scanned` |
| `release`, `release_mutex` | `release`: the pending blocking action first, then the mutex |
| `blocking_action`, `blocking_action_ignored` | the signal handler outside and inside the lock manager |
| `AstTaken`, `AstReturns`, `AstDone`, `AstDeferred` | `blocking_action2`: take a request from `own_blocks`, call its routine, come back; the routine itself downgrades or dequeues (or leaves the lock for later, `LazyOwners`) |
| `WaitEnds`, `WaitDenied`, `WaitWokenUp`, `WaitTimesOut`, `WaitScans` | `wait_for_request` after the semaphore, by what ended the wait, and the return paths of `grant_or_que` and `convert` |
| `LOCK_manager` | a round of the manager process: probe the owners, purge the dead |
| `Dies` | a process dies outside the critical section |

### What is abstracted in the lock manager

* One request per owner and lock: this is how `jrd/lck.c` uses the manager.
* The table is never full; `Requests` is the size of an instance and not a limit
  the code meets.
* Names, parents, lock data, history and statistics are left out, and so is
  `LOCK_re_post`.
* A death inside the critical section, whose repair is in `acquire`
  (lock.c:1640-1690), is the subject of `LockQueue`.
* Hung owners (`OWN_hung`) and signals that are lost while the target tries to
  acquire are covered by `blocking_action_ignored`: the signal came and had no
  effect yet.
* `deadlock_walk` is modelled by what it finds (`Victims`, `MaybeDeadlock` from the
  wait edges); that its marking depth-first search finds just that is not
  shown.
* With the manager process the purge in `post_blockage` is not reached and is
  left out.

### Transactions, RecordVersions: state

| Variable | In the code |
|---|---|
| `tip` | transaction inventory pages, the two bits of every number |
| `hdr` | `hdr_next_transaction`, `hdr_oldest_transaction`, `hdr_oldest_active`, `hdr_oldest_snapshot` |
| `dbb` | the same counters in the database block of each process, which the next start of that process puts on the header page |
| `lck` | data of the lock of series `LCK_tra` on each number; 0 if nobody holds it |
| `tra` | `struct tra` of each process: number, `tra_top`, `tra_oldest`, `tra_oldest_active`, snapshot, numbers committed with the context retained; and how far its call is |
| `overtook` | history, no variable of the program: transactions that had their inventory before one of a lower number had, see finding 1 |
| `chain` | the versions of each record, the primary one first (`rpb_b_page`, `rpb_b_line` as the order of a sequence) |
| `disk`, `dirty`, `mark` | the page of a record in the file, the process whose cache has a changed copy, and whether its running transaction changed it |
| `rpb` | what a statement keeps of a record between two fetches of its page |

### Transactions, RecordVersions: actions

Every action is what happens under the latch of one page, or one request to the
lock manager with what depends on it.

| Action | Code |
|---|---|
| `TRA_start`, `TRA_get_inventory`, `CleansUp`, `FindsOldest` | `TRA_start` up to the release of the header page; the inventory; a round of the loop that finds a dead transaction; the search and the counters to the end |
| `TRA_commit`, `TRA_rollback`, `Undone`, `UndoFails`, `TRA_release_transaction` | the calls of the same names, the state on the inventory page first, the lock second |
| `TRA_commit_retaining`, `retain_context`, `retain_release` | `retain_context` up to the release of the header page; the state; the old lock |
| `TRA_wait` | of the same name, used by `WaitEnds` |
| `Dies`, `Attach`, `TRA_cleanup` | a process dies and its locks are freed; it attaches, and alone it cleans up |
| `VIO_get`, `ChaseReturns`, `ChaseBacksOut`, `purge`, `ChaseExpunges`, `expunge` | `VIO_get` and `VIO_next_record`, with a round of `VIO_chase_record_version` each |
| `Replaces`, `CorrectsPointers`, `UpdateBlocked`, `NothingToUpdate`, `WaitEnds`, `WaitDenied`, `VIO_backout` | a round of the loop of `prepare_update`, by what it finds; `Replaces` with the end of `VIO_modify` and `VIO_erase` |
| `VIO_store`, `VIO_verb_cleanup` | of the same names |
| `VIO_sweep`, `TRA_sweep` | one record of a sweep, and its end |
| `Commits`, `RollsBack`, `UndoEnds`, `UndoGivesUp`, `ProcessDies`, `CacheWrites` | the transaction calls above with the pages they write, forget or lose |

### What is abstracted in transactions and record versions

* The build is Classic on UNIX: no `MULTI_THREAD`, no garbage collection thread.
* All transactions are snapshot (concurrency) transactions with one statement at a
  time. Read committed, prepare, limbo and reconnect, rollback retaining and nested
  savepoints are left out, and so is a second update of a record by the same
  transaction (`VIO_get` does not start one on a version of its own).
* A record is on a page of its own and its versions are complete; of the data only
  its origin is kept (`base`: whose version the writer had read).
* `VIO_backout`, `purge` and `expunge` re-fetch the primary version and verify it
  before they change it; that and the removal of the back versions is one action.
* The read of a lock's data and the query over all data are one action in
  `OldestSnapshot`; so are writing the data of the own lock and the counters of
  `dbb` in `FindsOldest`.
* Header and inventory pages are written through (`CCH_MARK_MUST_WRITE` in the
  code); with `Mortal = {}` data pages are, too, as nobody could tell.
* The locks of a dead process are free at once: the lock manager's purge is the
  subject of `LockManager`.
* The inventory is one page; no lock request of a start fails.
* The sweep is the one a start forces; that of gfix runs in a transaction of its
  own.
* Index entries and blobs of a version, and the garbage collection that index
  builds do (`VIO_garbage_collect`), are left out.

### LockQueue: state and actions

| Variable | In the code |
|---|---|
| `fwd`, `bwd` | `srq_forward`, `srq_backward` of the heads `lhb_free_requests`, `lbl_requests`, `own_requests` and of the two links of every request |
| `shb` | the secondary header: `shb_remove_node`, `shb_insert_que`, `shb_insert_prior` |
| `active`, `holder` | `lhb_active_owner`, and who really holds the mutex |
| `work`, `at`, `stage` | the queue operations the holder has still to do, and the next write of the first of them |
| `held` | the requests a process was given and has not released |

| Action | Code |
|---|---|
| `insert_tail`, `remove_que` | one assignment of the routine of the same name; `CheckFails` is its CHECK |
| `acquire`, `undo_insert` | `acquire`: what to repair for an owner that died inside, and the four writes of an undone insertion |
| `LOCK_enq`, `LOCK_deq`, `purge_owner` | the queue operations of the call, in its order (`release_request` for the last two) |
| `release`, `Restart`, `Die` | `release`; the attach of a process once its old block is purged; a death at any write |

Left out: hash chains, lock data queues and `insert_data_que`, `own_blocks`; there is
one lock, whose block is never freed. The order of the writes is the one in the source
(the compiler is taken to keep it, as the code does).

### PageCache: state and actions

| Variable | In the code |
|---|---|
| `disk` | the database file |
| `lck` | `lck_logical` of the lock on each page, per process |
| `bdb` | the buffers of each process: image, `bdb_flags`, `bdb_use_count` |
| `pre` | precedence blocks, with `PRE_cleared` |
| `main`, `ast` | the main line of each process (position, window, stack of `write_buffer`), and the calls of `down_grade` on top of it |
| `posted` | blocking ASTs not yet delivered |
| `tra` | updates of the running transaction, `TRA_invalidated` |
| `committed`, `lost`, `clock` | history: updates committed, given up with a failed write, and their count |

| Action | Code |
|---|---|
| `CCH_fetch`, `CCH_fake`, `lock_buffer`, `LockGranted`, `NoticeRepeated` | fetch of a page: latch, conversion without wait or a lock asked for anew, read; the repeated notice of the lock manager |
| `CCH_precedence`, `CycleBroken`, `CCH_mark`, `CCH_release` | a change of the page in the window: `check_precedence` with the write that breaks a cycle, the mark, the end |
| `WritesHigher`, `PrecedenceDropped`, `write_page`, `WriteFindsClean`, `WriteFails` | a round of `write_buffer` |
| `get_buffer`, `BufferReused` | the buffer of another page is taken, after it is written |
| `TRA_commit`, `btc_flush`, `Committed`, `TRA_rollback` | the test of the transaction, one page of its flush, the end |
| `blocking_ast_bdb`, `DowngradesHigher` ... `LowerDone` | the blocking AST and the steps of `down_grade`, which calls itself for higher and lower pages; one is on top of any state of the main line |

What is abstracted: an image is the set of updates it contains and of those it refers
to; the image of a clean buffer without lock is `Blank`, as it is read again; a process
has one window besides the buffers it writes; a lock that is granted and its read, a
write and the release of its latch are one step, as no AST can tell. Header and
inventory pages (`must_write`, no AST) are left out; so are threads, the cache reader
and writer, prefetch, shadows and the journal. A process dies by bugcheck only (`Gone`),
since what a death at another moment leaves, the file as it is, is what `WriteOrder`
says of every state. Only invalidated transactions roll back. After a failed write of
an AST pages may refer to lost updates: the records they carry belong to an invalidated
transaction, or to one that `TRA_commit` did not find invalidated in time, and
`WriteOrder` leaves `lost` out.

### TwoPhaseCommit: state and actions

| Variable | In the code |
|---|---|
| `tip`, `record` | the state of each part on its inventory page, and in `RDB$TRANSACTIONS` as whoever reads it finds it |
| `saved`, `dirty` | that record in the file, and the process (engine or gfix) whose cache has changed it and not written it |
| `link`, `flags`, `call` | the attachment that runs it, `tra_flags`, how far its engine is in a call |
| `handle`, `limbo`, `app` | handles of the Y-valve, `HANDLE_TRANSACTION_limbo`, the call of the application |
| `gfix`, `deaths` | the recovery: step, database it is at, states it has seen, action; how often it died |

| Action | Code |
|---|---|
| `GDS_PREPARE2`, `GDS_COMMIT`, `GDS_ROLLBACK`, `Answered`, `Refused`, `AllServed`, `Exit` | the calls of the Y-valve and their loops over the databases, by how an engine answers |
| `TRA_prepare_again`, `TRA_prepare`, `SetLimbo` | `TRA_prepare`: the record in the cache, then flush and inventory page |
| `TRA_commit`, `TRA_rollback`, `SetOutcome` | `MET_update_transaction`, then (flush and) `TRA_set_state` |
| `CallFails`, `LimboFails`, `PostCommitFails` | the errors of these calls: in the deferred work, the flush or the inventory page; at the inventory page when `TRA_prepared` is set; after the commit is on the page. The application gets the error and keeps its handle |
| `CCH_write` | a page cache writes the page of the record whenever it likes |
| `Detached`, `EngineDies` | `purge_attachment`; the death of an engine |
| `TDR_list_limbo`, `MET_get_state`, `TDR_reconnect_multiple` | the list, the states one by one, `TDR_analyze` and the question to the user |
| `TRA_reconnect`, `UpdateReconnected`, `SetReconnected`, `ReconnectFails` | `reconnect` of each part seen in limbo, in turn; after an error it goes on with the next |
| `TDR_shutdown_databases`, `GfixDies` | the detach from all databases, which flushes; its death, which loses what was not written |

What is abstracted: the application writes in every part; a rollback that undid its work
and marks the transaction committed counts as `dead`; the message of a prepare is a proper
description or none; an active transaction of a dead engine is dead at once (whoever meets
it finds its lock free); `isc_commit_retaining` and `isc_rollback_retaining` are left out.
The record and the inventory page are changed in two steps, and the record lives in a page
cache: a prepare and a commit flush it before the inventory page (tra.c:416, 1021), a
rollback need not (tra.c:1284: none without a savepoint, hence none of a reconnected
transaction; with one only if it wrote), so that a death after it can leave a dead part
whose record in the file says limbo. A page goes to the file also when the cache likes, or
when another process asks for it. The flush and the inventory page that follows it, which
is `must_write`, are one step: a commit that fails between the two has a record in the file
that is also reached by `CCH_write` and `CallFails`. A second record for a transaction is
refused by the unique index (idx.h:376), so a part whose prepare failed after
`MET_prepare` is not prepared again. A write of the inventory page that fails after its
bits were changed in the cache is left out.

What the application does after an error is its own affair, and two things it may do break
the atomicity (known divergences, below). The constant `Careless` says which of them it does:
`"undo"`, to roll back when a commit has failed after it erased the first record;
`"retry"`, to prepare or commit again when a part has its flag and not its page.
Everything else it may do in every instance, to commit again or go away after a failed
commit included.

## 3. Runs

Every run has one question of its own. Bounds of the lock manager: two to four processes, one or two locks, as many requests as processes
times locks. Three processes on one lock are the least at which one can pass or
starve another, at which a conversion can be caught behind a third, and at which
the highest level of a lock hides a lower one; two processes on two locks are
the least at which waits cross. The levels are chosen per question, as the state
space grows fastest with them. No counter is unbounded, no run needs a state
constraint.

Bounds of the transactions: two or three processes, one record, three or four
transaction numbers (`MaxTransaction`), named in each configuration. One record is
enough as no property here relates two; three transactions are the least for a
reader, a writer and a collector of garbage, or for two writers and one who waits;
four numbers are what it takes for a process that dies, a counter that moves past
its transaction by way of `dbb` and the header page, and a transaction that believes
it. `TRA_ACTIVE_CLEANUP` (100 in the code) is 2, so that a start may clean up, and
the sweep interval 1. The numbers run out, so that an instance ends:
`CHECK_DEADLOCK FALSE`. Two wider instances were explored once and show nothing
else: three processes over four numbers with every operation, and two mortal ones with
sweeps and every operation over four numbers (some million states each). In `gc_race`
`TRA_ACTIVE_CLEANUP` is beyond the bound: the race needs no cleanup.

| Run | Instance | Checks | Shows |
|---|---|---|---|
| `queueing` | 4 processes, PR and EX | `TypeOK` `GrantedCompatible` `NoForgottenGrant` `NoOvertaking` | sharing and queueing; four, as it takes two holders for one of them to release in vain |
| `failures` | 2 processes, ASTs, conversions, nowait, a lazy AST, a process that dies | `LockBlocksAgree` `CallerViewAgrees` `OneBlockingAction` `DeadlockStaysVisible` `NoTakingAway` `NoticesTaken` | the counts survive every path; callers know what they hold; AST work hides no deadlock; no blocking notice is lost for good |
| `deadlocks` | 2 processes, 2 locks, EX | `PendingHasWaiter` `DeadlocksEnd` | victims and waiters stay in step; a deadlock is found and ended, so `OWN_scanned` hides none |
| `deaths` | 2 processes, conversions, timeouts, a death | `CallerViewAgrees` `WaitsEnd` | waits end also when holders die, in a conversion deadlock too; a timed out conversion is undone or kept, never both |
| `queue` | 2 processes, 3 requests, a death between any two writes | `TypeOK` `Whole` `AlwaysOwned` `StillQueued` `Implements` | the repair of `acquire` makes every queue operation all or nothing |
| `stale` | 2 processes, 2 requests, a death | `ChecksHold` (violated) | finding 3 |
| `snapshots` | 3 processes, 3 numbers, read, modify, erase, store, retaining, cleanup | `TypeOK` `BackVersionsCommitted` `BasedOnPredecessor` `VisibleIsCommitted` `SnapshotsOrdered` `SnapshotStable` | snapshots do not change under garbage collection, backing out and undo; no dirty read, no lost update; a later snapshot has what an earlier one has |
| `sweeps` | 2 processes, one dies, one retains, 4 numbers, sweeps | `OldestIsSettled` `ActiveIsAlive` `CommittedKept` | the oldest interesting transaction passes nothing dead that a file or cache still has; no committed version is lost with a process; nobody alive is declared dead |
| `gc_race` | 3 processes, 3 numbers, modify, erase | `RecordPresent` (violated) | finding 1 |
| `pages` | 2 processes, 2 pages, 2 updates; cycles, reuse, pages allocated anew, a search that gives up, a page whose write fails | `TypeOK` `WriteOrder` `HeldIsCurrent` `NoCycle` `CommittedInFile` `LossNoticed` `Implements` | the file is consistent after every write, whatever ASTs do on top of the main line; nobody changes or looks at a stale page; a commit leaves nothing in a cache only |
| `order` | one schedule of 2 processes over 3 pages | `WriteOrder` (violated) | finding 2 |
| `two_phase` | 3 databases; calls are refused or fail half way, engines and the application die, an attachment is lost, gfix fails, dies once, a database is out of its reach | `TypeOK` `SuccessIsEverywhere` `AdviceAgrees` `Implements` `CommitSpreads` | all parts end the same way, if the application is not `Careless`; gfix brings a commit to every part |

Bounds of the queues: three requests are the least for a queue in which both neighbours
of a link are links; two processes, so that one repairs what the other left; one death,
see below. The deadlock check is off as a CHECK that fails stops the build in
`bug_assert`. Bounds of the page cache: two pages are the least for a cycle, two
processes the least for an AST, and one updating process suffices for all that the
other only asks for; two updates, so that a page changes again after it was written.
Three pages or two updating processes are beyond what a run can hold; what
three pages change is finding 2. Bounds of the
two-phase commit: three databases are the least at which one may be committed, one in
limbo and one unreachable; the run ends when all are decided, so that the deadlock
check is off. The number of failing calls has no bound.

`SnapshotStable` leaves out transactions that `overtook` another one, as finding 1
breaks it for them; for all others it holds. `SnapshotsOrdered` asks nothing of a later
one of two that was overtaken, which is what the word means. The other properties leave
no transaction out.

### Fairness

* `WF(Section)`: the active process runs on to its `release`; the section has no
  wait in it.
* `SF` for what a process does after it got the mutex (`GoesOn`, `WaitScans`,
  `LOCK_manager`): the mutex is free again and again, and the System V semaphore
  and the pthread mutex behind `ISC_mutex_lock` do not pass over a waiter for
  ever. Weak fairness would not do, as the mutex is taken in between.
* `WaitScans` is fair because the wait of `wait_for_request` has a timer
  (`LOCK_scan_interval`) in every pass.
* The release of a lock by its holder (`ReleasingSpec`) is no promise of the lock
  manager: `WaitsEnd` is stated under it, since no lock manager could end waits
  for a lock that is never given up. `LOCK_enq` and the other calls of the main
  line, and deaths, are never fair.
* In `TwoPhaseCommit` an engine ends the calls it has begun and rolls back, or leaves in
  limbo, what belongs to a client that is gone (WF); gfix goes on with what it does (WF)
  and is run again whenever something may be listed (SF of `TDR_list_limbo`: the
  listing is disabled while another one is at work); a reconnect or its record that may fail
  does not fail for ever (SF of `TRA_reconnect` and `UpdateReconnected`, for each database).
  That is `FairSpec`. The application and the deaths
  are never fair. `PageCache` and `LockQueue` have no liveness property.
* `WaitsEnd` is checked without ASTs: as `LRQ_blocking_seen` is lost (below) a waiter's timer can
  make a lazy AST run again and again, and fairness to its main line would have to
  be assumed on top.

### Findings

1. (`gc_race`) A transaction takes its number under the header page (tra.c:1606-1709), and its
   inventory later (tra.c:1733); one with a lower number may read the inventory
   after one with a higher number. If all numbers below its own are decided by then
   it does not ask the locks for the oldest snapshot in use (tra.c:1764, 1799), takes
   its own number for it, and expunges or purges versions the other transaction still
   sees. The other's update ends in a bugcheck (vio.c:3686), which the run shows,
   and a read finds nothing. The same happens to a context retained (its lock has a
   higher number than the one who looks; `compute_oldest_retaining`, which the comment
   of tra.c:2942 speaks of, is called in VMS builds only), and after a cleanup has
   corrected the snapshot of a start to "committed" (tra.c:1771).
2. (`order`) `check_precedence` tests that the higher page is dirty (cch.c:3462), writes
   the page of its window if the precedence would close a cycle (cch.c:3505), and enters
   the precedence (cch.c:3514). An AST that comes during that write may write the higher
   page, so that a precedence under a clean page is left. That alone does no harm, but
   `related` counts it: of three pages high, mid and low, with mid clean and such
   precedences high-mid and mid-low, an update of low that refers to a new one of high
   enters no precedence, since there is a way over mid; and `down_grade` goes up to dirty
   pages only (cch.c:3689), `write_buffer` is done with a clean page at once (cch.c:5587).
   Low is then written before high, against the purpose of the routine (cch.c:3411). A
   crash leaves low in the file with a reference to what is not there. With two pages, as
   in `pages`, there is no third to be passed over, and `WriteOrder` holds; three pages
   are too many for a search, so that the run follows one schedule (`MCPageCache`), each
   step of which is a step of `PageCache`. That the test which is not repeated is all
   there is to it is proved: in behaviours in which no precedence is entered under a
   page that was written meanwhile (`NoStaleInsert`), any number of pages are written in
   the right order (`OnlyStaleInserts`, `WritesInOrder`).
3. (`stale`) A process that dies in `LOCK_enq` between the links of the node and the end of
   `insert_tail` leaves a request that is on its owner but not on its lock, with links
   into the queue of the lock. The purge removes it from there a second time: the
   CHECK of `remove_que` fails, or, where CHECK is empty, another request is cut off
   (lock.c:676, 4340, 4169).

Known divergences that the models keep, without a run of their own:

* `TRA_commit` looks at `TRA_invalidated` before it flushes. A blocking AST that fails to
  write a page of the transaction after that, up to the end of the flush, invalidates the
  transaction and throws the page away: the flush finds nothing to write, and the
  transaction commits without the update (tra.c:389, 416). `CommittedInFile` leaves out
  what is `lost`; without that TLC finds it violated.
* `LRQ_blocking_seen` is 256 and `lrq_flags` a `UCHAR`: the bit that is to keep
  waiters from signalling an owner again is lost (lock.c:2037, 3811).
* `LOCK_downgrade` returns the level it tried, also when `convert` denied it
  (lock.c:536): from SW to PR with another SW granted. `CallerViewAgrees` is checked
  with PR and EX, where this cannot happen.
* `post_pending` stops under `LOCK_ordering` at the first waiter that does not
  suit, also in front of a conversion that does (lock.c:3934), although
  conversions are meant to be exempt from ordering (lock.c:2711).
* `insert_tail` clears `shb_insert_que` before `shb_insert_prior` (lock.c:3697): with a
  second death after the first write of a later insertion that one is undone with the
  prior of the old one. `queue` has `Deaths = 1`; with 2 TLC finds `Whole` violated. It
  is the only death that does harm: `LockQueueProofs` proves `Whole` without it.
* `TRA_commit` erases the record of its part (tra.c:400), and only then flushes (tra.c:416)
  and sets the inventory page (tra.c:450). When one of these fails, `commit` of jrd.c
  returns the error (jrd.c:4389); the application keeps its handle, and the first part is
  in limbo without a record. A rollback then declares it dead. If the rollback does not get
  through all parts, as the application ends or a database refuses, gfix finds no first
  record and the others in limbo: "if the tdr for the first transaction is missing, we can
  assume it was committed" (tdr.c:85), and it commits them. The failing commit is in the
  model (`CallFails`, `PostCommitFails`); the rollback after it is what `two_phase` and the
  theorems leave to the application with `Careless = {}`. With `{"undo"}` TLC finds
  `MissingMeansCommitted`, `AdviceAgrees` and `Implements` violated, the last one also by a
  rollback after an error of the post commit work (tra.c:454), as `TRA_set_state` makes a
  committed part dead. This contradicts the comment in tdr.c and is a defect of the code.
* `TRA_prepare` sets `TRA_prepared` (tra.c:1036) before the inventory page (tra.c:1037). When
  that one fails, a second prepare takes the part for prepared (tra.c:981), and a commit
  enters its second phase, before which why.c:1179 says "Everybody is in limbo", with an
  active part. With `Careless = {"retry"}` TLC finds `EverybodyInLimbo` and `Implements`
  violated.
* gfix looks for the owner of a limbo transaction only in the database it is run for;
  if the same application is alive and committing in the others, it rolls back there
  what is committed here (tra.c:1080). `two_phase` has `Severable = {1}`: the first
  part is prepared and committed first, so that its record decides. With `{2}` TLC finds
  `Implements` violated.
* A missing first description counts as a commit (tdr.c:85): after `isc_prepare_transaction`
  without a message gfix may advise a commit where a part is rolled back
  (`Messages = {FALSE}`: `AdviceAgrees` is violated).
* "All subtransactions have been prepared" (msg 82) is also said when a record in limbo is
  stale, as its engine died between record and inventory page; a user who then answers
  commit, where a part is rolled back, breaks the atomicity (`Answers = {"commit"}`).
* A transaction in limbo whose record is missing, or says otherwise for the same reason,
  is never resolved by gfix on its own.

## 4. Proofs

### The lock manager

`LockManagerProofs` proves, for any finite set of requests and any owners, locks,
levels and options that satisfy `ConstantAssumption`:

| Theorem | Property |
|---|---|
| `TypeCorrect` | `[]TypeOK` |
| `LockBlocksCorrect` | `[]LockBlocksAgree` |
| `NeverIncompatible` | `[]GrantedCompatible` |
| `PendingIsWaitedFor` | `[]PendingHasWaiter` |
| `BlockingActionAlone` | `[]OneBlockingAction` |
| `GrantsAreKept` | `NoTakingAway` |

All follow from `Invariance == Spec => []IInv`. `GrantedCompatible` is not
inductive: a grant is decided from `lbl_state`, which says something about the
granted requests only as long as the counts are right and `lbl_state` is their
highest level (`LockBlocksAgree`), and a highest level decides only because a
level compatible with it is compatible with every lower one that is granted
beside it. That last step is no monotony of the matrix, PR and SW being
incomparable; it is lemma `HighestDecides`, and needs that the granted requests
are compatible already. The counts in turn are right only as long as the waiter
knows whether its request is pending, for which `IInv` carries the control part:
what the job of the critical section may contain (`JobPending`, `PurgeSound`,
`JobFits`), that a waiter owns what it waits for (`WaiterOwns`), that a process
that is off owns nothing (`OffOwnsNothing`), and that blocking actions belong to
live processes (`HandlerAlive`). `IInv` was checked with TLC as an invariant of the
instances `failures` and `deadlocks` before it was proved. That PR and SW, which are
incomparable, do no harm is a matter of the theorem only: the runs have PR and EX.

The proofs go by one lemma per action, over lemmas on the counts of a lock block
after a request is granted, released, enqueued, rejected or lowered.

`LockOrderProofs` adds what is about the order of requests, about waits and scans:

| Theorem | Property | Hypothesis |
|---|---|---|
| `NobodyForgotten` | `[]NoForgottenGrant` | `LockOrdering` or `LevelsNest` |
| `GrantedInTurn` | `NoOvertaking` | |
| `CallersKnow` | `[]CallerViewAgrees` | `LevelsNest` |
| `NoDeadlockHides` | `[]DeadlockStaysVisible` | |

`LockOrdering` is the default of the code (`V4_LOCK_GRANT_ORDER`); `LevelsNest` says that
callers do not use both PR and SW, which exclude each other. Without the two,
`NoForgottenGrant` is false, as TLC finds with three owners: a conversion from PR to SW
that is granted makes room for a waiter further ahead, which `post_pending` has
passed already. `CallersKnow` needs `LevelsNest` because `LOCK_downgrade` from SW may try
PR, which convert refuses, and return it all the same (the known divergence above);
between levels that do not exclude each other the level it tries is always granted,
which is a lemma (`DowngradeIsGranted`).

All follow from `OrderInvariance == Spec => [](IInv /\ QInv)`; `QInv` has four parts.

* `Placed`: a process waits for a request it owns, or which a purge takes from under
  it; the requests of a lock are in one line; one that holds nothing is a new one that
  is waited for, and one that is not waited for holds what it asked for.
* `Settled`: whoever waits, and is not among those `post_pending` has still to look at,
  does not suit the lock, or waits behind another (with ordering), or one that was
  rejected has still to clean up, which ends in a `post_pending`. With ordering
  `post_pending` begins with every waiter and leaves at the first that does not suit.
  Without it, it goes on past those that do not suit, and these must not come to suit by
  what is granted after them: a waiter asks for more than it has, so a grant
  raises a level, and among levels that do not exclude each other a higher one lets in
  less (`StillUnsuited`). All other steps that give up a level post afterwards.
* `Told`: the caller's level is the level in the table, but for a grant that its process
  has not noticed yet.
* `NoneHides`: no set of scanned waiters is closed under waiting for each other. A new
  scan is the step that matters: `ScanFindsCycle` shows that if a scan exempts its owner
  without having found a deadlock, no cycle goes through it. The requests the walk comes
  to are the smallest set that contains the start and all it leads to, so the argument
  is about that set and takes no induction over the walk. Any other step makes no edge
  between two scanned waiters (`NoneNewlyHides`), since who begins to wait is not
  scanned.

The conjuncts of `QInv` were checked with TLC on instances with and without ordering,
with ASTs, deaths and timeouts, and with levels SW and PR besides EX, before they were
proved.

### The queues of the lock table

`LockQueueProofs` proves, for any processes, any finite set of requests and any number
of deaths:

| Theorem | Property | Hypothesis |
|---|---|---|
| `QueueTypes` | `[]TypeOK` | |
| `QueuesAreWhole` | `[]Whole` | `NoStaleDeath` |
| `RequestsAreOwned` | `[]AlwaysOwned` | `NoStaleDeath` |
| `GivenIsQueued` | `[]StillQueued` | `NoStaleDeath` |
| `QueuesImplement` | `Implements` | `NoStaleDeath` |
| `OneDeathIsNotStale` | `NoStaleDeath` | `Deaths <= 1` |

`NoStaleDeath` says of a behaviour that no process dies after the first write of an
insertion (`shb_insert_que` is set, `shb_insert_prior` not yet) while the secondary header
still has the prior link of an earlier insertion whose process died as well: that death,
and no other, leaves a pair that does not belong together (the known divergence
above). It takes two deaths, as `OneDeathIsNotStale` proves, so that with one, as in the
run, the theorems hold without it; and TLC checked on instances with two and three
deaths that what `NoStaleDeath` allows does no harm, before that was proved.

The invariant is `QInv`: as long as no CHECK has failed, there are queues `line` that
the links lay out and that fit what is under way (`JInv`). That a reader of the links sees
something is not inductive: what the links are in the middle of an operation depends on
what the secondary header says and on which of its writes are done. Hence its parts:

* `Laid`: the links as the next process would repair them (`Forward`, `Backward`) are
  one ring for each head, with its own nodes, and both ways.
* `HeaderFits`: what each write of `insert_tail`, `remove_que` and the repair has
  established (`InsertFits`, `RemoveFits`, `UndoFits`), and that the header is clear
  between two calls, unless its process died.
* `HolderFits`: who has the mutex, what it has to do, and that the dead hold nothing.
* `QueuesFit`: where within `LOCK_enq`, a release or a repair the holder is and what is
  in which queue then (`CallFits`), that a request on the lock is on an owner, and that
  what was given is queued, unless its own `LOCK_enq` is under way.

Each write either leaves `line` as it is, which the repaired links then still show, or
moves one link, at the write that decides: the first of a removal, the seventh of
an insertion (`InsertStep`, `RemoveStep`, `UndoStep`). That is `QueuesImplement` too. What a
new node at the tail, or one less, does to rings is in `LinkedIn` and `LinkedOut`.
`List` walks the links one after the other; that it finds `line` would be an induction
over the walk, and is proved from the least place at which the two differ (`Least`,
`ListIsLine`).

`ChecksHold` has no theorem: it is false (finding 3), and the invariant says nothing of
the queues after a failed CHECK, nor do the properties.

### The two-phase commit

`TwoPhaseCommitProofs` proves, for any number of databases:

| Theorem | Property |
|---|---|
| `TypeCorrect` | `[]TypeOK` |
| `CommitIsAtomic` | `Implements`, the refinement of `AtomicCommit` |
| `SuccessHolds` | `[]SuccessIsEverywhere` |
| `AdviceIsRight` | `[]AdviceAgrees` |

| `MissingHolds` | `[]MissingMeansCommitted` |
| `EverybodyIsInLimbo` | `[]EverybodyInLimbo` |

All but the first have the assumption `AdviceFollowed`: under a living application only
the first attachment may be lost, every prepare has its description, the user of
gfix resolves nothing against its advice, and the application is not `Careless`. Each part
is needed, as TLC shows (the known divergences above). Which databases gfix may fail to attach, how often it dies and
whether engines die inside a call are arbitrary.

The argument is that the record of the first part in RDB$TRANSACTIONS decides.
`TRA_commit` of that part erases it when all parts are prepared and before anything is
committed. From then on (`Erased`) nobody is rolled back, unless the engine dies and the
cache loses the erasure with it; once it is in the file (`Settled`) that is for good, and
the flush puts it there before the inventory page is touched, so that whatever else tells
of a commit (a state, another record, a call of another part) has `Settled` as its reason
(`OutcomeFits`). A commit that fails half way leaves `Erased` with a living application
that has the handle of a part in limbo; the next call may commit again, and
`HeedFits` is where the assumption about the application enters: it does not roll back, and
no prepare starts while a part has its flag without its page. To erase the record only when
nobody is rolled back needs that a rollback closes the way: the handle of the
first part is gone, or its attachment, before anything else tells of it (`FirstDecides`), so
that the next call of the application fails at the first part. A rollback that is not
flushed, and lost, leaves a record in limbo; that still advises a rollback (`RecordFits`).
What gfix has read may be stale, but not the record of the first part, as gfix works
only when that one cannot be called any more (`GfixFits`). That leaves the loop of
`TDR_analyze`: it says commit only if a record does or the first is missing, and
rollback only if a record does or the first is in limbo (`AdviceHasReason`). It is a
recursive function, and the library's induction cannot be used; that it is well
defined and what it returns are proved by the least counterexample (`Least`), over the
well-founded order of the intervals `1..n`. `IInv` was checked with TLC on the instance
`two_phase`, with every database out of the reach of gfix, before it was proved.

### Transactions and record versions

`RecordVersionsProofs` proves, for any processes and records, any number of
transactions, any sweep interval and cleanup distance, and any choice of who may die
or retain:

| Theorem | Property |
|---|---|
| `TypeCorrect` | `[]TypeOK` |
| `ActiveIsAlwaysAlive` | `[]ActiveIsAlive` |
| `BackVersionsAreCommitted` | `[]BackVersionsCommitted` |
| `VisibleIsAlwaysCommitted` | `[]VisibleIsCommitted` |
| `OldestIsAlwaysSettled` | `[]OldestIsSettled` |

and `SnapshotProofs`, from the same assumption:

| Theorem | Property |
|---|---|
| `NoUpdateIsLost` | `[]BasedOnPredecessor` |
| `CommittedIsKept` | `CommittedKept`, an action property |
| `SnapshotsAreStable` | `SnapshotStable`, an action property |
| `SnapshotsAreOrdered` | `[]SnapshotsOrdered` |

The only assumption is `NumbersAssumption` on the constants. None of the first five is
inductive, and they need each other. That nobody alive is declared dead rests on
the locks: who has a number, or the second number of a commit that retains its
context, has the lock on it, and no two processes have the same (`NumberFits`,
`Apart`); and, as `TRA_cleanup` asks no lock, on its condition that nobody is attached.
From there every counter that goes around, in the header page, in the database block
of a process and in a transaction, has only finished transactions below it (`Over`), so
that a transaction that is found old enough is not active: that is why garbage
collection by `Mature` never takes the version of one that may still commit (`Loose`).
A snapshot has as committed and as dead only what is (`SnapshotFits`). A version below
one of the counters for the oldest interesting transaction must be of a committed
transaction, also in a counter that no page has yet (`Known`), which the search at the end of
`TRA_start` and a sweep both have to establish. For a sweep the invariant says of every
record it has seen that no version there below `oldest_active` is of a dead
transaction, and none in the file unless the sweep's own cache still has the changed
page (`SweepFits`, `CleanAt`): this is the flush of `TRA_sweep` before the header page. An
update relies, over a wait and several fetches of its page, on the primary version not
being its own (`UpdateFits`). At last, a process that dies leaves in the file what may be
older than the cache had it; that a transaction that runs does not come to own the
primary version this way is `OwnKept`. `IInv` was checked with TLC on the instances of
`snapshots` and `sweeps` before it was proved.

The proofs go by one lemma per action: first what it does to the transactions
(`TransactionsFit`, and `Forward`: what is over stays so), then what it does to the
versions, where `Good` says which versions may take the place of those of a record and
`PageStepKeeps` and `TransactionStepKeeps` carry what the other processes rely on.

No lost update and durability follow from `UpdateInvariance == Spec => []BInv`, where
`BInv` adds to `IInv`:

* `ReadKept`: from the read to the replacement of an update, with the page let go in
  between and a wait for another transaction, the first version the snapshot has as
  committed, if there is one left, is the one that was read, in the cache and, when
  another process may read the page from it, in the file. The pointers, which
  `prepare_update` puts right without looking at the data, do not matter to this:
  `Replaces` finds a primary version that is committed to the snapshot, which
  `ReadKept` says is the one that was read. A wait that corrects the snapshot only takes
  away numbers that turned out to be dead (`WaitEndHolds`): were it to add what committed
  meanwhile, as the mutant `TRA_wait_corrects` does, an update would go on from a version
  it did not read.
* `ExpungeFits`: `expunge` does not ask for the state of the writer it finds; it needs not,
  as nothing below the oldest active transaction of who expunges is uncommitted any more.
* `FileKept`: the newest committed version of every record in the file (`Top`) is the one
  in the caches, or the record is erased in both.
* `OwnMarked`: where the primary version is of a transaction that still runs, either its
  page is marked for the flush of that transaction, or cache and file have the same. So
  when a commit writes the state, what it commits is in the file; after the first
  part of a commit that retains its context only the second is left, as nothing is
  written any more.

Two lemmas carry the steps: `PageStepHolds` for those on a page, where `Proper` says which
versions may take the place of others (the same newest committed one, and nothing changes
for who waits or reads), and `MoveHolds` for those of a transaction, where only pages
of its own process are written or lost (`OwnPages`), and only its number commits
(`Decides`). `NewestIsTop` is why `Top`, which looks at the first two versions at most, is
what `CommittedKept` looks for in the whole chain: that is `BackVersionsCommitted`. The new
conjuncts were checked with TLC on the instances of `snapshots` and `sweeps`, and on some
three million states of an instance with three processes that all may die, before they
were proved.

That a transaction finds the same versions from its start to its end follows from
`SnapshotInvariance == Spec => []SInv`, where `SInv` adds to `BInv`:

* `ReachInv`, about transactions only. A number is `Reached` if all below it are over and
  every snapshot, but those that were overtaken, has as committed what committed below it.
  So what a transaction takes for mature is seen by all, if every number from which that is
  decided is reached: the oldest snapshot on the header page, the one each process
  remembers for it, the one a start read, and `oldest_active` (`CountersReached`). At the
  end of `TRA_start` that number comes from the data of the locks, which are written
  by others, one after the other, at the ends of their own starts. What they say is
  `LockReached`: below the data of its lock a transaction is complete. Two starts at
  the same time are the hard case: the younger may have its inventory and not
  show its number yet. For this `InOrder` says that as long as a start looks for its
  oldest snapshot, every younger snapshot has what that one has (or the older start finds
  active what the younger one committed and retained, and asks for its lock), unless it
  was overtaken: this is the place where finding 1 enters, and `overtook` with it.
* `PagesAgree`: what a transaction sees of a record (`Shown`) in the file is what it sees in
  the caches, also for what it will see with its next correction of the snapshot (`Cuts`),
  so a process that dies takes no version of an old snapshot away.

The steps that put a version on a chain or take some off leave what others see
(`Alike`): the primary version of a transaction that did not commit is seen by nobody
else, and what is behind a mature version by nobody at all. The steps of a transaction
leave what it sees itself but its own, and what others see but for the one number that
commits (`OthersCuts`), whose versions are in the file by then (`JoinAgrees`, from
`OwnMarked`). `ViewIsShown` says that what a statement finds is what is shown. `ReachInv` and
`PagesAgree` were checked with TLC before they were proved, on instances with and
without deaths, retained contexts, cleanup and sweeps.

`SnapshotsOrdered` says of two snapshots what the others say of one: who started later,
and was not overtaken, sees every commit that one who started before it sees. Its
invariant `OrderInv` is small: the property itself, from the end of the inventory on and
not only while the transaction reads (`LaterSees`), and that the number a snapshot ends
at is at most the current one of its transaction, which is given higher ones only
(`TopFits`, for retained contexts). A
number enters a snapshot as committed in three ways. A new inventory has all that
committed below its own number, so also what the earlier ones have of it. An inventory
that is read late and the correction of `TRA_start` to committed may have what a later
snapshot has not; these are the two steps that put the later one into `overtook`.
`TRA_wait` corrects to dead only: were it to correct to committed, as the mutant
`TRA_wait_corrects` does, nobody would be overtaken and the order would be lost. Nor may a
commit bring into two snapshots what only one of them had: who commits is active in
the snapshots of the others. `SnapshotsOrdered` was checked with TLC, also on an instance
with four numbers, before it was proved.

### The page cache

`PageCacheProofs` proves, for any processes and pages and any number of updates,
whichever pages are allocated anew, taken for others or fail to be written, and with
searches that give up or not:

| Theorem | Property |
|---|---|
| `TypeCorrect` | `[]TypeOK` |
| `HeldIsAlwaysCurrent` | `[]HeldIsCurrent` |
| `NeverACycle` | `[]NoCycle` |
| `CommitsAreInFile` | `[]CommittedInFile` |
| `LossIsNoticed` | `[]LossNoticed` |

The only assumption is `ConstantAssumption`. All follow from
`Invariance == Spec => []Invariant`. That a buffer has two latches at most and a
`bdb_use_count` never passes below zero is the same question as who latches what: the
use count of a page is the number of places the main line has it in (its window, the
buffer it takes for another page, the page on top of the stack of `write_buffer`) and
one more if a call of `down_grade` is for it, which no two calls are, nor any that the
main line has latched (`LatchesOf`). As an AST touches only buffers with use count 0,
what the main line has read of its own page stays true while ASTs run on top of it.
`WindowOf` says what that is: once it has the lock it has it at the level it needs.

What a window shows is the current image because of what a lock says (`ImagesFit`): who
has a page dirty has it for write, with all that the file has of it; who has it clean
and locked has the image of the file, and without lock none. Locks of two processes
never conflict (`LocksFit`). For this a page that `down_grade` writes must be dirty
when it is written, though other calls came in between: `Unwritten` says that of every
call that has not come to its lower pages.

`CommittedInFile` and `LossNoticed` need that an update that is not in the file is in a
buffer of its own process only, which says `changed` (`UpdatesFit`): so `btc_flush` finds
it and the process whose update `down_grade` gives up is the one it invalidates. It is
why a process that asks for a page for write finds in the file all others have
made, and why a number is not seen anywhere before it is used (`NumbersFit`). `NoCycle`
needs of `check_precedence` that a page that was written to break a cycle has nothing
below it when the precedence is entered (`CleanOf`), whatever an AST marked meanwhile;
that a way that ends in a new edge does not close by it is `InsertKeepsNoCycle`, an
argument on the sets that are closed under precedence, without induction over ways.
`Invariant` was checked with TLC on the instance `pages` before it was proved.

The proofs go by one lemma per action, over lemmas on the kinds of steps: one that
changes no image (`StillKeeps`), gives images up (`QuietKeeps`), makes an update
(`MakesKeeps`), writes one to the file (`SavesKeeps`) or loses one (`GivesUpKeeps`), and one
that calls or ends `down_grade` (`CallStep`, `DownKeeps`).

`WriteOrderProofs` is about the order of the writes. For three pages it is false (finding
2), so the theorems say what it takes:

| Theorem | States |
|---|---|
| `WritesInOrder` | `Spec /\ NoOverlooked => []WriteOrder` |
| `CachesImplement` | `Spec /\ NoOverlooked => Implements` |
| `OnlyStaleInserts` | `Spec /\ NoStaleInsert => NoOverlooked` |
| `TwoPagesHeed` | `Spec => NoOverlooked`, for two pages |
| `TwoPagesWritten`, `TwoPagesImplement` | `Spec => []WriteOrder` and `Spec => Implements`, for two pages |

The hypotheses are on what `check_precedence` does, and on nothing else: `NoOverlooked`
says that a way which it takes for a precedence leaves dirty pages only, `NoStaleInsert`
that the page it enters a precedence under, after it broke a cycle, is still dirty. The
schedule of the run `order` breaks the second twice (`high` is entered as to precede
`mid`, and `mid` as to precede `low`, when they are clean), and then the first (`high` is to precede `low`,
and the way it finds there is over `mid`, which is clean). Processes, updates, failing writes, pages allocated anew, buffers
taken and searches that give up are as many as one likes.

`OInv` is the inductive invariant. What `WriteOrder` says of the file must be said of the
dirty pages before they are written, and there it holds of sets of pages only: a set is
`Sound` if it has with each page the dirty ones that are to be written before it, and
none that is about to be given up; then all that its images refer to is in the file,
lost, or in the set (`Ordered`). A page about to be written is sound by itself. For
`write_buffer` that is its guard. For `down_grade` it has to follow from what
the calls have seen since they looked at the precedence, while others were called in
between and the main line stands still: `FramesFit` says which higher pages each call
may have left out (those still to be tried, or found in use, or all if it has found its
page invalid). The sets stand for the ways over precedence, so that no induction over
ways is needed, as in `NoCycle`. Two more things count: what the window is about to refer
to, with the page `check_precedence` still waits for (`Awaited`), and the pages that a
failed write will invalidate, down the queues of calls that have not come to them yet
(`Condemned`): what they refer to may be lost, and they are never written.

For `CachesImplement` three facts on the current images are needed beside `OInv`
(`CInv`): no two pages contain the same update, an image refers to updates of other
pages only, and what is lost is in no current image. The last two are why what a write
needs by `CarefulWrite` (all it refers to that somebody still has, is in the file)
follows from what `Ordered` gives. Each step then leaves the current images, or adds one
update to one, writes one page, or loses the pages of a process (`Does`). `CInv` was
checked with TLC for two pages, and on simulated behaviours of three, before it was
proved.

`OnlyStaleInserts` rests on `Fresh`: a precedence that counts is over a dirty page, or a
call of `down_grade` that has written that page has yet to come to the lower one, and
while it has, the main line does not look.

### Only model-checked

`NoticesTaken`, `CommitSpreads` and all other liveness, which is beyond the prover. Every
other property of a passing run is a theorem, under the hypotheses its table names.

## 5. Not modelled, and plan

The source has some 830000 lines, most of them character set tables,
generated parsers and tools; the models cover the parts whose correctness is a matter
of interleavings and failures, not a share of lines. The components that are not
modelled are listed in `PROJECT.json` with the reason of each. In order of importance
what could follow:

1. `SnapshotStore`, an abstract specification of snapshots: a store of committed
   versions, a snapshot as a set of transactions; `RecordVersions` refines it. What it
   would promise is proved one by one: `SnapshotsOrdered`, `SnapshotStable`,
   `VisibleIsCommitted`, `BasedOnPredecessor`, `CommittedKept`.
2. Page allocation and data pages (pag.c, dpm.e) as a client of `CarefulWrite`: which
   page must refer to which, and what a crash leaks.
3. `TipCache` (tpc.c) with read committed transactions and an inventory of several
   pages; `deadlock_walk` as the marking depth-first search it is, against the cycles
   of the wait graph.
4. `Events` (event.c): a count that a session knows must not start anew while the
   session has an interest, historical ones included, and a request whose count is
   reached must be delivered. In the Classic build the signal is the hard part:
   `deliver` returns if `acquire_count` is not 0 (event.c:1022), and `release` takes the
   count down (event.c:1546) before it unlocks the mutex, so a signal between the two
   lets the handler wait for the mutex of its own main line. Then `Shutdown`, the engine
   lock layer, the scheduler of the SuperServer build.
5. Algorithms: record compression (sqz.c), LIKE (evl_like.c), sparse bitmaps
   (sbm.c), prefix compression (btr.c), each against a reference definition.
6. Write-ahead log and remote protocol, if the size allows.
