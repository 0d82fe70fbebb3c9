---------------------------- MODULE LockManager ----------------------------
(***************************************************************************)
(* The lock manager of the engine (src/lock/lock.c, src/lock/lock.h) in    *)
(* its UNIX Classic build: every owner is a process, the lock table is     *)
(* shared memory under one mutex, blocking notices travel as signals.      *)
(*                                                                         *)
(* A call of the interface (LOCK_enq, LOCK_convert, ...) acquires the      *)
(* mutex and does its first change in one action; the loops it goes on to  *)
(* run (post_pending, purge_owner, post_blockage) and its release are      *)
(* further actions of the active owner, so that what the program does      *)
(* without the mutex - the pending test of wait_for_request, the arrival   *)
(* of a signal - interleaves with them.                                    *)
(***************************************************************************)
EXTENDS LockLevels

CONSTANTS
  Owners,        \* processes attached to the lock table
  Locks,         \* lock names (parent, series and key together)
  Requests,      \* the blocks of the free list of requests
  NoOwner, NoLock, NoRequest,
  Manager,       \* the privileged lock manager process
  AstLocks,      \* locks whose requests carry a blocking AST routine
  EnqLevels,     \* levels the callers enqueue at
  ConvLevels,    \* levels the callers convert to
  WaitModes,     \* subset of {"wait", "nowait"}
  LockOrdering,  \* LOCK_ordering
  TimedWaiters,  \* owners that wait with a timeout (lck_wait < 0)
  LazyOwners,    \* owners whose AST routine may leave the lock for later
  Mortal         \* owners that may die

ASSUME ConstantAssumption ==
  /\ NoOwner \notin Owners /\ Manager \notin Owners /\ NoOwner # Manager
  /\ NoLock \notin Locks /\ NoRequest \notin Requests
  /\ IsFiniteSet(Requests)
  /\ AstLocks \subseteq Locks
  /\ EnqLevels \subseteq 2..6 /\ ConvLevels \subseteq 2..6
  /\ WaitModes \subseteq {"wait", "nowait"}
  /\ LockOrdering \in BOOLEAN
  /\ TimedWaiters \subseteq Owners /\ LazyOwners \subseteq Owners
  /\ Mortal \subseteq Owners

\* Bits of lrq_flags; the field is a UCHAR, a bit beyond 255 is not stored.
LRQ_blocking      == 1
LRQ_pending       == 2
LRQ_rejected      == 8
LRQ_blocking_seen == 256
LrqBits     == {LRQ_blocking, LRQ_pending, LRQ_rejected, LRQ_blocking_seen}
Uchar(bits) == {b \in bits : b <= 255}

OwnFlags == {"scanned", "wakeup", "signal", "signaled"}
PCs      == {"off", "run", "wait", "denied", "dead"}
Phases   == {"off", "pop", "routine", "back"}

VARIABLES
  lrq,     \* request blocks; ahead: the requests before it in lbl_requests
  lbl,     \* lock blocks: counts, state and number of pending requests
  own,     \* owner blocks, with where the process is in the interface
  held,    \* the level the caller believes each request has
  active,  \* lhb_active_owner
  job      \* what is left to do in the critical section

vars == <<lrq, lbl, own, held, active, job>>

FreeRequest == [owner |-> NoOwner, lock |-> NoLock, requested |-> LCK_none,
                state |-> LCK_none, flags |-> {}, ahead |-> {}]
FreeLock    == [counts |-> NoCounts, state |-> LCK_none, pending |-> 0]
OffOwner    == [pc |-> "off", pending |-> NoRequest, waits |-> NoRequest,
                flags |-> {}, handler |-> "off", ast |-> NoRequest]
NoJob       == [next |-> "none", lock |-> NoLock, pend |-> {}, purge |-> {},
                post |-> NoRequest]

RequestType == [owner : Owners \cup {NoOwner}, lock : Locks \cup {NoLock},
                requested : Levels, state : Levels, flags : SUBSET LrqBits,
                ahead : SUBSET Requests]
LockType    == [counts : [Granted -> Nat], state : Levels, pending : Nat]
OwnerType   == [pc : PCs, pending : Requests \cup {NoRequest},
                waits : Requests \cup {NoRequest}, flags : SUBSET OwnFlags,
                handler : Phases, ast : Requests \cup {NoRequest}]
JobType     == [next : {"none", "scan", "init", "release", "leave"},
                lock : Locks \cup {NoLock}, pend : SUBSET Requests,
                purge : SUBSET Owners, post : Requests \cup {NoRequest}]

TypeOK ==
  /\ lrq \in [Requests -> RequestType]
  /\ lbl \in [Locks -> LockType]
  /\ own \in [Owners -> OwnerType]
  /\ held \in [Requests -> Levels]
  /\ active \in Owners \cup {NoOwner, Manager}
  /\ job \in JobType

Init ==
  /\ lrq = [r \in Requests |-> FreeRequest]
  /\ lbl = [l \in Locks |-> FreeLock]
  /\ own = [o \in Owners |-> OffOwner]
  /\ held = [r \in Requests |-> LCK_none]
  /\ active = NoOwner
  /\ job = NoJob

-----------------------------------------------------------------------------
(* Views of the table.                                                     *)

IsFree(r)    == lrq[r].owner = NoOwner
OnLock(l)    == {r \in Requests : lrq[r].lock = l}
OwnedBy(o)   == {r \in Requests : lrq[r].owner = o}
Has(r, bit)  == bit \in lrq[r].flags
Pending(r)   == Has(r, LRQ_pending)
own_blocks(o) == {r \in OwnedBy(o) : Has(r, LRQ_blocking)}
Signaled(o)  == "signaled" \in own[o].flags
Dead         == {o \in Owners : own[o].pc = "dead"}

\* The pending requests of lock l once the requests are q.
PendingOn(q, l) == {r \in Requests : q[r].lock = l /\ LRQ_pending \in q[r].flags}

\* Mutant: the request itself is counted.
StateWith(r) == lbl[lrq[r].lock].state

\* The lock level without request r: lbl_counts decremented, lock_state taken.
StateWithout(r) == lock_state(CountDown(lbl[lrq[r].lock].counts, lrq[r].state))

Quiet == job.pend = {} /\ job.purge = {} /\ job.post = NoRequest

-----------------------------------------------------------------------------
(* Pieces of the handlers.                                                 *)

\* post_wakeup: only a process inside wait_for_request has own_semaphore set.
Wakened(o) ==
  [own EXCEPT ![o].flags = IF own[o].pc = "wait" THEN @ \cup {"wakeup"} ELSE @]

\* grant of a request whose former level is already out of the counts.
GrantedRequest(r) ==
  [lrq EXCEPT ![r].state = lrq[r].requested, ![r].flags = @ \ {LRQ_pending}]
GrantedLock(r, counts, level) ==
  LET c == CountUp(counts, level) IN
  [counts  |-> c, state |-> lock_state(c),
   pending |-> lbl[lrq[r].lock].pending - (IF Pending(r) THEN 1 ELSE 0)]

\* Mutants of the lock block after release_request: lbl_pending_lrq_count goes
\* down with every request, or with none.
LblWithoutCounting(r, n) ==
  LET l == lrq[r].lock
      s == lrq[r].state
      c == CountDown(lbl[l].counts, s)
  IN [lbl EXCEPT ![l] =
        IF OnLock(l) = {r} THEN FreeLock
        ELSE [counts |-> c, state |-> lock_state(c), pending |-> @.pending - n]]
LblWithoutAlways(r) == LblWithoutCounting(r, 1)
LblWithoutNever(r)  == LblWithoutCounting(r, 0)

\* release_request: the request leaves its queues, the lock goes with its last one.
LrqWithout(r) ==
  [x \in Requests |-> IF x = r THEN FreeRequest
                      ELSE [lrq[x] EXCEPT !.ahead = @ \ {r}]]
LblWithout(r) ==
  LET l == lrq[r].lock
      s == lrq[r].state
      c == CountDown(lbl[l].counts, s)
  IN [lbl EXCEPT ![l] =
        IF OnLock(l) = {r} THEN FreeLock
        ELSE [counts  |-> c,
              state   |-> IF s # LCK_none /\ c[s] = 0 THEN lock_state(c) ELSE @.state,
              pending |-> @.pending - (IF Pending(r) THEN 1 ELSE 0)]]

\* The critical section goes on to post_pending on lock l, then to next.
PostPendingOn(l, next) ==
  job' = [NoJob EXCEPT !.next = next, !.lock = l, !.pend = PendingOn(lrq', l)]

\* The level left to the caller is recorded where the call returns it.
Returns(r, level) == held' = [held EXCEPT ![r] = level]

\* A call from an AST routine ends the routine, a call from the main line does not.
CallMade(o) == [own EXCEPT ![o].handler = IF @ = "routine" THEN "back" ELSE @]

MainLine(o) == own[o].pc = "run" /\ own[o].handler = "off"
InAst(o, r) == /\ own[o].handler = "routine" /\ own[o].ast = r
               /\ own[o].waits # r /\ ~IsFree(r)

\* Mutant: OWN_scanned stays from an earlier wait.
StartWaitScanned(o, r, request) ==
  /\ lrq' = [lrq EXCEPT ![r] =
       [request EXCEPT !.flags = (@ \ {LRQ_rejected}) \cup {LRQ_pending}]]
  /\ lbl' = [lbl EXCEPT ![request.lock].pending = @ + 1]
  /\ own' = [own EXCEPT ![o].pc = "wait", ![o].pending = r, ![o].waits = r,
                        ![o].flags = @ \ {"wakeup"}]
  /\ job' = [NoJob EXCEPT !.next = "release", !.post = r]

\* wait_for_request up to its loop: pending, at the end of the queue when new.
StartWait(o, r, request) ==
  /\ lrq' = [lrq EXCEPT ![r] =
       [request EXCEPT !.flags = (@ \ {LRQ_rejected}) \cup {LRQ_pending}]]
  /\ lbl' = [lbl EXCEPT ![request.lock].pending = @ + 1]
  /\ own' = [own EXCEPT ![o].pc = "wait", ![o].pending = r, ![o].waits = r,
                        ![o].flags = @ \ {"scanned", "wakeup"}]
  /\ job' = [NoJob EXCEPT !.next = "release", !.post = r]

-----------------------------------------------------------------------------
(* The interface.  Every call starts with acquire.                         *)

NewRequest(o, l, level) ==
  [owner |-> o, lock |-> l, requested |-> level, state |-> LCK_none,
   flags |-> {}, ahead |-> OnLock(l)]

\* Mutant: one of the two conditions is enough.
GrantsOnEither(l, level) == Compatible(level, lbl[l].state) \/ lbl[l].pending = 0

\* grant_or_que: compatible with the lock, and nobody waits if that counts.
GrantsAtOnce(l, level) ==
  /\ Compatible(level, lbl[l].state)
  /\ ~LockOrdering \/ level = LCK_null \/ lbl[l].pending = 0

\* LOCK_enq, the lock is new or the request is granted at once.
EnqGranted(o, l, r, level) ==
  /\ OnLock(l) = {} \/ GrantsAtOnce(l, level)
  /\ lrq' = [lrq EXCEPT ![r] = [NewRequest(o, l, level) EXCEPT !.state = level]]
  /\ LET c == CountUp(lbl[l].counts, level) IN
       lbl' = [lbl EXCEPT ![l] = [counts |-> c, state |-> lock_state(c), pending |-> @.pending]]
  /\ Returns(r, level)
  /\ PostPendingOn(l, "release")
  /\ UNCHANGED own

\* LOCK_enq without wait: the request is queued, denied and released again.
EnqDenied(o, l, r, level) ==
  /\ OnLock(l) # {} /\ ~GrantsAtOnce(l, level)
  /\ "nowait" \in WaitModes
  /\ UNCHANGED <<lrq, lbl, own, held>>
  /\ PostPendingOn(l, "release")

EnqWaits(o, l, r, level) ==
  /\ OnLock(l) # {} /\ ~GrantsAtOnce(l, level)
  /\ "wait" \in WaitModes
  /\ StartWait(o, r, NewRequest(o, l, level))
  /\ UNCHANGED held

\* The engine's lock layer keeps one request per owner and lock.
LOCK_enq(o, l, r, level) ==
  /\ active = NoOwner /\ MainLine(o)
  /\ IsFree(r) /\ OwnedBy(o) \cap OnLock(l) = {}
  /\ active' = o
  /\ \/ EnqGranted(o, l, r, level)
     \/ EnqDenied(o, l, r, level)
     \/ EnqWaits(o, l, r, level)

\* convert, when the level suits the lock without the request: grant.
ConvertGranted(r, level) ==
  LET l == lrq[r].lock
      c == CountDown(lbl[l].counts, lrq[r].state)
  IN /\ Compatible(level, StateWithout(r))
     /\ lrq' = [lrq EXCEPT ![r].requested = level, ![r].state = level,
                           ![r].flags = @ \ {LRQ_pending, LRQ_blocking_seen}]
     /\ lbl' = [lbl EXCEPT ![l] = GrantedLock(r, c, level)]
     /\ PostPendingOn(l, "release")

ConvertDenied(r, level) ==
  /\ ~Compatible(level, StateWithout(r))
  /\ lrq' = [lrq EXCEPT ![r].requested = lrq[r].state,
                        ![r].flags = @ \ {LRQ_blocking_seen}]
  /\ job' = [NoJob EXCEPT !.next = "release"]
  /\ UNCHANGED lbl

ConvertWaits(o, r, level) ==
  /\ ~Compatible(level, StateWithout(r))
  /\ StartWait(o, r, [lrq[r] EXCEPT !.requested = level,
                                    !.flags = @ \ {LRQ_blocking_seen}])

LOCK_convert(o, r, level) ==
  /\ active = NoOwner /\ MainLine(o) /\ lrq[r].owner = o
  /\ level # lrq[r].state
  /\ active' = o
  /\ \/ /\ ConvertGranted(r, level)
        /\ Returns(r, level)
        /\ UNCHANGED own
     \/ /\ "nowait" \in WaitModes
        /\ ConvertDenied(r, level)
        /\ UNCHANGED <<own, held>>
     \/ /\ "wait" \in WaitModes
        /\ ConvertWaits(o, r, level)
        /\ UNCHANGED held

\* Mutant: no post_pending.
DequeuedSilently(r) ==
  /\ lrq' = LrqWithout(r)
  /\ lbl' = LblWithout(r)
  /\ job' = [NoJob EXCEPT !.next = "release"]
  /\ Returns(r, LCK_none)

\* dequeue and release_request.
Dequeued(r) ==
  /\ lrq' = LrqWithout(r)
  /\ lbl' = LblWithout(r)
  /\ PostPendingOn(lrq[r].lock, "release")
  /\ Returns(r, LCK_none)

LOCK_deq(o, r) ==
  /\ active = NoOwner /\ lrq[r].owner = o
  /\ MainLine(o) \/ InAst(o, r)
  /\ active' = o
  /\ own' = CallMade(o)
  /\ Dequeued(r)

\* The highest level asked for by the other pending requests, and the level
\* at or below the present one that suits it.
HighestPending(r) ==
  LET p == {lrq[x].requested : x \in PendingOn(lrq, lrq[r].lock) \ {r}}
  IN CHOOSE n \in p \cup {LCK_none} : \A m \in p : m <= n
DowngradeTo(r) ==
  CHOOSE n \in 0..lrq[r].state :
    /\ Compatible(HighestPending(r), n)
    /\ \A m \in 0..lrq[r].state : Compatible(HighestPending(r), m) => m <= n

LOCK_downgrade(o, r) ==
  /\ active = NoOwner /\ lrq[r].owner = o
  /\ MainLine(o) \/ InAst(o, r)
  /\ active' = o
  /\ own' = CallMade(o)
  /\ IF DowngradeTo(r) \in {LCK_none, LCK_null}
     THEN Dequeued(r)
     ELSE /\ ConvertGranted(r, DowngradeTo(r)) \/ ConvertDenied(r, DowngradeTo(r))
          /\ Returns(r, DowngradeTo(r))

\* Mutant: probe_owners takes every other process for dead.
LOCK_init_purging(o) ==
  /\ active = NoOwner /\ own[o].pc \in {"off", "dead"}
  /\ active' = o
  /\ job' = [NoJob EXCEPT !.next = "init", !.purge = Owners \ {o}]
  /\ UNCHANGED <<lrq, lbl, own, held>>

\* LOCK_init: the previous instance of the owner and the dead are purged.
LOCK_init(o) ==
  /\ active = NoOwner /\ own[o].pc \in {"off", "dead"}
  /\ active' = o
  /\ job' = [NoJob EXCEPT !.next = "init", !.purge = Dead]
  /\ UNCHANGED <<lrq, lbl, own, held>>

\* LOCK_fini: the owner purges itself.
LOCK_fini(o) ==
  /\ active = NoOwner /\ MainLine(o)
  /\ active' = o
  /\ job' = [NoJob EXCEPT !.next = "leave", !.purge = {o}]
  /\ UNCHANGED <<lrq, lbl, own, held>>

\* A round of the manager process: an owner it cannot signal either is purged.
LOCK_manager ==
  /\ active = NoOwner
  /\ \E o \in Dead : "signal" \in own[o].flags
  /\ active' = Manager
  /\ job' = [NoJob EXCEPT !.next = "leave",
                          !.purge = {o \in Dead : "signal" \in own[o].flags}]
  /\ UNCHANGED <<lrq, lbl, own, held>>

-----------------------------------------------------------------------------
(* The loops of a critical section.                                        *)

\* Mutant: the loop never stops.
GoesPast(r) == job.pend \ {r}

\* A request that does not suit the lock: with ordering nobody behind it is tried.
AfterUnsuited(r) == IF LockOrdering THEN {} ELSE job.pend \ {r}

\* One turn of post_pending: the first pending request not looked at yet.
post_pending ==
  \E r \in job.pend :
    LET q == lrq[r]
        c == CountDown(lbl[q.lock].counts, q.state)
        fits == Compatible(q.requested, IF q.state = LCK_none THEN lbl[q.lock].state
                                                              ELSE lock_state(c))
    IN /\ q.ahead \cap job.pend = {}
       /\ own' = Wakened(q.owner)
       /\ \/ /\ fits
             /\ lrq' = GrantedRequest(r)
             /\ lbl' = [lbl EXCEPT ![q.lock] = GrantedLock(r, c, q.requested)]
             /\ job' = [job EXCEPT !.pend = @ \ {r}]
          \/ /\ ~fits
             /\ job' = [job EXCEPT !.pend = AfterUnsuited(r)]
             /\ UNCHANGED <<lrq, lbl>>
       /\ UNCHANGED <<held, active>>

\* One turn of purge_owner: a request of the owner goes, at last its block.
purge_owner ==
  /\ job.pend = {}
  /\ \E o \in job.purge :
       \/ \E r \in OwnedBy(o) :
            /\ lrq' = LrqWithout(r)
            /\ lbl' = LblWithout(r)
            /\ job' = [job EXCEPT !.lock = lrq[r].lock,
                                  !.pend = PendingOn(lrq', lrq[r].lock)]
            /\ Returns(r, LCK_none)
            /\ UNCHANGED own
       \/ /\ OwnedBy(o) = {}
          /\ own' = [own EXCEPT ![o] = OffOwner]
          /\ job' = [job EXCEPT !.purge = @ \ {o}]
          /\ UNCHANGED <<lrq, lbl, held>>
  /\ UNCHANGED active

\* Mutant: a request that has its notice already is not told again.
BlockersNotTold(r) ==
  {b \in OnLock(lrq[r].lock) \ {r} :
     /\ ~Compatible(lrq[r].requested, lrq[b].state)
     /\ lrq[r].lock \in AstLocks
     /\ ~Has(b, LRQ_blocking)}

\* Who stands in the way of request r and can be told so.
BlockersToTell(r) ==
  {b \in OnLock(lrq[r].lock) \ {r} :
     /\ ~Compatible(lrq[r].requested, lrq[b].state)
     /\ lrq[r].lock \in AstLocks
     /\ ~Has(b, LRQ_blocking_seen)}

\* signal_owner: nothing for a signal on its way; the dead are left to the manager.
SignalOwners(S) ==
  [o \in Owners |->
     IF o \notin S \/ Signaled(o) THEN own[o]
     ELSE [own[o] EXCEPT !.flags = IF own[o].pc = "dead" THEN @ \cup {"signal"}
                                   ELSE (@ \ {"signal"}) \cup {"signaled"}]]

post_blockage ==
  /\ job.pend = {} /\ job.purge = {} /\ job.post # NoRequest
  /\ LET r == job.post
         blockers == BlockersToTell(r)
     IN /\ lrq' = [x \in Requests |->
                     IF x \in blockers /\ ~Has(x, LRQ_blocking)
                     THEN [lrq[x] EXCEPT !.flags =
                             (@ \cup {LRQ_blocking}) \ {LRQ_blocking_seen}]
                     ELSE lrq[x]]
        /\ own' = SignalOwners({lrq[b].owner : b \in blockers} \ {lrq[r].owner})
  /\ job' = [job EXCEPT !.post = NoRequest]
  /\ UNCHANGED <<lbl, held, active>>

\* create_owner, after the purge.
create_owner ==
  /\ job.next = "init" /\ Quiet
  /\ own' = [own EXCEPT ![active] = [OffOwner EXCEPT !.pc = "run"]]
  /\ job' = [job EXCEPT !.next = "release"]
  /\ UNCHANGED <<lrq, lbl, held, active>>

\* release: with notices waiting and no signal on its way the owner runs its own
\* blocking action before the mutex goes.  Otherwise release_mutex; a signal that
\* arrives on the way out finds the lock manager busy and only clears the flag.
release ==
  /\ job.next = "release" /\ Quiet
  /\ job' = NoJob
  /\ \/ /\ own_blocks(active) # {} /\ ~Signaled(active)
        /\ own' = [own EXCEPT ![active].handler = "pop",
                              ![active].flags = (@ \ {"signal"}) \cup {"signaled"}]
        /\ UNCHANGED active
     \/ /\ own_blocks(active) = {} \/ Signaled(active)
        /\ \/ UNCHANGED own
           \/ /\ Signaled(active) /\ own[active].handler = "off"
              /\ own' = [own EXCEPT ![active].flags = @ \ {"signaled"}]
        /\ active' = NoOwner
  /\ UNCHANGED <<lrq, lbl, held>>

release_mutex ==
  /\ job.next = "leave" /\ Quiet
  /\ active' = NoOwner
  /\ job' = NoJob
  /\ UNCHANGED <<lrq, lbl, own, held>>

-----------------------------------------------------------------------------
(* The deadlock scan.                                                      *)

\* deadlock_walk: the requests that stand before r.  A conversion only meets
\* the granted, a new request also those queued before it.
BlockedBy(r) ==
  IF ~LockOrdering \/ lrq[r].state > LCK_null
  THEN {b \in OnLock(lrq[r].lock) \ {r} : ~Compatible(lrq[r].requested, lrq[b].state)}
  ELSE {b \in lrq[r].ahead :
          ~Compatible(lrq[r].requested, MaxLevel(lrq[b].state, lrq[b].requested))}

HasAstWork(o) == Signaled(o) \/ own_blocks(o) # {}

WaitEdges(r) ==
  {p \in {own[lrq[b].owner].pending :
            b \in {x \in BlockedBy(r) : ~HasAstWork(lrq[x].owner)}} \ {NoRequest} :
     Pending(p)}

\* The requests a walk along the edges can reach from r.
Walk(r) ==
  {x \in Requests :
     \A S \in SUBSET Requests :
       (r \in S /\ \A y \in S : WaitEdges(y) \subseteq S) => x \in S}

Victims(r) == {v \in Walk(r) : \E w \in WaitEdges(v) : v \in Walk(w)}
MaybeDeadlock(r) ==
  \E x \in Walk(r) : \E b \in BlockedBy(x) : HasAstWork(lrq[b].owner)

-----------------------------------------------------------------------------
(* The loop of wait_for_request.                                           *)

Waiting(o) == own[o].pc = "wait" /\ own[o].handler = "off" /\ active # o

\* Without the mutex: the request is no longer pending, the loop ends.
WaitEnds(o) ==
  /\ Waiting(o) /\ ~Pending(own[o].waits)
  /\ LET r == own[o].waits IN
       \/ /\ Has(r, LRQ_rejected)
          /\ own' = [own EXCEPT ![o].pc = "denied", ![o].pending = NoRequest]
          /\ UNCHANGED held
       \/ /\ ~Has(r, LRQ_rejected)
          /\ own' = [own EXCEPT ![o].pc = "run", ![o].pending = NoRequest,
                                ![o].waits = NoRequest]
          /\ Returns(r, lrq[r].requested)
  /\ UNCHANGED <<lrq, lbl, active, job>>

\* The caller cleans up: a new request is released, a conversion is taken back.
WaitDenied(o) ==
  /\ active = NoOwner /\ own[o].pc = "denied" /\ own[o].handler = "off"
  /\ active' = o
  /\ own' = [own EXCEPT ![o].pc = "run", ![o].waits = NoRequest]
  /\ LET r == own[o].waits IN
       /\ \/ /\ lrq[r].state = LCK_none
             /\ lrq' = LrqWithout(r)
             /\ lbl' = LblWithout(r)
          \/ /\ lrq[r].state # LCK_none
             /\ lrq' = [lrq EXCEPT ![r].requested = lrq[r].state]
             /\ UNCHANGED lbl
       /\ PostPendingOn(lrq[r].lock, "release")
  /\ UNCHANGED held

StillWaiting(o) == active = NoOwner /\ Waiting(o) /\ Pending(own[o].waits)

\* post_wakeup was called for a request it did not grant: tell the blockers again.
WaitWokenUp(o) ==
  /\ StillWaiting(o) /\ "wakeup" \in own[o].flags
  /\ active' = o
  /\ own' = [own EXCEPT ![o].flags = @ \ {"wakeup"}]
  /\ job' = [NoJob EXCEPT !.next = "release", !.post = own[o].waits]
  /\ UNCHANGED <<lrq, lbl, held>>

\* The lock timeout has passed: the owner rejects its own request.
WaitTimesOut(o) ==
  /\ StillWaiting(o) /\ o \in TimedWaiters
  /\ active' = o
  /\ LET r == own[o].waits IN
       /\ lrq' = [lrq EXCEPT ![r].flags = (@ \ {LRQ_pending}) \cup {LRQ_rejected}]
       /\ lbl' = [lbl EXCEPT ![lrq[r].lock].pending = @ - 1]
  /\ own' = [own EXCEPT ![o].flags = @ \ {"wakeup"}]
  /\ job' = [NoJob EXCEPT !.next = "release"]
  /\ UNCHANGED held

\* Mutant: nobody probes.
WaitScansUnprobed(o) ==
  /\ StillWaiting(o) /\ "wakeup" \notin own[o].flags
  /\ active' = o
  /\ job' = [NoJob EXCEPT !.next = "scan"]
  /\ UNCHANGED <<lrq, lbl, own, held>>

\* The scan interval has passed: probe_owners purges the dead ...
WaitScans(o) ==
  /\ StillWaiting(o) /\ "wakeup" \notin own[o].flags
  /\ active' = o
  /\ job' = [NoJob EXCEPT !.next = "scan", !.purge = Dead]
  /\ UNCHANGED <<lrq, lbl, own, held>>

\* Mutant: the victim stays pending.
RejectPending(v, o) ==
  /\ lrq' = [lrq EXCEPT ![v].flags = @ \cup {LRQ_rejected}]
  /\ own' = [own EXCEPT ![lrq[v].owner].pending = NoRequest]
  /\ UNCHANGED lbl

\* ... and if the request still waits, deadlock_scan looks for a victim.
RejectVictim(v, o) ==
  LET w == lrq[v].owner IN
  /\ lrq' = [lrq EXCEPT ![v].flags = (@ \ {LRQ_pending}) \cup {LRQ_rejected}]
  /\ lbl' = [lbl EXCEPT ![lrq[v].lock].pending = @ - 1]
  /\ own' = [own EXCEPT ![w].pending = NoRequest,
                        ![w].flags = (@ \ {"scanned"}) \cup
                          (IF w # o /\ own[w].pc = "wait" THEN {"wakeup"} ELSE {})]

deadlock_scan ==
  /\ job.next = "scan" /\ Quiet
  /\ LET o == active
         r == own[o].waits
         scan == "scanned" \notin own[o].flags
     IN \/ /\ ~Pending(r)
           /\ job' = [job EXCEPT !.next = "release"]
           /\ UNCHANGED <<lrq, lbl, own>>
        \/ /\ Pending(r) /\ scan
           /\ \E v \in Victims(r) : RejectVictim(v, o)
           /\ job' = [job EXCEPT !.next = "release"]
        \/ /\ Pending(r) /\ (scan => Victims(r) = {})
           /\ own' = IF scan /\ ~MaybeDeadlock(r)
                     THEN [own EXCEPT ![o].flags = @ \cup {"scanned"}] ELSE own
           /\ job' = [job EXCEPT !.next = "release", !.post = r]
           /\ UNCHANGED <<lrq, lbl>>
  /\ UNCHANGED <<held, active>>

-----------------------------------------------------------------------------
(* Blocking ASTs.                                                          *)

\* A signal finds the process outside the lock manager.
blocking_action(o) ==
  /\ active = NoOwner
  /\ Signaled(o) /\ own[o].handler = "off" /\ own[o].pc \notin {"off", "dead"}
  /\ active' = o
  /\ own' = [own EXCEPT ![o].handler = "pop"]
  /\ UNCHANGED <<lrq, lbl, held, job>>

\* Mutant: also while the blocking action runs.
blocking_action_reset(o) ==
  /\ active = o /\ Signaled(o)
  /\ own' = [own EXCEPT ![o].flags = @ \ {"signaled"}]
  /\ UNCHANGED <<lrq, lbl, held, active, job>>

\* It finds the process inside the lock manager (LOCK_asts): only the flag goes.
blocking_action_ignored(o) ==
  /\ active = o /\ Signaled(o) /\ own[o].handler = "off"
  /\ own' = [own EXCEPT ![o].flags = @ \ {"signaled"}]
  /\ UNCHANGED <<lrq, lbl, held, active, job>>

\* A turn of blocking_action2: a notice is taken off and the mutex released.
AstTaken(o) ==
  /\ active = o /\ own[o].handler = "pop"
  /\ \E r \in own_blocks(o) :
       /\ lrq' = [lrq EXCEPT ![r].flags =
                    Uchar((@ \ {LRQ_blocking}) \cup {LRQ_blocking_seen})]
       /\ own' = [own EXCEPT ![o].handler = "routine", ![o].ast = r]
  /\ active' = NoOwner
  /\ UNCHANGED <<lbl, held, job>>

\* The AST routine downgrades or releases the lock (LOCK_downgrade, LOCK_deq), or
\* leaves it for later: it must when the process waits for that very request.
AstDeferred(o) ==
  /\ own[o].handler = "routine"
  /\ own[o].waits = own[o].ast \/ o \in LazyOwners
  /\ own' = [own EXCEPT ![o].handler = "back"]
  /\ UNCHANGED <<lrq, lbl, held, active, job>>

\* The routine is back: acquire, and look for the next notice.
AstReturns(o) ==
  /\ active = NoOwner /\ own[o].handler = "back"
  /\ active' = o
  /\ own' = [own EXCEPT ![o].handler = "pop", ![o].ast = NoRequest]
  /\ UNCHANGED <<lrq, lbl, held, job>>

AstDone(o) ==
  /\ active = o /\ own[o].handler = "pop" /\ own_blocks(o) = {}
  /\ own' = [own EXCEPT ![o].handler = "off", ![o].flags = @ \ {"signaled"}]
  /\ active' = NoOwner
  /\ UNCHANGED <<lrq, lbl, held, job>>

\* A process dies outside the critical section; its blocks stay.
Dies(o) ==
  /\ o \in Mortal /\ active # o /\ own[o].pc \notin {"off", "dead"}
  /\ own' = [own EXCEPT ![o].pc = "dead", ![o].handler = "off", ![o].ast = NoRequest]
  /\ UNCHANGED <<lrq, lbl, held, active, job>>

-----------------------------------------------------------------------------
Call(o) ==
  \/ \E l \in Locks, r \in Requests, level \in EnqLevels : LOCK_enq(o, l, r, level)
  \/ \E r \in Requests, level \in ConvLevels : LOCK_convert(o, r, level)
  \/ LOCK_init(o)
  \/ LOCK_fini(o)

GiveUp(o) == \E r \in Requests : LOCK_deq(o, r) \/ LOCK_downgrade(o, r)

Section ==
  \/ post_pending \/ purge_owner \/ post_blockage
  \/ create_owner \/ deadlock_scan \/ release \/ release_mutex

Handler(o) == blocking_action(o) \/ AstTaken(o) \/ AstReturns(o) \/ AstDone(o)

Wait(o) == WaitEnds(o) \/ WaitDenied(o) \/ WaitWokenUp(o)

Next ==
  \/ Section
  \/ LOCK_manager
  \/ \E o \in Owners :
       \/ Call(o) \/ GiveUp(o)
       \/ Handler(o) \/ blocking_action_ignored(o) \/ AstDeferred(o)
       \/ Wait(o) \/ WaitTimesOut(o) \/ WaitScans(o)
       \/ Dies(o)

Spec == Init /\ [][Next]_vars

\* The fairness of the scheduling: a critical section runs to its end; the mutex
\* goes round (SF: it is free again and again), so that a process goes on, takes
\* its signals and comes back from its AST routines, its scan timer expires and
\* the manager does its round.
AstGivesUp(o) ==
  \E r \in Requests : InAst(o, r) /\ (LOCK_deq(o, r) \/ LOCK_downgrade(o, r))
GoesOn(o) == Handler(o) \/ AstGivesUp(o) \/ AstDeferred(o) \/ Wait(o)
Fairness ==
  /\ WF_vars(Section) /\ SF_vars(LOCK_manager)
  /\ \A o \in Owners : SF_vars(GoesOn(o)) /\ SF_vars(WaitScans(o))
FairSpec == Spec /\ Fairness

\* The same, with holders that release every lock in the end when they do not wait.
Releases(o, l) == MainLine(o) /\ \E r \in OnLock(l) : LOCK_deq(o, r)
ReleasingSpec == FairSpec /\ \A o \in Owners, l \in Locks : SF_vars(Releases(o, l))

-----------------------------------------------------------------------------
(* What the lock table promises.                                           *)

\* A lock block agrees with its requests: lbl_counts counts the granted ones
\* level by level, lbl_state is the highest of them, lbl_pending_lrq_count
\* counts the waiting ones (the CHECKs of post_pending and release_request).
HeldAt(l, n) == {r \in OnLock(l) : lrq[r].state = n}
LockBlocksAgree ==
  \A l \in Locks :
    /\ \A n \in Granted : lbl[l].counts[n] = Cardinality(HeldAt(l, n))
    /\ lbl[l].state = lock_state(lbl[l].counts)
    /\ lbl[l].pending = Cardinality(PendingOn(lrq, l))

\* Two requests are never granted at levels the matrix forbids together,
\* whatever the callers, the purges and the deadlock scans do.
GrantedCompatible ==
  \A r, s \in Requests :
    r # s /\ lrq[r].lock \in Locks /\ lrq[r].lock = lrq[s].lock
      => Compatible(lrq[r].state, lrq[s].state)

\* A pending request is the one its owner sleeps on, so that a grant or a
\* rejection has somebody to notice it (post_wakeup, wait_for_request).
PendingHasWaiter ==
  \A r \in Requests : Pending(r) =>
    LET o == lrq[r].owner IN
    /\ own[o].pc \in {"wait", "dead"} /\ own[o].waits = r
    /\ own[o].pc = "wait" => own[o].pending = r

\* A rejection whose owner has still to clean up and call post_pending.
Uncleaned(r) == /\ lrq[r].owner \in Owners /\ own[lrq[r].owner].waits = r
                /\ ~Pending(r) /\ Has(r, LRQ_rejected)

\* With the mutex free nothing that should have been granted was forgotten:
\* the first waiter (without ordering: every waiter) does not suit the lock.
NoForgottenGrant ==
  active = NoOwner =>
    \A l \in Locks : \A r \in PendingOn(lrq, l) :
      \/ \E x \in OnLock(l) : Uncleaned(x)
      \/ LockOrdering /\ lrq[r].ahead \cap PendingOn(lrq, l) # {}
      \/ ~Compatible(lrq[r].requested, StateWithout(r))

\* What LOCK_enq, LOCK_convert, LOCK_downgrade and LOCK_deq returned to the
\* caller is what the table holds ("returning its new state", lock.c:495).
CallerViewAgrees ==
  \A o \in Owners : MainLine(o) /\ active # o =>
    \A r \in OwnedBy(o) : held[r] = lrq[r].state

\* While a blocking action runs its owner counts as signaled, so that nobody
\* starts a second one ("no more than one thread of execution", lock.c:1918).
OneBlockingAction ==
  \A o \in Owners : own[o].handler # "off" => Signaled(o)

\* A cycle of waits, AST work or not, keeps a member that OWN_scanned does not
\* exempt from scanning: no deadlock hides behind the scans made before it.
AllEdges(r) ==
  {p \in {own[lrq[b].owner].pending : b \in BlockedBy(r)} \ {NoRequest} : Pending(p)}
Scanned(r) == "scanned" \in own[lrq[r].owner].flags
DeadlockStaysVisible ==
  active = NoOwner =>
    ~ \E S \in SUBSET {r \in Requests : Pending(r) /\ Scanned(r)} :
        S # {} /\ \A r \in S : AllEdges(r) \cap S # {}

\* Only its own owner lowers or releases what was granted, or asked for the lower
\* level and was waiting for it, or is dead and purged ("no-one can take away the
\* request, once granted", lock.c:3233).
NoTakingAway ==
  [][\A r \in Requests :
       lrq'[r].state < lrq[r].state
         => \/ active' = lrq[r].owner \/ own[lrq[r].owner].pc = "dead"
            \/ Pending(r) /\ lrq'[r].state = lrq[r].requested]_vars

\* Under LOCK_ordering a new request is never granted before one that waits
\* ahead of it.
NoOvertaking ==
  [][LockOrdering =>
       \A r \in Requests :
         lrq[r].state = LCK_none /\ lrq'[r].state # LCK_none
           => ~ \E x \in lrq'[r].ahead : LRQ_pending \in lrq'[x].flags]_vars

\* Nobody waits for ever when holders release in the end: a wait ends in a grant,
\* or in a rejection when it is part of a deadlock, also when a holder died.
WaitsEnd == \A o \in Owners : own[o].pc = "wait" ~> own[o].pc # "wait"

\* A blocking notice for somebody who still waits is taken by the AST of its
\* owner: no signal that arrived inside the lock manager loses it for good.
InTheWay(b) ==
  /\ Has(b, LRQ_blocking)
  /\ \E r \in OnLock(lrq[b].lock) \ {b} :
       /\ Pending(r) /\ own[lrq[r].owner].pc = "wait"
       /\ ~Compatible(lrq[r].requested, lrq[b].state)
NoticesTaken == \A b \in Requests : InTheWay(b) ~> ~InTheWay(b)

\* A deadlock among requests does not last: some member is rejected, or an AST
\* gives a lock of the cycle up.
Deadlocked == \E S \in SUBSET {r \in Requests : Pending(r)} :
                S # {} /\ \A r \in S : AllEdges(r) \cap S # {}
DeadlocksEnd == Deadlocked ~> ~Deadlocked
=============================================================================
