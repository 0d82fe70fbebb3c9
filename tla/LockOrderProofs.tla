-------------------------- MODULE LockOrderProofs --------------------------
(***************************************************************************)
(* More theorems about LockManager, for any number of processes, locks and *)
(* requests: no waiter that could be granted is forgotten, none is         *)
(* overtaken, the callers know the levels they hold, and the scans made    *)
(* before hide no deadlock.                                                *)
(***************************************************************************)
EXTENDS LockManagerProofs

-----------------------------------------------------------------------------
(* The inductive invariant, on top of that of LockManagerProofs.           *)

\* The owner of request r is still in wait_for_request for it, or cleans up.
Waits(r) == own[lrq[r].owner].waits = r

\* Where a process waits, and that only a purge takes the request away under it.
WaitsOwn ==
  \A o \in Owners :
    /\ own[o].pending \in {NoRequest, own[o].waits}
    /\ own[o].pc \in {"off", "run"} => own[o].waits = NoRequest
    /\ own[o].pc = "denied" => own[o].pending = NoRequest
    /\ own[o].waits # NoRequest =>
         \/ lrq[own[o].waits].owner = o
         \/ o \in job.purge /\ IsFree(own[o].waits)

\* The requests of a lock stand in one line.
Lined ==
  /\ \A r \in Requests : \A x \in lrq[r].ahead : lrq[x].lock = lrq[r].lock
  /\ \A r, x \in Requests :
       r # x /\ lrq[r].lock = lrq[x].lock /\ lrq[r].lock \in Locks
         => r \in lrq[x].ahead \/ x \in lrq[r].ahead

\* A request that holds nothing is a new one somebody waits for, one that does not
\* wait and is not rejected holds what it asked for, and a waiter asks for something.
WaitsFit ==
  \A r \in Requests :
    /\ ~IsFree(r) /\ lrq[r].state = LCK_none
         => Waits(r) /\ (Pending(r) \/ Has(r, LRQ_rejected))
    /\ ~IsFree(r) /\ ~Pending(r) /\ ~(Waits(r) /\ Has(r, LRQ_rejected))
         => lrq[r].requested = lrq[r].state
    /\ Pending(r) => ~Has(r, LRQ_rejected) /\ lrq[r].requested # LCK_none

Placed == WaitsOwn /\ Lined /\ WaitsFit

\* Of two levels the callers use the lower one is the weaker one: none uses both
\* LCK_PR and LCK_SW, which exclude each other.
Used == IF LCK_PR \in EnqLevels \cup ConvLevels THEN Levels \ {LCK_SW}
                                                ELSE Levels \ {LCK_PR}
LevelsNest == EnqLevels \cup ConvLevels \subseteq Used

\* Whoever waits on lock l and is not before the post_pending under way waits behind
\* another, or does not suit the lock, or a post_pending is still to come.
SettledOn(l) ==
  \A r \in PendingOn(lrq, l) :
    /\ LevelsNest => lrq[r].state < lrq[r].requested
    /\ \/ r \in job.pend
       \/ \E x \in OnLock(l) : Uncleaned(x)
       \/ LockOrdering /\ lrq[r].ahead \cap PendingOn(lrq, l) # {}
       \/ ~Compatible(lrq[r].requested, StateWithout(r))

\* Every lock is settled: with LOCK_ordering post_pending takes the waiters from the
\* first to the one that does not suit, without it a grant must not make another fit.
Settled ==
  LockOrdering \/ LevelsNest =>
    /\ LockOrdering /\ job.pend # {} => job.pend = PendingOn(lrq, job.lock)
    /\ \A l \in Locks : SettledOn(l)

\* A caller knows the level of its request, but for a grant it has not noticed yet.
Told ==
  LevelsNest =>
    \A r \in Requests :
      /\ lrq[r].state \in Used /\ lrq[r].requested \in Used
      /\ IF IsFree(r) THEN held[r] = LCK_none
         ELSE \/ held[r] = lrq[r].state
              \/ /\ Waits(r) /\ ~Pending(r) /\ ~Has(r, LRQ_rejected)
                 /\ own[lrq[r].owner].pc # "denied"

\* No cycle of waits consists of scanned ones only, also within a critical section.
Exempt(r) == Pending(r) /\ Scanned(r)
NoneHides ==
  ~ \E S \in SUBSET {r \in Requests : Exempt(r)} :
      S # {} /\ \A r \in S : AllEdges(r) \cap S # {}

QInv == Placed /\ Settled /\ Told /\ NoneHides

-----------------------------------------------------------------------------
(* What a step may leave alone.                                            *)

\* Request x keeps its owner, its levels and its wait.
Same(x) ==
  /\ lrq'[x].owner = lrq[x].owner /\ lrq'[x].lock = lrq[x].lock
  /\ lrq'[x].requested = lrq[x].requested /\ lrq'[x].state = lrq[x].state
  /\ LRQ_pending \in lrq'[x].flags <=> Pending(x)
  /\ LRQ_rejected \in lrq'[x].flags <=> Has(x, LRQ_rejected)

\* Process p keeps its wait ...
KeepsWait(p) ==
  /\ own'[p].waits = own[p].waits /\ own'[p].pending = own[p].pending
  /\ own'[p].pc \in {"off", "run"} => own[p].pc \in {"off", "run"}
  /\ own'[p].pc = "denied" => own[p].pc = "denied"

\* ... or has left it, but perhaps for the cleanup.
EndsWait(p) ==
  /\ own'[p].pending = NoRequest
  /\ \/ own'[p].waits = NoRequest
     \/ own'[p].waits = own[p].waits /\ own'[p].pc \notin {"off", "run"}

\* Nobody is newly exempt from scans.
NoneScanned ==
  \A p \in Owners : "scanned" \in own'[p].flags => "scanned" \in own[p].flags

LEMMA Typed ==
  ASSUME IInv
  PROVE  /\ lrq \in [Requests -> RequestType] /\ \A x \in Requests : lrq[x] \in RequestType
         /\ own \in [Owners -> OwnerType] /\ \A p \in Owners : own[p] \in OwnerType
         /\ lbl \in [Locks -> LockType] /\ held \in [Requests -> Levels]
         /\ job \in JobType
         /\ \A x \in Requests : IF IsFree(x) THEN lrq[x] = FreeRequest
                                ELSE lrq[x].owner \in Owners /\ lrq[x].lock \in Locks
BY DEF IInv, Table, Control, RequestsLinked, IsFree, RequestType

\* A free request is on no lock and waits for nothing.
LEMMA FreeIsIdle ==
  ASSUME IInv, NEW x \in Requests, IsFree(x)
  PROVE  /\ lrq[x].lock = NoLock /\ lrq[x].lock \notin Locks /\ lrq[x].ahead = {}
         /\ lrq[x].state = LCK_none /\ lrq[x].requested = LCK_none
         /\ ~Pending(x) /\ ~Has(x, LRQ_rejected)
BY Typed, ConstantAssumption DEF FreeRequest, Pending, Has

\* Between two critical sections, and in a blocking action, no work is left.
LEMMA NoWork ==
  ASSUME IInv, active = NoOwner \/ (active \in Owners /\ own[active].handler = "pop")
  PROVE  job = NoJob /\ job.pend = {} /\ job.purge = {}
BY DEF IInv, Control, JobHasOwner, NoJob

-----------------------------------------------------------------------------
(* The line of a lock.                                                     *)

LEMMA LineStays ==
  ASSUME Lined, \A x \in Requests : lrq'[x].lock = lrq[x].lock /\ lrq'[x].ahead = lrq[x].ahead,
         IInv
  PROVE  Lined'
<1>1. \A r \in Requests : lrq[r].ahead \subseteq Requests
  BY Typed DEF RequestType
<1> QED
  BY <1>1 DEF Lined

\* A new request stands at the end of it.
LEMMA LineJoined ==
  ASSUME IInv, Lined, NEW r \in Requests, IsFree(r), NEW l \in Locks,
         \A x \in Requests \ {r} : lrq'[x].lock = lrq[x].lock /\ lrq'[x].ahead = lrq[x].ahead,
         lrq'[r].lock = l, lrq'[r].ahead = OnLock(l)
  PROVE  Lined'
<1>1. \A x \in Requests : lrq[x].ahead \subseteq Requests
  BY Typed DEF RequestType
<1>2. lrq[r].lock = NoLock /\ NoLock \notin Locks
  BY FreeIsIdle, ConstantAssumption
<1>3. \A x \in Requests \ {r} : r \notin lrq[x].ahead
  <2> SUFFICES ASSUME NEW x \in Requests \ {r}, r \in lrq[x].ahead PROVE FALSE
    OBVIOUS
  <2>1. lrq[x].lock = NoLock
    BY <1>2 DEF Lined
  <2>2. lrq[x] = FreeRequest
    BY <2>1, Typed, ConstantAssumption
  <2> QED
    BY <2>2 DEF FreeRequest
<1>4. \A y \in OnLock(l) : y \in Requests \ {r} /\ lrq[y].lock = l
  BY <1>2 DEF OnLock
<1>5. \A x \in Requests : \A y \in lrq'[x].ahead : lrq'[y].lock = lrq'[x].lock
  BY <1>1, <1>3, <1>4 DEF Lined
<1>6. ASSUME NEW x \in Requests, NEW y \in Requests, x # y,
             lrq'[x].lock = lrq'[y].lock, lrq'[x].lock \in Locks
      PROVE  x \in lrq'[y].ahead \/ y \in lrq'[x].ahead
  <2>1. CASE x = r
    BY <1>6, <2>1 DEF OnLock
  <2>2. CASE y = r
    BY <1>6, <2>2 DEF OnLock
  <2>3. CASE x # r /\ y # r
    BY <1>6, <2>3 DEF Lined
  <2> QED
    BY <2>1, <2>2, <2>3
<1> QED
  BY <1>5, <1>6 DEF Lined

LEMMA LineLeft ==
  ASSUME IInv, Lined, NEW r \in Requests, lrq' = LrqWithout(r)
  PROVE  Lined'
<1>1. \A x \in Requests : lrq[x] \in RequestType /\ lrq[x].ahead \subseteq Requests
  BY Typed DEF RequestType
<1>2. /\ lrq'[r].lock = NoLock /\ lrq'[r].ahead = {} /\ NoLock \notin Locks
      /\ \A x \in Requests \ {r} : /\ lrq'[x].lock = lrq[x].lock
                                   /\ lrq'[x].ahead = lrq[x].ahead \ {r}
  BY <1>1, ConstantAssumption DEF LrqWithout, FreeRequest, RequestType
<1>3. \A x \in Requests : \A y \in lrq'[x].ahead : lrq'[y].lock = lrq'[x].lock
  BY <1>1, <1>2 DEF Lined
<1>4. ASSUME NEW x \in Requests, NEW y \in Requests, x # y,
             lrq'[x].lock = lrq'[y].lock, lrq'[x].lock \in Locks
      PROVE  x \in lrq'[y].ahead \/ y \in lrq'[x].ahead
  <2>1. x # r /\ y # r
    BY <1>2, <1>4
  <2> QED
    BY <1>2, <1>4, <2>1 DEF Lined
<1> QED
  BY <1>3, <1>4 DEF Lined

\* Nobody stands ahead of a request but the requests of its lock.
LEMMA AheadOnLock ==
  ASSUME IInv, Lined, NEW r \in Requests, NEW x \in lrq[r].ahead
  PROVE  x \in Requests /\ lrq[x].lock = lrq[r].lock /\ ~IsFree(x) /\ ~IsFree(r)
<1>1. x \in Requests /\ lrq[x].lock = lrq[r].lock
  BY Typed DEF RequestType, Lined
<1>2. ~IsFree(r)
  BY FreeIsIdle
<1> QED
  BY <1>1, <1>2, Typed, FreeIsIdle

-----------------------------------------------------------------------------
(* Who waits for what.                                                     *)

LEMMA WaitersStay ==
  ASSUME IInv, IInv', WaitsOwn,
         \A p \in Owners : KeepsWait(p) \/ EndsWait(p),
         \A p \in job.purge : p \in job'.purge \/ own'[p].waits = NoRequest,
         \A x \in Requests :
           \/ lrq'[x].owner = lrq[x].owner
           \/ lrq'[x].owner = NoOwner /\ \A p \in Owners : own'[p].waits = x => p \in job'.purge
           \/ IsFree(x) /\ job.purge = {}
  PROVE  WaitsOwn'
<1> SUFFICES ASSUME NEW o \in Owners
             PROVE  /\ own'[o].pending \in {NoRequest, own'[o].waits}
                    /\ own'[o].pc \in {"off", "run"} => own'[o].waits = NoRequest
                    /\ own'[o].pc = "denied" => own'[o].pending = NoRequest
                    /\ own'[o].waits # NoRequest =>
                         \/ lrq'[own'[o].waits].owner = o
                         \/ o \in job'.purge /\ lrq'[own'[o].waits].owner = NoOwner
  BY DEF WaitsOwn, IsFree
<1>1. /\ own'[o].pending \in {NoRequest, own'[o].waits}
      /\ own'[o].pc \in {"off", "run"} => own'[o].waits = NoRequest
      /\ own'[o].pc = "denied" => own'[o].pending = NoRequest
      /\ own'[o].waits \in {NoRequest, own[o].waits}
  BY DEF WaitsOwn, KeepsWait, EndsWait
<1>2. ASSUME own'[o].waits # NoRequest
      PROVE  \/ lrq'[own'[o].waits].owner = o
             \/ o \in job'.purge /\ lrq'[own'[o].waits].owner = NoOwner
  <2> DEFINE x == own'[o].waits
  <2>1. x = own[o].waits /\ x # NoRequest
    BY <1>1, <1>2
  <2>2. x \in Requests
    BY <2>1, Typed DEF OwnerType
  <2>3. lrq[x].owner = o \/ (o \in job.purge /\ lrq[x].owner = NoOwner)
    BY <2>1 DEF WaitsOwn, IsFree
  <2>4. CASE lrq'[x].owner = lrq[x].owner
    BY <1>2, <2>3, <2>4
  <2>5. CASE lrq'[x].owner = NoOwner /\ \A p \in Owners : own'[p].waits = x => p \in job'.purge
    BY <2>5
  <2>6. CASE IsFree(x) /\ job.purge = {}
    BY <2>3, <2>6, ConstantAssumption DEF IsFree
  <2> QED
    BY <2>2, <2>4, <2>5, <2>6
<1> QED
  BY <1>1, <1>2

\* The owner of a pending request, and of the one own_pending_request names.
LEMMA PendingNamed ==
  ASSUME IInv, WaitsOwn, NEW w \in Owners, NEW p \in Requests,
         own[w].pending = p, Pending(p)
  PROVE  lrq[p].owner = w
<1>1. own[w].waits = p /\ p # NoRequest
  BY ConstantAssumption DEF WaitsOwn
<1>2. ~IsFree(p)
  BY FreeIsIdle
<1> QED
  BY <1>1, <1>2 DEF WaitsOwn

\* Request x fits its wait after a step as before it.
FitStays(x) ==
  /\ Same(x)
  /\ ~IsFree(x) => Waits(x)' = Waits(x)

LEMMA FitsStay ==
  ASSUME WaitsFit, NEW x \in Requests, FitStays(x)
  PROVE  /\ lrq'[x].owner # NoOwner /\ lrq'[x].state = LCK_none
              => Waits(x)' /\ (LRQ_pending \in lrq'[x].flags \/ LRQ_rejected \in lrq'[x].flags)
         /\ lrq'[x].owner # NoOwner /\ LRQ_pending \notin lrq'[x].flags
              /\ ~(Waits(x)' /\ LRQ_rejected \in lrq'[x].flags)
              => lrq'[x].requested = lrq'[x].state
         /\ LRQ_pending \in lrq'[x].flags
              => LRQ_rejected \notin lrq'[x].flags /\ lrq'[x].requested # LCK_none
BY DEF WaitsFit, FitStays, Same, IsFree, Pending, Has

-----------------------------------------------------------------------------
(* Nobody is forgotten.                                                    *)

\* Nothing happens on lock l that could make a waiter fit.
Undisturbed(l) ==
  /\ lbl'[l].counts = lbl[l].counts
  /\ \A x \in Requests : lrq'[x].lock = l /\ LRQ_pending \in lrq'[x].flags =>
       /\ lrq[x].lock = l /\ Pending(x)
       /\ lrq'[x].requested = lrq[x].requested /\ lrq'[x].state = lrq[x].state
       /\ lrq'[x].ahead = lrq[x].ahead
  /\ \A x \in Requests : lrq[x].lock = l /\ Pending(x) =>
       lrq'[x].lock = l /\ LRQ_pending \in lrq'[x].flags
  /\ \A x \in Requests : lrq[x].lock = l /\ Uncleaned(x) =>
       lrq'[x].lock = l /\ Uncleaned(x)'

LEMMA UndisturbedSettled ==
  ASSUME NEW l \in Locks, SettledOn(l), Undisturbed(l),
         \A x \in PendingOn(lrq, l) : x \in job.pend => x \in job'.pend
  PROVE  SettledOn(l)'
<1>1. PendingOn(lrq', l) = PendingOn(lrq, l)
  BY DEF Undisturbed, PendingOn, Pending, Has
<1> SUFFICES ASSUME NEW r \in PendingOn(lrq', l)
             PROVE  /\ LevelsNest => lrq'[r].state < lrq'[r].requested
                    /\ \/ r \in job'.pend
                       \/ \E x \in Requests : lrq'[x].lock = l /\ Uncleaned(x)'
                       \/ LockOrdering /\ lrq'[r].ahead \cap PendingOn(lrq', l) # {}
                       \/ ~Compatible(lrq'[r].requested, StateWithout(r)')
  BY DEF SettledOn, OnLock, LevelsNest, Used
<1>2. /\ r \in Requests /\ lrq'[r].lock = l /\ lrq[r].lock = l
      /\ lrq'[r].requested = lrq[r].requested /\ lrq'[r].state = lrq[r].state
      /\ lrq'[r].ahead = lrq[r].ahead
  BY DEF Undisturbed, PendingOn
<1>3. StateWithout(r)' = StateWithout(r)
  BY <1>2 DEF Undisturbed, StateWithout
<1>4. LevelsNest => lrq'[r].state < lrq'[r].requested
  BY <1>1, <1>2 DEF SettledOn
<1>5. CASE \E x \in OnLock(l) : Uncleaned(x)
  BY <1>4, <1>5 DEF Undisturbed, OnLock
<1>6. CASE ~ \E x \in OnLock(l) : Uncleaned(x)
  BY <1>1, <1>2, <1>3, <1>4, <1>6 DEF SettledOn
<1> QED
  BY <1>5, <1>6

\* Requests and processes off lock l do not disturb it.
LEMMA FarFromLock ==
  ASSUME IInv, NEW l \in Locks, lbl'[l] = lbl[l],
         \A x \in Requests : lrq[x].lock = l \/ lrq'[x].lock = l =>
           Same(x) /\ lrq'[x].ahead = lrq[x].ahead,
         \A x \in Requests : lrq[x].lock = l /\ Uncleaned(x) => Waits(x)'
  PROVE  Undisturbed(l)
<1>1. \A x \in Requests : lrq[x].lock = l /\ Uncleaned(x) => Uncleaned(x)'
  BY DEF Uncleaned, Waits, Same, Pending, Has
<1> QED
  BY <1>1 DEF Undisturbed, Same

\* The critical section goes on to post_pending on lock l, whatever happened there.
LEMMA PostedSettles ==
  ASSUME IInv, Settled, job.pend = {}, NEW l \in Locks,
         job'.lock = l, job'.pend = PendingOn(lrq', l),
         \A m \in Locks \ {l} : lbl'[m] = lbl[m],
         \A x \in Requests :
           Same(x) \/ (/\ lrq[x].lock \in {l, NoLock} /\ lrq'[x].lock \in {l, NoLock}
                       /\ LRQ_pending \notin lrq'[x].flags),
         \A x \in Requests : lrq[x].lock # l /\ lrq'[x].lock \in Locks \ {l} =>
           lrq'[x].ahead = lrq[x].ahead,
         \A x \in Requests : lrq[x].lock # l /\ Uncleaned(x) => Waits(x)'
  PROVE  Settled'
<1> SUFFICES ASSUME LockOrdering \/ LevelsNest, NEW m \in Locks PROVE SettledOn(m)'
  BY DEF Settled, LevelsNest, Used
<1>1. SettledOn(m)
  BY DEF Settled
<1>2. CASE m = l
  <2>1. ASSUME NEW x \in PendingOn(lrq', l), LevelsNest
        PROVE  lrq'[x].state < lrq'[x].requested
    <3>1. Same(x) /\ x \in PendingOn(lrq, l)
      BY <2>1, ConstantAssumption DEF PendingOn, Same, Pending, Has
    <3> QED
      BY <1>1, <1>2, <2>1, <3>1 DEF SettledOn, Same
  <2> QED
    BY <1>2, <2>1 DEF SettledOn, LevelsNest, Used
<1>3. CASE m # l
  <2>1. \A x \in Requests : lrq[x].lock = m \/ lrq'[x].lock = m =>
          Same(x) /\ lrq'[x].ahead = lrq[x].ahead
    BY <1>3, ConstantAssumption DEF Same
  <2>2. Undisturbed(m)
    BY <1>3, <2>1, FarFromLock
  <2> QED
    BY <1>1, <2>2, UndisturbedSettled
<1> QED
  BY <1>2, <1>3

\* Nothing disturbs any lock, and post_pending is where it was.
LEMMA UndisturbedStays ==
  ASSUME Settled, \A l \in Locks : Undisturbed(l), job \in JobType,
         job'.pend = job.pend, job'.pend # {} => job'.lock = job.lock /\ job.lock \in Locks
  PROVE  Settled'
<1> SUFFICES ASSUME LockOrdering \/ LevelsNest PROVE Settled'
  BY DEF Settled, LevelsNest, Used
<1>1. \A l \in Locks : SettledOn(l)'
  BY UndisturbedSettled DEF Settled
<1>2. LockOrdering /\ job'.pend # {} => job'.pend = PendingOn(lrq', job'.lock)
  <2>1. \A l \in Locks : PendingOn(lrq', l) = PendingOn(lrq, l)
    BY DEF Undisturbed, PendingOn, Pending, Has
  <2> QED
    BY <2>1 DEF Settled
<1> QED
  BY <1>1, <1>2 DEF Settled

-----------------------------------------------------------------------------
(* No deadlock hides.                                                      *)

\* Who stands before a waiter is not free, so that its owner has a block.
LEMMA BlockersOwned ==
  ASSUME IInv, Lined, NEW x \in Requests, ~IsFree(x), NEW b \in BlockedBy(x)
  PROVE  b \in Requests /\ lrq[b].owner \in Owners /\ lrq[b].lock = lrq[x].lock
<1>1. CASE b \in OnLock(lrq[x].lock) \ {x}
  BY <1>1, Typed, FreeIsIdle DEF OnLock
<1>2. CASE b \in lrq[x].ahead
  BY <1>2, Typed, AheadOnLock
<1> QED
  BY <1>1, <1>2 DEF BlockedBy

\* The same after a step, for a request that is pending then.
LEMMA NextBlockersOwned ==
  ASSUME IInv', Lined', NEW x \in Requests, LRQ_pending \in lrq'[x].flags,
         NEW b \in BlockedBy(x)'
  PROVE  b \in Requests /\ lrq'[b].owner \in Owners /\ lrq'[b].lock = lrq'[x].lock
<1>1. /\ \A y \in Requests : lrq'[y] \in RequestType
      /\ \A y \in Requests : IF lrq'[y].owner = NoOwner THEN lrq'[y] = FreeRequest
                             ELSE lrq'[y].owner \in Owners /\ lrq'[y].lock \in Locks
  BY DEF IInv, Table, RequestsLinked, RequestType
<1>2. lrq'[x].lock \in Locks
  BY <1>1 DEF FreeRequest
<1>3. b \in Requests /\ lrq'[b].lock = lrq'[x].lock
  <2>1. b \in OnLock(lrq[x].lock)' \/ b \in lrq'[x].ahead
    BY DEF BlockedBy
  <2>2. lrq'[x].ahead \subseteq Requests
    BY <1>1 DEF RequestType
  <2> QED
    BY <2>1, <2>2 DEF OnLock, Lined
<1>4. lrq'[b].owner # NoOwner
  BY <1>1, <1>2, <1>3, ConstantAssumption DEF FreeRequest
<1> QED
  BY <1>1, <1>3, <1>4

\* Request b stands in the way of x after the step only if it did before.
NoWorse(b, x) ==
  /\ Compatible(lrq[x].requested, lrq[b].state) => Compatible(lrq[x].requested, lrq'[b].state)
  /\ Compatible(lrq[x].requested, MaxLevel(lrq[b].state, lrq[b].requested))
       => Compatible(lrq[x].requested, MaxLevel(lrq'[b].state, lrq'[b].requested))

\* No step that makes nobody newly exempt, and puts no owner of an exempt request
\* newly in the way of another, hides a deadlock.
LEMMA NoneNewlyHides ==
  ASSUME IInv, IInv', Placed, Placed', NoneHides,
         \A x \in Requests : Exempt(x)' =>
           /\ Exempt(x) /\ lrq'[x].lock = lrq[x].lock
           /\ lrq'[x].requested = lrq[x].requested /\ lrq'[x].state = lrq[x].state
           /\ lrq'[x].ahead \subseteq lrq[x].ahead,
         \A b, p \in Requests :
           lrq'[b].owner \in Owners /\ own'[lrq'[b].owner].pending = p /\ Exempt(p)' =>
             /\ own[lrq[b].owner].pending = p /\ lrq'[b].lock = lrq[b].lock
             /\ \A x \in Requests : Exempt(x)' /\ lrq[x].lock = lrq[b].lock => NoWorse(b, x)
  PROVE  NoneHides'
<1> SUFFICES ASSUME NEW S \in SUBSET Requests, \A x \in S : Exempt(x)', S # {},
                    \A x \in S : AllEdges(x)' \cap S # {}
             PROVE  FALSE
  BY DEF NoneHides
<1>1. ASSUME NEW x \in S PROVE AllEdges(x) \cap S # {}
  <2>1. PICK p \in S : p \in AllEdges(x)'
    BY <1>1
  <2>2. PICK b \in BlockedBy(x)' : p = own'[lrq'[b].owner].pending
    BY <2>1 DEF AllEdges
  <2>3. /\ x \in Requests /\ p \in Requests /\ Exempt(x)' /\ Exempt(p)'
    BY <1>1
  <2>4. LRQ_pending \in lrq'[x].flags /\ Lined'
    BY <2>3 DEF Exempt, Pending, Has, Placed
  <2>5. b \in Requests /\ lrq'[b].owner \in Owners /\ lrq'[b].lock = lrq'[x].lock
    BY <2>3, <2>4, NextBlockersOwned
  <2>6. /\ Exempt(x) /\ Exempt(p) /\ lrq'[x].lock = lrq[x].lock
        /\ lrq'[x].requested = lrq[x].requested /\ lrq'[x].state = lrq[x].state
        /\ lrq'[x].ahead \subseteq lrq[x].ahead
    BY <2>3
  <2>7. /\ own[lrq[b].owner].pending = p /\ lrq[b].lock = lrq[x].lock /\ NoWorse(b, x)
    BY <2>2, <2>3, <2>5, <2>6
  <2>8. b \in BlockedBy(x)
    <3>1. CASE ~LockOrdering \/ lrq[x].state > LCK_null
      <4>1. b # x /\ ~Compatible(lrq'[x].requested, lrq'[b].state)
        BY <2>6, <3>1 DEF BlockedBy
      <4> QED
        BY <2>5, <2>7, <2>6, <3>1, <4>1 DEF BlockedBy, OnLock, NoWorse
    <3>2. CASE ~(~LockOrdering \/ lrq[x].state > LCK_null)
      <4>1. /\ b \in lrq'[x].ahead
            /\ ~Compatible(lrq'[x].requested, MaxLevel(lrq'[b].state, lrq'[b].requested))
        BY <2>6, <3>2 DEF BlockedBy
      <4> QED
        BY <2>7, <2>6, <3>2, <4>1 DEF BlockedBy, NoWorse
    <3> QED
      BY <3>1, <3>2
  <2>9. p \in AllEdges(x)
    <3>1. Pending(p) /\ p # NoRequest
      BY <2>3, <2>6, ConstantAssumption DEF Exempt
    <3> QED
      BY <2>7, <2>8, <3>1 DEF AllEdges
  <2> QED
    BY <2>1, <2>9
<1>2. \A x \in S : Exempt(x)
  OBVIOUS
<1> QED
  BY <1>1, <1>2 DEF NoneHides

\* The common case: levels and places stay, waits may end.
LEMMA LevelsStayHidesNone ==
  ASSUME IInv, IInv', Placed, Placed', NoneHides, NoneScanned,
         \A x \in Requests : /\ lrq'[x].lock = lrq[x].lock
                             /\ lrq'[x].owner = lrq[x].owner
                             /\ lrq'[x].requested = lrq[x].requested
                             /\ lrq'[x].state = lrq[x].state
                             /\ lrq'[x].ahead = lrq[x].ahead
                             /\ LRQ_pending \in lrq'[x].flags => Pending(x),
         \A p \in Owners : own'[p].pending \in {own[p].pending, NoRequest}
  PROVE  NoneHides'
<1>1. ASSUME NEW x \in Requests, Exempt(x)' PROVE Exempt(x)
  <2>1. Pending(x) /\ "scanned" \in own'[lrq[x].owner].flags
    BY <1>1 DEF Exempt, Pending, Has, Scanned
  <2>2. lrq[x].owner \in Owners
    BY <2>1, Typed, FreeIsIdle
  <2> QED
    BY <2>1, <2>2 DEF Exempt, Scanned, NoneScanned
<1>2. \A b, x \in Requests : NoWorse(b, x)
  BY DEF NoWorse
<1> QED
  BY <1>1, <1>2, NoneNewlyHides, ConstantAssumption

\* Some member of a set of sets of requests has no other one within it.
LEMMA SmallestSet ==
  ASSUME NEW F, F \subseteq SUBSET Requests, F # {}
  PROVE  \E m \in F : \A n \in F : ~(n \subseteq m /\ n # m)
<1>1. IsWellFoundedOn(StrictSubsetOrdering(Requests), FiniteSubsetsOf(Requests))
  BY FS_StrictSubsetOrderingWellFounded
<1>2. F \subseteq FiniteSubsetsOf(Requests)
  BY ConstantAssumption, FS_Subset DEF FiniteSubsetsOf
<1>3. PICK m \in F : \A n \in F : ~(<<n, m>> \in StrictSubsetOrdering(Requests))
  BY <1>1, <1>2, WFMin
<1> QED
  BY <1>3 DEF StrictSubsetOrdering

\* A walk goes on where an edge leads.
LEMMA WalkFollows ==
  ASSUME NEW r, NEW y \in Walk(r), NEW w \in WaitEdges(y)
  PROVE  w \in Requests => w \in Walk(r) /\ Walk(w) \subseteq Walk(r)
<1>1. w \in Requests => w \in Walk(r)
  BY DEF Walk
<1>2. ASSUME w \in Requests, NEW x \in Walk(w) PROVE x \in Walk(r)
  <2> SUFFICES ASSUME NEW S \in SUBSET Requests, r \in S,
                      \A z \in S : WaitEdges(z) \subseteq S
               PROVE  x \in S
    BY <1>2 DEF Walk
  <2>1. y \in S
    BY DEF Walk
  <2>2. w \in S
    BY <2>1
  <2> QED
    BY <1>2, <2>2 DEF Walk
<1> QED
  BY <1>1, <1>2

\* deadlock_walk finds a member of every cycle in its reach.
LEMMA ScanFindsCycle ==
  ASSUME NEW r, NEW T, T \subseteq Walk(r), T # {},
         \A y \in T : WaitEdges(y) \cap T # {}
  PROVE  Victims(r) # {}
<1>1. T \subseteq Requests
  BY DEF Walk
<1>2. PICK m \in {Walk(y) : y \in T} :
        \A n \in {Walk(y) : y \in T} : ~(n \subseteq m /\ n # m)
  <2> DEFINE F == {Walk(y) : y \in T}
  <2>1. \A y \in T : Walk(y) \subseteq Requests
    BY DEF Walk
  <2>2. F \subseteq SUBSET Requests /\ F # {}
    BY <2>1
  <2> HIDE DEF F
  <2>3. \E m \in F : \A n \in F : ~(n \subseteq m /\ n # m)
    BY <2>2, SmallestSet
  <2> QED
    BY <2>3 DEF F
<1>3. PICK v \in T : m = Walk(v)
  BY <1>2
<1>4. PICK w \in T : w \in WaitEdges(v)
  BY <1>3
<1>5. v \in Walk(v) /\ v \in Requests /\ w \in Requests
  BY <1>1, <1>3, <1>4 DEF Walk
<1>6. Walk(w) \subseteq Walk(v)
  BY <1>4, <1>5, WalkFollows
<1>7. Walk(w) = Walk(v)
  BY <1>2, <1>3, <1>4, <1>6
<1>8. v \in Victims(r)
  BY <1>3, <1>4, <1>5, <1>7 DEF Victims
<1> QED
  BY <1>8

\* So a scan that finds neither a cycle nor AST work may exempt its owner.
LEMMA ScanHidesNone ==
  ASSUME IInv, Lined, NoneHides, NEW o \in Owners, NEW r \in Requests,
         own[o].waits = r, Pending(r), Victims(r) = {}, ~MaybeDeadlock(r),
         own' = [own EXCEPT ![o].flags = @ \cup {"scanned"}], UNCHANGED lrq
  PROVE  NoneHides'
<1> SUFFICES ASSUME NEW S \in SUBSET Requests, \A x \in S : Exempt(x)', S # {},
                    \A x \in S : AllEdges(x)' \cap S # {}
             PROVE  FALSE
  BY DEF NoneHides
<1>1. \A p \in Owners : /\ own'[p].pending = own[p].pending
                        /\ p # o => own'[p] = own[p]
  BY Typed DEF OwnerType
<1>2. \A x \in S : Pending(x) /\ lrq[x].owner \in Owners /\ ~IsFree(x)
  <2>1. \A x \in S : Pending(x)
    BY DEF Exempt, Pending, Has
  <2> QED
    BY <2>1, Typed, FreeIsIdle
<1>3. ASSUME NEW x \in S, x # r PROVE Exempt(x)
  <2>1. own[lrq[x].owner].waits = x
    BY <1>2 DEF IInv, Control, PendingHasWaiter
  <2>2. own'[lrq[x].owner] = own[lrq[x].owner]
    BY <1>1, <1>2, <1>3, <2>1
  <2>3. "scanned" \in own'[lrq[x].owner].flags
    BY DEF Exempt, Scanned
  <2> QED
    BY <1>2, <2>2, <2>3 DEF Exempt, Scanned
<1>4. ASSUME NEW x \in S, NEW p \in S, p \in AllEdges(x)'
      PROVE  \E b \in BlockedBy(x) : p = own[lrq[b].owner].pending
  <2>1. PICK b \in BlockedBy(x)' : p = own'[lrq'[b].owner].pending
    BY <1>4 DEF AllEdges
  <2>2. BlockedBy(x)' = BlockedBy(x)
    BY DEF BlockedBy, OnLock
  <2>3. lrq[b].owner \in Owners
    BY <1>2, <2>1, <2>2, BlockersOwned
  <2> QED
    BY <1>1, <2>1, <2>2, <2>3
<1>5. \A p \in S : p # NoRequest
  BY ConstantAssumption
<1>6. CASE r \notin S
  <2>1. \A x \in S : Exempt(x) /\ AllEdges(x) \cap S # {}
    <3> SUFFICES ASSUME NEW x \in S PROVE Exempt(x) /\ AllEdges(x) \cap S # {}
      OBVIOUS
    <3>1. PICK p \in S : p \in AllEdges(x)'
      OBVIOUS
    <3>2. p \in AllEdges(x)
      BY <1>2, <1>4, <1>5, <3>1 DEF AllEdges
    <3> QED
      BY <1>3, <1>6, <3>2
  <2> QED
    BY <2>1 DEF NoneHides
<1>7. CASE r \in S
  <2> DEFINE T == S \cap Walk(r)
  <2>1. r \in T
    BY <1>7 DEF Walk
  <2>2. ASSUME NEW y \in T PROVE WaitEdges(y) \cap T # {}
    <3>1. PICK p \in S : p \in AllEdges(y)'
      OBVIOUS
    <3>2. PICK b \in BlockedBy(y) : p = own[lrq[b].owner].pending
      BY <1>4, <3>1
    <3>3. ~HasAstWork(lrq[b].owner)
      BY <2>2 DEF MaybeDeadlock
    <3>4. p \in WaitEdges(y)
      BY <1>2, <1>5, <3>2, <3>3 DEF WaitEdges
    <3>5. p \in Walk(r)
      BY <2>2, <3>4, WalkFollows
    <3> QED
      BY <3>4, <3>5
  <2> HIDE DEF T
  <2>3. T \subseteq Walk(r)
    BY DEF T
  <2> QED
    BY <2>1, <2>2, <2>3, ScanFindsCycle
<1> QED
  BY <1>6, <1>7

-----------------------------------------------------------------------------
(* Levels the callers know.                                                *)

\* Among the levels in use the lower one is the weaker one.
LEMMA LowerIsWeaker ==
  ASSUME NEW q \in Levels, NEW n \in Used, NEW m \in Used, n <= m, Compatible(q, m)
  PROVE  Compatible(q, n)
BY DEF Used, Compatible, CompatibleWith, Levels, LCK_none, LCK_null, LCK_SR, LCK_PR,
       LCK_SW, LCK_PW, LCK_EX

\* What suits a level suits the requests up to it, if something higher did.
LEMMA SuitsLowerRequests ==
  ASSUME NEW h \in Levels, NEW q \in Levels, q <= h, NEW m \in Levels, NEW n \in Levels,
         n <= m, Compatible(h, n), Compatible(q, m)
  PROVE  Compatible(q, n)
BY DEF Compatible, CompatibleWith, Levels, LCK_none, LCK_null, LCK_SR, LCK_PR,
       LCK_SW, LCK_PW, LCK_EX

\* LOCK_downgrade looks for the highest level the others wait for ...
LEMMA HighestOfPending ==
  ASSUME IInv, NEW r \in Requests
  PROVE  /\ HighestPending(r) \in Levels
         /\ \A x \in PendingOn(lrq, lrq[r].lock) \ {r} : lrq[x].requested <= HighestPending(r)
         /\ \/ HighestPending(r) = LCK_none
            \/ \E x \in Requests : HighestPending(r) = lrq[x].requested
<1> DEFINE p == {lrq[x].requested : x \in PendingOn(lrq, lrq[r].lock) \ {r}}
           Top(n) == \A m \in p : m <= n
<1>0. p \subseteq Levels
  BY Typed DEF RequestType, PendingOn
<1>1. \A n \in p : \E x \in Requests : n = lrq[x].requested
  BY DEF PendingOn
<1>2. \E n \in p \cup {LCK_none} : Top(n)
  <2> HIDE DEF p
  <2>1. p \subseteq 0..6
    BY <1>0 DEF Levels
  <2>2. CASE 6 \in p
    BY <2>1, <2>2
  <2>3. CASE 6 \notin p /\ 5 \in p
    BY <2>1, <2>3
  <2>4. CASE 6 \notin p /\ 5 \notin p /\ 4 \in p
    BY <2>1, <2>4
  <2>5. CASE 6 \notin p /\ 5 \notin p /\ 4 \notin p /\ 3 \in p
    BY <2>1, <2>5
  <2>6. CASE 6 \notin p /\ 5 \notin p /\ 4 \notin p /\ 3 \notin p /\ 2 \in p
    BY <2>1, <2>6
  <2>7. CASE 6 \notin p /\ 5 \notin p /\ 4 \notin p /\ 3 \notin p /\ 2 \notin p /\ 1 \in p
    BY <2>1, <2>7
  <2>8. CASE p \subseteq {0}
    BY <2>8 DEF LCK_none
  <2> QED
    BY <2>1, <2>2, <2>3, <2>4, <2>5, <2>6, <2>7, <2>8
<1>3. HighestPending(r) = CHOOSE n \in p \cup {LCK_none} : Top(n)
  BY DEF HighestPending
<1>4. /\ HighestPending(r) \in p \cup {LCK_none}
      /\ \A m \in p : m <= HighestPending(r)
  BY <1>2, <1>3
<1>5. \A x \in PendingOn(lrq, lrq[r].lock) \ {r} : lrq[x].requested \in p
  OBVIOUS
<1> HIDE DEF p
<1>6. HighestPending(r) \in Levels
  BY <1>0, <1>4, 0 \in 0..6 DEF Levels, LCK_none
<1> QED
  BY <1>1, <1>4, <1>5, <1>6

\* ... and goes down to the highest level that suits it.
LEMMA DowngradeFits ==
  ASSUME IInv, NEW r \in Requests
  PROVE  /\ DowngradeTo(r) \in Levels /\ DowngradeTo(r) <= lrq[r].state
         /\ Compatible(HighestPending(r), DowngradeTo(r))
         /\ \A m \in 0..lrq[r].state :
              Compatible(HighestPending(r), m) => m <= DowngradeTo(r)
<1> DEFINE Ok(n) == Compatible(HighestPending(r), n)
           s == lrq[r].state
<1>1. s \in 0..6
  BY Typed DEF RequestType, Levels
<1>2. Ok(0)
  BY NoneIsCompatible DEF LCK_none
<1> HIDE DEF Ok, s
<1>3. \E n \in 0..s : Ok(n) /\ \A m \in 0..s : Ok(m) => m <= n
  BY <1>1, <1>2
<1>4. DowngradeTo(r) = CHOOSE n \in 0..s : Ok(n) /\ \A m \in 0..s : Ok(m) => m <= n
  BY DEF DowngradeTo, Ok, s
<1>5. /\ DowngradeTo(r) \in 0..s /\ Ok(DowngradeTo(r))
      /\ \A m \in 0..s : Ok(m) => m <= DowngradeTo(r)
  BY <1>3, <1>4
<1> QED
  BY <1>1, <1>5 DEF Levels, Ok, s

\* It ends at a level in use.
LEMMA DowngradeIsUsed ==
  ASSUME IInv, Told, LevelsNest, NEW r \in Requests
  PROVE  DowngradeTo(r) \in Used
<1> DEFINE n == DowngradeTo(r)
           h == HighestPending(r)
           s == lrq[r].state
<1>1. s \in Used /\ h \in Used
  BY HighestOfPending DEF Told, Used, Levels, LCK_none, LCK_SW, LCK_PR
<1>2. /\ n \in Levels /\ n <= s /\ Compatible(h, n)
      /\ \A m \in 0..s : Compatible(h, m) => m <= n
  BY DowngradeFits
<1> HIDE DEF n, h, s
<1>3. s \in 0..6
  BY <1>1 DEF Used, Levels
<1>4. ASSUME n = LCK_SW, LCK_SW \notin Used PROVE FALSE
  <2>1. h \in {0, 1, 2}
    BY <1>1, <1>2, <1>4 DEF Used, Compatible, CompatibleWith, Levels, LCK_none, LCK_null,
         LCK_SR, LCK_PR, LCK_SW, LCK_PW, LCK_EX
  <2>2. s \in {5, 6}
    BY <1>1, <1>2, <1>3, <1>4 DEF LCK_SW
  <2>3. Compatible(h, 5)
    BY <2>1 DEF Compatible, CompatibleWith, Levels, LCK_none, LCK_null, LCK_SR, LCK_PR,
         LCK_SW, LCK_PW, LCK_EX
  <2> QED
    BY <1>2, <1>4, <2>2, <2>3 DEF LCK_SW
<1>5. ASSUME n = LCK_PR, LCK_PR \notin Used PROVE FALSE
  <2>1. h \in {0, 1, 2}
    BY <1>1, <1>2, <1>5 DEF Used, Compatible, CompatibleWith, Levels, LCK_none, LCK_null,
         LCK_SR, LCK_PR, LCK_SW, LCK_PW, LCK_EX
  <2>2. s \in {4, 5, 6}
    BY <1>1, <1>2, <1>3, <1>5 DEF LCK_PR
  <2>3. Compatible(h, 4)
    BY <2>1 DEF Compatible, CompatibleWith, Levels, LCK_none, LCK_null, LCK_SR, LCK_PR,
         LCK_SW, LCK_PW, LCK_EX
  <2> QED
    BY <1>2, <1>5, <2>2, <2>3 DEF LCK_PR
<1>6. n \in Used
  BY <1>2, <1>4, <1>5 DEF Used
<1> QED
  BY <1>6 DEF n

\* lock_state without a request is the highest level of the others.
AboveOthers(r) ==
  /\ StateWithout(r) \in Levels
  /\ StateWithout(r) # LCK_none =>
       \E y \in Requests \ {r} : lrq[y].lock = lrq[r].lock /\ lrq[y].state = StateWithout(r)
  /\ \A y \in Requests \ {r} :
       lrq[y].lock = lrq[r].lock => lrq[y].state <= StateWithout(r)

LEMMA StateIsHighest == IInv => \A r \in Requests : ~IsFree(r) => AboveOthers(r)
<1> SUFFICES ASSUME IInv, NEW r \in Requests, ~IsFree(r) PROVE AboveOthers(r)
  OBVIOUS
<1> DEFINE l == lrq[r].lock
           d == CountDown(lbl[l].counts, lrq[r].state)
           h == lock_state(d)
<1>1. /\ l \in Locks /\ \A y \in Requests : lrq[y].state \in Levels
      /\ h = StateWithout(r)
  BY Typed DEF RequestType, StateWithout
<1>2. /\ d \in [Granted -> Nat]
      /\ \A m \in Granted : IsFiniteSet(Others(r, l, m)) /\ d[m] = Cardinality(Others(r, l, m))
  BY <1>1, CountsOfOthers DEF IInv
<1> HIDE DEF d
<1>3. /\ h \in Levels /\ (h # LCK_none => h \in Granted /\ d[h] # 0)
      /\ \A m \in Granted : m > h => d[m] = 0
  BY <1>2, LockStateHighest
<1> HIDE DEF h
<1>4. ASSUME h # LCK_none
      PROVE  \E y \in Requests \ {r} : lrq[y].lock = l /\ lrq[y].state = h
  <2>1. PICK y \in Others(r, l, h) : TRUE
    BY <1>2, <1>3, <1>4, FS_EmptySet
  <2> QED
    BY <2>1 DEF Others
<1>5. ASSUME NEW y \in Requests \ {r}, lrq[y].lock = l PROVE lrq[y].state <= h
  <2> SUFFICES ASSUME lrq[y].state > h PROVE FALSE
    BY <1>1, <1>3 DEF Levels
  <2>1. lrq[y].state \in Granted
    BY <1>1, <1>3 DEF Levels, Granted
  <2>2. y \in Others(r, l, lrq[y].state)
    BY <1>5 DEF Others
  <2>3. Others(r, l, lrq[y].state) # {}
    BY <2>2
  <2>4. d[lrq[y].state] = 0
    BY <1>3, <2>1
  <2> QED
    BY <1>2, <2>1, <2>3, <2>4, FS_EmptySet
<1> QED
  BY <1>1, <1>3, <1>4, <1>5 DEF AboveOthers

LEMMA NextStateIsHighest ==
  IInv' => \A r \in Requests : lrq'[r].owner # NoOwner => AboveOthers(r)'
<1>1. (IInv => \A r \in Requests : ~IsFree(r) => AboveOthers(r))'
  BY StateIsHighest, PTL
<1> QED
  BY <1>1 DEF IsFree

\* A level in use up to the present one is granted at once.
LEMMA LowerIsGranted ==
  ASSUME IInv, Told, LevelsNest, NEW r \in Requests, ~IsFree(r),
         NEW n \in Used, n <= lrq[r].state
  PROVE  Compatible(n, StateWithout(r))
<1> DEFINE h == StateWithout(r)
<1>1. n \in Levels /\ lrq[r].state \in Used /\ lrq[r].lock \in Locks
  BY Typed DEF Told, Used
<1>2. /\ h \in Levels
      /\ h # LCK_none =>
           \E y \in Requests \ {r} : lrq[y].lock = lrq[r].lock /\ lrq[y].state = h
  BY StateIsHighest DEF AboveOthers
<1> HIDE DEF h
<1>3. Compatible(h, n)
  <2>1. CASE h = LCK_none
    BY <1>1, <2>1, CompatibleSymmetric, NoneIsCompatible DEF Levels, LCK_none
  <2>2. CASE h # LCK_none
    <3>1. PICK y \in Requests \ {r} : lrq[y].lock = lrq[r].lock /\ lrq[y].state = h
      BY <1>2, <2>2
    <3>2. Compatible(h, lrq[r].state)
      BY <1>1, <3>1 DEF IInv, Table, GrantedCompatible
    <3> QED
      BY <1>1, <1>2, <3>2, LowerIsWeaker
  <2> QED
    BY <2>1, <2>2
<1> QED
  BY <1>1, <1>2, <1>3, CompatibleSymmetric DEF h

\* And that level is granted: what the caller is told is what it has.
LEMMA DowngradeIsGranted ==
  ASSUME IInv, Told, LevelsNest, NEW r \in Requests, ~IsFree(r)
  PROVE  Compatible(DowngradeTo(r), StateWithout(r))
BY DowngradeIsUsed, DowngradeFits, LowerIsGranted

\* Without LOCK_ordering: as a grant only raises a level, who did not suit before does
\* not suit after it.
LEMMA StillUnsuited ==
  ASSUME IInv, IInv', Told, LevelsNest, NEW x \in Requests, ~IsFree(x),
         \A y \in Requests : /\ lrq'[y].owner = lrq[y].owner /\ lrq'[y].lock = lrq[y].lock
                             /\ lrq'[y].requested = lrq[y].requested
                             /\ lrq'[y].state \in {lrq[y].state, lrq[y].requested}
                             /\ lrq[y].state <= lrq'[y].state,
         ~Compatible(lrq[x].requested, StateWithout(x))
  PROVE  ~Compatible(lrq'[x].requested, StateWithout(x)')
<1> DEFINE h == StateWithout(x)
           k == StateWithout(x)'
           q == lrq[x].requested
<1>1. q \in Levels /\ \A y \in Requests : lrq'[y].state \in Used /\ lrq[y].state \in Used
  BY Typed DEF Told, RequestType
<1>2. /\ h \in Levels
      /\ h # LCK_none =>
           \E y \in Requests \ {x} : lrq[y].lock = lrq[x].lock /\ lrq[y].state = h
  BY StateIsHighest DEF AboveOthers
<1>3. /\ k \in Levels
      /\ k # LCK_none =>
           \E y \in Requests \ {x} : lrq'[y].lock = lrq'[x].lock /\ lrq'[y].state = k
      /\ \A y \in Requests \ {x} : lrq'[y].lock = lrq'[x].lock => lrq'[y].state <= k
  BY NextStateIsHighest DEF AboveOthers, IsFree
<1>4. ~Compatible(q, h) /\ lrq'[x].requested = q
  OBVIOUS
<1> HIDE DEF h, k, q
<1>5. h # LCK_none
  BY <1>1, <1>4, CompatibleSymmetric, NoneIsCompatible DEF Levels, LCK_none
<1>6. PICK y \in Requests \ {x} : lrq[y].lock = lrq[x].lock /\ lrq[y].state = h
  BY <1>2, <1>5
<1>7. h \in Used /\ h <= lrq'[y].state /\ lrq'[y].state <= k /\ lrq'[y].state \in Used
  BY <1>1, <1>3, <1>6
<1>8. h <= k /\ k \in Used
  <2>1. h \in 0..6 /\ k \in 0..6 /\ lrq'[y].state \in 0..6
    BY <1>2, <1>3, <1>7 DEF Levels, Used
  <2>2. h <= k /\ k # LCK_none
    BY <1>5, <1>7, <2>1 DEF LCK_none
  <2> QED
    BY <1>1, <1>3, <2>2
<1> QED
  BY <1>1, <1>4, <1>7, <1>8, LowerIsWeaker DEF k

-----------------------------------------------------------------------------
(* Steps that leave the table and the waits alone.                         *)

Still ==
  /\ \A x \in Requests : Same(x) /\ lrq'[x].ahead = lrq[x].ahead
  /\ UNCHANGED <<lbl, held>>
  /\ \A p \in Owners : KeepsWait(p)
  /\ job.purge \subseteq job'.purge

\* The lock a post_pending is at is one of the table.
LEMMA PostingLock ==
  ASSUME IInv, job.pend # {}
  PROVE  job.lock \in Locks
<1>1. PICK r \in job.pend : Pending(r) /\ lrq[r].lock = job.lock
  BY DEF IInv, Control, JobPending
<1>2. r \in Requests
  BY <1>1, Typed DEF JobType
<1> QED
  BY <1>1, <1>2, Typed, FreeIsIdle

LEMMA StillFits ==
  ASSUME IInv, IInv', Placed, Still
  PROVE  /\ Placed' /\ \A l \in Locks : Undisturbed(l)
         /\ \A x \in Requests : ~IsFree(x) => Waits(x)' = Waits(x)
<1>1. \A x \in Requests : ~IsFree(x) => Waits(x)' = Waits(x)
  BY Typed DEF Still, Same, KeepsWait, Waits
<1>2. Lined'
  BY LineStays DEF Placed, Still, Same
<1>3. WaitsOwn'
  BY WaitersStay DEF Placed, Still, Same
<1>4. WaitsFit'
  <2>1. \A x \in Requests : FitStays(x)
    BY <1>1 DEF FitStays, Still
  <2> QED
    BY <2>1, FitsStay DEF Placed, WaitsFit, IsFree, Pending, Has
<1>5. ASSUME NEW l \in Locks PROVE Undisturbed(l)
  <2>1. \A x \in Requests : Uncleaned(x) => Waits(x)'
    BY <1>1, ConstantAssumption DEF Uncleaned, Waits, IsFree
  <2> QED
    BY <2>1, FarFromLock DEF Still
<1> QED
  BY <1>1, <1>2, <1>3, <1>4, <1>5 DEF Placed

LEMMA StillTold ==
  ASSUME IInv, IInv', Placed, Still, Told
  PROVE  Told'
<1>1. \A x \in Requests : ~IsFree(x) => Waits(x)' = Waits(x)
  BY StillFits
<1>2. \A x \in Requests : ~IsFree(x) =>
        (own'[lrq'[x].owner].pc = "denied" => own[lrq[x].owner].pc = "denied")
  BY Typed DEF Still, Same, KeepsWait
<1> QED
  BY <1>1, <1>2 DEF Told, Still, Same, IsFree, Pending, Has, LevelsNest, Used

LEMMA StillHidesNone ==
  ASSUME IInv, IInv', Placed, Still, NoneHides, NoneScanned
  PROVE  NoneHides'
<1>1. Placed'
  BY StillFits
<1>2. \A p \in Owners : own'[p].pending = own[p].pending
  BY DEF Still, KeepsWait
<1> QED
  BY <1>1, <1>2, LevelsStayHidesNone DEF Still, Same

\* The critical section stays where it is, or has nothing to post.
LEMMA StillKeeps ==
  ASSUME IInv, IInv', QInv, Still, NoneScanned,
         job'.pend = job.pend, job'.pend # {} => job'.lock = job.lock
  PROVE  QInv'
<1>1. Placed' /\ \A l \in Locks : Undisturbed(l)
  BY StillFits DEF QInv
<1>2. Settled'
  BY <1>1, PostingLock, Typed, UndisturbedStays DEF QInv
<1> QED
  BY <1>1, <1>2, StillTold, StillHidesNone DEF QInv

\* The steps of one process outside the table.
LEMMA ProcessStill ==
  ASSUME IInv, NEW o \in Owners,
         \/ blocking_action(o) \/ blocking_action_ignored(o) \/ AstDeferred(o)
         \/ AstReturns(o) \/ AstDone(o) \/ Dies(o) \/ WaitWokenUp(o) \/ WaitScans(o)
         \/ LOCK_init(o) \/ LOCK_fini(o)
  PROVE  /\ Still /\ NoneScanned
         /\ job'.pend = job.pend /\ (job'.pend # {} => job'.lock = job.lock)
<1>1. own \in [Owners -> OwnerType] /\ \A p \in Owners : own[p] \in OwnerType
  BY Typed
<1>2. UNCHANGED <<lrq, lbl, held>>
  BY DEF blocking_action, blocking_action_ignored, AstDeferred, AstReturns, AstDone, Dies,
         WaitWokenUp, WaitScans, LOCK_init, LOCK_fini
<1>3. \A x \in Requests : Same(x) /\ lrq'[x].ahead = lrq[x].ahead
  BY <1>2 DEF Same, Pending, Has
<1>4. /\ job'.pend = job.pend /\ (job'.pend # {} => job'.lock = job.lock)
      /\ job.purge \subseteq job'.purge
  <2>1. CASE UNCHANGED job
    BY <2>1
  <2>2. CASE WaitWokenUp(o) \/ WaitScans(o) \/ LOCK_init(o) \/ LOCK_fini(o)
    <3>1. active = NoOwner
      BY <2>2 DEF WaitWokenUp, WaitScans, LOCK_init, LOCK_fini, StillWaiting
    <3>2. job.pend = {} /\ job.purge = {}
      BY <3>1, NoWork
    <3>3. job'.pend = {}
      BY <2>2 DEF WaitWokenUp, WaitScans, LOCK_init, LOCK_fini, NoJob
    <3> QED
      BY <3>2, <3>3
  <2> QED
    BY <2>1, <2>2 DEF blocking_action, blocking_action_ignored, AstDeferred, AstReturns,
         AstDone, Dies
<1>5. \A p \in Owners : /\ KeepsWait(p)
                        /\ "scanned" \in own'[p].flags => "scanned" \in own[p].flags
  <2>1. CASE UNCHANGED own
    BY <2>1 DEF KeepsWait
  <2>2. CASE blocking_action(o) \/ AstDeferred(o) \/ AstReturns(o)
    <3>1. \A p \in Owners : own'[p].waits = own[p].waits /\ own'[p].pending = own[p].pending
                            /\ own'[p].pc = own[p].pc /\ own'[p].flags = own[p].flags
      BY <1>1, <2>2 DEF blocking_action, AstDeferred, AstReturns, OwnerType
    <3> QED
      BY <3>1 DEF KeepsWait
  <2>3. CASE blocking_action_ignored(o) \/ AstDone(o) \/ WaitWokenUp(o)
    <3>1. \A p \in Owners : own'[p].waits = own[p].waits /\ own'[p].pending = own[p].pending
                            /\ own'[p].pc = own[p].pc /\ own'[p].flags \subseteq own[p].flags
      BY <1>1, <2>3 DEF blocking_action_ignored, AstDone, WaitWokenUp, OwnerType
    <3> QED
      BY <3>1 DEF KeepsWait
  <2>4. CASE Dies(o)
    <3>1. \A p \in Owners : own'[p].waits = own[p].waits /\ own'[p].pending = own[p].pending
                            /\ own'[p].pc \in {own[p].pc, "dead"}
                            /\ own'[p].flags = own[p].flags
      BY <1>1, <2>4 DEF Dies, OwnerType
    <3> QED
      BY <3>1 DEF KeepsWait
  <2> QED
    BY <2>1, <2>2, <2>3, <2>4 DEF WaitScans, LOCK_init, LOCK_fini
<1> QED
  BY <1>2, <1>3, <1>4, <1>5 DEF Still, NoneScanned

LEMMA OrderAstTaken ==
  ASSUME IInv, IInv', QInv, NEW o \in Owners, AstTaken(o)
  PROVE  QInv'
<1> PICK r \in own_blocks(o) :
      /\ lrq' = [lrq EXCEPT ![r].flags =
                   Uchar((@ \ {LRQ_blocking}) \cup {LRQ_blocking_seen})]
      /\ own' = [own EXCEPT ![o].handler = "routine", ![o].ast = r]
  BY DEF AstTaken
<1>1. /\ own \in [Owners -> OwnerType] /\ own[o] \in OwnerType
      /\ lrq \in [Requests -> RequestType] /\ r \in Requests /\ lrq[r] \in RequestType
      /\ UNCHANGED <<lbl, held, job>>
  BY Typed DEF AstTaken, own_blocks, OwnedBy
<1>2. \A x \in Requests : Same(x) /\ lrq'[x].ahead = lrq[x].ahead
  BY <1>1 DEF RequestType, Same, Pending, Has, Uchar, LRQ_pending, LRQ_blocking,
              LRQ_blocking_seen, LRQ_rejected
<1>3. \A p \in Owners : /\ own'[p].waits = own[p].waits /\ own'[p].pending = own[p].pending
                        /\ own'[p].pc = own[p].pc /\ own'[p].flags = own[p].flags
  BY <1>1 DEF OwnerType
<1>4. Still /\ NoneScanned
  BY <1>1, <1>2, <1>3 DEF Still, NoneScanned, KeepsWait
<1> QED
  BY <1>1, <1>4, StillKeeps

LEMMA OrderPostBlockage ==
  ASSUME IInv, IInv', QInv, post_blockage
  PROVE  QInv'
<1> DEFINE B == BlockersToTell(job.post)
<1>1. /\ UNCHANGED <<lbl, held>> /\ job \in JobType /\ job' = [job EXCEPT !.post = NoRequest]
      /\ lrq' = [x \in Requests |->
                   IF x \in B /\ ~Has(x, LRQ_blocking)
                   THEN [lrq[x] EXCEPT !.flags = (@ \cup {LRQ_blocking}) \ {LRQ_blocking_seen}]
                   ELSE lrq[x]]
      /\ own' = SignalOwners({lrq[b].owner : b \in B} \ {lrq[job.post].owner})
  BY Typed DEF post_blockage
<1>2. \A x \in Requests : lrq[x] \in RequestType
  BY Typed
<1> HIDE DEF B
<1>3. \A x \in Requests : Same(x) /\ lrq'[x].ahead = lrq[x].ahead
  BY <1>1, <1>2 DEF RequestType, Same, Pending, Has, LRQ_pending, LRQ_blocking,
              LRQ_blocking_seen, LRQ_rejected
<1>4. \A p \in Owners : /\ own'[p].waits = own[p].waits /\ own'[p].pending = own[p].pending
                        /\ own'[p].pc = own[p].pc
                        /\ "scanned" \in own'[p].flags => "scanned" \in own[p].flags
  BY <1>1, Typed DEF SignalOwners, OwnerType
<1>5. job'.pend = job.pend /\ job'.lock = job.lock /\ job'.purge = job.purge
  BY <1>1 DEF JobType
<1>6. Still /\ NoneScanned
  BY <1>1, <1>3, <1>4, <1>5 DEF Still, NoneScanned, KeepsWait
<1> QED
  BY <1>5, <1>6, StillKeeps

LEMMA OrderRelease ==
  ASSUME IInv, IInv', QInv, release \/ release_mutex \/ LOCK_manager
  PROVE  QInv'
<1>1. /\ UNCHANGED <<lrq, lbl, held>>
      /\ job.pend = {} /\ job'.pend = {} /\ job.purge = {}
  <2>1. CASE release \/ release_mutex
    BY <2>1 DEF release, release_mutex, Quiet, NoJob
  <2>2. CASE LOCK_manager
    BY <2>2, NoWork DEF LOCK_manager, NoJob
  <2> QED
    BY <2>1, <2>2
<1>2. \A x \in Requests : Same(x) /\ lrq'[x].ahead = lrq[x].ahead
  BY <1>1 DEF Same, Pending, Has
<1>3. \A p \in Owners : /\ own'[p].waits = own[p].waits /\ own'[p].pending = own[p].pending
                        /\ own'[p].pc = own[p].pc
                        /\ "scanned" \in own'[p].flags => "scanned" \in own[p].flags
  <2>1. CASE UNCHANGED own
    BY <2>1
  <2>2. CASE own' = [own EXCEPT ![active].handler = "pop",
                              ![active].flags = (@ \ {"signal"}) \cup {"signaled"}]
    BY <2>2, Typed DEF OwnerType
  <2>3. CASE own' = [own EXCEPT ![active].flags = @ \ {"signaled"}]
    BY <2>3, Typed DEF OwnerType
  <2> QED
    BY <2>1, <2>2, <2>3 DEF release, release_mutex, LOCK_manager
<1>4. Still /\ NoneScanned
  BY <1>1, <1>2, <1>3 DEF Still, NoneScanned, KeepsWait
<1> QED
  BY <1>1, <1>4, StillKeeps

-----------------------------------------------------------------------------
(* The calls of the interface.                                             *)

\* A process in its main line waits for nothing, and no work is left behind.
LEMMA RunsIdle ==
  ASSUME IInv, WaitsOwn, NEW o \in Owners, own[o].pc \in {"off", "run"}
  PROVE  own[o].waits = NoRequest /\ own[o].pending = NoRequest
BY DEF WaitsOwn

\* LOCK_enq grants a new request at once.
LEMMA OrderEnqGranted ==
  ASSUME IInv, IInv', QInv, NEW o \in Owners, NEW l \in Locks, NEW r \in Requests,
         NEW level \in EnqLevels, LOCK_enq(o, l, r, level), EnqGranted(o, l, r, level)
  PROVE  QInv'
<1>1. /\ job.pend = {} /\ job.purge = {} /\ IsFree(r) /\ level \in 2..6
      /\ own[o].waits = NoRequest /\ own[o].pending = NoRequest
  BY NoWork, RunsIdle, ConstantAssumption DEF LOCK_enq, MainLine, QInv, Placed
<1>2. /\ \A x \in Requests \ {r} : lrq'[x] = lrq[x]
      /\ lrq'[r] = [owner |-> o, lock |-> l, requested |-> level, state |-> level,
                    flags |-> {}, ahead |-> OnLock(l)]
      /\ UNCHANGED own
      /\ job'.lock = l /\ job'.pend = PendingOn(lrq', l) /\ job'.purge = {}
      /\ \A m \in Locks \ {l} : lbl'[m] = lbl[m]
      /\ held' = [held EXCEPT ![r] = level]
  BY Typed DEF EnqGranted, NewRequest, PostPendingOn, NoJob, Returns
<1>3. Placed'
  <2>1. WaitsOwn'
    BY <1>1, <1>2, WaitersStay DEF QInv, Placed, KeepsWait
  <2>2. Lined'
    BY <1>1, <1>2, LineJoined DEF QInv, Placed
  <2>3. WaitsFit'
    <3>1. \A x \in Requests \ {r} : FitStays(x)
      BY <1>2 DEF FitStays, Same, Waits, Pending, Has
    <3>2. lrq'[r].state # LCK_none /\ ~Waits(r)' /\ lrq'[r].requested = lrq'[r].state
      BY <1>1, <1>2, ConstantAssumption DEF Waits, LCK_none
    <3> QED
      BY <1>2, <3>1, <3>2, FitsStay DEF QInv, Placed, WaitsFit, IsFree, Pending, Has
  <2> QED
    BY <2>1, <2>2, <2>3 DEF Placed
<1>4. Settled'
  <2>1. \A x \in Requests :
          Same(x) \/ (/\ lrq[x].lock \in {l, NoLock} /\ lrq'[x].lock \in {l, NoLock}
                      /\ LRQ_pending \notin lrq'[x].flags)
    BY <1>1, <1>2, FreeIsIdle DEF Same, Pending, Has
  <2>2. \A x \in Requests : Uncleaned(x) => Waits(x)'
    BY <1>1, <1>2, ConstantAssumption DEF Uncleaned, Waits, IsFree
  <2> QED
    BY <1>1, <1>2, <2>1, <2>2, PostedSettles DEF QInv
<1>5. Told'
  <2> SUFFICES ASSUME LevelsNest PROVE Told'
    BY DEF Told, LevelsNest, Used
  <2>1. level \in Used
    BY DEF LevelsNest
  <2> QED
    BY <1>2, <2>1, Typed, ConstantAssumption
    DEF QInv, Told, LevelsNest, Used, IsFree, Waits, Pending, Has
<1>6. NoneHides'
  <2>1. \A x \in Requests : Exempt(x)' => x # r /\ Exempt(x)
    BY <1>2 DEF Exempt, Pending, Has, Scanned
  <2>2. ASSUME NEW b \in Requests, NEW p \in Requests, own'[lrq'[b].owner].pending = p
        PROVE  b # r
    BY <1>1, <1>2, <2>2, ConstantAssumption
  <2>3. \A b \in Requests \ {r}, x \in Requests : NoWorse(b, x)
    BY <1>2 DEF NoWorse
  <2> QED
    BY <1>2, <1>3, <2>1, <2>2, <2>3, NoneNewlyHides DEF QInv
<1> QED
  BY <1>3, <1>4, <1>5, <1>6 DEF QInv

\* Without wait the queued request goes again before anybody sees it.
LEMMA OrderEnqDenied ==
  ASSUME IInv, IInv', QInv, NEW o \in Owners, NEW l \in Locks, NEW r \in Requests,
         NEW level \in EnqLevels, LOCK_enq(o, l, r, level), EnqDenied(o, l, r, level)
  PROVE  QInv'
<1>1. /\ job.pend = {} /\ job.purge = {}
      /\ UNCHANGED <<lrq, lbl, own, held>>
      /\ job'.lock = l /\ job'.pend = PendingOn(lrq', l)
  BY NoWork DEF LOCK_enq, EnqDenied, PostPendingOn, NoJob
<1>2. Still /\ NoneScanned
  BY <1>1 DEF Still, Same, KeepsWait, NoneScanned, Pending, Has
<1>3. Placed' /\ Told' /\ NoneHides'
  BY <1>2, StillFits, StillTold, StillHidesNone DEF QInv
<1>4. Settled'
  BY <1>1, <1>2, PostedSettles DEF QInv, Still, Uncleaned, Waits
<1> QED
  BY <1>3, <1>4 DEF QInv

\* Somebody waits ahead of request r, or it does not suit lock l without it.
HeldUp(r, l) ==
  \/ LockOrdering /\ lrq'[r].ahead \cap PendingOn(lrq', l) # {}
  \/ ~Compatible(lrq'[r].requested, lock_state(CountDown(lbl[l].counts, lrq[r].state)))

\* wait_for_request begins: what keeps the request from being granted is there.
LEMMA OrderWaitStarted ==
  ASSUME IInv, IInv', QInv, NEW o \in Owners, NEW l \in Locks, NEW r \in Requests,
         active = NoOwner, own[o].pc = "run",
         IsFree(r) \/ (lrq[r].owner = o /\ lrq[r].lock = l),
         \A x \in Requests \ {r} : lrq'[x] = lrq[x],
         lrq'[r].owner = o, lrq'[r].lock = l, lrq'[r].state = lrq[r].state,
         LRQ_pending \in lrq'[r].flags, LRQ_rejected \notin lrq'[r].flags,
         lrq'[r].requested # LCK_none, 
         LevelsNest => lrq'[r].requested \in Used /\ lrq[r].state < lrq'[r].requested,
         \A m \in Locks \ {l} : lbl'[m] = lbl[m], lbl'[l].counts = lbl[l].counts,
         own' = [own EXCEPT ![o].pc = "wait", ![o].pending = r, ![o].waits = r,
                            ![o].flags = @ \ {"scanned", "wakeup"}],
         UNCHANGED held, job'.pend = {}, Lined', HeldUp(r, l)
  PROVE  QInv'
<1>1. /\ job.pend = {} /\ job.purge = {}
      /\ own[o].waits = NoRequest /\ own[o].pending = NoRequest
  BY NoWork, RunsIdle DEF QInv, Placed
<1>2. /\ \A p \in Owners \ {o} : own'[p] = own[p]
      /\ own'[o].pc = "wait" /\ own'[o].pending = r /\ own'[o].waits = r
      /\ "scanned" \notin own'[o].flags
  BY Typed DEF OwnerType
<1>3. r # NoRequest /\ ~Pending(r) /\ ~Uncleaned(r)
  <2>1. Pending(r) \/ Uncleaned(r) => lrq[r].owner = o /\ own[o].waits = r
    BY FreeIsIdle DEF Uncleaned, IInv, Control, PendingHasWaiter
  <2> QED
    BY <1>1, <2>1, ConstantAssumption
<1>4. \A x \in Requests \ {r} : ~IsFree(x) =>
        /\ Waits(x)' = Waits(x)
        /\ own'[lrq'[x].owner].pc = "denied" => own[lrq[x].owner].pc = "denied"
  <2> SUFFICES ASSUME NEW x \in Requests \ {r}, ~IsFree(x)
               PROVE  /\ Waits(x)' = Waits(x)
                      /\ own'[lrq'[x].owner].pc = "denied" => own[lrq[x].owner].pc = "denied"
    OBVIOUS
  <2>1. lrq[x].owner \in Owners /\ lrq'[x].owner = lrq[x].owner /\ x # NoRequest
    BY Typed, ConstantAssumption
  <2>2. CASE lrq[x].owner = o
    BY <1>1, <1>2, <2>1, <2>2 DEF Waits
  <2>3. CASE lrq[x].owner # o
    <3>1. own'[lrq[x].owner] = own[lrq[x].owner]
      BY <1>2, <2>1, <2>3
    <3> QED
      BY <2>1, <3>1 DEF Waits
  <2> QED
    BY <2>2, <2>3
<1>5. \A x \in Requests \ {r} : FitStays(x)
  BY <1>4 DEF FitStays, Same, Pending, Has
<1>6. Placed'
  <2>1. WaitsOwn'
    <3> SUFFICES ASSUME NEW p \in Owners
                 PROVE  /\ own'[p].pending \in {NoRequest, own'[p].waits}
                        /\ own'[p].pc \in {"off", "run"} => own'[p].waits = NoRequest
                        /\ own'[p].pc = "denied" => own'[p].pending = NoRequest
                        /\ own'[p].waits # NoRequest => lrq'[own'[p].waits].owner = p
      BY DEF WaitsOwn
    <3>1. CASE p = o
      BY <1>2, <3>1
    <3>2. CASE p # o
      <4>1. own'[p] = own[p] /\ own[p].waits \in Requests \cup {NoRequest}
        BY <1>2, <3>2, Typed DEF OwnerType
      <4>2. own[p].waits # NoRequest => lrq[own[p].waits].owner = p /\ own[p].waits # r
        BY <1>1, <3>2, ConstantAssumption DEF QInv, Placed, WaitsOwn, IsFree
      <4> QED
        BY <4>1, <4>2 DEF QInv, Placed, WaitsOwn
    <3> QED
      BY <3>1, <3>2
  <2>2. WaitsFit'
    <3>1. Waits(r)'
      BY <1>2 DEF Waits
    <3> QED
      BY <1>5, <3>1, FitsStay DEF QInv, Placed, WaitsFit, IsFree, Pending, Has
  <2> QED
    BY <2>1, <2>2 DEF Placed
<1>7. Settled'
  <2> SUFFICES ASSUME LockOrdering \/ LevelsNest, NEW m \in Locks PROVE SettledOn(m)'
    BY DEF Settled, LevelsNest, Used
  <2>1. SettledOn(m)
    BY <1>1 DEF QInv, Settled
  <2>2. ASSUME NEW x \in Requests, Uncleaned(x) PROVE Uncleaned(x)' /\ x # r
    <3>1. x # r /\ ~IsFree(x) /\ Waits(x)
      BY <1>3, <2>2, ConstantAssumption DEF Uncleaned, Waits, IsFree
    <3>2. Waits(x)' /\ lrq'[x] = lrq[x]
      BY <1>4, <3>1
    <3> QED
      BY <2>2, <3>1, <3>2 DEF Uncleaned, Waits, Pending, Has
  <2>3. CASE m # l
    <3>1. \A x \in Requests : lrq[x].lock = m \/ lrq'[x].lock = m => x # r
      BY <2>3, FreeIsIdle, ConstantAssumption
    <3>2. \A x \in Requests : Uncleaned(x) => Waits(x)'
      BY <2>2 DEF Uncleaned, Waits
    <3>3. Undisturbed(m)
      BY <1>5, <2>3, <3>1, <3>2, FarFromLock DEF FitStays
    <3> QED
      BY <1>1, <2>1, <3>3, UndisturbedSettled
  <2>4. CASE m = l
    <3> SUFFICES ASSUME NEW x \in PendingOn(lrq', l)
                 PROVE  /\ LevelsNest => lrq'[x].state < lrq'[x].requested
                        /\ \/ \E y \in OnLock(l) : Uncleaned(y)
                           \/ LockOrdering /\ lrq'[x].ahead \cap PendingOn(lrq', l) # {}
                           \/ ~Compatible(lrq'[x].requested, StateWithout(x)')
      BY <2>2, <2>4 DEF SettledOn, OnLock, LevelsNest, Used
    <3>1. CASE x = r
      BY <3>1 DEF StateWithout, HeldUp
    <3>2. CASE x # r
      <4>1. x \in PendingOn(lrq, l) /\ lrq'[x] = lrq[x] /\ lrq[x].lock = l
        BY <3>2 DEF PendingOn
      <4>2. StateWithout(x)' = StateWithout(x)
        BY <4>1 DEF StateWithout
      <4>3. PendingOn(lrq, l) \subseteq PendingOn(lrq', l)
        BY <1>3 DEF PendingOn
      <4> QED
        BY <1>1, <2>1, <2>4, <4>1, <4>2, <4>3 DEF SettledOn
    <3> QED
      BY <3>1, <3>2
  <2> QED
    BY <2>3, <2>4
<1>8. Told'
  <2> SUFFICES ASSUME LevelsNest PROVE Told'
    BY DEF Told, LevelsNest, Used
  <2>1. held[r] = lrq[r].state
    <3>1. CASE IsFree(r)
      BY <3>1, FreeIsIdle DEF QInv, Told
    <3>2. CASE ~IsFree(r)
      BY <1>1, <3>2, ConstantAssumption DEF QInv, Told, Waits
    <3> QED
      BY <3>1, <3>2
  <2>2. ASSUME NEW x \in Requests
        PROVE  /\ lrq'[x].state \in Used /\ lrq'[x].requested \in Used
               /\ IF lrq'[x].owner = NoOwner THEN held'[x] = LCK_none
                  ELSE \/ held'[x] = lrq'[x].state
                       \/ /\ Waits(x)' /\ LRQ_pending \notin lrq'[x].flags
                          /\ LRQ_rejected \notin lrq'[x].flags
                          /\ own'[lrq'[x].owner].pc # "denied"
    <3>1. CASE x = r
      BY <2>1, <3>1, ConstantAssumption DEF QInv, Told
    <3>2. CASE x # r
      BY <1>4, <3>2 DEF QInv, Told, IsFree, Pending, Has
    <3> QED
      BY <3>1, <3>2
  <2> QED
    BY <2>2 DEF Told, LevelsNest, Used, IsFree, Pending, Has
<1>9. NoneHides'
  <2>1. ASSUME NEW x \in Requests, Exempt(x)' PROVE lrq'[x].owner # o /\ x # r /\ Exempt(x)
    <3>1. LRQ_pending \in lrq'[x].flags /\ "scanned" \in own'[lrq'[x].owner].flags
      BY <2>1 DEF Exempt, Pending, Has, Scanned
    <3>2. lrq'[x].owner # o /\ x # r
      BY <1>2, <3>1
    <3>3. lrq'[x] = lrq[x] /\ Pending(x)
      BY <3>1, <3>2 DEF Pending, Has
    <3>4. lrq[x].owner \in Owners
      BY <3>3, Typed, FreeIsIdle
    <3> QED
      BY <1>2, <3>1, <3>2, <3>3, <3>4 DEF Exempt, Scanned
  <2>2. ASSUME NEW b \in Requests, NEW p \in Requests, lrq'[b].owner \in Owners,
               own'[lrq'[b].owner].pending = p, Exempt(p)'
        PROVE  b # r /\ own[lrq[b].owner].pending = p
    <3>1. lrq'[b].owner # o
      BY <1>2, <2>1, <2>2
    <3> QED
      BY <1>2, <2>2, <3>1
  <2>3. \A b \in Requests \ {r}, x \in Requests : NoWorse(b, x)
    BY DEF NoWorse
  <2> QED
    BY <1>6, <2>1, <2>2, <2>3, NoneNewlyHides DEF QInv
<1> QED
  BY <1>6, <1>7, <1>8, <1>9 DEF QInv

LEMMA OrderEnqWaits ==
  ASSUME IInv, IInv', QInv, NEW o \in Owners, NEW l \in Locks, NEW r \in Requests,
         NEW level \in EnqLevels, LOCK_enq(o, l, r, level), EnqWaits(o, l, r, level)
  PROVE  QInv'
<1>1. /\ active = NoOwner /\ own[o].pc = "run" /\ IsFree(r) /\ level \in 2..6
      /\ lrq[r].state = LCK_none /\ lrq[r].ahead = {} /\ ~GrantsAtOnce(l, level)
      /\ job.pend = {}
  BY NoWork, FreeIsIdle, ConstantAssumption DEF LOCK_enq, EnqWaits, MainLine
<1>2. /\ \A x \in Requests \ {r} : lrq'[x] = lrq[x]
      /\ lrq'[r].owner = o /\ lrq'[r].lock = l /\ lrq'[r].state = LCK_none
      /\ lrq'[r].requested = level /\ lrq'[r].ahead = OnLock(l)
      /\ LRQ_pending \in lrq'[r].flags /\ LRQ_rejected \notin lrq'[r].flags
  BY Typed DEF EnqWaits, StartWait, NewRequest, LRQ_pending, LRQ_rejected
<1>3. /\ \A m \in Locks \ {l} : lbl'[m] = lbl[m]
      /\ lbl'[l].counts = lbl[l].counts
      /\ own' = [own EXCEPT ![o].pc = "wait", ![o].pending = r, ![o].waits = r,
                            ![o].flags = @ \ {"scanned", "wakeup"}]
      /\ UNCHANGED held /\ job'.pend = {}
  BY Typed DEF EnqWaits, StartWait, NewRequest, NoJob, LockType
<1>4. Lined'
  BY <1>1, <1>2, LineJoined DEF QInv, Placed
<1>5. HeldUp(r, l)
  <2>1. lbl[l].state = lock_state(lbl[l].counts) /\ lbl[l].pending = Cardinality(PendingOn(lrq, l))
    BY DEF IInv, Table, LockBlocksAgree
  <2>2. CASE ~Compatible(level, lbl[l].state)
    BY <1>1, <1>2, <2>1, <2>2 DEF CountDown, HeldUp
  <2>3. CASE LockOrdering /\ lbl[l].pending # 0
    <3>1. PICK x \in PendingOn(lrq, l) : TRUE
      BY <2>1, <2>3, FS_EmptySet
    <3>2. x \in Requests \ {r} /\ lrq[x].lock = l /\ Pending(x)
      BY <1>1, FreeIsIdle DEF PendingOn, Pending, Has
    <3>3. x \in OnLock(l) /\ x \in PendingOn(lrq', l)
      BY <1>2, <3>2 DEF OnLock, PendingOn, Pending, Has
    <3> QED
      BY <1>2, <2>3, <3>3 DEF HeldUp
  <2> QED
    BY <1>1, <2>2, <2>3 DEF GrantsAtOnce
<1>6. /\ lrq'[r].requested # LCK_none /\ lrq'[r].state = lrq[r].state
      /\ LevelsNest => lrq'[r].requested \in Used /\ lrq[r].state < lrq'[r].requested
  BY <1>1, <1>2 DEF LevelsNest, LCK_none
<1>7. active = NoOwner /\ own[o].pc = "run" /\ IsFree(r)
  BY <1>1
<1> QED
  BY <1>2, <1>3, <1>4, <1>5, <1>6, <1>7, OrderWaitStarted

LEMMA OrderConvertWaits ==
  ASSUME IInv, IInv', QInv, NEW o \in Owners, NEW r \in Requests, NEW level \in ConvLevels,
         LOCK_convert(o, r, level), ConvertWaits(o, r, level), UNCHANGED held
  PROVE  QInv'
<1> DEFINE l == lrq[r].lock
<1>1. /\ active = NoOwner /\ own[o].pc = "run" /\ lrq[r].owner = o /\ level \in 2..6
      /\ l \in Locks /\ job.pend = {} /\ lrq[r] \in RequestType
  BY NoWork, Typed, ConstantAssumption DEF LOCK_convert, MainLine, IsFree
<1>2. /\ \A x \in Requests \ {r} : lrq'[x] = lrq[x]
      /\ lrq'[r].owner = o /\ lrq'[r].lock = l /\ lrq'[r].state = lrq[r].state
      /\ lrq'[r].requested = level /\ lrq'[r].ahead = lrq[r].ahead
      /\ LRQ_pending \in lrq'[r].flags /\ LRQ_rejected \notin lrq'[r].flags
  BY <1>1, Typed DEF ConvertWaits, StartWait, RequestType, LRQ_pending, LRQ_rejected
<1>3. /\ \A m \in Locks \ {l} : lbl'[m] = lbl[m]
      /\ lbl'[l].counts = lbl[l].counts
      /\ own' = [own EXCEPT ![o].pc = "wait", ![o].pending = r, ![o].waits = r,
                            ![o].flags = @ \ {"scanned", "wakeup"}]
      /\ job'.pend = {}
  BY <1>1, Typed DEF ConvertWaits, StartWait, NoJob, LockType, RequestType
<1>4. Lined'
  BY <1>2, LineStays DEF QInv, Placed
<1>5. HeldUp(r, l)
  BY <1>2 DEF ConvertWaits, StateWithout, HeldUp
<1>6. level # LCK_none /\ (LevelsNest => level \in Used)
  BY <1>1 DEF LevelsNest, LCK_none
<1>7. ASSUME LevelsNest PROVE lrq[r].state < level
  <2>1. lrq[r].state \in 0..6 /\ ~IsFree(r)
    BY <1>1, ConstantAssumption DEF RequestType, Levels, IsFree
  <2>2. ~(level <= lrq[r].state)
    BY <1>6, <1>7, <2>1, LowerIsGranted DEF ConvertWaits, QInv
  <2> QED
    BY <1>1, <2>1, <2>2
<1> QED
  BY <1>1, <1>2, <1>3, <1>4, <1>5, <1>6, <1>7, OrderWaitStarted

-----------------------------------------------------------------------------
(* Conversions of a request nobody waits for.                              *)

\* The step takes place in the critical section of a call, which leaves the waits alone.
Calls(o, r) ==
  /\ active = NoOwner /\ lrq[r].owner = o /\ own[o].waits # r
  /\ \A p \in Owners : /\ own'[p].waits = own[p].waits /\ own'[p].pending = own[p].pending
                       /\ own'[p].pc = own[p].pc /\ own'[p].flags = own[p].flags

LEMMA CallsOnRequest ==
  ASSUME IInv, QInv, NEW o \in Owners, NEW r \in Requests, Calls(o, r)
  PROVE  /\ ~IsFree(r) /\ ~Waits(r) /\ ~Pending(r) /\ ~Uncleaned(r)
         /\ lrq[r].lock \in Locks /\ lrq[r].state # LCK_none
         /\ job.pend = {} /\ job.purge = {}
         /\ \A p \in Owners : KeepsWait(p)
         /\ NoneScanned
<1>1. ~IsFree(r) /\ ~Waits(r)
  BY ConstantAssumption DEF Calls, IsFree, Waits
<1>2. ~Pending(r) /\ ~Uncleaned(r)
  BY <1>1 DEF IInv, Control, PendingHasWaiter, Uncleaned, Waits
<1>3. job.pend = {} /\ job.purge = {}
  BY NoWork DEF Calls
<1>4. \A p \in Owners : KeepsWait(p)
  BY DEF Calls, KeepsWait
<1>5. NoneScanned
  BY DEF Calls, NoneScanned
<1> QED
  BY <1>1, <1>2, <1>3, <1>4, <1>5, Typed DEF QInv, Placed, WaitsFit

\* Only the levels and the notice of r change: who waits stays in its place.
LEMMA ConversionFits ==
  ASSUME IInv, IInv', QInv, NEW o \in Owners, NEW r \in Requests, Calls(o, r),
         \A x \in Requests \ {r} : lrq'[x] = lrq[x],
         lrq'[r].owner = o, lrq'[r].lock = lrq[r].lock, lrq'[r].ahead = lrq[r].ahead,
         LRQ_pending \notin lrq'[r].flags,
         lrq'[r].state # LCK_none, lrq'[r].requested = lrq'[r].state
  PROVE  /\ Placed' /\ \A x \in Requests : ~IsFree(x) => Waits(x)' = Waits(x)
         /\ \A x \in Requests \ {r} : Same(x)
         /\ \A x \in Requests : Uncleaned(x) => x # r /\ Waits(x)'
         /\ \A x \in Requests : Exempt(x)' => x # r /\ Exempt(x)
<1>1. /\ ~IsFree(r) /\ ~Waits(r) /\ ~Pending(r) /\ ~Uncleaned(r)
      /\ \A p \in Owners : KeepsWait(p)
      /\ job.purge = {}
  BY CallsOnRequest
<1>2. \A x \in Requests : lrq'[x].owner = lrq[x].owner
  BY DEF Calls
<1>3. \A x \in Requests : ~IsFree(x) => Waits(x)' = Waits(x)
  BY <1>2, Typed DEF Waits, Calls
<1>4. \A x \in Requests \ {r} : Same(x)
  BY DEF Same, Pending, Has
<1>5. WaitsOwn'
  BY <1>1, <1>2, WaitersStay DEF QInv, Placed
<1>6. Lined'
  BY LineStays DEF QInv, Placed
<1>7. WaitsFit'
  <2>1. \A x \in Requests \ {r} : FitStays(x)
    BY <1>3, <1>4 DEF FitStays
  <2> QED
    BY <2>1, FitsStay DEF QInv, Placed, WaitsFit, IsFree, Pending, Has
<1>8. \A x \in Requests : Uncleaned(x) => x # r /\ Waits(x)'
  BY <1>1, <1>3, ConstantAssumption DEF Uncleaned, Waits, IsFree
<1>9. ASSUME NEW x \in Requests, Exempt(x)' PROVE x # r /\ Exempt(x)
  <2>1. x # r /\ lrq'[x] = lrq[x] /\ Pending(x)
    BY <1>9 DEF Exempt, Pending, Has
  <2>2. lrq[x].owner \in Owners
    BY <2>1, Typed, FreeIsIdle
  <2> QED
    BY <1>9, <2>1, <2>2 DEF Exempt, Scanned, Calls
<1> QED
  BY <1>3, <1>4, <1>5, <1>6, <1>7, <1>8, <1>9 DEF Placed

\* A conversion is granted, and is no more in the way of others than before when
\* its owner waits for another request.
LEMMA OrderConverted ==
  ASSUME IInv, IInv', QInv, NEW o \in Owners, NEW r \in Requests, NEW level \in Levels,
         Calls(o, r), ConvertGranted(r, level), Returns(r, level),
         level # LCK_none, LevelsNest => level \in Used,
         \/ own[o].pending = NoRequest
         \/ \A x \in PendingOn(lrq, lrq[r].lock) \ {r} : NoWorse(r, x)
  PROVE  QInv'
<1> DEFINE l == lrq[r].lock
<1>1. /\ l \in Locks /\ job.pend = {} /\ ~IsFree(r) /\ ~Waits(r) /\ ~Uncleaned(r)
      /\ \A p \in Owners : KeepsWait(p)
  BY CallsOnRequest
<1>2. /\ \A x \in Requests \ {r} : lrq'[x] = lrq[x]
      /\ lrq'[r].owner = o /\ lrq'[r].lock = l /\ lrq'[r].ahead = lrq[r].ahead
      /\ lrq'[r].state = level /\ lrq'[r].requested = level
      /\ LRQ_pending \notin lrq'[r].flags
  BY Typed DEF ConvertGranted, RequestType, Calls
<1>3. /\ \A m \in Locks \ {l} : lbl'[m] = lbl[m]
      /\ job'.lock = l /\ job'.pend = PendingOn(lrq', l)
      /\ held' = [held EXCEPT ![r] = level]
  BY Typed DEF ConvertGranted, PostPendingOn, NoJob, Returns
<1>4. /\ Placed' /\ \A x \in Requests : ~IsFree(x) => Waits(x)' = Waits(x)
      /\ \A x \in Requests \ {r} : Same(x)
      /\ \A x \in Requests : Uncleaned(x) => x # r /\ Waits(x)'
      /\ \A x \in Requests : Exempt(x)' => x # r /\ Exempt(x)
  BY <1>2, ConversionFits
<1>5. Settled'
  <2>1. \A x \in Requests :
          Same(x) \/ (/\ lrq[x].lock \in {l, NoLock} /\ lrq'[x].lock \in {l, NoLock}
                      /\ LRQ_pending \notin lrq'[x].flags)
    BY <1>2, <1>4
  <2> QED
    BY <1>1, <1>2, <1>3, <1>4, <2>1, PostedSettles DEF QInv
<1>6. Told'
  <2> SUFFICES ASSUME LevelsNest PROVE Told'
    BY DEF Told, LevelsNest, Used
  <2>1. /\ \A x \in Requests \ {r} : held'[x] = held[x]
        /\ held'[r] = level
    BY <1>3, Typed
  <2>2. \A x \in Requests : ~IsFree(x) => own'[lrq'[x].owner].pc = own[lrq[x].owner].pc
    BY <1>2, Typed DEF Calls
  <2> QED
    BY <1>2, <1>4, <2>1, <2>2, ConstantAssumption
    DEF QInv, Told, LevelsNest, Used, IsFree, Pending, Has, Same
<1>7. NoneHides'
  <2>1. \A b \in Requests \ {r}, x \in Requests : NoWorse(b, x)
    BY <1>2 DEF NoWorse
  <2>2. ASSUME NEW b \in Requests, NEW p \in Requests, lrq'[b].owner \in Owners,
               own'[lrq'[b].owner].pending = p, Exempt(p)'
        PROVE  /\ own[lrq[b].owner].pending = p /\ lrq'[b].lock = lrq[b].lock
               /\ \A x \in Requests : Exempt(x)' /\ lrq[x].lock = lrq[b].lock => NoWorse(b, x)
    <3>1. own[lrq[b].owner].pending = p /\ lrq'[b].lock = lrq[b].lock
      BY <1>2, <2>2 DEF Calls
    <3>2. CASE b # r
      BY <2>1, <3>1, <3>2
    <3>3. CASE b = r
      <4>1. own[o].pending # NoRequest
        BY <3>1, <3>3, ConstantAssumption DEF Calls
      <4>2. \A x \in Requests : Exempt(x)' /\ lrq[x].lock = l => x \in PendingOn(lrq, l) \ {r}
        BY <1>4 DEF Exempt, PendingOn, Pending, Has
      <4> QED
        BY <3>1, <3>3, <4>1, <4>2
    <3> QED
      BY <3>2, <3>3
  <2> QED
    BY <1>2, <1>4, <2>2, NoneNewlyHides DEF QInv
<1> QED
  BY <1>4, <1>5, <1>6, <1>7 DEF QInv

\* A conversion is refused without wait: the request asks for what it has again.
LEMMA OrderRefused ==
  ASSUME IInv, IInv', QInv, NEW o \in Owners, NEW r \in Requests, NEW level \in Levels,
         Calls(o, r), ConvertDenied(r, level),
         held' \in [Requests -> Levels], \A x \in Requests \ {r} : held'[x] = held[x],
         LevelsNest => held'[r] = held[r]
  PROVE  QInv'
<1>1. /\ lrq[r].lock \in Locks /\ job.pend = {} /\ ~IsFree(r) /\ ~Waits(r) /\ ~Uncleaned(r)
      /\ ~Pending(r) /\ lrq[r].state # LCK_none
      /\ \A p \in Owners : KeepsWait(p)
  BY CallsOnRequest
<1>2. /\ \A x \in Requests \ {r} : lrq'[x] = lrq[x]
      /\ lrq'[r].owner = o /\ lrq'[r].lock = lrq[r].lock /\ lrq'[r].ahead = lrq[r].ahead
      /\ lrq'[r].state = lrq[r].state /\ lrq'[r].requested = lrq[r].state
      /\ LRQ_pending \notin lrq'[r].flags
      /\ UNCHANGED lbl /\ job'.pend = {}
  BY <1>1, Typed DEF ConvertDenied, RequestType, NoJob, Pending, Has, Calls
<1>3. /\ Placed' /\ \A x \in Requests : ~IsFree(x) => Waits(x)' = Waits(x)
      /\ \A x \in Requests \ {r} : Same(x)
      /\ \A x \in Requests : Uncleaned(x) => x # r /\ Waits(x)'
      /\ \A x \in Requests : Exempt(x)' => x # r /\ Exempt(x)
  BY <1>1, <1>2, ConversionFits
<1>4. Settled'
  <2>1. \A x \in Requests : Uncleaned(x) => Uncleaned(x)'
    BY <1>2, <1>3 DEF Uncleaned, Waits, Pending, Has
  <2>2. \A l \in Locks : Undisturbed(l)
    BY <1>1, <1>2, <2>1 DEF Undisturbed, Pending, Has
  <2> QED
    BY <1>1, <1>2, <2>2, Typed, UndisturbedStays DEF QInv
<1>5. Told'
  <2> SUFFICES ASSUME LevelsNest PROVE Told'
    BY DEF Told, LevelsNest, Used
  <2>1. \A x \in Requests : held'[x] = held[x]
    OBVIOUS
  <2>2. \A x \in Requests : ~IsFree(x) => own'[lrq'[x].owner].pc = own[lrq[x].owner].pc
    BY <1>2, Typed DEF Calls
  <2> QED
    BY <1>1, <1>2, <1>3, <2>1, <2>2, ConstantAssumption
    DEF QInv, Told, LevelsNest, Used, IsFree, Pending, Has, Same
<1>6. NoneHides'
  <2>1. lrq[r].requested = lrq[r].state
    BY <1>1 DEF QInv, Placed, WaitsFit
  <2>2. \A b, x \in Requests : NoWorse(b, x)
    BY <1>2, <2>1 DEF NoWorse
  <2>3. \A b, p \in Requests : lrq'[b].owner \in Owners /\ own'[lrq'[b].owner].pending = p
          => own[lrq[b].owner].pending = p /\ lrq'[b].lock = lrq[b].lock
    BY <1>2 DEF Calls
  <2> QED
    BY <1>2, <1>3, <2>2, <2>3, NoneNewlyHides DEF QInv
<1> QED
  BY <1>3, <1>4, <1>5, <1>6 DEF QInv

-----------------------------------------------------------------------------
(* A request leaves its lock.                                              *)

\* release_request, by its owner or by a purge, and a post_pending to come.
LEMMA OrderLeft ==
  ASSUME IInv, IInv', QInv, NEW r \in Requests, ~IsFree(r),
         lrq' = LrqWithout(r), lbl' = LblWithout(r),
         job.pend = {}, job'.lock = lrq[r].lock, job'.pend = PendingOn(lrq', lrq[r].lock),
         job.purge \subseteq job'.purge,
         held' \in [Requests -> Levels], LevelsNest => held'[r] = LCK_none,
         \A x \in Requests \ {r} : held'[x] = held[x],
         \A p \in Owners : KeepsWait(p) \/ (EndsWait(p) /\ own[p].waits \in {r, NoRequest}),
         \A p \in Owners : own'[p].waits = r => p \in job'.purge,
         NoneScanned
  PROVE  QInv'
<1> DEFINE l == lrq[r].lock
<1>1. /\ l \in Locks /\ lrq[r] \in RequestType
      /\ lrq' \in [Requests -> RequestType] /\ own' \in [Owners -> OwnerType]
      /\ \A x \in Requests : lrq[x].ahead \subseteq Requests
  BY Typed DEF RequestType, IInv, Table, Control
<1>2. /\ lrq'[r] = FreeRequest
      /\ \A x \in Requests \ {r} :
           /\ lrq'[x].owner = lrq[x].owner /\ lrq'[x].lock = lrq[x].lock
           /\ lrq'[x].requested = lrq[x].requested /\ lrq'[x].state = lrq[x].state
           /\ lrq'[x].flags = lrq[x].flags /\ lrq'[x].ahead = lrq[x].ahead \ {r}
  BY Typed DEF LrqWithout, RequestType
<1>3. \A x \in Requests \ {r} : Same(x)
  BY <1>2 DEF Same, Pending, Has
<1>4. /\ lrq'[r].owner = NoOwner /\ lrq'[r].lock = NoLock /\ NoLock \notin Locks
      /\ lrq'[r].state = LCK_none /\ lrq'[r].requested = LCK_none
      /\ LRQ_pending \notin lrq'[r].flags /\ LRQ_rejected \notin lrq'[r].flags
      /\ NoOwner \notin Owners
  BY <1>2, ConstantAssumption DEF FreeRequest
<1>5. \A x \in Requests \ {r} : ~IsFree(x) =>
        /\ Waits(x)' = Waits(x)
        /\ Waits(x) => (own'[lrq'[x].owner].pc = "denied" => own[lrq[x].owner].pc = "denied")
  <2> SUFFICES ASSUME NEW x \in Requests \ {r}, ~IsFree(x)
               PROVE  /\ Waits(x)' = Waits(x)
                      /\ Waits(x) => (own'[lrq'[x].owner].pc = "denied"
                                        => own[lrq[x].owner].pc = "denied")
    OBVIOUS
  <2> DEFINE p == lrq[x].owner
  <2>1. p \in Owners /\ lrq'[x].owner = p /\ x # NoRequest
    BY <1>2, Typed, ConstantAssumption
  <2>2. CASE KeepsWait(p)
    BY <2>1, <2>2 DEF KeepsWait, Waits
  <2>3. CASE EndsWait(p) /\ own[p].waits \in {r, NoRequest}
    BY <2>1, <2>3 DEF EndsWait, Waits
  <2> QED
    BY <2>1, <2>2, <2>3
<1>6. Placed'
  <2>1. WaitsOwn'
    BY <1>2, <1>4, WaitersStay DEF QInv, Placed
  <2>2. Lined'
    BY LineLeft DEF QInv, Placed
  <2>3. WaitsFit'
    <3>1. \A x \in Requests \ {r} : FitStays(x)
      BY <1>3, <1>5 DEF FitStays
    <3> QED
      BY <1>4, <3>1, FitsStay DEF QInv, Placed, WaitsFit, IsFree, Pending, Has
  <2> QED
    BY <2>1, <2>2, <2>3 DEF Placed
<1>7. Settled'
  <2>1. \A x \in Requests :
          Same(x) \/ (/\ lrq[x].lock \in {l, NoLock} /\ lrq'[x].lock \in {l, NoLock}
                      /\ LRQ_pending \notin lrq'[x].flags)
    BY <1>3, <1>4
  <2>2. \A x \in Requests : lrq[x].lock # l /\ lrq'[x].lock \in Locks \ {l} =>
          lrq'[x].ahead = lrq[x].ahead
    <3> SUFFICES ASSUME NEW x \in Requests, lrq[x].lock # l PROVE lrq'[x].ahead = lrq[x].ahead
      OBVIOUS
    <3>1. r \notin lrq[x].ahead
      BY AheadOnLock DEF QInv, Placed
    <3>2. x # r /\ lrq[x].ahead \ {r} = lrq[x].ahead
      BY <3>1
    <3> QED
      BY <1>2, <3>2
  <2>3. \A x \in Requests : lrq[x].lock # l /\ Uncleaned(x) => Waits(x)'
    BY <1>4, <1>5 DEF Uncleaned, Waits, IsFree
  <2>4. \A m \in Locks \ {l} : lbl'[m] = lbl[m]
    BY Typed DEF LblWithout
  <2> QED
    BY <1>1, <2>1, <2>2, <2>3, <2>4, PostedSettles DEF QInv
<1>8. Told'
  <2> SUFFICES ASSUME LevelsNest PROVE Told'
    BY DEF Told, LevelsNest, Used
  <2>1. LCK_none \in Used
    BY DEF Used, Levels, LCK_none, LCK_PR, LCK_SW
  <2>2. ASSUME NEW x \in Requests
        PROVE  /\ lrq'[x].state \in Used /\ lrq'[x].requested \in Used
               /\ IF lrq'[x].owner = NoOwner THEN held'[x] = LCK_none
                  ELSE \/ held'[x] = lrq'[x].state
                       \/ /\ Waits(x)' /\ LRQ_pending \notin lrq'[x].flags
                          /\ LRQ_rejected \notin lrq'[x].flags
                          /\ own'[lrq'[x].owner].pc # "denied"
    <3>1. CASE x = r
      BY <1>4, <2>1, <3>1
    <3>2. CASE x # r
      BY <1>2, <1>5, <3>2 DEF QInv, Told, IsFree, Pending, Has
    <3> QED
      BY <3>1, <3>2
  <2> QED
    BY <2>2 DEF Told, LevelsNest, Used, IsFree, Pending, Has
<1>9. NoneHides'
  <2>1. \A x \in Requests : Exempt(x)' => x # r /\ Exempt(x)
    <3> SUFFICES ASSUME NEW x \in Requests, Exempt(x)' PROVE x # r /\ Exempt(x)
      OBVIOUS
    <3>1. LRQ_pending \in lrq'[x].flags /\ "scanned" \in own'[lrq'[x].owner].flags
      BY DEF Exempt, Pending, Has, Scanned
    <3>2. x # r /\ Pending(x) /\ lrq'[x].owner = lrq[x].owner
      BY <1>2, <1>4, <3>1 DEF Pending, Has
    <3>3. lrq[x].owner \in Owners
      BY <3>2, Typed, FreeIsIdle
    <3> QED
      BY <3>1, <3>2, <3>3 DEF Exempt, Scanned, NoneScanned
  <2>2. ASSUME NEW b \in Requests, NEW p \in Requests, lrq'[b].owner \in Owners,
               own'[lrq'[b].owner].pending = p
        PROVE  b # r /\ own[lrq[b].owner].pending = p
    <3>1. b # r /\ lrq'[b].owner = lrq[b].owner /\ p # NoRequest
      BY <1>2, <1>4, <2>2, ConstantAssumption
    <3> QED
      BY <2>2, <3>1 DEF KeepsWait, EndsWait
  <2>3. \A b \in Requests \ {r}, x \in Requests : NoWorse(b, x)
    BY <1>2 DEF NoWorse
  <2> QED
    BY <1>2, <1>6, <2>1, <2>2, <2>3, NoneNewlyHides DEF QInv
<1> QED
  BY <1>6, <1>7, <1>8, <1>9 DEF QInv

-----------------------------------------------------------------------------
(* LOCK_convert, LOCK_deq and LOCK_downgrade.                              *)

LEMMA OrderConvert ==
  ASSUME IInv, IInv', QInv, NEW o \in Owners, NEW r \in Requests, NEW level \in ConvLevels,
         LOCK_convert(o, r, level)
  PROVE  QInv'
<1>1. /\ level \in Levels /\ level # LCK_none /\ (LevelsNest => level \in Used)
      /\ own[o].pending = NoRequest /\ own[o].waits = NoRequest
  <2>1. level \in 2..6
    BY ConstantAssumption
  <2>2. own[o].pending = NoRequest /\ own[o].waits = NoRequest
    BY RunsIdle DEF LOCK_convert, MainLine, QInv, Placed
  <2> QED
    BY <2>1, <2>2 DEF LevelsNest, Levels, LCK_none
<1>2. CASE UNCHANGED own
  <2>1. Calls(o, r)
    BY <1>1, <1>2, ConstantAssumption DEF Calls, LOCK_convert
  <2>2. CASE ConvertGranted(r, level) /\ Returns(r, level)
    BY <1>1, <2>1, <2>2, OrderConverted
  <2>3. CASE ConvertDenied(r, level) /\ UNCHANGED held
    BY <1>1, <2>1, <2>3, Typed, OrderRefused
  <2>4. CASE ConvertWaits(o, r, level) /\ UNCHANGED held
    BY <2>4, OrderConvertWaits
  <2> QED
    BY <2>2, <2>3, <2>4 DEF LOCK_convert
<1>3. CASE ConvertWaits(o, r, level) /\ UNCHANGED held
  BY <1>3, OrderConvertWaits
<1> QED
  BY <1>2, <1>3 DEF LOCK_convert

\* A call on request r, in the main line or in the AST routine for it.
LEMMA CallsFromAst ==
  ASSUME IInv, QInv, NEW o \in Owners, NEW r \in Requests,
         active = NoOwner, lrq[r].owner = o, MainLine(o) \/ InAst(o, r), own' = CallMade(o)
  PROVE  Calls(o, r)
<1>1. own[o].waits # r
  <2>1. CASE MainLine(o)
    BY <2>1, RunsIdle, ConstantAssumption DEF MainLine, QInv, Placed
  <2>2. CASE InAst(o, r)
    BY <2>2 DEF InAst
  <2> QED
    BY <2>1, <2>2
<1>2. \A p \in Owners : /\ own'[p].waits = own[p].waits /\ own'[p].pending = own[p].pending
                        /\ own'[p].pc = own[p].pc /\ own'[p].flags = own[p].flags
  BY Typed DEF CallMade, OwnerType
<1> QED
  BY <1>1, <1>2 DEF Calls

LEMMA OrderDequeued ==
  ASSUME IInv, IInv', QInv, NEW o \in Owners, NEW r \in Requests, Calls(o, r), Dequeued(r)
  PROVE  QInv'
<1>1. /\ ~IsFree(r) /\ job.pend = {} /\ job.purge = {} /\ NoneScanned
      /\ \A p \in Owners : KeepsWait(p)
  BY CallsOnRequest
<1>2. /\ lrq' = LrqWithout(r) /\ lbl' = LblWithout(r)
      /\ job'.lock = lrq[r].lock /\ job'.pend = PendingOn(lrq', lrq[r].lock)
      /\ held' \in [Requests -> Levels] /\ held'[r] = LCK_none
      /\ \A x \in Requests \ {r} : held'[x] = held[x]
  BY Typed DEF Dequeued, PostPendingOn, NoJob, Returns, Levels, LCK_none
<1>3. \A p \in Owners : own'[p].waits # r
  <2> SUFFICES ASSUME NEW p \in Owners, own[p].waits = r PROVE FALSE
    BY DEF Calls
  <2>1. lrq[r].owner = p
    BY <1>1, ConstantAssumption DEF QInv, Placed, WaitsOwn
  <2> QED
    BY <2>1 DEF Calls
<1> QED
  BY <1>1, <1>2, <1>3, OrderLeft

LEMMA OrderDeq ==
  ASSUME IInv, IInv', QInv, NEW o \in Owners, NEW r \in Requests, LOCK_deq(o, r)
  PROVE  QInv'
BY CallsFromAst, OrderDequeued DEF LOCK_deq

\* What the highest of the waiters suits the others suit when they did before.
LEMMA OrderDowngrade ==
  ASSUME IInv, IInv', QInv, NEW o \in Owners, NEW r \in Requests, LOCK_downgrade(o, r)
  PROVE  QInv'
<1> DEFINE n == DowngradeTo(r)
           h == HighestPending(r)
<1>1. Calls(o, r)
  BY CallsFromAst DEF LOCK_downgrade
<1>2. CASE Dequeued(r)
  BY <1>1, <1>2, OrderDequeued
<1>3. CASE ~Dequeued(r)
  <2>1. /\ n \notin {LCK_none, LCK_null}
        /\ ConvertGranted(r, n) \/ ConvertDenied(r, n)
        /\ Returns(r, n)
    BY <1>3 DEF LOCK_downgrade
  <2>2. /\ n \in Levels /\ n <= lrq[r].state /\ Compatible(h, n)
        /\ h \in Levels /\ \A x \in PendingOn(lrq, lrq[r].lock) \ {r} : lrq[x].requested <= h
        /\ lrq[r].state \in Levels /\ lrq[r].requested \in Levels
    BY DowngradeFits, HighestOfPending, Typed DEF RequestType
  <2>3. LevelsNest => n \in Used
    BY DowngradeIsUsed DEF QInv
  <2>4. CASE ConvertGranted(r, n)
    <3>1. lrq'[r].state = n /\ lrq'[r].requested = n
      BY <2>4, Typed DEF ConvertGranted, RequestType
    <3>2. ASSUME NEW x \in PendingOn(lrq, lrq[r].lock) \ {r} PROVE NoWorse(r, x)
      <4>1. lrq[x].requested \in Levels /\ lrq[x].requested <= h
        BY <2>2, Typed DEF RequestType, PendingOn
      <4>2. /\ MaxLevel(n, n) = n
            /\ MaxLevel(lrq[r].state, lrq[r].requested) \in Levels
            /\ n <= MaxLevel(lrq[r].state, lrq[r].requested)
        BY <2>2 DEF MaxLevel, Levels
      <4>3. \A m \in Levels : n <= m /\ Compatible(lrq[x].requested, m)
                                => Compatible(lrq[x].requested, n)
        BY <2>2, <4>1, SuitsLowerRequests
      <4> QED
        BY <2>2, <3>1, <4>2, <4>3 DEF NoWorse
    <3> QED
      BY <1>1, <2>1, <2>2, <2>3, <2>4, <3>2, OrderConverted
  <2>5. CASE ConvertDenied(r, n)
    <3>1. ~IsFree(r)
      BY <1>1, CallsOnRequest
    <3>2. LevelsNest => FALSE
      BY <2>5, <3>1, DowngradeIsGranted DEF QInv, ConvertDenied
    <3>3. held' \in [Requests -> Levels] /\ \A x \in Requests \ {r} : held'[x] = held[x]
      BY <2>1, <2>2, Typed DEF Returns
    <3> QED
      BY <1>1, <2>2, <2>5, <3>2, <3>3, OrderRefused
  <2> QED
    BY <2>1, <2>4, <2>5
<1> QED
  BY <1>2, <1>3

-----------------------------------------------------------------------------
(* The end of a wait.                                                      *)

\* The loop of wait_for_request ends: a grant is noticed, or a rejection.
LEMMA OrderWaitEnds ==
  ASSUME IInv, IInv', QInv, NEW o \in Owners, WaitEnds(o)
  PROVE  QInv'
<1> DEFINE r == own[o].waits
<1>1. /\ r \in Requests /\ lrq[r].owner = o /\ ~Pending(r) /\ ~IsFree(r)
      /\ own[o].pc = "wait" /\ UNCHANGED <<lrq, lbl, job>>
  BY ConstantAssumption DEF WaitEnds, Waiting, IInv, Control, WaiterOwns, IsFree
<1>2. /\ \A x \in Requests : Same(x) /\ lrq'[x].ahead = lrq[x].ahead
      /\ \A x \in Requests : IsFree(x)' = IsFree(x) /\ Pending(x)' = Pending(x)
  BY <1>1 DEF Same, Pending, Has, IsFree
<1>3. /\ \A p \in Owners \ {o} : own'[p] = own[p]
      /\ own'[o].pending = NoRequest /\ own'[o].flags = own[o].flags
      /\ \/ /\ Has(r, LRQ_rejected) /\ own'[o].waits = r /\ own'[o].pc = "denied"
            /\ UNCHANGED held
         \/ /\ ~Has(r, LRQ_rejected) /\ own'[o].waits = NoRequest /\ own'[o].pc = "run"
            /\ held' = [held EXCEPT ![r] = lrq[r].requested]
  BY Typed DEF WaitEnds, Returns, OwnerType
<1>4. \A x \in Requests \ {r} : ~IsFree(x) =>
        /\ Waits(x)' = Waits(x)
        /\ Waits(x) => own'[lrq'[x].owner].pc = own[lrq[x].owner].pc
  <2> SUFFICES ASSUME NEW x \in Requests \ {r}, ~IsFree(x)
               PROVE  /\ Waits(x)' = Waits(x)
                      /\ Waits(x) => own'[lrq'[x].owner].pc = own[lrq[x].owner].pc
    OBVIOUS
  <2>1. lrq[x].owner \in Owners /\ lrq'[x].owner = lrq[x].owner /\ x # NoRequest
    BY <1>2, Typed, ConstantAssumption DEF Same
  <2>2. CASE lrq[x].owner = o
    BY <1>3, <2>1, <2>2 DEF Waits
  <2>3. CASE lrq[x].owner # o
    <3>1. own'[lrq[x].owner] = own[lrq[x].owner]
      BY <1>3, <2>1, <2>3
    <3> QED
      BY <2>1, <3>1 DEF Waits
  <2> QED
    BY <2>2, <2>3
<1>5. Placed'
  <2>1. WaitsOwn'
    <3>1. \A p \in Owners : KeepsWait(p) \/ EndsWait(p)
      BY <1>3 DEF KeepsWait, EndsWait
    <3> QED
      BY <1>1, <1>2, <3>1, WaitersStay DEF QInv, Placed, Same
  <2>2. Lined'
    BY <1>2, LineStays DEF QInv, Placed, Same
  <2>3. WaitsFit'
    <3>1. \A x \in Requests \ {r} : FitStays(x)
      BY <1>2, <1>4 DEF FitStays
    <3>2. CASE Has(r, LRQ_rejected)
      <4>1. FitStays(r)
        BY <1>1, <1>2, <1>3, <3>2 DEF FitStays, Waits
      <4> QED
        BY <3>1, <4>1, FitsStay DEF QInv, Placed, WaitsFit, IsFree, Pending, Has
    <3>3. CASE ~Has(r, LRQ_rejected)
      <4>1. /\ lrq[r].state # LCK_none /\ lrq[r].requested = lrq[r].state
            /\ lrq'[r] = lrq[r]
        BY <1>1, <3>3 DEF QInv, Placed, WaitsFit
      <4> QED
        BY <1>1, <3>1, <4>1, FitsStay DEF QInv, Placed, WaitsFit, IsFree, Pending, Has
    <3> QED
      BY <3>2, <3>3
  <2> QED
    BY <2>1, <2>2, <2>3 DEF Placed
<1>6. Settled'
  <2>1. ASSUME NEW x \in Requests, Uncleaned(x) PROVE Waits(x)'
    <3>1. ~IsFree(x) /\ Waits(x)
      BY <2>1, ConstantAssumption DEF Uncleaned, Waits, IsFree
    <3>2. CASE x = r
      BY <1>1, <1>3, <2>1, <3>2 DEF Waits, Uncleaned, Has
    <3>3. CASE x # r
      BY <1>4, <3>1, <3>3
    <3> QED
      BY <3>2, <3>3
  <2>2. \A l \in Locks : Undisturbed(l)
    BY <1>1, <1>2, <2>1, FarFromLock
  <2> QED
    BY <1>1, <2>2, Typed, PostingLock, UndisturbedStays DEF QInv
<1>7. Told'
  <2> SUFFICES ASSUME LevelsNest PROVE Told'
    BY DEF Told, LevelsNest, Used
  <2>1. ASSUME NEW x \in Requests
        PROVE  /\ lrq'[x].state \in Used /\ lrq'[x].requested \in Used
               /\ IF lrq'[x].owner = NoOwner THEN held'[x] = LCK_none
                  ELSE \/ held'[x] = lrq'[x].state
                       \/ /\ Waits(x)' /\ LRQ_pending \notin lrq'[x].flags
                          /\ LRQ_rejected \notin lrq'[x].flags
                          /\ own'[lrq'[x].owner].pc # "denied"
    <3>1. CASE x = r
      <4>1. held'[r] = lrq[r].state
        <5>1. CASE Has(r, LRQ_rejected)
          BY <1>1, <1>3, <5>1 DEF QInv, Told
        <5>2. CASE ~Has(r, LRQ_rejected)
          BY <1>1, <1>3, <5>2, Typed DEF QInv, Placed, WaitsFit
        <5> QED
          BY <5>1, <5>2
      <4> QED
        BY <1>1, <3>1, <4>1 DEF QInv, Told, IsFree
    <3>2. CASE x # r
      <4>1. held'[x] = held[x] /\ lrq'[x] = lrq[x]
        BY <1>1, <1>3, <3>2, Typed
      <4> QED
        BY <1>4, <3>2, <4>1 DEF QInv, Told, IsFree, Pending, Has
    <3> QED
      BY <3>1, <3>2
  <2> QED
    BY <2>1 DEF Told, LevelsNest, Used, IsFree, Pending, Has
<1>8. NoneHides'
  <2>1. NoneScanned /\ \A p \in Owners : own'[p].pending \in {own[p].pending, NoRequest}
    BY <1>3 DEF NoneScanned
  <2> QED
    BY <1>1, <1>2, <1>5, <2>1, LevelsStayHidesNone DEF QInv, Same
<1> QED
  BY <1>5, <1>6, <1>7, <1>8 DEF QInv

\* The rejected caller cleans up: the new request leaves, a conversion asks for
\* what it has again, and a post_pending is to come.
LEMMA OrderWaitDenied ==
  ASSUME IInv, IInv', QInv, NEW o \in Owners, WaitDenied(o)
  PROVE  QInv'
<1> DEFINE r == own[o].waits
           l == lrq[r].lock
<1>1. /\ r \in Requests /\ lrq[r].owner = o /\ ~IsFree(r) /\ l \in Locks
      /\ own[o].pc = "denied" /\ own[o].pending = NoRequest
      /\ job.pend = {} /\ job.purge = {} /\ UNCHANGED held
      /\ job'.lock = l /\ job'.pend = PendingOn(lrq', l)
  <2>1. r \in Requests /\ lrq[r].owner = o
    BY DEF WaitDenied, IInv, Control, WaiterOwns
  <2>2. own[o].pending = NoRequest
    BY DEF WaitDenied, QInv, Placed, WaitsOwn
  <2> QED
    BY <2>1, <2>2, NoWork, Typed, ConstantAssumption
    DEF WaitDenied, PostPendingOn, NoJob, IsFree
<1>2. ~Pending(r)
  BY <1>1 DEF IInv, Control, PendingHasWaiter
<1>3. /\ \A p \in Owners \ {o} : own'[p] = own[p]
      /\ own'[o].pending = NoRequest /\ own'[o].flags = own[o].flags
      /\ own'[o].waits = NoRequest /\ own'[o].pc = "run"
  BY <1>1, Typed DEF WaitDenied, OwnerType
<1>4. /\ \A p \in Owners : KeepsWait(p) \/ (EndsWait(p) /\ own[p].waits \in {r, NoRequest})
      /\ NoneScanned
  BY <1>3 DEF KeepsWait, EndsWait, NoneScanned
<1>5. LevelsNest => held[r] = lrq[r].state
  BY <1>1 DEF QInv, Told
<1>6. CASE lrq' = LrqWithout(r) /\ lbl' = LblWithout(r) /\ lrq[r].state = LCK_none
  <2>1. \A p \in Owners : own'[p].waits # r
    <3> SUFFICES ASSUME NEW p \in Owners, own'[p].waits = r PROVE FALSE
      OBVIOUS
    <3>1. p # o
      BY <1>1, <1>3, ConstantAssumption
    <3>2. own[p].waits = r
      BY <1>3, <3>1
    <3> QED
      BY <1>1, <3>1, <3>2, ConstantAssumption DEF QInv, Placed, WaitsOwn
  <2> QED
    BY <1>1, <1>4, <1>5, <1>6, <2>1, Typed, OrderLeft
<1>7. CASE /\ lrq' = [lrq EXCEPT ![r].requested = lrq[r].state] /\ UNCHANGED lbl
           /\ lrq[r].state # LCK_none
  <2>1. /\ \A x \in Requests \ {r} : lrq'[x] = lrq[x]
        /\ lrq'[r].owner = o /\ lrq'[r].lock = l /\ lrq'[r].state = lrq[r].state
        /\ lrq'[r].requested = lrq[r].state /\ lrq'[r].ahead = lrq[r].ahead
        /\ lrq'[r].flags = lrq[r].flags
    BY <1>1, <1>7, Typed DEF RequestType
  <2>2. /\ \A x \in Requests \ {r} : Same(x)
        /\ \A x \in Requests : lrq'[x].owner = lrq[x].owner
    BY <1>1, <2>1 DEF Same, Pending, Has
  <2>3. \A x \in Requests \ {r} : ~IsFree(x) =>
          /\ Waits(x)' = Waits(x)
          /\ Waits(x) => own'[lrq'[x].owner].pc = own[lrq[x].owner].pc
    <3> SUFFICES ASSUME NEW x \in Requests \ {r}, ~IsFree(x)
                 PROVE  /\ Waits(x)' = Waits(x)
                        /\ Waits(x) => own'[lrq'[x].owner].pc = own[lrq[x].owner].pc
      OBVIOUS
    <3>1. lrq[x].owner \in Owners /\ lrq'[x].owner = lrq[x].owner /\ x # NoRequest
      BY <2>2, Typed, ConstantAssumption
    <3>2. CASE lrq[x].owner = o
      BY <1>3, <3>1, <3>2 DEF Waits
    <3>3. CASE lrq[x].owner # o
      <4>1. own'[lrq[x].owner] = own[lrq[x].owner]
        BY <1>3, <3>1, <3>3
      <4> QED
        BY <3>1, <4>1 DEF Waits
    <3> QED
      BY <3>2, <3>3
  <2>4. Placed'
    <3>1. WaitsOwn'
      BY <1>1, <1>4, <2>2, WaitersStay DEF QInv, Placed
    <3>2. Lined'
      BY <2>1, LineStays DEF QInv, Placed
    <3>3. WaitsFit'
      <4>1. \A x \in Requests \ {r} : FitStays(x)
        BY <2>2, <2>3 DEF FitStays
      <4> QED
        BY <1>2, <1>7, <2>1, <4>1, FitsStay DEF QInv, Placed, WaitsFit, IsFree, Pending, Has
    <3> QED
      BY <3>1, <3>2, <3>3 DEF Placed
  <2>5. Settled'
    <3>1. \A x \in Requests : lrq[x].lock # l /\ Uncleaned(x) => Waits(x)'
      BY <2>3, ConstantAssumption DEF Uncleaned, Waits, IsFree
    <3>2. \A x \in Requests :
            Same(x) \/ (/\ lrq[x].lock \in {l, NoLock} /\ lrq'[x].lock \in {l, NoLock}
                        /\ LRQ_pending \notin lrq'[x].flags)
      BY <1>2, <2>1, <2>2 DEF Pending, Has
    <3> QED
      BY <1>1, <1>7, <2>1, <3>1, <3>2, PostedSettles DEF QInv
  <2>6. Told'
    <3> SUFFICES ASSUME LevelsNest PROVE Told'
      BY DEF Told, LevelsNest, Used
    <3>1. ASSUME NEW x \in Requests
          PROVE  /\ lrq'[x].state \in Used /\ lrq'[x].requested \in Used
                 /\ IF lrq'[x].owner = NoOwner THEN held'[x] = LCK_none
                    ELSE \/ held'[x] = lrq'[x].state
                         \/ /\ Waits(x)' /\ LRQ_pending \notin lrq'[x].flags
                            /\ LRQ_rejected \notin lrq'[x].flags
                            /\ own'[lrq'[x].owner].pc # "denied"
      <4>1. CASE x = r
        BY <1>1, <1>5, <2>1, <4>1, ConstantAssumption DEF QInv, Told
      <4>2. CASE x # r
        BY <1>1, <2>1, <2>3, <4>2 DEF QInv, Told, IsFree, Pending, Has
      <4> QED
        BY <4>1, <4>2
    <3> QED
      BY <3>1 DEF Told, LevelsNest, Used, IsFree, Pending, Has
  <2>7. NoneHides'
    <3>1. \A x \in Requests : Exempt(x)' => x # r /\ Exempt(x)
      <4> SUFFICES ASSUME NEW x \in Requests, Exempt(x)' PROVE x # r /\ Exempt(x)
        OBVIOUS
      <4>1. LRQ_pending \in lrq'[x].flags /\ "scanned" \in own'[lrq'[x].owner].flags
        BY DEF Exempt, Pending, Has, Scanned
      <4>2. x # r /\ Pending(x) /\ lrq'[x].owner = lrq[x].owner
        BY <1>2, <2>1, <4>1 DEF Pending, Has
      <4>3. lrq[x].owner \in Owners
        BY <4>2, Typed, FreeIsIdle
      <4> QED
        BY <1>4, <4>1, <4>2, <4>3 DEF Exempt, Scanned, NoneScanned
    <3>2. ASSUME NEW b \in Requests, NEW p \in Requests, lrq'[b].owner \in Owners,
                 own'[lrq'[b].owner].pending = p
          PROVE  b # r /\ own[lrq[b].owner].pending = p
      <4>1. lrq'[b].owner # o /\ lrq'[b].owner = lrq[b].owner
        BY <1>3, <2>2, <3>2, ConstantAssumption
      <4> QED
        BY <1>1, <1>3, <3>2, <4>1
    <3>3. \A b \in Requests \ {r}, x \in Requests : NoWorse(b, x)
      BY <2>1 DEF NoWorse
    <3> QED
      BY <2>1, <2>4, <3>1, <3>2, <3>3, NoneNewlyHides DEF QInv
  <2> QED
    BY <2>4, <2>5, <2>6, <2>7 DEF QInv
<1> QED
  BY <1>6, <1>7 DEF WaitDenied

\* A timeout or a deadlock scan rejects a waiter: what waits behind it is settled
\* by the cleanup to come.
LEMMA OrderRejected ==
  ASSUME IInv, IInv', QInv, NEW v \in Requests, Pending(v),
         lrq' = [lrq EXCEPT ![v].flags = (@ \ {LRQ_pending}) \cup {LRQ_rejected}],
         lbl' = [lbl EXCEPT ![lrq[v].lock].pending = @ - 1], UNCHANGED held,
         job.pend = {}, job'.pend = {}, job.purge \subseteq job'.purge,
         \A p \in Owners : /\ own'[p].waits = own[p].waits /\ own'[p].pc = own[p].pc
                           /\ own'[p].pending \in {own[p].pending, NoRequest},
         NoneScanned
  PROVE  QInv'
<1> DEFINE l == lrq[v].lock
           w == lrq[v].owner
<1>1. ~IsFree(v) /\ w \in Owners /\ l \in Locks /\ lrq[v] \in RequestType
  BY Typed, FreeIsIdle
<1>2. own[w].waits = v /\ own[w].pc \in {"wait", "dead"} /\ v # NoRequest
  BY ConstantAssumption DEF IInv, Control, PendingHasWaiter
<1>3. /\ \A x \in Requests \ {v} : lrq'[x] = lrq[x]
      /\ \A x \in Requests : /\ lrq'[x].owner = lrq[x].owner /\ lrq'[x].lock = lrq[x].lock
                             /\ lrq'[x].requested = lrq[x].requested
                             /\ lrq'[x].state = lrq[x].state /\ lrq'[x].ahead = lrq[x].ahead
      /\ LRQ_pending \notin lrq'[v].flags /\ LRQ_rejected \in lrq'[v].flags
  BY <1>1, Typed DEF RequestType, LRQ_pending, LRQ_rejected
<1>4. /\ \A x \in Requests : ~IsFree(x) => Waits(x)' = Waits(x)
      /\ \A x \in Requests : ~IsFree(x) => own'[lrq'[x].owner].pc = own[lrq[x].owner].pc
  BY <1>3, Typed DEF Waits
<1>5. Waits(v) /\ Waits(v)'
  BY <1>1, <1>2, <1>4 DEF Waits
<1>6. \A x \in Requests \ {v} : Same(x)
  BY <1>3 DEF Same, Pending, Has
<1>7. Placed'
  <2>1. WaitsOwn'
    <3>1. \A p \in Owners : KeepsWait(p) \/ EndsWait(p)
      <4> SUFFICES ASSUME NEW p \in Owners PROVE KeepsWait(p) \/ EndsWait(p)
        OBVIOUS
      <4>1. CASE own'[p].pending = own[p].pending
        BY <4>1 DEF KeepsWait
      <4>2. CASE own'[p].pending = NoRequest
        BY <4>2 DEF EndsWait, QInv, Placed, WaitsOwn
      <4> QED
        BY <4>1, <4>2
    <3> QED
      BY <1>3, <3>1, WaitersStay DEF QInv, Placed
  <2>2. Lined'
    BY <1>3, LineStays DEF QInv, Placed
  <2>3. WaitsFit'
    <3>1. \A x \in Requests \ {v} : FitStays(x)
      BY <1>4, <1>6 DEF FitStays
    <3> QED
      BY <1>3, <1>5, <3>1, FitsStay DEF QInv, Placed, WaitsFit, IsFree, Pending, Has
  <2> QED
    BY <2>1, <2>2, <2>3 DEF Placed
<1>8. Settled'
  <2> SUFFICES ASSUME LockOrdering \/ LevelsNest, NEW m \in Locks PROVE SettledOn(m)'
    BY DEF Settled, LevelsNest, Used
  <2>1. SettledOn(m)
    BY DEF QInv, Settled
  <2>2. CASE m = l
    <3>1. Uncleaned(v)'
      BY <1>1, <1>3, <1>5 DEF Uncleaned, Waits, Pending, Has
    <3>2. \A x \in PendingOn(lrq', m) : lrq'[x] = lrq[x] /\ x \in PendingOn(lrq, m)
      BY <1>3 DEF PendingOn
    <3>3. v \in Requests /\ lrq'[v].lock = m
      BY <1>3, <2>2
    <3> SUFFICES ASSUME NEW x \in PendingOn(lrq', m), LevelsNest
                 PROVE  lrq'[x].state < lrq'[x].requested
      BY <3>1, <3>3 DEF SettledOn, OnLock, LevelsNest, Used
    <3> QED
      BY <2>1, <3>2 DEF SettledOn
  <2>3. CASE m # l
    <3>1. \A x \in Requests : Uncleaned(x) => Waits(x)'
      BY <1>4, ConstantAssumption DEF Uncleaned, Waits, IsFree
    <3>2. lbl'[m] = lbl[m]
      BY <2>3, Typed
    <3>3. Undisturbed(m)
      BY <1>3, <1>6, <2>3, <3>1, <3>2, FarFromLock
    <3> QED
      BY <2>1, <3>3, UndisturbedSettled
  <2> QED
    BY <2>2, <2>3
<1>9. Told'
  <2> SUFFICES ASSUME LevelsNest PROVE Told'
    BY DEF Told, LevelsNest, Used
  <2>1. held[v] = lrq[v].state
    BY <1>1 DEF QInv, Told
  <2> QED
    BY <1>1, <1>3, <1>4, <2>1 DEF QInv, Told, LevelsNest, Used, IsFree, Pending, Has
<1>10. NoneHides'
  <2>1. \A x \in Requests : LRQ_pending \in lrq'[x].flags => Pending(x)
    BY <1>3 DEF Pending, Has
  <2> QED
    BY <1>3, <1>7, <2>1, LevelsStayHidesNone DEF QInv
<1> QED
  BY <1>7, <1>8, <1>9, <1>10 DEF QInv

LEMMA OrderWaitTimesOut ==
  ASSUME IInv, IInv', QInv, NEW o \in Owners, WaitTimesOut(o)
  PROVE  QInv'
<1> DEFINE r == own[o].waits
<1>1. r \in Requests /\ Pending(r) /\ job.pend = {} /\ job.purge = {} /\ job'.pend = {}
  BY NoWork DEF WaitTimesOut, StillWaiting, Waiting, NoJob, IInv, Control, WaiterOwns
<1>2. /\ lrq' = [lrq EXCEPT ![r].flags = (@ \ {LRQ_pending}) \cup {LRQ_rejected}]
      /\ lbl' = [lbl EXCEPT ![lrq[r].lock].pending = @ - 1] /\ UNCHANGED held
      /\ own' = [own EXCEPT ![o].flags = @ \ {"wakeup"}]
  BY DEF WaitTimesOut
<1>3. \A p \in Owners : /\ own'[p].waits = own[p].waits /\ own'[p].pc = own[p].pc
                        /\ own'[p].pending = own[p].pending
                        /\ own'[p].flags \subseteq own[p].flags
  BY <1>2, Typed DEF OwnerType
<1> QED
  BY <1>1, <1>2, <1>3, OrderRejected DEF NoneScanned

LEMMA OrderDeadlockScan ==
  ASSUME IInv, IInv', QInv, deadlock_scan
  PROVE  QInv'
<1> DEFINE o == active
           r == own[o].waits
           scan == "scanned" \notin own[o].flags
<1>1. /\ job.pend = {} /\ job \in JobType /\ UNCHANGED held
      /\ o \in Owners /\ r \in Requests /\ lrq[r].owner = o
  BY DEF deadlock_scan, Quiet, IInv, Control, JobFits, WaiterOwns
<1>2. job'.pend = {} /\ job'.purge = job.purge
  <2>1. \/ job' = [job EXCEPT !.next = "release"]
        \/ job' = [job EXCEPT !.next = "release", !.post = r]
    BY DEF deadlock_scan
  <2> QED
    BY <1>1, <2>1 DEF JobType
<1>3. ASSUME Pending(r), NEW v \in Victims(r), RejectVictim(v, o) PROVE QInv'
  <2> DEFINE w == lrq[v].owner
  <2>1. v \in Requests /\ Pending(v)
    BY <1>1, <1>3, VictimsPend
  <2>2. w \in Owners
    BY <2>1, Typed, FreeIsIdle
  <2>3. \A p \in Owners : /\ own'[p].waits = own[p].waits /\ own'[p].pc = own[p].pc
                          /\ own'[p].pending \in {own[p].pending, NoRequest}
                          /\ "scanned" \in own'[p].flags => "scanned" \in own[p].flags
    <3>1. own' = [own EXCEPT ![w].pending = NoRequest,
                             ![w].flags = (@ \ {"scanned"}) \cup
                               (IF w # o /\ own[w].pc = "wait" THEN {"wakeup"} ELSE {})]
      BY <1>3 DEF RejectVictim
    <3> QED
      BY <2>2, <3>1, Typed DEF OwnerType
  <2> QED
    BY <1>1, <1>2, <1>3, <2>1, <2>3, OrderRejected DEF RejectVictim, NoneScanned
<1>4. ASSUME UNCHANGED <<lrq, lbl>>,
             \/ UNCHANGED own
             \/ /\ own' = [own EXCEPT ![o].flags = @ \cup {"scanned"}]
                /\ Pending(r) /\ Victims(r) = {} /\ ~MaybeDeadlock(r)
      PROVE  QInv'
  <2>1. \A p \in Owners : /\ own'[p].waits = own[p].waits /\ own'[p].pc = own[p].pc
                          /\ own'[p].pending = own[p].pending
    BY <1>4, Typed DEF OwnerType
  <2>2. Still
    BY <1>1, <1>2, <1>4, <2>1 DEF Still, Same, KeepsWait, Pending, Has
  <2>3. CASE UNCHANGED own
    BY <1>1, <1>2, <2>2, <2>3, StillKeeps DEF NoneScanned
  <2>4. CASE /\ own' = [own EXCEPT ![o].flags = @ \cup {"scanned"}]
             /\ Pending(r) /\ Victims(r) = {} /\ ~MaybeDeadlock(r)
    <3>1. NoneHides'
      BY <1>1, <1>4, <2>4, ScanHidesNone DEF QInv, Placed
    <3>2. Placed' /\ \A l \in Locks : Undisturbed(l)
      BY <2>2, StillFits DEF QInv
    <3>3. Settled'
      BY <1>1, <1>2, <3>2, UndisturbedStays DEF QInv
    <3> QED
      BY <2>2, <3>1, <3>2, <3>3, StillTold DEF QInv
  <2> QED
    BY <1>4, <2>3, <2>4
<1> QED
  BY <1>3, <1>4 DEF deadlock_scan

-----------------------------------------------------------------------------
(* The loops.                                                              *)

\* post_wakeup disturbs no wait.
LEMMA WakesOnly ==
  ASSUME IInv, NEW w \in Owners, own' = Wakened(w)
  PROVE  /\ NoneScanned
         /\ \A p \in Owners : /\ own'[p].waits = own[p].waits /\ own'[p].pc = own[p].pc
                              /\ own'[p].pending = own[p].pending /\ KeepsWait(p)
<1>1. \A p \in Owners : /\ own'[p].waits = own[p].waits /\ own'[p].pc = own[p].pc
                        /\ own'[p].pending = own[p].pending
                        /\ own'[p].flags \subseteq own[p].flags \cup {"wakeup"}
  BY Typed DEF Wakened, OwnerType
<1> QED
  BY <1>1 DEF NoneScanned, KeepsWait

\* A turn of post_pending grants the waiter it is at.
LEMMA OrderPosted ==
  ASSUME IInv, IInv', QInv, NEW r \in job.pend,
         own' = Wakened(lrq[r].owner), lrq' = GrantedRequest(r),
         \A m \in Locks \ {lrq[r].lock} : lbl'[m] = lbl[m],
         job' = [job EXCEPT !.pend = @ \ {r}], UNCHANGED held
  PROVE  QInv'
<1> DEFINE l == lrq[r].lock
           w == lrq[r].owner
<1>1. /\ r \in Requests /\ Pending(r) /\ l = job.lock /\ l \in Locks /\ ~IsFree(r)
      /\ w \in Owners /\ lrq[r] \in RequestType
      /\ own[w].waits = r /\ own[w].pc \in {"wait", "dead"}
  <2>1. r \in Requests /\ Pending(r) /\ l = job.lock
    BY Typed DEF IInv, Control, JobPending, JobType
  <2> QED
    BY <2>1, Typed, FreeIsIdle DEF IInv, Control, PendingHasWaiter
<1>2. /\ \A x \in Requests \ {r} : lrq'[x] = lrq[x]
      /\ \A x \in Requests : /\ lrq'[x].owner = lrq[x].owner /\ lrq'[x].lock = lrq[x].lock
                             /\ lrq'[x].requested = lrq[x].requested
                             /\ lrq'[x].ahead = lrq[x].ahead
      /\ lrq'[r].state = lrq[r].requested
      /\ LRQ_pending \notin lrq'[r].flags
      /\ LRQ_rejected \in lrq'[r].flags <=> Has(r, LRQ_rejected)
  BY <1>1, Typed DEF GrantedRequest, RequestType, Has, LRQ_pending, LRQ_rejected
<1>3. job'.pend = job.pend \ {r} /\ job'.lock = job.lock /\ job'.purge = job.purge
  BY Typed DEF JobType
<1>4. /\ NoneScanned
      /\ \A p \in Owners : /\ own'[p].waits = own[p].waits /\ own'[p].pc = own[p].pc
                           /\ own'[p].pending = own[p].pending /\ KeepsWait(p)
  BY <1>1, WakesOnly
<1>5. /\ \A x \in Requests : ~IsFree(x) => Waits(x)' = Waits(x)
      /\ \A x \in Requests : ~IsFree(x) => own'[lrq'[x].owner].pc = own[lrq[x].owner].pc
  BY <1>2, <1>4, Typed DEF Waits
<1>6. /\ Waits(r)' /\ ~Has(r, LRQ_rejected) /\ lrq[r].requested # LCK_none
      /\ \A x \in Requests \ {r} : Same(x)
  <2>1. Waits(r)
    BY <1>1 DEF Waits
  <2>2. ~Has(r, LRQ_rejected) /\ lrq[r].requested # LCK_none
    BY <1>1 DEF QInv, Placed, WaitsFit
  <2> QED
    BY <1>1, <1>2, <1>5, <2>1, <2>2 DEF Same, Pending, Has
<1>7. Placed'
  <2>1. WaitsOwn'
    BY <1>2, <1>3, <1>4, WaitersStay DEF QInv, Placed
  <2>2. Lined'
    BY <1>2, LineStays DEF QInv, Placed
  <2>3. WaitsFit'
    <3>1. \A x \in Requests \ {r} : FitStays(x)
      BY <1>5, <1>6 DEF FitStays
    <3> QED
      BY <1>2, <1>6, <3>1, FitsStay DEF QInv, Placed, WaitsFit, IsFree, Pending, Has
  <2> QED
    BY <2>1, <2>2, <2>3 DEF Placed
<1>8. Settled'
  <2> SUFFICES ASSUME LockOrdering \/ LevelsNest PROVE Settled'
    BY DEF Settled, LevelsNest, Used
  <2>1. LockOrdering => job'.pend = PendingOn(lrq', l)
    <3>1. LockOrdering => job.pend = PendingOn(lrq, l)
      BY <1>1 DEF QInv, Settled
    <3> QED
      BY <1>1, <1>2, <1>3, <3>1 DEF PendingOn
  <2>2. ASSUME NEW m \in Locks PROVE SettledOn(m)'
    <3>1. SettledOn(m) /\ SettledOn(l)
      BY <1>1 DEF QInv, Settled
    <3>2. \A x \in Requests : Uncleaned(x) => x # r /\ Waits(x)'
      BY <1>1, <1>5, ConstantAssumption DEF Uncleaned, Waits, IsFree
    <3>3. CASE m # l
      <4>1. Undisturbed(m)
        BY <1>2, <1>6, <3>2, <3>3, FarFromLock
      <4>2. \A x \in PendingOn(lrq, m) : x \notin job.pend
        BY <1>1, <3>3 DEF PendingOn, IInv, Control, JobPending
      <4> QED
        BY <3>1, <4>1, <4>2, UndisturbedSettled
    <3>4. CASE m = l
      <4> SUFFICES ASSUME NEW x \in PendingOn(lrq', l)
                   PROVE  /\ LevelsNest => lrq'[x].state < lrq'[x].requested
                          /\ \/ x \in job'.pend
                             \/ \E y \in Requests : lrq'[y].lock = m /\ Uncleaned(y)'
                             \/ ~Compatible(lrq'[x].requested, StateWithout(x)')
        BY <3>4 DEF SettledOn, OnLock, LevelsNest, Used
      <4>1. x # r /\ x \in PendingOn(lrq, l) /\ lrq'[x] = lrq[x] /\ ~IsFree(x)
        <5>1. x \in Requests /\ lrq'[x].lock = l /\ LRQ_pending \in lrq'[x].flags
          BY DEF PendingOn
        <5>2. x # r /\ lrq'[x] = lrq[x]
          BY <1>2, <5>1
        <5> QED
          BY <1>1, <5>1, <5>2, FreeIsIdle DEF PendingOn
      <4>2. LevelsNest => lrq'[x].state < lrq'[x].requested
        BY <3>1, <4>1 DEF SettledOn
      <4>3. CASE x \in job.pend \/ LockOrdering
        BY <1>3, <2>1, <4>1, <4>2, <4>3
      <4>4. CASE \E y \in OnLock(l) : Uncleaned(y)
        <5>1. PICK y \in OnLock(l) : Uncleaned(y)
          BY <4>4
        <5>2. y \in Requests /\ lrq'[y] = lrq[y] /\ lrq'[y].lock = m
          BY <1>2, <3>2, <3>4, <5>1 DEF OnLock
        <5> QED
          BY <3>2, <4>2, <5>1, <5>2 DEF Uncleaned, Waits, OnLock, Pending, Has
      <4>5. CASE ~LockOrdering /\ ~Compatible(lrq[x].requested, StateWithout(x))
        <5>1. \A y \in Requests : /\ lrq'[y].state \in {lrq[y].state, lrq[y].requested}
                                  /\ lrq[y].state <= lrq'[y].state
          <6>1. r \in PendingOn(lrq, l)
            BY <1>1 DEF PendingOn, Pending, Has
          <6>2. lrq[r].state < lrq[r].requested
            BY <3>1, <4>5, <6>1 DEF SettledOn
          <6>3. \A y \in Requests : lrq[y].state \in 0..6 /\ lrq[y].requested \in 0..6
            BY Typed DEF RequestType, Levels
          <6> QED
            BY <1>2, <6>2, <6>3
        <5> QED
          BY <1>2, <4>1, <4>2, <4>5, <5>1, StillUnsuited DEF QInv, PendingOn
      <4> QED
        BY <3>1, <4>1, <4>3, <4>4, <4>5 DEF SettledOn
    <3> QED
      BY <3>3, <3>4
  <2> QED
    BY <1>1, <1>3, <2>1, <2>2 DEF Settled
<1>9. Told'
  <2> SUFFICES ASSUME LevelsNest PROVE Told'
    BY DEF Told, LevelsNest, Used
  <2>1. ASSUME NEW x \in Requests
        PROVE  /\ lrq'[x].state \in Used /\ lrq'[x].requested \in Used
               /\ IF lrq'[x].owner = NoOwner THEN held'[x] = LCK_none
                  ELSE \/ held'[x] = lrq'[x].state
                       \/ /\ Waits(x)' /\ LRQ_pending \notin lrq'[x].flags
                          /\ LRQ_rejected \notin lrq'[x].flags
                          /\ own'[lrq'[x].owner].pc # "denied"
    <3>1. CASE x = r
      <4>1. own'[lrq'[r].owner].pc # "denied" /\ lrq'[r].owner # NoOwner
        BY <1>1, <1>2, <1>4, ConstantAssumption
      <4> QED
        BY <1>2, <1>6, <3>1, <4>1 DEF QInv, Told
    <3>2. CASE x # r
      BY <1>2, <1>5, <3>2 DEF QInv, Told, IsFree, Pending, Has
    <3> QED
      BY <3>1, <3>2
  <2> QED
    BY <2>1 DEF Told, LevelsNest, Used, IsFree, Pending, Has
<1>10. NoneHides'
  <2>1. \A x \in Requests : Exempt(x)' => x # r /\ Exempt(x)
    <3> SUFFICES ASSUME NEW x \in Requests, Exempt(x)' PROVE x # r /\ Exempt(x)
      OBVIOUS
    <3>1. LRQ_pending \in lrq'[x].flags /\ "scanned" \in own'[lrq'[x].owner].flags
      BY DEF Exempt, Pending, Has, Scanned
    <3>2. x # r /\ Pending(x) /\ lrq'[x].owner = lrq[x].owner
      BY <1>2, <3>1 DEF Pending, Has
    <3>3. lrq[x].owner \in Owners
      BY <3>2, Typed, FreeIsIdle
    <3> QED
      BY <1>4, <3>1, <3>2, <3>3 DEF Exempt, Scanned, NoneScanned
  <2>2. ASSUME NEW b \in Requests, NEW p \in Requests, lrq'[b].owner \in Owners,
               own'[lrq'[b].owner].pending = p, Exempt(p)'
        PROVE  b # r /\ own[lrq[b].owner].pending = p
    <3>1. own[lrq[b].owner].pending = p
      BY <1>2, <1>4, <2>2
    <3>2. Pending(p) /\ p # r
      BY <2>1, <2>2 DEF Exempt
    <3>3. ASSUME b = r PROVE FALSE
      <4>1. lrq[p].owner = w
        BY <1>1, <3>1, <3>2, <3>3, PendingNamed DEF QInv, Placed
      <4>2. own[w].waits = p
        BY <3>2, <4>1 DEF IInv, Control, PendingHasWaiter
      <4> QED
        BY <1>1, <3>2, <4>2
    <3> QED
      BY <3>1, <3>3
  <2>3. \A b \in Requests \ {r}, x \in Requests : NoWorse(b, x)
    BY <1>2 DEF NoWorse
  <2>4. \A x \in Requests \ {r} : lrq'[x].state = lrq[x].state
    BY <1>2
  <2> QED
    BY <1>2, <1>7, <2>1, <2>2, <2>3, <2>4, NoneNewlyHides DEF QInv
<1> QED
  BY <1>7, <1>8, <1>9, <1>10 DEF QInv

\* Or the waiter does not suit the lock: with LOCK_ordering the others stand
\* behind it and are not tried.
LEMMA OrderUnsuited ==
  ASSUME IInv, IInv', QInv, NEW r \in job.pend,
         lrq[r].ahead \cap job.pend = {}, own' = Wakened(lrq[r].owner),
         ~Compatible(lrq[r].requested,
                     IF lrq[r].state = LCK_none THEN lbl[lrq[r].lock].state
                     ELSE lock_state(CountDown(lbl[lrq[r].lock].counts, lrq[r].state))),
         job' = [job EXCEPT !.pend = AfterUnsuited(r)], UNCHANGED <<lrq, lbl, held>>
  PROVE  QInv'
<1> DEFINE l == lrq[r].lock
<1>1. /\ r \in Requests /\ l = job.lock /\ l \in Locks /\ lrq[r].owner \in Owners
  <2>1. r \in Requests /\ Pending(r) /\ l = job.lock
    BY Typed DEF IInv, Control, JobPending, JobType
  <2> QED
    BY <2>1, Typed, FreeIsIdle
<1>2. job'.pend = AfterUnsuited(r) /\ job'.lock = job.lock /\ job'.purge = job.purge
  BY Typed DEF JobType
<1>3. NoneScanned /\ \A p \in Owners : KeepsWait(p)
  BY <1>1, WakesOnly
<1>4. Still
  BY <1>2, <1>3 DEF Still, Same, Pending, Has
<1>5. Placed' /\ \A m \in Locks : Undisturbed(m)
  BY <1>4, StillFits DEF QInv
<1>6. Settled'
  <2> SUFFICES ASSUME LockOrdering \/ LevelsNest PROVE Settled'
    BY DEF Settled, LevelsNest, Used
  <2>1. /\ LockOrdering => job.pend = PendingOn(lrq, l) /\ job'.pend = {}
        /\ ~LockOrdering => job'.pend = job.pend \ {r}
    BY <1>1, <1>2 DEF QInv, Settled, AfterUnsuited
  <2>2. \A m \in Locks : SettledOn(m)
    BY DEF QInv, Settled
  <2>3. ASSUME NEW m \in Locks, m # l PROVE SettledOn(m)'
    <3>1. \A x \in PendingOn(lrq, m) : x \notin job.pend
      BY <1>1, <2>3 DEF PendingOn, IInv, Control, JobPending
    <3> QED
      BY <1>5, <2>2, <3>1, UndisturbedSettled
  <2>4. SettledOn(l)'
    <3> SUFFICES ASSUME NEW x \in PendingOn(lrq, l)
                 PROVE  /\ LevelsNest => lrq[x].state < lrq[x].requested
                        /\ \/ x \in job'.pend
                           \/ \E y \in Requests : lrq[y].lock = l /\ Uncleaned(y)'
                           \/ LockOrdering /\ lrq[x].ahead \cap PendingOn(lrq, l) # {}
                           \/ ~Compatible(lrq[x].requested, StateWithout(x))
      BY DEF SettledOn, StateWithout, OnLock, LevelsNest, Used
    <3>1. LevelsNest => lrq[x].state < lrq[x].requested
      BY <1>1, <2>2 DEF SettledOn
    <3>2. CASE x = r
      <4>1. lbl[l].state = lock_state(lbl[l].counts)
        BY <1>1 DEF IInv, Table, LockBlocksAgree
      <4> QED
        BY <3>1, <3>2, <4>1 DEF StateWithout, CountDown
    <3>3. CASE x # r /\ LockOrdering
      <4>1. x \in Requests /\ lrq[x].lock = l
        BY DEF PendingOn
      <4>2. r \in lrq[x].ahead \/ x \in lrq[r].ahead
        BY <1>1, <3>3, <4>1 DEF QInv, Placed, Lined
      <4> QED
        BY <2>1, <3>1, <3>3, <4>2
    <3>4. CASE x # r /\ ~LockOrdering
      <4>1. x \in job.pend => x \in job'.pend
        BY <2>1, <3>4
      <4>2. ASSUME NEW y \in OnLock(l), Uncleaned(y)
            PROVE  lrq[y].lock = l /\ Uncleaned(y)'
        BY <1>1, <1>5, <4>2 DEF Undisturbed, OnLock
      <4> QED
        BY <1>1, <2>2, <3>1, <3>4, <4>1, <4>2 DEF SettledOn, OnLock
    <3> QED
      BY <3>2, <3>3, <3>4
  <2> QED
    BY <2>1, <2>3, <2>4 DEF Settled
<1> QED
  BY <1>3, <1>4, <1>5, <1>6, StillTold, StillHidesNone DEF QInv

LEMMA OrderPostPending ==
  ASSUME IInv, IInv', QInv, post_pending
  PROVE  QInv'
<1>1. PICK r \in job.pend :
        LET q == lrq[r]
            c == CountDown(lbl[q.lock].counts, q.state)
            fits == Compatible(q.requested, IF q.state = LCK_none THEN lbl[q.lock].state
                                                                  ELSE lock_state(c))
        IN /\ q.ahead \cap job.pend = {}
           /\ own' = Wakened(q.owner)
           /\ \/ /\ fits
                 /\ lrq' = GrantedRequest(r)
                 /\ lbl' = [lbl EXCEPT ![q.lock] = GrantedLock(r, c, q.requested)]
                 /\ job' = [job EXCEPT !.pend = @ \ {r}]
              \/ /\ ~fits
                 /\ job' = [job EXCEPT !.pend = AfterUnsuited(r)]
                 /\ UNCHANGED <<lrq, lbl>>
           /\ UNCHANGED <<held, active>>
  BY DEF post_pending
<1>2. CASE lrq' = GrantedRequest(r) /\ job' = [job EXCEPT !.pend = @ \ {r}]
           /\ \A m \in Locks \ {lrq[r].lock} : lbl'[m] = lbl[m]
  BY <1>1, <1>2, OrderPosted
<1>3. CASE ~(lrq' = GrantedRequest(r) /\ job' = [job EXCEPT !.pend = @ \ {r}]
             /\ \A m \in Locks \ {lrq[r].lock} : lbl'[m] = lbl[m])
  BY <1>1, <1>3, OrderUnsuited, Typed
<1> QED
  BY <1>2, <1>3

\* purge_owner: the requests of the owner, and at last its waits.
LEMMA OrderPurge ==
  ASSUME IInv, IInv', QInv, purge_owner
  PROVE  QInv'
<1>1. PICK o \in job.purge :
        \/ \E r \in OwnedBy(o) :
             /\ lrq' = LrqWithout(r)
             /\ lbl' = LblWithout(r)
             /\ job' = [job EXCEPT !.lock = lrq[r].lock,
                                   !.pend = PendingOn(lrq', lrq[r].lock)]
             /\ Returns(r, LCK_none)
             /\ UNCHANGED own
        \/ /\ OwnedBy(o) = {}
           /\ own' = [own EXCEPT ![o] = OffOwner]
           /\ job' = [job EXCEPT !.purge = @ \ {o}]
           /\ UNCHANGED <<lrq, lbl, held>>
  BY DEF purge_owner
<1>2. o \in Owners /\ job.pend = {} /\ job \in JobType
  BY Typed DEF JobType, purge_owner
<1>3. ASSUME NEW r \in OwnedBy(o), lrq' = LrqWithout(r), lbl' = LblWithout(r),
             job' = [job EXCEPT !.lock = lrq[r].lock, !.pend = PendingOn(lrq', lrq[r].lock)],
             Returns(r, LCK_none), UNCHANGED own
      PROVE  QInv'
  <2>1. r \in Requests /\ lrq[r].owner = o /\ ~IsFree(r)
    BY <1>2, ConstantAssumption DEF OwnedBy, IsFree
  <2>2. /\ job'.lock = lrq[r].lock /\ job'.pend = PendingOn(lrq', lrq[r].lock)
        /\ job'.purge = job.purge
    BY <1>2, <1>3 DEF JobType
  <2>3. /\ held' \in [Requests -> Levels] /\ held'[r] = LCK_none
        /\ \A x \in Requests \ {r} : held'[x] = held[x]
    BY <1>3, <2>1, Typed DEF Returns, Levels, LCK_none
  <2>4. \A p \in Owners : own'[p].waits = r => p \in job'.purge
    <3> SUFFICES ASSUME NEW p \in Owners, own[p].waits = r PROVE p = o
      BY <1>3, <2>2
    <3> QED
      BY <2>1, ConstantAssumption DEF QInv, Placed, WaitsOwn
  <2>5. NoneScanned /\ \A p \in Owners : KeepsWait(p)
    BY <1>3 DEF NoneScanned, KeepsWait
  <2> QED
    BY <1>2, <1>3, <2>1, <2>2, <2>3, <2>4, <2>5, OrderLeft
<1>4. ASSUME OwnedBy(o) = {}, own' = [own EXCEPT ![o] = OffOwner],
             job' = [job EXCEPT !.purge = @ \ {o}], UNCHANGED <<lrq, lbl, held>>
      PROVE  QInv'
  <2>1. /\ own'[o] = OffOwner /\ \A p \in Owners \ {o} : own'[p] = own[p]
        /\ job'.pend = {} /\ job'.purge = job.purge \ {o}
        /\ \A x \in Requests : lrq[x].owner # o
        /\ \A x \in Requests : Same(x) /\ lrq'[x].ahead = lrq[x].ahead
    BY <1>2, <1>4, Typed DEF OwnedBy, JobType, Same, Pending, Has
  <2>2. /\ \A p \in Owners : KeepsWait(p) \/ EndsWait(p)
        /\ \A p \in Owners : own'[p].pending \in {own[p].pending, NoRequest}
        /\ NoneScanned
        /\ own'[o].waits = NoRequest
    BY <2>1 DEF KeepsWait, EndsWait, NoneScanned, OffOwner
  <2>3. \A x \in Requests : ~IsFree(x) =>
          Waits(x)' = Waits(x) /\ own'[lrq'[x].owner].pc = own[lrq[x].owner].pc
    BY <1>4, <2>1, Typed DEF Waits
  <2>4. Placed'
    <3>1. WaitsOwn'
      BY <1>4, <2>1, <2>2, WaitersStay DEF QInv, Placed
    <3>2. Lined'
      BY <1>4, LineStays DEF QInv, Placed
    <3>3. \A x \in Requests : FitStays(x)
      BY <2>1, <2>3 DEF FitStays
    <3>4. WaitsFit'
      BY <3>3, FitsStay DEF QInv, Placed, WaitsFit, IsFree, Pending, Has
    <3> QED
      BY <3>1, <3>2, <3>4 DEF Placed
  <2>5. Settled'
    <3>1. \A x \in Requests : Uncleaned(x) => Waits(x)'
      BY <2>3, ConstantAssumption DEF Uncleaned, Waits, IsFree
    <3>2. \A l \in Locks : Undisturbed(l)
      BY <1>4, <2>1, <3>1, FarFromLock
    <3> QED
      BY <1>2, <2>1, <3>2, UndisturbedStays DEF QInv
  <2>6. Told'
    BY <1>4, <2>3 DEF QInv, Told, LevelsNest, Used, IsFree, Pending, Has
  <2>7. NoneHides'
    BY <1>4, <2>2, <2>4, LevelsStayHidesNone DEF QInv, Pending, Has
  <2> QED
    BY <2>4, <2>5, <2>6, <2>7 DEF QInv
<1> QED
  BY <1>1, <1>3, <1>4

LEMMA OrderCreateOwner ==
  ASSUME IInv, IInv', QInv, create_owner
  PROVE  QInv'
<1> DEFINE o == active
<1>1. /\ o \in Owners /\ own[o].pc = "off" /\ job \in JobType /\ job.pend = {}
      /\ UNCHANGED <<lrq, lbl, held>>
  BY DEF create_owner, Quiet, IInv, Control, JobFits
<1>2. /\ own'[o] = [OffOwner EXCEPT !.pc = "run"] /\ \A p \in Owners \ {o} : own'[p] = own[p]
      /\ job'.pend = job.pend /\ job'.purge = job.purge
  BY <1>1, Typed DEF create_owner, JobType
<1>3. own[o].waits = NoRequest /\ own[o].pending = NoRequest
  BY <1>1, RunsIdle DEF QInv, Placed
<1>4. \A p \in Owners : KeepsWait(p) /\ ("scanned" \in own'[p].flags => "scanned" \in own[p].flags)
  BY <1>1, <1>2, <1>3 DEF KeepsWait, OffOwner
<1>5. Still /\ NoneScanned
  BY <1>1, <1>2, <1>4 DEF Still, Same, NoneScanned, Pending, Has
<1> QED
  BY <1>1, <1>2, <1>5, StillKeeps

-----------------------------------------------------------------------------
(* Every step.                                                             *)

LEMMA OrderStutters ==
  ASSUME IInv, IInv', QInv, UNCHANGED vars
  PROVE  QInv'
<1>1. UNCHANGED <<lrq, lbl, own, held, job>>
  BY DEF vars
<1>2. Still /\ NoneScanned
  BY <1>1 DEF Still, Same, KeepsWait, NoneScanned, Pending, Has
<1> QED
  BY <1>1, <1>2, StillKeeps

\* At the start the table is empty.
LEMMA InitOrdered == Init => QInv
<1> SUFFICES ASSUME Init PROVE QInv
  OBVIOUS
<1>1. /\ \A r \in Requests : lrq[r] = FreeRequest /\ held[r] = LCK_none
      /\ \A o \in Owners : own[o] = OffOwner
      /\ job.pend = {}
  BY DEF Init, NoJob
<1>2. \A r \in Requests : /\ IsFree(r) /\ ~Pending(r) /\ lrq[r].state = LCK_none
                          /\ lrq[r].requested = LCK_none /\ lrq[r].lock = NoLock
                          /\ lrq[r].ahead = {}
  BY <1>1 DEF FreeRequest, IsFree, Pending, Has
<1>3. WaitsOwn
  BY <1>1 DEF WaitsOwn, OffOwner
<1>4. Lined
  BY <1>2, ConstantAssumption DEF Lined
<1>5. WaitsFit
  BY <1>2 DEF WaitsFit
<1>6. Settled
  <2>1. \A l \in Locks : PendingOn(lrq, l) = {}
    BY <1>2 DEF PendingOn, Pending, Has
  <2> QED
    BY <1>1, <2>1 DEF Settled, SettledOn
<1>7. Told
  <2>1. LCK_none \in Used
    BY DEF Used, Levels, LCK_none, LCK_PR, LCK_SW
  <2> QED
    BY <1>1, <1>2, <2>1 DEF Told
<1>8. NoneHides
  BY <1>2 DEF NoneHides, Exempt
<1> QED
  BY <1>3, <1>4, <1>5, <1>6, <1>7, <1>8 DEF QInv, Placed

\* One lemma per action, as in NextKeeps.
LEMMA NextKeepsOrder == IInv /\ QInv /\ [Next]_vars => QInv'
<1> SUFFICES ASSUME IInv, QInv, [Next]_vars PROVE QInv'
  OBVIOUS
<1>0. IInv'
  BY NextKeeps
<1>1. CASE Section
  BY <1>0, <1>1, OrderPostPending, OrderPurge, OrderPostBlockage, OrderCreateOwner,
     OrderDeadlockScan, OrderRelease DEF Section
<1>2. CASE LOCK_manager
  BY <1>0, <1>2, OrderRelease
<1>3. ASSUME NEW o \in Owners, NEW l \in Locks, NEW r \in Requests, NEW level \in EnqLevels,
             LOCK_enq(o, l, r, level)
      PROVE  QInv'
  BY <1>0, <1>3, OrderEnqGranted, OrderEnqDenied, OrderEnqWaits DEF LOCK_enq
<1>4. ASSUME NEW o \in Owners, GiveUp(o) PROVE QInv'
  BY <1>0, <1>4, OrderDeq, OrderDowngrade DEF GiveUp
<1>5. ASSUME NEW o \in Owners,
             \/ blocking_action(o) \/ blocking_action_ignored(o) \/ AstDeferred(o)
             \/ AstReturns(o) \/ AstDone(o) \/ Dies(o) \/ WaitWokenUp(o) \/ WaitScans(o)
             \/ LOCK_init(o) \/ LOCK_fini(o)
      PROVE  QInv'
  BY <1>0, <1>5, ProcessStill, StillKeeps
<1>6. ASSUME NEW o \in Owners, Call(o) PROVE QInv'
  BY <1>0, <1>3, <1>5, <1>6, OrderConvert DEF Call
<1>7. ASSUME NEW o \in Owners, AstTaken(o) \/ WaitEnds(o) \/ WaitDenied(o) \/ WaitTimesOut(o)
      PROVE  QInv'
  BY <1>0, <1>7, OrderAstTaken, OrderWaitEnds, OrderWaitDenied, OrderWaitTimesOut
<1>8. CASE UNCHANGED vars
  BY <1>0, <1>8, OrderStutters
<1> QED
  BY <1>1, <1>2, <1>4, <1>5, <1>6, <1>7, <1>8 DEF Next, Handler, Wait

-----------------------------------------------------------------------------
(* Nobody is overtaken.                                                    *)

\* Request r is not granted for the first time with a waiter ahead of it.
InTurn(r) ==
  lrq[r].state = LCK_none /\ lrq'[r].state # LCK_none
    => ~ \E x \in lrq'[r].ahead : LRQ_pending \in lrq'[x].flags

\* Most steps grant nothing to a request that has nothing.
GrantsNothing == \A r \in Requests : lrq[r].state = LCK_none => lrq'[r].state = LCK_none

LEMMA EnqInTurn ==
  ASSUME IInv, QInv, LockOrdering, NEW o \in Owners, NEW l \in Locks, NEW r \in Requests,
         NEW level \in EnqLevels, LOCK_enq(o, l, r, level), NEW y \in Requests
  PROVE  InTurn(y)
<1>1. level \in 2..6 /\ lrq \in [Requests -> RequestType]
  BY Typed, ConstantAssumption
<1>2. CASE EnqGranted(o, l, r, level)
  <2>1. /\ lrq'[r].ahead = OnLock(l) /\ \A x \in Requests \ {r} : lrq'[x] = lrq[x]
        /\ r \notin OnLock(l)
    <3>1. r \notin OnLock(l)
      BY FreeIsIdle DEF LOCK_enq, OnLock
    <3> QED
      BY <1>1, <1>2, <3>1 DEF EnqGranted, NewRequest
  <2>2. CASE y # r
    BY <2>1, <2>2 DEF InTurn
  <2>3. CASE y = r
    <3>1. PendingOn(lrq, l) = {}
      <4>1. lbl[l].pending = Cardinality(PendingOn(lrq, l)) /\ IsFiniteSet(PendingOn(lrq, l))
        BY ConstantAssumption, FS_Subset DEF IInv, Table, LockBlocksAgree, PendingOn
      <4>2. CASE OnLock(l) = {}
        BY <4>2 DEF OnLock, PendingOn
      <4>3. CASE GrantsAtOnce(l, level)
        BY <1>1, <4>1, <4>3, FS_EmptySet DEF GrantsAtOnce, LCK_null
      <4> QED
        BY <1>2, <4>2, <4>3 DEF EnqGranted
    <3>2. \A x \in OnLock(l) : LRQ_pending \in lrq'[x].flags => x \in PendingOn(lrq, l)
      BY <2>1 DEF OnLock, PendingOn
    <3> QED
      BY <2>1, <2>3, <3>1, <3>2 DEF InTurn
  <2> QED
    BY <2>2, <2>3
<1>3. CASE EnqDenied(o, l, r, level)
  BY <1>3 DEF EnqDenied, InTurn
<1>4. CASE EnqWaits(o, l, r, level)
  <2>1. GrantsNothing
    BY <1>1, <1>4 DEF GrantsNothing, EnqWaits, StartWait, NewRequest, RequestType
  <2> QED
    BY <2>1 DEF GrantsNothing, InTurn
<1> QED
  BY <1>2, <1>3, <1>4 DEF LOCK_enq

\* post_pending takes the waiters in the order of their queue.
LEMMA PostedInTurn ==
  ASSUME IInv, QInv, LockOrdering, post_pending, NEW y \in Requests
  PROVE  InTurn(y)
<1>1. PICK r \in job.pend : /\ lrq[r].ahead \cap job.pend = {}
                            /\ UNCHANGED lrq \/ lrq' = GrantedRequest(r)
  BY DEF post_pending
<1>2. CASE UNCHANGED lrq
  BY <1>2 DEF InTurn
<1>3. CASE lrq' = GrantedRequest(r)
  <2>1. r \in Requests /\ Pending(r) /\ lrq[r].lock = job.lock
    BY Typed DEF IInv, Control, JobPending, JobType
  <2>2. /\ \A x \in Requests \ {r} : lrq'[x] = lrq[x]
        /\ lrq'[r].ahead = lrq[r].ahead /\ LRQ_pending \notin lrq'[r].flags
    BY <1>3, <2>1, Typed DEF GrantedRequest, RequestType
  <2>3. CASE y # r
    BY <2>2, <2>3 DEF InTurn
  <2>4. CASE y = r
    <3> SUFFICES ASSUME NEW x \in lrq[r].ahead, LRQ_pending \in lrq'[x].flags
                 PROVE  FALSE
      BY <2>2, <2>4 DEF InTurn
    <3>1. x \in Requests /\ lrq[x].lock = job.lock
      BY <2>1, AheadOnLock DEF QInv, Placed
    <3>2. LRQ_pending \in lrq[x].flags
      BY <2>2, <3>1
    <3>3. job.pend = PendingOn(lrq, job.lock)
      BY DEF QInv, Settled
    <3> QED
      BY <1>1, <3>1, <3>2, <3>3 DEF PendingOn
  <2> QED
    BY <2>3, <2>4
<1> QED
  BY <1>1, <1>2, <1>3

LEMMA WithoutGrantsNothing ==
  ASSUME IInv, NEW r, lrq' = LrqWithout(r)
  PROVE  GrantsNothing
BY Typed DEF LrqWithout, FreeRequest, RequestType, GrantsNothing

\* A conversion starts from a level that was granted.
LEMMA CallsGrantNothing ==
  ASSUME IInv, QInv, NEW o \in Owners, NEW r \in Requests,
         \/ \E level \in ConvLevels : LOCK_convert(o, r, level)
         \/ LOCK_deq(o, r) \/ LOCK_downgrade(o, r)
  PROVE  GrantsNothing
<1>1. lrq[r].state # LCK_none
  <2>1. lrq[r].owner = o /\ (MainLine(o) \/ InAst(o, r))
    BY DEF LOCK_convert, LOCK_deq, LOCK_downgrade
  <2>2. own[o].waits # r
    <3>1. CASE MainLine(o)
      BY <3>1, RunsIdle, ConstantAssumption DEF MainLine, QInv, Placed
    <3>2. CASE InAst(o, r)
      BY <3>2 DEF InAst
    <3> QED
      BY <2>1, <3>1, <3>2
  <2> QED
    BY <2>1, <2>2, ConstantAssumption DEF QInv, Placed, WaitsFit, Waits, IsFree
<1>2. CASE lrq' = LrqWithout(r)
  BY <1>2, WithoutGrantsNothing
<1>3. CASE lrq' # LrqWithout(r)
  <2>1. \A x \in Requests \ {r} : lrq'[x] = lrq[x]
    BY <1>3, Typed DEF LOCK_convert, LOCK_deq, LOCK_downgrade, Dequeued, ConvertGranted,
       ConvertDenied, ConvertWaits, StartWait
  <2> QED
    BY <1>1, <2>1 DEF GrantsNothing
<1> QED
  BY <1>2, <1>3

LEMMA WaitsGrantNothing ==
  ASSUME IInv, NEW o \in Owners, AstTaken(o) \/ WaitDenied(o) \/ WaitTimesOut(o)
  PROVE  GrantsNothing
<1>1. CASE AstTaken(o)
  <2>1. PICK r \in own_blocks(o) :
          lrq' = [lrq EXCEPT ![r].flags = Uchar((@ \ {LRQ_blocking}) \cup {LRQ_blocking_seen})]
    BY <1>1 DEF AstTaken
  <2> QED
    BY <2>1, Typed DEF RequestType, GrantsNothing
<1>2. CASE WaitDenied(o)
  <2>1. CASE lrq' = LrqWithout(own[o].waits)
    BY <2>1, WithoutGrantsNothing
  <2>2. CASE lrq' # LrqWithout(own[o].waits)
    BY <1>2, <2>2, Typed DEF WaitDenied, RequestType, GrantsNothing
  <2> QED
    BY <2>1, <2>2
<1>3. CASE WaitTimesOut(o)
  BY <1>3, Typed DEF WaitTimesOut, RequestType, GrantsNothing
<1> QED
  BY <1>1, <1>2, <1>3

LEMMA SectionGrantsNothing ==
  ASSUME IInv, purge_owner \/ post_blockage \/ create_owner \/ deadlock_scan
                 \/ release \/ release_mutex
  PROVE  GrantsNothing
<1>1. CASE UNCHANGED lrq
  BY <1>1 DEF GrantsNothing
<1>2. ASSUME NEW r, lrq' = LrqWithout(r) PROVE GrantsNothing
  BY <1>2, WithoutGrantsNothing
<1>3. CASE post_blockage
  BY <1>3, Typed DEF post_blockage, RequestType, GrantsNothing
<1>4. ASSUME NEW v, lrq' = [lrq EXCEPT ![v].flags = (@ \ {LRQ_pending}) \cup {LRQ_rejected}]
      PROVE  GrantsNothing
  BY <1>4, Typed DEF RequestType, GrantsNothing
<1> QED
  BY <1>1, <1>2, <1>3, <1>4 DEF purge_owner, create_owner, deadlock_scan, RejectVictim,
     release, release_mutex

\* The steps that leave the requests alone.
LEMMA OthersGrantNothing ==
  ASSUME \/ LOCK_manager \/ UNCHANGED vars
         \/ \E o \in Owners :
              \/ LOCK_init(o) \/ LOCK_fini(o) \/ blocking_action(o) \/ AstReturns(o)
              \/ AstDone(o) \/ blocking_action_ignored(o) \/ AstDeferred(o) \/ WaitEnds(o)
              \/ WaitWokenUp(o) \/ WaitScans(o) \/ Dies(o)
  PROVE  GrantsNothing
BY DEF LOCK_manager, LOCK_init, LOCK_fini, blocking_action, AstReturns, AstDone,
   blocking_action_ignored, AstDeferred, WaitEnds, WaitWokenUp, WaitScans, Dies, vars,
   GrantsNothing

LEMMA NextInTurn ==
  ASSUME IInv, QInv, LockOrdering, [Next]_vars, NEW y \in Requests
  PROVE  InTurn(y)
<1>1. CASE GrantsNothing
  BY <1>1 DEF GrantsNothing, InTurn
<1>2. CASE post_pending
  BY <1>2, PostedInTurn
<1>3. ASSUME NEW o \in Owners, NEW l \in Locks, NEW r \in Requests, NEW level \in EnqLevels,
             LOCK_enq(o, l, r, level)
      PROVE  InTurn(y)
  BY <1>3, EnqInTurn
<1> QED
  BY <1>1, <1>2, <1>3, CallsGrantNothing, WaitsGrantNothing, SectionGrantsNothing,
     OthersGrantNothing
  DEF Next, Section, Call, GiveUp, Handler, Wait

-----------------------------------------------------------------------------
(* The theorems.                                                           *)

\* The invariant holds in every reachable state.
THEOREM OrderInvariance == Spec => [](IInv /\ QInv)
<1>1. Init => IInv /\ QInv
  BY InitHolds, InitOrdered
<1>2. IInv /\ QInv /\ [Next]_vars => (IInv /\ QInv)'
  BY NextKeeps, NextKeepsOrder
<1> QED
  BY <1>1, <1>2, PTL DEF Spec

\* With LOCK_ordering, or if callers do not use both LCK_PR and LCK_SW: whatever grants,
\* downgrades, releases, rejections, timeouts and purges happen, the mutex is never free
\* with a waiter that suits its lock, the first one with LOCK_ordering, and nobody left
\* to run post_pending for it (post_pending, wait_for_request, purge_owner). Without
\* both, post_pending may grant a conversion that lets in one it has passed.
THEOREM NobodyForgotten ==
  LockOrdering \/ LevelsNest => (Spec => []NoForgottenGrant)
<1> SUFFICES ASSUME LockOrdering \/ LevelsNest PROVE Spec => []NoForgottenGrant
  OBVIOUS
<1>1. IInv /\ QInv => NoForgottenGrant
  <2> SUFFICES ASSUME IInv, QInv, active = NoOwner, NEW l \in Locks
               PROVE  SettledOn(l) /\ job.pend = {}
    BY DEF NoForgottenGrant, SettledOn
  <2> QED
    BY NoWork DEF QInv, Settled
<1> QED
  BY <1>1, OrderInvariance, PTL

\* Under LOCK_ordering no new request is granted with a waiter ahead of it
\* (grant_or_que, post_pending).
THEOREM GrantedInTurn == Spec => NoOvertaking
<1>1. IInv /\ QInv /\ [Next]_vars => [LockOrdering => \A r \in Requests : InTurn(r)]_vars
  BY NextInTurn
<1> QED
  BY <1>1, OrderInvariance, PTL DEF Spec, NoOvertaking, InTurn

\* A process in its main line knows the level of each of its requests, whatever the
\* AST routines gave up meanwhile, if the callers do not use both LCK_PR and LCK_SW:
\* then LOCK_downgrade may return a level that convert refused.
THEOREM CallersKnow == LevelsNest => (Spec => []CallerViewAgrees)
<1> SUFFICES ASSUME LevelsNest PROVE Spec => []CallerViewAgrees
  OBVIOUS
<1>1. IInv /\ QInv => CallerViewAgrees
  <2> SUFFICES ASSUME IInv, QInv, NEW o \in Owners, MainLine(o), NEW r \in OwnedBy(o)
               PROVE  held[r] = lrq[r].state
    BY DEF CallerViewAgrees
  <2>1. r \in Requests /\ lrq[r].owner = o /\ ~IsFree(r)
    BY ConstantAssumption DEF OwnedBy, IsFree
  <2>2. ~Waits(r)
    BY <2>1, RunsIdle, ConstantAssumption DEF MainLine, Waits, QInv, Placed
  <2> QED
    BY <2>1, <2>2 DEF QInv, Told
<1> QED
  BY <1>1, OrderInvariance, PTL

\* The scans that exempted their owners hide no deadlock: with the mutex free every
\* cycle of waits has a member whose owner will scan (deadlock_scan, OWN_scanned).
THEOREM NoDeadlockHides == Spec => []DeadlockStaysVisible
<1>1. QInv => DeadlockStaysVisible
  BY DEF QInv, NoneHides, Exempt, DeadlockStaysVisible
<1> QED
  BY <1>1, OrderInvariance, PTL
=============================================================================
