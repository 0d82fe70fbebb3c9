------------------------- MODULE LockManagerProofs -------------------------
(***************************************************************************)
(* Theorems about LockManager, for any number of processes, locks and      *)
(* requests: the lock blocks always agree with their requests, and two     *)
(* requests are never granted at levels the matrix forbids together.       *)
(***************************************************************************)
EXTENDS LockManager, FiniteSetTheorems, TLAPS

-----------------------------------------------------------------------------
(* The inductive invariant.                                                *)

\* A free request block is clean, one in use belongs to a lock of the table.
RequestsLinked ==
  \A r \in Requests : IF lrq[r].owner = NoOwner THEN lrq[r] = FreeRequest
                                                ELSE lrq[r].lock \in Locks

\* post_pending has only pending requests of its lock before it.
JobPending ==
  \A r \in job.pend : Pending(r) /\ lrq[r].lock = job.lock

\* A process inside wait_for_request waits for a request of its own.
WaiterOwns ==
  \A o \in Owners : own[o].pc \in {"wait", "denied"} =>
    own[o].waits \in Requests /\ lrq[own[o].waits].owner = o

\* Work is left only to an active owner that does not run a blocking action.
JobHasOwner ==
  (active = NoOwner \/ (active \in Owners /\ own[active].handler = "pop"))
    => job = NoJob

\* Only the dead are purged, and an owner that leaves.
PurgeSound ==
  \A o \in job.purge : own[o].pc = "dead" \/ (o = active /\ own[o].pc = "run")

\* Blocking actions run only in processes that are there.
HandlerAlive == \A o \in Owners : own[o].pc \in {"off", "dead"} => own[o].handler = "off"

\* A process that is not attached owns nothing.
OffOwnsNothing == \A r \in Requests : ~IsFree(r) => own[lrq[r].owner].pc # "off"

\* A deadlock scan is the business of a waiter, a release of a living process; a
\* new owner block is made when the former one is gone.
JobFits ==
  /\ job.next = "init" =>
       /\ active \in Owners
       /\ own[active].pc = "off" \/ (own[active].pc = "dead" /\ active \in job.purge)
  /\ job.next = "scan" => active \in Owners /\ own[active].pc = "wait"
  /\ job.next = "release" =>
       /\ active \in Owners /\ own[active].pc \notin {"off", "dead"}
       /\ job.purge = {}

\* The part of the invariant about the lock table ...
Table ==
  /\ lrq \in [Requests -> RequestType] /\ lbl \in [Locks -> LockType]
  /\ RequestsLinked /\ LockBlocksAgree /\ GrantedCompatible

\* ... and the part about the processes and the critical section.
Control ==
  /\ own \in [Owners -> OwnerType] /\ held \in [Requests -> Levels]
  /\ active \in Owners \cup {NoOwner, Manager} /\ job \in JobType
  /\ JobPending /\ WaiterOwns /\ JobHasOwner /\ PurgeSound
  /\ HandlerAlive /\ OffOwnsNothing /\ JobFits
  /\ PendingHasWaiter /\ OneBlockingAction

IInv == Table /\ Control

-----------------------------------------------------------------------------
(* Levels.                                                                 *)

\* Every request suits one that holds nothing (row and column LCK_none).
LEMMA NoneIsCompatible ==
  \A a : Compatible(a, LCK_none)
BY DEF Compatible, CompatibleWith, Levels, LCK_none, LCK_null, LCK_SR, LCK_PR,
       LCK_SW, LCK_PW, LCK_EX

\* The matrix is symmetric.
LEMMA CompatibleSymmetric ==
  \A a, b \in Levels : Compatible(a, b) => Compatible(b, a)
BY DEF Compatible, CompatibleWith, Levels, LCK_none, LCK_null, LCK_SR, LCK_PR,
       LCK_SW, LCK_PW, LCK_EX

\* What suits the highest level suits the levels below it that coexist with it:
\* why lbl_state alone decides a grant.
LEMMA HighestDecides ==
  \A q, h, s \in Levels :
    Compatible(q, h) /\ Compatible(h, s) /\ s <= h => Compatible(q, s)
BY DEF Compatible, CompatibleWith, Levels, LCK_none, LCK_null, LCK_SR, LCK_PR,
       LCK_SW, LCK_PW, LCK_EX

\* lock_state is the highest level with a count, LCK_none when there is none.
LEMMA LockStateHighest ==
  ASSUME NEW c \in [Granted -> Nat]
  PROVE  /\ lock_state(c) \in Levels
         /\ lock_state(c) # LCK_none => lock_state(c) \in Granted /\ c[lock_state(c)] # 0
         /\ \A n \in Granted : n > lock_state(c) => c[n] = 0
<1>1. CASE \A n \in Granted : c[n] = 0
  BY <1>1 DEF lock_state, Levels, LCK_none
<1>2. CASE \E n \in Granted : c[n] # 0
  <2> DEFINE Top(n) == c[n] # 0 /\ \A m \in Granted : m > n => c[m] = 0
  <2>1. \E n \in Granted : Top(n)
    <3>1. CASE c[6] # 0
      BY <3>1 DEF Granted
    <3>2. CASE c[6] = 0 /\ c[5] # 0
      BY <3>2 DEF Granted
    <3>3. CASE c[6] = 0 /\ c[5] = 0 /\ c[4] # 0
      BY <3>3 DEF Granted
    <3>4. CASE c[6] = 0 /\ c[5] = 0 /\ c[4] = 0 /\ c[3] # 0
      BY <3>4 DEF Granted
    <3>5. CASE c[6] = 0 /\ c[5] = 0 /\ c[4] = 0 /\ c[3] = 0 /\ c[2] # 0
      BY <3>5 DEF Granted
    <3>6. CASE c[6] = 0 /\ c[5] = 0 /\ c[4] = 0 /\ c[3] = 0 /\ c[2] = 0 /\ c[1] # 0
      BY <3>6 DEF Granted
    <3> QED
      BY <1>2, <3>1, <3>2, <3>3, <3>4, <3>5, <3>6 DEF Granted
  <2>2. lock_state(c) = CHOOSE n \in Granted : Top(n)
    BY <1>2 DEF lock_state
  <2>3. lock_state(c) \in Granted /\ Top(lock_state(c))
    BY <2>1, <2>2
  <2> QED
    BY <2>3 DEF Levels, Granted, LCK_none
<1> QED
  BY <1>1, <1>2

\* It depends only on which counts are zero.
LEMMA LockStateSame ==
  ASSUME NEW c \in [Granted -> Nat], NEW d \in [Granted -> Nat],
         \A n \in Granted : c[n] = 0 <=> d[n] = 0
  PROVE  lock_state(c) = lock_state(d)
BY LockStateHighest DEF Levels, Granted, LCK_none

-----------------------------------------------------------------------------
(* Counting.                                                               *)

Others(r, l, n)  == {x \in Requests \ {r} : lrq[x].lock = l /\ lrq[x].state = n}
OtherPending(r, l) == {x \in Requests \ {r} : lrq[x].lock = l /\ Pending(x)}
Ones(P) == IF P THEN 1 ELSE 0

LEMMA AddOne ==
  ASSUME NEW S, IsFiniteSet(S), NEW r, r \notin S
  PROVE  Cardinality(S \cup {r}) = Cardinality(S) + 1
BY FS_AddElement

\* lbl_counts and lbl_pending_lrq_count, with request r taken out, count the others.
LEMMA CountsOfOthers ==
  ASSUME Table, NEW r \in Requests, NEW l \in Locks, lrq[r].lock = l \/ IsFree(r)
  PROVE  /\ CountDown(lbl[l].counts, lrq[r].state) \in [Granted -> Nat]
         /\ \A n \in Granted : /\ IsFiniteSet(Others(r, l, n))
                               /\ CountDown(lbl[l].counts, lrq[r].state)[n]
                                    = Cardinality(Others(r, l, n))
         /\ IsFiniteSet(OtherPending(r, l))
         /\ lbl[l].pending - Ones(Pending(r)) = Cardinality(OtherPending(r, l))
<1> DEFINE c == CountDown(lbl[l].counts, lrq[r].state)
<1>1. lrq[r] \in RequestType /\ lbl[l] \in LockType
  BY DEF Table
<1>2. lrq[r].lock # l => lrq[r].state = LCK_none /\ ~Pending(r)
  BY ConstantAssumption DEF Table, RequestsLinked, IsFree, FreeRequest, Pending, Has
<1>3. IsFiniteSet(Requests)
  BY ConstantAssumption
<1>4. ASSUME NEW n \in Granted
      PROVE  IsFiniteSet(Others(r, l, n)) /\ c[n] = Cardinality(Others(r, l, n))
             /\ c[n] \in Nat
  <2>1. IsFiniteSet(Others(r, l, n)) /\ Cardinality(Others(r, l, n)) \in Nat
    BY <1>3, FS_Subset, FS_CardinalityType DEF Others
  <2>2. lbl[l].counts[n] = Cardinality(HeldAt(l, n))
    BY DEF Table, LockBlocksAgree
  <2>3. CASE lrq[r].lock = l /\ lrq[r].state = n
    <3>1. HeldAt(l, n) = Others(r, l, n) \cup {r} /\ r \notin Others(r, l, n)
      BY <2>3 DEF HeldAt, OnLock, Others
    <3>2. Cardinality(HeldAt(l, n)) = Cardinality(Others(r, l, n)) + 1
      BY <2>1, <3>1, AddOne
    <3> QED
      BY <1>1, <2>1, <2>2, <2>3, <3>2 DEF CountDown, LockType, Granted, LCK_none
  <2>4. CASE ~(lrq[r].lock = l /\ lrq[r].state = n)
    <3>1. HeldAt(l, n) = Others(r, l, n)
      BY <2>4 DEF HeldAt, OnLock, Others
    <3>2. lrq[r].state # n
      BY <1>2, <2>4 DEF Granted, LCK_none
    <3> QED
      BY <1>1, <2>1, <2>2, <3>1, <3>2 DEF CountDown, LockType
  <2> QED
    BY <2>3, <2>4
<1>5. c \in [Granted -> Nat]
  <2>1. c = [n \in Granted |-> c[n]]
    BY <1>1 DEF CountDown, LockType
  <2> QED
    BY <1>4, <2>1
<1>6. IsFiniteSet(OtherPending(r, l)) /\ Cardinality(OtherPending(r, l)) \in Nat
  BY <1>3, FS_Subset, FS_CardinalityType DEF OtherPending
<1>7. lbl[l].pending = Cardinality(PendingOn(lrq, l))
  BY DEF Table, LockBlocksAgree
<1>8. lbl[l].pending - Ones(Pending(r)) = Cardinality(OtherPending(r, l))
  <2>1. CASE Pending(r)
    <3>1. /\ PendingOn(lrq, l) = OtherPending(r, l) \cup {r}
          /\ r \notin OtherPending(r, l)
      BY <1>2, <2>1 DEF PendingOn, OtherPending, Pending, Has
    <3> QED
      BY <1>6, <1>7, <2>1, <3>1, AddOne DEF Ones
  <2>2. CASE ~Pending(r)
    <3>1. PendingOn(lrq, l) = OtherPending(r, l)
      BY <2>2 DEF PendingOn, OtherPending, Pending, Has
    <3> QED
      BY <1>6, <1>7, <2>2, <3>1 DEF Ones
  <2> QED
    BY <2>1, <2>2
<1> QED
  BY <1>4, <1>5, <1>6, <1>8

\* The block of lock l after request r became q.
BlockAfter(r, l, q) ==
  LET c == CountUp(CountDown(lbl[l].counts, lrq[r].state), q.state)
  IN [counts  |-> c, state |-> lock_state(c),
      pending |-> lbl[l].pending - Ones(Pending(r)) + Ones(LRQ_pending \in q.flags)]

\* The other requests keep their lock, their level and their place among the waiters.
SameBeside(r) ==
  \A x \in Requests \ {r} : /\ lrq'[x].lock = lrq[x].lock
                            /\ lrq'[x].state = lrq[x].state
                            /\ LRQ_pending \in lrq'[x].flags <=> Pending(x)

\* One request changes and its lock block follows: the counts still agree.
LEMMA BlockFollows ==
  ASSUME Table, NEW r \in Requests, NEW l \in Locks, lrq[r].lock = l \/ IsFree(r),
         lrq' \in [Requests -> RequestType], SameBeside(r),
         lrq'[r].lock = l \/ lrq'[r] = FreeRequest,
         lbl' = [lbl EXCEPT ![l] = BlockAfter(r, l, lrq'[r])]
  PROVE  lbl' \in [Locks -> LockType] /\ LockBlocksAgree'
<1> DEFINE d == CountDown(lbl[l].counts, lrq[r].state)
           c == CountUp(d, lrq'[r].state)
           b == [counts  |-> c, state |-> lock_state(c),
                 pending |-> lbl[l].pending - Ones(Pending(r))
                               + Ones(LRQ_pending \in lrq'[r].flags)]
<1>0. lbl' = [lbl EXCEPT ![l] = b]
  BY DEF BlockAfter
<1>1. /\ d \in [Granted -> Nat]
      /\ \A n \in Granted : IsFiniteSet(Others(r, l, n)) /\ d[n] = Cardinality(Others(r, l, n))
      /\ IsFiniteSet(OtherPending(r, l))
      /\ lbl[l].pending - Ones(Pending(r)) = Cardinality(OtherPending(r, l))
  BY CountsOfOthers
<1>2. lrq'[r] \in RequestType
  OBVIOUS
<1>3. lrq'[r].lock # l => lrq'[r].state = LCK_none /\ LRQ_pending \notin lrq'[r].flags
  BY DEF FreeRequest
<1>4. c \in [Granted -> Nat]
  BY <1>1, <1>2 DEF CountUp, Granted, Levels, LCK_none, RequestType
<1>5. ASSUME NEW n \in Granted PROVE c[n] = Cardinality(HeldAt(l, n)')
  <2>1. CASE lrq'[r].lock = l /\ lrq'[r].state = n
    <3>1. HeldAt(l, n)' = Others(r, l, n) \cup {r} /\ r \notin Others(r, l, n)
      BY <2>1 DEF HeldAt, OnLock, Others, SameBeside
    <3> QED
      BY <1>1, <2>1, <3>1, AddOne DEF CountUp, Granted, LCK_none
  <2>2. CASE ~(lrq'[r].lock = l /\ lrq'[r].state = n)
    <3>1. HeldAt(l, n)' = Others(r, l, n)
      BY <2>2 DEF HeldAt, OnLock, Others, SameBeside
    <3>2. lrq'[r].state # n
      BY <1>3, <2>2 DEF Granted, LCK_none
    <3> QED
      BY <1>1, <3>1, <3>2 DEF CountUp
  <2> QED
    BY <2>1, <2>2
<1>6. b.pending = Cardinality(PendingOn(lrq', l)) /\ b.pending \in Nat
  <2>0. Cardinality(OtherPending(r, l)) \in Nat
    BY <1>1, FS_CardinalityType
  <2>1. CASE LRQ_pending \in lrq'[r].flags
    <3>1. /\ PendingOn(lrq', l) = OtherPending(r, l) \cup {r}
          /\ r \notin OtherPending(r, l)
      BY <1>3, <2>1 DEF PendingOn, OtherPending, SameBeside
    <3> QED
      BY <1>1, <2>0, <2>1, <3>1, AddOne DEF Ones
  <2>2. CASE LRQ_pending \notin lrq'[r].flags
    <3>1. PendingOn(lrq', l) = OtherPending(r, l)
      BY <2>2 DEF PendingOn, OtherPending, SameBeside
    <3> QED
      BY <1>1, <2>0, <2>2, <3>1 DEF Ones
  <2> QED
    BY <2>1, <2>2
<1>7. b \in LockType
  <2>1. lock_state(c) \in Levels
    BY <1>4, LockStateHighest
  <2> QED
    BY <1>4, <1>6, <2>1 DEF LockType
<1>8. lbl' \in [Locks -> LockType]
  BY <1>0, <1>7 DEF Table
<1>9. ASSUME NEW m \in Locks
      PROVE  /\ \A n \in Granted : lbl'[m].counts[n] = Cardinality(HeldAt(m, n)')
             /\ lbl'[m].state = lock_state(lbl'[m].counts)
             /\ lbl'[m].pending = Cardinality(PendingOn(lrq', m))
  <2>1. CASE m = l
    BY <1>0, <1>5, <1>6, <2>1 DEF Table
  <2>2. CASE m # l
    <3>1. lbl'[m] = lbl[m]
      BY <1>0, <2>2 DEF Table
    <3>2. /\ lrq[r].lock # m
          /\ lrq'[r].lock # m
      BY <2>2, ConstantAssumption DEF FreeRequest, IsFree, Table, RequestsLinked
    <3>3. PendingOn(lrq', m) = PendingOn(lrq, m)
      BY <3>2 DEF PendingOn, SameBeside, Pending, Has
    <3>4. ASSUME NEW n \in Granted PROVE HeldAt(m, n)' = HeldAt(m, n)
      BY <3>2 DEF HeldAt, OnLock, SameBeside
    <3> QED
      BY <3>1, <3>3, <3>4 DEF Table, LockBlocksAgree
  <2> QED
    BY <2>1, <2>2
<1> QED
  BY <1>8, <1>9 DEF LockBlocksAgree

-----------------------------------------------------------------------------
(* What the pieces of the handlers do to the table.                        *)

\* A level that suits the highest of the other requests suits each of them.
LEMMA SuitsOthers ==
  ASSUME Table, NEW r \in Requests, NEW l \in Locks, lrq[r].lock = l \/ IsFree(r),
         NEW level \in Levels,
         Compatible(level, lock_state(CountDown(lbl[l].counts, lrq[r].state))),
         NEW x \in Requests \ {r}, lrq[x].lock = l
  PROVE  Compatible(level, lrq[x].state)
<1> DEFINE d == CountDown(lbl[l].counts, lrq[r].state)
           h == lock_state(d)
           s == lrq[x].state
<1>1. /\ d \in [Granted -> Nat]
      /\ \A n \in Granted : IsFiniteSet(Others(r, l, n)) /\ d[n] = Cardinality(Others(r, l, n))
  BY CountsOfOthers
<1>2. s \in Levels
  BY DEF Table, RequestType
<1>3. CASE s = LCK_none
  BY <1>3, NoneIsCompatible
<1>4. CASE s # LCK_none
  <2>1. s \in Granted /\ x \in Others(r, l, s)
    BY <1>2, <1>4 DEF Levels, Granted, LCK_none, Others
  <2>2. d[s] # 0
    BY <1>1, <2>1, FS_EmptySet
  <2>3. h \in Levels /\ h # LCK_none /\ s <= h
    BY <1>1, <2>1, <2>2, LockStateHighest DEF Levels, Granted, LCK_none
  <2>4. h \in Granted /\ d[h] # 0
    BY <1>1, <2>3, LockStateHighest
  <2>5. PICK y \in Others(r, l, h) : TRUE
    BY <1>1, <2>4, FS_EmptySet
  <2>6. y \in Requests /\ lrq[y].lock = l /\ lrq[y].state = h
    BY <2>5 DEF Others
  <2>7. CASE y = x
    BY <2>6, <2>7
  <2>8. CASE y # x
    <3>1. Compatible(h, s)
      BY <2>6, <2>8 DEF Table, GrantedCompatible
    <3> QED
      BY <1>2, <2>3, <3>1, HighestDecides
  <2> QED
    BY <2>7, <2>8
<1> QED
  BY <1>3, <1>4

\* One request changes, its block follows, and its level suits the others: the
\* table stays as it should be.
LEMMA TableFollows ==
  ASSUME Table, NEW r \in Requests, NEW l \in Locks, lrq[r].lock = l \/ IsFree(r),
         lrq' \in [Requests -> RequestType], \A x \in Requests \ {r} : lrq'[x] = lrq[x],
         lrq'[r].owner \in Owners, lrq'[r].lock = l,
         \A x \in Requests \ {r} :
           lrq[x].lock = l => Compatible(lrq'[r].state, lrq[x].state),
         lbl' = [lbl EXCEPT ![l] = BlockAfter(r, l, lrq'[r])]
  PROVE  Table'
<1>1. SameBeside(r)
  BY DEF SameBeside, Pending, Has
<1>2. lbl' \in [Locks -> LockType] /\ LockBlocksAgree'
  BY <1>1, BlockFollows
<1>3. RequestsLinked'
  BY ConstantAssumption DEF Table, RequestsLinked
<1>4. GrantedCompatible'
  <2> SUFFICES ASSUME NEW x \in Requests, NEW y \in Requests, x # y,
                      lrq'[x].lock \in Locks, lrq'[x].lock = lrq'[y].lock
               PROVE  Compatible(lrq'[x].state, lrq'[y].state)
    BY DEF GrantedCompatible
  <2>1. lrq[x].state \in Levels /\ lrq[y].state \in Levels /\ lrq'[r].state \in Levels
    BY DEF Table, RequestType
  <2>2. CASE x = r
    BY <2>2
  <2>3. CASE y = r
    BY <2>1, <2>3, CompatibleSymmetric
  <2>4. CASE x # r /\ y # r
    BY <2>4 DEF Table, GrantedCompatible
  <2> QED
    BY <2>2, <2>3, <2>4
<1> QED
  BY <1>2, <1>3, <1>4 DEF Table

\* A request changes only in what the lock blocks and the matrix do not see.
LEMMA TableUntouched ==
  ASSUME Table, lrq' \in [Requests -> RequestType], lbl' = lbl,
         \A x \in Requests : /\ lrq'[x].owner = lrq[x].owner
                             /\ lrq'[x].lock = lrq[x].lock
                             /\ lrq'[x].state = lrq[x].state
                             /\ LRQ_pending \in lrq'[x].flags <=> Pending(x)
                             /\ IsFree(x) => lrq'[x] = lrq[x]
  PROVE  Table'
<1>1. RequestsLinked'
  BY DEF Table, RequestsLinked, IsFree
<1>2. GrantedCompatible'
  BY DEF Table, GrantedCompatible
<1>3. \A l \in Locks : PendingOn(lrq', l) = PendingOn(lrq, l)
  BY DEF PendingOn, Pending, Has
<1>4. \A l \in Locks, n \in Granted : HeldAt(l, n)' = HeldAt(l, n)
  BY DEF HeldAt, OnLock
<1>5. LockBlocksAgree'
  BY <1>3, <1>4 DEF Table, LockBlocksAgree
<1> QED
  BY <1>1, <1>2, <1>5 DEF Table

\* release_request, with the lock block freed by its last request.
LEMMA TableReleased ==
  ASSUME Table, NEW r \in Requests, ~IsFree(r),
         lrq' = LrqWithout(r), lbl' = LblWithout(r)
  PROVE  Table'
<1> DEFINE l == lrq[r].lock
           s == lrq[r].state
           d == CountDown(lbl[l].counts, s)
           p == lbl[l].pending - Ones(Pending(r))
           b == [counts |-> d, state |-> lock_state(d), pending |-> p]
<1>0. FreeRequest \in RequestType
  BY DEF FreeRequest, RequestType, Levels, LCK_none
<1>1. l \in Locks /\ lrq[r] \in RequestType /\ lbl[l] \in LockType /\ s \in Levels
  BY DEF Table, RequestsLinked, IsFree, RequestType
<1>2. lrq' \in [Requests -> RequestType]
  BY <1>0 DEF Table, LrqWithout, RequestType
<1>3. /\ lrq'[r] = FreeRequest
      /\ \A x \in Requests \ {r} : /\ lrq'[x].lock = lrq[x].lock
                                   /\ lrq'[x].owner = lrq[x].owner
                                   /\ lrq'[x].state = lrq[x].state
                                   /\ lrq'[x].flags = lrq[x].flags
  BY DEF LrqWithout, Table, RequestType
<1>4. SameBeside(r)
  BY <1>3 DEF SameBeside, Pending, Has
<1>5. /\ d \in [Granted -> Nat]
      /\ \A n \in Granted : IsFiniteSet(Others(r, l, n)) /\ d[n] = Cardinality(Others(r, l, n))
      /\ p = Cardinality(OtherPending(r, l))
  BY <1>1, CountsOfOthers
<1>6. LblWithout(r) = [lbl EXCEPT ![l] = b]
  <2>1. CASE OnLock(l) = {r}
    <3>1. \A n \in Granted : Others(r, l, n) = {}
      BY <2>1 DEF Others, OnLock
    <3>2. OtherPending(r, l) = {}
      BY <2>1 DEF OtherPending, OnLock
    <3>3. d = NoCounts /\ p = 0
      BY <1>5, <3>1, <3>2, FS_EmptySet DEF NoCounts
    <3>4. lock_state(NoCounts) = LCK_none
      BY DEF lock_state, NoCounts
    <3> QED
      BY <2>1, <3>3, <3>4 DEF LblWithout, FreeLock
  <2>2. CASE OnLock(l) # {r}
    <3> DEFINE t == IF s # LCK_none /\ d[s] = 0 THEN lock_state(d) ELSE lbl[l].state
    <3>1. LblWithout(r) = [lbl EXCEPT ![l] = [counts |-> d, state |-> t, pending |-> p]]
      BY <2>2 DEF LblWithout, Ones
    <3>2. CASE s # LCK_none /\ d[s] = 0
      BY <3>1, <3>2
    <3>3. CASE s = LCK_none
      <4>1. d = lbl[l].counts
        BY <3>3 DEF CountDown
      <4> QED
        BY <1>1, <3>1, <3>3, <4>1 DEF Table, LockBlocksAgree
    <3>4. CASE s # LCK_none /\ d[s] # 0
      <4>1. s \in Granted
        BY <1>1, <3>4 DEF Levels, Granted, LCK_none
      <4>2. lbl[l].counts \in [Granted -> Nat]
        BY <1>1 DEF LockType
      <4>3. d = [lbl[l].counts EXCEPT ![s] = @ - 1]
        BY <3>4 DEF CountDown
      <4>4. \A n \in Granted : d[n] = 0 <=> lbl[l].counts[n] = 0
        <5> SUFFICES ASSUME NEW n \in Granted PROVE d[n] = 0 <=> lbl[l].counts[n] = 0
          OBVIOUS
        <5>1. CASE n = s
          <6>1. d[s] = lbl[l].counts[s] - 1 /\ lbl[l].counts[s] \in Nat /\ d[s] \in Nat
            BY <1>5, <4>1, <4>2, <4>3
          <6>2. lbl[l].counts[s] # 0
            BY <6>1
          <6> QED
            BY <3>4, <5>1, <6>2
        <5>2. CASE n # s
          BY <4>2, <4>3, <5>2
        <5> QED
          BY <5>1, <5>2
      <4>5. lock_state(d) = lock_state(lbl[l].counts)
        BY <1>5, <4>2, <4>4, LockStateSame
      <4> QED
        BY <1>1, <3>1, <3>4, <4>5 DEF Table, LockBlocksAgree
    <3> QED
      BY <3>2, <3>3, <3>4
  <2> QED
    BY <2>1, <2>2
<1>7. lbl' \in [Locks -> LockType] /\ LockBlocksAgree'
  <2>1. d = CountUp(d, lrq'[r].state) /\ LRQ_pending \notin lrq'[r].flags
    BY <1>3 DEF CountUp, FreeRequest
  <2>2. p = p + Ones(LRQ_pending \in lrq'[r].flags)
    BY <1>1, <2>1 DEF Ones, LockType
  <2> HIDE DEF d, p
  <2>3. b = [counts |-> d, state |-> lock_state(d),
             pending |-> p + Ones(LRQ_pending \in lrq'[r].flags)]
    BY <2>2
  <2>4. b = BlockAfter(r, l, lrq'[r])
    BY <2>1, <2>3 DEF BlockAfter, d, p
  <2> HIDE DEF b
  <2> QED
    BY <1>1, <1>2, <1>3, <1>4, <1>6, <2>4, BlockFollows
<1>8. RequestsLinked'
  <2> SUFFICES ASSUME NEW x \in Requests \ {r}
               PROVE  IF lrq'[x].owner = NoOwner THEN lrq'[x] = FreeRequest
                                                 ELSE lrq'[x].lock \in Locks
    <3>1. lrq'[r].owner = NoOwner
      BY <1>3 DEF FreeRequest
    <3> QED
      BY <1>3, <3>1 DEF RequestsLinked
  <2>1. CASE lrq[x].owner = NoOwner
    <3>1. lrq[x] = FreeRequest
      BY <2>1 DEF Table, RequestsLinked
    <3>2. lrq'[x] = [FreeRequest EXCEPT !.ahead = FreeRequest.ahead \ {r}]
      BY <3>1 DEF LrqWithout
    <3> QED
      BY <2>1, <3>1, <3>2 DEF FreeRequest
  <2>2. CASE lrq[x].owner # NoOwner
    BY <1>3, <2>2 DEF Table, RequestsLinked
  <2> QED
    BY <2>1, <2>2
<1>9. GrantedCompatible'
  BY <1>3, ConstantAssumption DEF Table, GrantedCompatible, FreeRequest
<1> QED
  BY <1>2, <1>7, <1>8, <1>9 DEF Table

\* grant, of a request that waited, converts or is downgraded.
LEMMA TableGranted ==
  ASSUME Table, NEW r \in Requests, ~IsFree(r), NEW l, l = lrq[r].lock,
         NEW level \in Levels, NEW d, d = CountDown(lbl[l].counts, lrq[r].state),
         Compatible(level, lock_state(d)),
         NEW q \in RequestType, q.owner = lrq[r].owner, q.lock = l, q.state = level,
         LRQ_pending \notin q.flags,
         lrq' = [lrq EXCEPT ![r] = q],
         lbl' = [lbl EXCEPT ![l] = GrantedLock(r, d, level)]
  PROVE  Table'
<1>1. l \in Locks /\ q.owner \in Owners /\ lrq[r] \in RequestType /\ lbl[l] \in LockType
  BY DEF Table, RequestsLinked, IsFree, RequestType
<1>2. GrantedLock(r, d, level) = BlockAfter(r, l, q)
  <2>1. /\ Ones(LRQ_pending \in q.flags) = 0
        /\ lbl[l].pending - Ones(Pending(r)) + 0 = lbl[l].pending - Ones(Pending(r))
    BY <1>1 DEF Ones, LockType
  <2> QED
    BY <2>1 DEF GrantedLock, BlockAfter, Ones
<1>3. \A x \in Requests \ {r} : lrq[x].lock = l => Compatible(level, lrq[x].state)
  BY <1>1, SuitsOthers
<1>4. /\ lrq' \in [Requests -> RequestType] /\ lrq'[r] = q
      /\ \A x \in Requests \ {r} : lrq'[x] = lrq[x]
  BY DEF Table
<1> QED
  BY ZenonT(60), <1>1, <1>2, <1>3, <1>4, TableFollows

\* A new request is granted at once.
LEMMA TableEnqueued ==
  ASSUME Table, NEW r \in Requests, NEW l \in Locks, IsFree(r),
         NEW q \in RequestType, q.owner \in Owners, q.lock = l,
         \A x \in Requests \ {r} : lrq[x].lock = l => Compatible(q.state, lrq[x].state),
         lrq' = [lrq EXCEPT ![r] = q],
         lbl' = [lbl EXCEPT ![l] = BlockAfter(r, l, q)]
  PROVE  Table'
<1>1. /\ lrq' \in [Requests -> RequestType] /\ lrq'[r] = q
      /\ \A x \in Requests \ {r} : lrq'[x] = lrq[x]
  BY DEF Table
<1> QED
  BY ZenonT(60), <1>1, TableFollows

\* A request begins or ceases to wait at the level it has.
LEMMA TableLevelKept ==
  ASSUME Table, NEW r \in Requests, NEW l \in Locks, lrq[r].lock = l \/ IsFree(r),
         NEW q \in RequestType, q.owner \in Owners, q.lock = l, q.state = lrq[r].state,
         lrq' = [lrq EXCEPT ![r] = q],
         NEW p, p = lbl[l].pending - Ones(Pending(r)) + Ones(LRQ_pending \in q.flags),
         lbl' = [lbl EXCEPT ![l].pending = p]
  PROVE  Table'
<1> DEFINE d == CountDown(lbl[l].counts, lrq[r].state)
           c == CountUp(d, q.state)
           b == [counts  |-> c, state |-> lock_state(c), pending |-> p]
<1>1. lrq[r] \in RequestType /\ lbl[l] \in LockType /\ lbl \in [Locks -> LockType]
  BY DEF Table
<1>2. lrq[r].lock # l => lrq[r].state = LCK_none
  BY ConstantAssumption DEF Table, RequestsLinked, IsFree, FreeRequest
<1>3. c = lbl[l].counts
  <2>1. CASE lrq[r].state = LCK_none
    BY <2>1 DEF CountUp, CountDown
  <2>2. CASE lrq[r].state # LCK_none
    <3> DEFINE s == lrq[r].state
               k == lbl[l].counts
    <3>1. k \in [Granted -> Nat] /\ s \in Granted
      BY <1>1, <2>2 DEF RequestType, LockType, Levels, Granted, LCK_none
    <3>2. c = [[k EXCEPT ![s] = k[s] - 1] EXCEPT ![s] = (k[s] - 1) + 1]
      BY <2>2, <3>1 DEF CountUp, CountDown
    <3>3. (k[s] - 1) + 1 = k[s]
      BY <3>1
    <3> HIDE DEF k, s
    <3>4. c = k
      BY <3>1, <3>2, <3>3
    <3> QED
      BY <3>4 DEF k
  <2> QED
    BY <2>1, <2>2
<1>4. lbl[l].state = lock_state(lbl[l].counts)
  BY DEF Table, LockBlocksAgree
<1>5. b = [lbl[l] EXCEPT !.pending = p]
  BY <1>1, <1>3, <1>4 DEF LockType
<1>6. lbl' = [lbl EXCEPT ![l] = b]
  BY <1>1, <1>5
<1>7. \A x \in Requests \ {r} : lrq[x].lock = l => Compatible(q.state, lrq[x].state)
  <2> SUFFICES ASSUME NEW x \in Requests \ {r}, lrq[x].lock = l
               PROVE  Compatible(q.state, lrq[x].state)
    OBVIOUS
  <2>1. CASE lrq[r].lock = l
    BY <2>1 DEF Table, GrantedCompatible
  <2>2. CASE lrq[r].lock # l
    <3>1. q.state = LCK_none /\ lrq[x].state \in Levels /\ LCK_none \in Levels
      BY <1>2, <2>2 DEF Table, RequestType, Levels, LCK_none
    <3> QED
      BY <3>1, NoneIsCompatible, CompatibleSymmetric
  <2> QED
    BY <2>1, <2>2
<1>8. b = BlockAfter(r, l, q)
  BY DEF BlockAfter
<1>9. /\ lrq' \in [Requests -> RequestType] /\ lrq'[r] = q
      /\ \A x \in Requests \ {r} : lrq'[x] = lrq[x]
  BY DEF Table
<1> HIDE DEF b
<1> QED
  BY ZenonT(60), <1>6, <1>7, <1>8, <1>9, TableFollows

-----------------------------------------------------------------------------
(* Initially, and step by step.                                            *)

LEMMA InitHolds == Init => IInv
<1> SUFFICES ASSUME Init PROVE IInv
  OBVIOUS
<1>1. FreeRequest \in RequestType /\ FreeLock \in LockType
      /\ OffOwner \in OwnerType /\ NoJob \in JobType /\ LCK_none \in Levels
  BY DEF FreeRequest, FreeLock, OffOwner, NoJob, RequestType, LockType, OwnerType,
         JobType, NoCounts, Levels, LCK_none, PCs, Phases
<1>2. \A l \in Locks : PendingOn(lrq, l) = {}
  BY DEF Init, PendingOn, FreeRequest
<1>3. \A l \in Locks, n \in Granted : HeldAt(l, n) = {}
  BY ConstantAssumption DEF Init, HeldAt, OnLock, FreeRequest
<1>4. lock_state(NoCounts) = LCK_none
  BY DEF lock_state, NoCounts
<1>5. LockBlocksAgree
  BY <1>2, <1>3, <1>4, FS_EmptySet DEF LockBlocksAgree, Init, FreeLock, NoCounts
<1>6. GrantedCompatible
  BY ConstantAssumption DEF GrantedCompatible, Init, FreeRequest
<1>7. Table
  BY <1>1, <1>5, <1>6 DEF Table, RequestsLinked, Init, FreeRequest
<1>8. Control
  BY <1>1 DEF Control, Init, JobPending, WaiterOwns, JobHasOwner, PurgeSound,
              HandlerAlive, OffOwnsNothing, JobFits, PendingHasWaiter, OneBlockingAction,
              NoJob, OffOwner, Pending, Has, IsFree, FreeRequest
<1> QED
  BY <1>7, <1>8 DEF IInv

\* post_pending is what a critical section goes on to: its part of Control.
LEMMA GoesOnPosting ==
  ASSUME NEW l \in Locks \cup {NoLock}, PostPendingOn(l, "release")
  PROVE  /\ job' \in JobType /\ JobPending' /\ PurgeSound'
         /\ job'.next = "release" /\ job'.purge = {}
BY DEF PostPendingOn, NoJob, JobType, JobPending, PurgeSound, PendingOn, Pending, Has

\* The rest of Control when process o begins a critical section.
LEMMA SectionBegins ==
  ASSUME IInv, Table', NEW o \in Owners, active' = o,
         own' \in [Owners -> OwnerType],
         \A p \in Owners \ {o} : own'[p] = own[p],
         own'[o].pc \notin {"off", "dead"}, own'[o].handler # "pop",
         own'[o].handler # "off" => "signaled" \in own'[o].flags,
         own'[o].pc \in {"wait", "denied"} =>
           own'[o].waits \in Requests /\ lrq'[own'[o].waits].owner = o,
         \A x \in Requests : \/ /\ lrq'[x].owner = lrq[x].owner
                                /\ LRQ_pending \in lrq'[x].flags => Pending(x)
                             \/ /\ lrq[x].owner \in {o, NoOwner}
                                /\ lrq'[x].owner \in {o, NoOwner},
         \A x \in Requests : lrq'[x].owner = o /\ LRQ_pending \in lrq'[x].flags =>
           own'[o].pc = "wait" /\ own'[o].waits = x /\ own'[o].pending = x,
         job' \in JobType, JobPending', job'.next = "release", job'.purge = {},
         held' \in [Requests -> Levels]
  PROVE  Control'
<1>0. \A x \in Requests : IF lrq'[x].owner = NoOwner THEN LRQ_pending \notin lrq'[x].flags
                                                     ELSE lrq'[x].owner \in Owners
  BY DEF Table, RequestsLinked, FreeRequest, RequestType
<1>1. WaiterOwns'
  BY ConstantAssumption DEF IInv, Control, WaiterOwns
<1>2. JobHasOwner'
  BY ConstantAssumption DEF JobHasOwner
<1>3. HandlerAlive' /\ OneBlockingAction'
  BY DEF IInv, Control, HandlerAlive, OneBlockingAction, Signaled
<1>4. JobFits' /\ PurgeSound'
  BY DEF JobFits, PurgeSound
<1>5. OffOwnsNothing'
  BY <1>0 DEF IInv, Control, OffOwnsNothing, IsFree
<1>6. PendingHasWaiter'
  BY <1>0 DEF IInv, Control, PendingHasWaiter, Pending, Has
<1> QED
  BY <1>1, <1>2, <1>3, <1>4, <1>5, <1>6 DEF Control

\* A process on its main line has no pending request.
LEMMA RunsUnpending ==
  ASSUME IInv, NEW r \in Requests, own[lrq[r].owner].pc \notin {"wait", "dead"}
  PROVE  ~Pending(r)
BY DEF IInv, Control, PendingHasWaiter

\* Nothing moves in the table.
LEMMA TableStays ==
  ASSUME Table, UNCHANGED <<lrq, lbl>>
  PROVE  Table'
BY DEF Table, RequestsLinked, LockBlocksAgree, GrantedCompatible, PendingOn, HeldAt, OnLock

\* wait_for_request up to its loop, for a new request and for a conversion.
LEMMA WaitStarted ==
  ASSUME IInv, NEW o \in Owners, active' = o,
         own[o].pc = "run", own[o].handler = "off",
         NEW r \in Requests, ~Pending(r), IsFree(r) \/ lrq[r].owner = o,
         NEW q \in RequestType, q.owner = o, q.lock \in Locks,
         lrq[r].lock = q.lock \/ IsFree(r), q.state = lrq[r].state,
         StartWait(o, r, q), UNCHANGED held
  PROVE  IInv'
<1> USE DEF IInv
<1> DEFINE l == q.lock
           w == [q EXCEPT !.flags = (@ \ {LRQ_rejected}) \cup {LRQ_pending}]
<1>1. /\ w \in RequestType /\ w.owner = o /\ w.lock = l /\ w.state = lrq[r].state
      /\ LRQ_pending \in w.flags
  BY DEF RequestType, LrqBits
<1>2. /\ lrq' = [lrq EXCEPT ![r] = w] /\ lbl' = [lbl EXCEPT ![l].pending = @ + 1]
  BY DEF StartWait
<1> HIDE DEF w
<1>3. Table'
  <2>1. lbl[l] \in LockType
    BY DEF Table
  <2>2. lbl[l].pending - Ones(Pending(r)) + Ones(LRQ_pending \in w.flags) = lbl[l].pending + 1
    BY <1>1, <2>1 DEF Ones, LockType
  <2> QED
    BY <1>1, <1>2, <2>2, TableLevelKept
<1>4. /\ lrq'[r] = w /\ \A x \in Requests \ {r} : lrq'[x] = lrq[x]
  BY <1>2 DEF Table
<1>5. own' \in [Owners -> OwnerType]
  <2>1. own[o] \in OwnerType /\ own \in [Owners -> OwnerType]
    BY DEF Control
  <2>2. [own[o] EXCEPT !.pc = "wait", !.pending = r, !.waits = r,
                       !.flags = own[o].flags \ {"scanned", "wakeup"}] \in OwnerType
    BY <2>1 DEF OwnerType, PCs
  <2> QED
    BY <2>1, <2>2 DEF StartWait
<1>6. /\ own'[o].pc = "wait" /\ own'[o].waits = r /\ own'[o].pending = r
      /\ own'[o].handler = "off"
      /\ \A p \in Owners \ {o} : own'[p] = own[p]
  BY DEF StartWait, Control, OwnerType
<1>7. /\ job' \in JobType /\ JobPending' /\ job'.next = "release" /\ job'.purge = {}
  BY DEF StartWait, NoJob, JobType, JobPending
<1>8. \A x \in Requests : \/ /\ lrq'[x].owner = lrq[x].owner
                             /\ LRQ_pending \in lrq'[x].flags => Pending(x)
                          \/ /\ lrq[x].owner \in {o, NoOwner}
                             /\ lrq'[x].owner \in {o, NoOwner}
  BY <1>1, <1>4 DEF Pending, Has, IsFree
<1>9. ASSUME NEW x \in Requests, lrq'[x].owner = o, LRQ_pending \in lrq'[x].flags
      PROVE  own'[o].pc = "wait" /\ own'[o].waits = x /\ own'[o].pending = x
  <2>1. CASE x = r
    BY <1>6, <2>1
  <2>2. CASE x # r
    <3>1. lrq[x].owner = o /\ Pending(x)
      BY <1>4, <1>9, <2>2 DEF Pending, Has
    <3> QED
      BY <3>1, RunsUnpending
  <2> QED
    BY <2>1, <2>2
<1>10. held' \in [Requests -> Levels]
  BY DEF Control
<1>11. Control'
  BY <1>1, <1>3, <1>4, <1>5, <1>6, <1>7, <1>8, <1>9, <1>10, SectionBegins
<1> QED
  BY <1>3, <1>11

LEMMA StepEnq ==
  ASSUME IInv, NEW o \in Owners, NEW l \in Locks, NEW r \in Requests,
         NEW level \in EnqLevels, LOCK_enq(o, l, r, level)
  PROVE  IInv'
<1> USE DEF IInv
<1>1. /\ active = NoOwner /\ active' = o /\ IsFree(r) /\ level \in Levels
      /\ own[o].pc = "run" /\ own[o].handler = "off"
      /\ lbl[l] \in LockType /\ lrq[r] = FreeRequest /\ own[o] \in OwnerType
  BY ConstantAssumption DEF LOCK_enq, MainLine, Levels, Table, Control, RequestsLinked, IsFree
<1>2. NewRequest(o, l, level) \in RequestType
  BY <1>1 DEF NewRequest, RequestType, OnLock, LCK_none, Levels
<1>3. CountDown(lbl[l].counts, lrq[r].state) = lbl[l].counts /\ ~Pending(r)
  BY <1>1 DEF CountDown, FreeRequest, Pending, Has
<1>4. CASE EnqGranted(o, l, r, level)
  <2> DEFINE q == [NewRequest(o, l, level) EXCEPT !.state = level]
  <2>1. /\ q \in RequestType /\ q.owner = o /\ q.lock = l /\ q.state = level
        /\ LRQ_pending \notin q.flags
    BY <1>1, <1>2 DEF NewRequest, RequestType
  <2>2. lrq' = [lrq EXCEPT ![r] = q]
    BY <1>4 DEF EnqGranted
  <2> HIDE DEF q
  <2>3. /\ lrq' \in [Requests -> RequestType] /\ lrq'[r] = q
        /\ \A x \in Requests \ {r} : lrq'[x] = lrq[x]
    BY <2>1, <2>2 DEF Table
  <2>4. lbl' = [lbl EXCEPT ![l] = BlockAfter(r, l, q)]
    <3> DEFINE c == CountUp(lbl[l].counts, level)
    <3>1. lbl' = [lbl EXCEPT ![l] = [counts |-> c, state |-> lock_state(c),
                                     pending |-> lbl[l].pending]]
      BY <1>4 DEF EnqGranted
    <3>2. lbl[l].pending - Ones(Pending(r)) + Ones(LRQ_pending \in q.flags) = lbl[l].pending
      BY <1>1, <1>3, <2>1 DEF Ones, LockType
    <3>3. BlockAfter(r, l, q) = [counts |-> c, state |-> lock_state(c), pending |-> lbl[l].pending]
      BY <1>3, <2>1, <3>2 DEF BlockAfter
    <3> QED
      BY <3>1, <3>3
  <2>5. \A x \in Requests \ {r} : lrq[x].lock = l => Compatible(level, lrq[x].state)
    <3>1. CASE OnLock(l) = {}
      BY <3>1 DEF OnLock
    <3>2. CASE GrantsAtOnce(l, level)
      <4>1. lbl[l].state = lock_state(lbl[l].counts)
        BY DEF Table, LockBlocksAgree
      <4>2. Compatible(level, lock_state(CountDown(lbl[l].counts, lrq[r].state)))
        BY <1>3, <3>2, <4>1 DEF GrantsAtOnce
      <4> QED
        BY <1>1, <4>2, SuitsOthers
    <3> QED
      BY <1>4, <3>1, <3>2 DEF EnqGranted
  <2>6. Table'
    BY <1>1, <2>1, <2>2, <2>4, <2>5, TableEnqueued
  <2>7. held' \in [Requests -> Levels]
    BY <1>1, <1>4 DEF EnqGranted, Returns, Control
  <2>8. own' = own /\ PostPendingOn(l, "release")
    BY <1>4 DEF EnqGranted
  <2>9. Control'
    <3>1. \A x \in Requests : \/ /\ lrq'[x].owner = lrq[x].owner
                                 /\ LRQ_pending \in lrq'[x].flags => Pending(x)
                              \/ /\ lrq[x].owner \in {o, NoOwner}
                                 /\ lrq'[x].owner \in {o, NoOwner}
      BY <1>1, <2>1, <2>3 DEF Pending, Has, IsFree
    <3>2. \A x \in Requests : lrq'[x].owner = o => LRQ_pending \notin lrq'[x].flags
      BY <1>1, <2>1, <2>3, RunsUnpending DEF Pending, Has
    <3>3. own' \in [Owners -> OwnerType] /\ own'[o].pc = "run" /\ own'[o].handler = "off"
          /\ \A p \in Owners \ {o} : own'[p] = own[p]
      BY <1>1, <2>8 DEF Control
    <3> QED
      BY <1>1, <2>6, <2>7, <2>8, <3>1, <3>2, <3>3, GoesOnPosting, SectionBegins
  <2> QED
    BY <2>6, <2>9
<1>5. CASE EnqDenied(o, l, r, level)
  <2>1. /\ UNCHANGED <<lrq, lbl, own, held>> /\ PostPendingOn(l, "release")
    BY <1>5 DEF EnqDenied
  <2>2. Table'
    BY <2>1, TableStays
  <2>3. Control'
    <3>1. \A x \in Requests : /\ lrq'[x].owner = lrq[x].owner
                              /\ LRQ_pending \in lrq'[x].flags => Pending(x)
                              /\ lrq'[x].owner = o => LRQ_pending \notin lrq'[x].flags
      BY <1>1, <2>1, RunsUnpending DEF Pending, Has
    <3>2. /\ own' \in [Owners -> OwnerType] /\ held' \in [Requests -> Levels]
          /\ own'[o].pc = "run" /\ own'[o].handler = "off"
          /\ \A p \in Owners \ {o} : own'[p] = own[p]
      BY <1>1, <2>1 DEF Control
    <3> QED
      BY <1>1, <2>1, <2>2, <3>1, <3>2, GoesOnPosting, SectionBegins
  <2> QED
    BY <2>2, <2>3
<1>6. CASE EnqWaits(o, l, r, level)
  <2>1. /\ StartWait(o, r, NewRequest(o, l, level)) /\ UNCHANGED held
    BY <1>6 DEF EnqWaits
  <2>2. /\ NewRequest(o, l, level).lock = l /\ NewRequest(o, l, level).owner = o
        /\ NewRequest(o, l, level).state = lrq[r].state
    BY <1>1 DEF NewRequest, FreeRequest
  <2> QED
    BY <1>1, <1>2, <1>3, <2>1, <2>2, WaitStarted
<1> QED
  BY <1>4, <1>5, <1>6 DEF LOCK_enq

\* Control after a call of o on its request r, from the main line or an AST routine.
LEMMA CallOnRequest ==
  ASSUME IInv, Table', NEW o \in Owners, NEW r \in Requests, lrq[r].owner = o,
         active' = o, MainLine(o) \/ InAst(o, r), own' = CallMade(o),
         \A x \in Requests \ {r} : /\ lrq'[x].owner = lrq[x].owner
                                   /\ lrq'[x].flags = lrq[x].flags,
         lrq'[r].owner \in {o, NoOwner}, LRQ_pending \notin lrq'[r].flags,
         job' \in JobType, JobPending', job'.next = "release", job'.purge = {},
         held' \in [Requests -> Levels]
  PROVE  Control'
<1>1. own[o] \in OwnerType /\ own \in [Owners -> OwnerType]
  BY DEF IInv, Control
<1>2. /\ own' \in [Owners -> OwnerType]
      /\ \A p \in Owners \ {o} : own'[p] = own[p]
      /\ own'[o].pc = own[o].pc /\ own'[o].waits = own[o].waits
      /\ own'[o].pending = own[o].pending /\ own'[o].flags = own[o].flags
      /\ own'[o].handler \in {"off", "back"}
      /\ own'[o].handler # "off" => own[o].handler # "off"
  BY <1>1 DEF CallMade, OwnerType, Phases, MainLine, InAst
<1>3. own'[o].pc \notin {"off", "dead"}
  BY <1>2 DEF IInv, Control, HandlerAlive, MainLine, InAst
<1>4. own'[o].handler # "off" => "signaled" \in own'[o].flags
  BY <1>2 DEF IInv, Control, OneBlockingAction, Signaled
<1>5. own'[o].pc \in {"wait", "denied"} =>
        own'[o].waits \in Requests /\ lrq'[own'[o].waits].owner = o
  BY <1>2 DEF IInv, Control, WaiterOwns, MainLine, InAst
<1>6. \A x \in Requests : \/ /\ lrq'[x].owner = lrq[x].owner
                             /\ LRQ_pending \in lrq'[x].flags => Pending(x)
                          \/ /\ lrq[x].owner \in {o, NoOwner}
                             /\ lrq'[x].owner \in {o, NoOwner}
  BY DEF Pending, Has
<1>7. \A x \in Requests : lrq'[x].owner = o /\ LRQ_pending \in lrq'[x].flags =>
        own'[o].pc = "wait" /\ own'[o].waits = x /\ own'[o].pending = x
  BY <1>2, <1>3 DEF IInv, Control, PendingHasWaiter, Pending, Has
<1> QED
  BY <1>2, <1>3, <1>4, <1>5, <1>6, <1>7, SectionBegins

LEMMA ConvertGrants ==
  ASSUME Table, NEW r \in Requests, ~IsFree(r), NEW level \in Levels,
         ConvertGranted(r, level)
  PROVE  /\ Table' /\ lrq'[r].owner = lrq[r].owner /\ LRQ_pending \notin lrq'[r].flags
         /\ \A x \in Requests \ {r} : lrq'[x] = lrq[x]
         /\ lrq[r].lock \in Locks /\ PostPendingOn(lrq[r].lock, "release")
<1> DEFINE l == lrq[r].lock
           d == CountDown(lbl[l].counts, lrq[r].state)
           q == [lrq[r] EXCEPT !.requested = level, !.state = level,
                               !.flags = lrq[r].flags \ {LRQ_pending, LRQ_blocking_seen}]
<1>1. lrq[r] \in RequestType /\ lrq \in [Requests -> RequestType]
  BY DEF Table
<1>2. /\ q \in RequestType /\ q.owner = lrq[r].owner /\ q.lock = l /\ q.state = level
      /\ LRQ_pending \notin q.flags
  BY <1>1 DEF RequestType
<1>3. lrq' = [lrq EXCEPT ![r] = q]
  BY <1>1 DEF ConvertGranted
<1>4. /\ Compatible(level, lock_state(d)) /\ lbl' = [lbl EXCEPT ![l] = GrantedLock(r, d, level)]
      /\ PostPendingOn(l, "release")
  BY DEF ConvertGranted, StateWithout
<1> HIDE DEF q, d
<1>5. Table'
  BY <1>2, <1>3, <1>4, TableGranted DEF d
<1>6. l \in Locks
  BY DEF Table, RequestsLinked, IsFree
<1> QED
  BY <1>1, <1>2, <1>3, <1>4, <1>5, <1>6

LEMMA ConvertDenies ==
  ASSUME Table, NEW r \in Requests, ~IsFree(r), NEW level, ConvertDenied(r, level)
  PROVE  /\ Table' /\ lrq'[r].owner = lrq[r].owner
         /\ \A x \in Requests : LRQ_pending \in lrq'[x].flags => Pending(x)
         /\ \A x \in Requests \ {r} : lrq'[x] = lrq[x]
<1>1. lrq[r] \in RequestType /\ lrq \in [Requests -> RequestType]
  BY DEF Table
<1>2. lrq' = [lrq EXCEPT ![r].requested = lrq[r].state,
                         ![r].flags = lrq[r].flags \ {LRQ_blocking_seen}]
  BY DEF ConvertDenied
<1>3. lrq' \in [Requests -> RequestType]
  BY <1>1, <1>2 DEF RequestType
<1>4. \A x \in Requests : /\ lrq'[x].owner = lrq[x].owner
                          /\ lrq'[x].lock = lrq[x].lock
                          /\ lrq'[x].state = lrq[x].state
                          /\ LRQ_pending \in lrq'[x].flags <=> Pending(x)
  BY <1>1, <1>2 DEF RequestType, Pending, Has, LRQ_pending, LRQ_blocking_seen
<1>5. \A x \in Requests \ {r} : lrq'[x] = lrq[x]
  BY <1>1, <1>2
<1>6. Table'
  BY <1>3, <1>4, <1>5, TableUntouched DEF ConvertDenied
<1> QED
  BY <1>4, <1>5, <1>6

LEMMA StepConvert ==
  ASSUME IInv, NEW o \in Owners, NEW r \in Requests, NEW level \in ConvLevels,
         LOCK_convert(o, r, level)
  PROVE  IInv'
<1>1. /\ Table /\ Control /\ active' = o /\ MainLine(o) /\ lrq[r].owner = o
      /\ level \in Levels /\ ~IsFree(r) /\ own[o].pc = "run" /\ own[o].handler = "off"
  BY ConstantAssumption DEF IInv, LOCK_convert, MainLine, Levels, IsFree
<1>2. ~Pending(r)
  BY <1>1, RunsUnpending
<1>3. UNCHANGED own => own' = CallMade(o)
  BY <1>1 DEF CallMade, Control, OwnerType
<1>4. CASE ConvertGranted(r, level) /\ Returns(r, level) /\ UNCHANGED own
  <2>1. /\ Table' /\ lrq'[r].owner = lrq[r].owner /\ LRQ_pending \notin lrq'[r].flags
        /\ \A x \in Requests \ {r} : lrq'[x] = lrq[x]
        /\ lrq[r].lock \in Locks /\ PostPendingOn(lrq[r].lock, "release")
    BY <1>1, <1>4, ConvertGrants
  <2>2. held' \in [Requests -> Levels]
    BY <1>1, <1>4 DEF Returns, Control
  <2>3. /\ job' \in JobType /\ JobPending' /\ job'.next = "release" /\ job'.purge = {}
    BY <2>1, GoesOnPosting
  <2>4. Control'
    BY <1>1, <1>3, <1>4, <2>1, <2>2, <2>3, CallOnRequest
  <2> QED
    BY <2>1, <2>4 DEF IInv
<1>5. CASE ConvertDenied(r, level) /\ UNCHANGED <<own, held>>
  <2>1. /\ Table' /\ lrq'[r].owner = lrq[r].owner
        /\ \A x \in Requests : LRQ_pending \in lrq'[x].flags => Pending(x)
        /\ \A x \in Requests \ {r} : lrq'[x] = lrq[x]
    BY <1>1, <1>5, ConvertDenies
  <2>2. held' \in [Requests -> Levels]
    BY <1>1, <1>5 DEF Control
  <2>3. /\ job' \in JobType /\ JobPending' /\ job'.next = "release" /\ job'.purge = {}
    BY <1>5 DEF ConvertDenied, NoJob, JobType, JobPending
  <2>4. Control'
    BY <1>1, <1>2, <1>3, <1>5, <2>1, <2>2, <2>3, CallOnRequest
  <2> QED
    BY <2>1, <2>4 DEF IInv
<1>6. CASE ConvertWaits(o, r, level) /\ UNCHANGED held
  <2> DEFINE q == [lrq[r] EXCEPT !.requested = level,
                                 !.flags = lrq[r].flags \ {LRQ_blocking_seen}]
  <2>1. lrq[r] \in RequestType /\ lrq[r].lock \in Locks
    BY <1>1 DEF Table, RequestsLinked, IsFree
  <2>2. /\ q \in RequestType /\ q.owner = o /\ q.lock = lrq[r].lock /\ q.state = lrq[r].state
    BY <1>1, <2>1 DEF RequestType
  <2>3. StartWait(o, r, q)
    BY <1>6 DEF ConvertWaits
  <2> HIDE DEF q
  <2> QED
    BY <1>1, <1>2, <1>6, <2>1, <2>2, <2>3, WaitStarted
<1> QED
  BY <1>4, <1>5, <1>6 DEF LOCK_convert

\* dequeue releases a request; its owner may be in an AST routine.
LEMMA StepDequeued ==
  ASSUME IInv, NEW o \in Owners, NEW r \in Requests, lrq[r].owner = o, active' = o,
         MainLine(o) \/ InAst(o, r), own' = CallMade(o), Dequeued(r)
  PROVE  IInv'
<1>1. Table /\ Control /\ ~IsFree(r) /\ lrq[r].lock \in Locks
  BY ConstantAssumption DEF IInv, Table, RequestsLinked, IsFree
<1>2. Table'
  BY <1>1, TableReleased DEF Dequeued
<1>3. /\ lrq'[r] = FreeRequest
      /\ \A x \in Requests \ {r} : /\ lrq'[x].owner = lrq[x].owner
                                   /\ lrq'[x].flags = lrq[x].flags
  BY <1>1 DEF Dequeued, LrqWithout, Table, RequestType
<1>4. held' \in [Requests -> Levels]
  BY <1>1 DEF Dequeued, Returns, Control, Levels, LCK_none
<1>5. /\ job' \in JobType /\ JobPending' /\ job'.next = "release" /\ job'.purge = {}
  BY <1>1, GoesOnPosting DEF Dequeued
<1>6. Control'
  BY <1>2, <1>3, <1>4, <1>5, CallOnRequest DEF FreeRequest
<1> QED
  BY <1>2, <1>6 DEF IInv

LEMMA StepDeq ==
  ASSUME IInv, NEW o \in Owners, NEW r \in Requests, LOCK_deq(o, r)
  PROVE  IInv'
BY StepDequeued DEF LOCK_deq

\* LOCK_downgrade always finds a level, LCK_none if no other.
LEMMA DowngradeToLevel ==
  ASSUME Table, NEW r \in Requests
  PROVE  DowngradeTo(r) \in Levels
<1> DEFINE Ok(n) == Compatible(HighestPending(r), n)
           s == lrq[r].state
<1>1. s \in 0..6
  BY DEF Table, RequestType, Levels
<1>2. Ok(0)
  BY NoneIsCompatible DEF LCK_none
<1> HIDE DEF Ok, s
<1>3. \E n \in 0..s : Ok(n) /\ \A m \in 0..s : Ok(m) => m <= n
  BY <1>1, <1>2
<1>4. DowngradeTo(r) = CHOOSE n \in 0..s : Ok(n) /\ \A m \in 0..s : Ok(m) => m <= n
  BY DEF DowngradeTo, Ok, s
<1>5. DowngradeTo(r) \in 0..s
  BY <1>3, <1>4
<1> QED
  BY <1>1, <1>5 DEF Levels

LEMMA StepDowngrade ==
  ASSUME IInv, NEW o \in Owners, NEW r \in Requests, LOCK_downgrade(o, r)
  PROVE  IInv'
<1> DEFINE level == DowngradeTo(r)
<1>1. /\ Table /\ Control /\ active' = o /\ lrq[r].owner = o /\ ~IsFree(r)
      /\ MainLine(o) \/ InAst(o, r)
      /\ own' = CallMade(o)
  BY ConstantAssumption DEF IInv, LOCK_downgrade, IsFree
<1>2. level \in Levels
  BY <1>1, DowngradeToLevel
<1>3. ~Pending(r)
  BY <1>1 DEF Control, PendingHasWaiter, HandlerAlive, MainLine, InAst
<1>4. CASE Dequeued(r)
  BY <1>1, <1>4, StepDequeued
<1>5. CASE ConvertGranted(r, level) /\ Returns(r, level)
  <2>1. /\ Table' /\ lrq'[r].owner = lrq[r].owner /\ LRQ_pending \notin lrq'[r].flags
        /\ \A x \in Requests \ {r} : lrq'[x] = lrq[x]
        /\ lrq[r].lock \in Locks /\ PostPendingOn(lrq[r].lock, "release")
    BY <1>1, <1>2, <1>5, ConvertGrants
  <2>2. held' \in [Requests -> Levels]
    BY <1>1, <1>2, <1>5 DEF Returns, Control
  <2>3. /\ job' \in JobType /\ JobPending' /\ job'.next = "release" /\ job'.purge = {}
    BY <2>1, GoesOnPosting
  <2>4. Control'
    BY <1>1, <2>1, <2>2, <2>3, CallOnRequest
  <2> QED
    BY <2>1, <2>4 DEF IInv
<1>6. CASE ConvertDenied(r, level) /\ Returns(r, level)
  <2>1. /\ Table' /\ lrq'[r].owner = lrq[r].owner
        /\ \A x \in Requests : LRQ_pending \in lrq'[x].flags => Pending(x)
        /\ \A x \in Requests \ {r} : lrq'[x] = lrq[x]
    BY <1>1, <1>6, ConvertDenies
  <2>2. held' \in [Requests -> Levels]
    BY <1>1, <1>2, <1>6 DEF Returns, Control
  <2>3. /\ job' \in JobType /\ JobPending' /\ job'.next = "release" /\ job'.purge = {}
    BY <1>6 DEF ConvertDenied, NoJob, JobType, JobPending
  <2>4. Control'
    BY <1>1, <1>3, <2>1, <2>2, <2>3, CallOnRequest
  <2> QED
    BY <2>1, <2>4 DEF IInv
<1> QED
  BY <1>4, <1>5, <1>6 DEF LOCK_downgrade

\* The same when a critical section of purges begins.
LEMMA PurgeBegins ==
  ASSUME IInv, UNCHANGED <<lrq, lbl, own, held>>,
         active' \in Owners \cup {Manager}, job' \in JobType, job'.pend = {},
         job'.next \in {"scan", "init", "leave"},
         \A p \in job'.purge : own[p].pc = "dead" \/ (p = active' /\ own[p].pc = "run"),
         active' \in Owners => own[active'].handler # "pop",
         job'.next = "init" =>
           /\ active' \in Owners
           /\ own[active'].pc = "off" \/ (own[active'].pc = "dead" /\ active' \in job'.purge),
         job'.next = "scan" => active' \in Owners /\ own[active'].pc = "wait"
  PROVE  IInv'
<1>1. Table'
  BY TableStays DEF IInv
<1>2. WaiterOwns' /\ HandlerAlive' /\ OffOwnsNothing' /\ PendingHasWaiter' /\ OneBlockingAction'
  BY DEF IInv, Control, WaiterOwns, HandlerAlive, OffOwnsNothing, PendingHasWaiter,
         OneBlockingAction, IsFree, Pending, Has, Signaled
<1>3. JobPending' /\ PurgeSound' /\ JobFits'
  BY DEF JobPending, PurgeSound, JobFits
<1>4. JobHasOwner'
  BY ConstantAssumption DEF JobHasOwner
<1>5. own' \in [Owners -> OwnerType] /\ held' \in [Requests -> Levels]
  BY DEF IInv, Control
<1> QED
  BY <1>1, <1>2, <1>3, <1>4, <1>5 DEF IInv, Control

LEMMA StepInit ==
  ASSUME IInv, NEW o \in Owners, LOCK_init(o)
  PROVE  IInv'
<1>1. own[o].handler = "off"
  BY DEF IInv, Control, HandlerAlive, LOCK_init
<1>2. job' \in JobType /\ job'.next = "init" /\ job'.pend = {} /\ job'.purge = Dead
  BY DEF LOCK_init, NoJob, JobType, Dead
<1>3. own[o].pc = "off" \/ (own[o].pc = "dead" /\ o \in Dead)
  BY DEF LOCK_init, Dead
<1>4. active' = o /\ UNCHANGED <<lrq, lbl, own, held>>
  BY DEF LOCK_init
<1>5. \A p \in Dead : own[p].pc = "dead"
  BY DEF Dead
<1> QED
  BY <1>1, <1>2, <1>3, <1>4, <1>5, PurgeBegins

LEMMA StepFini ==
  ASSUME IInv, NEW o \in Owners, LOCK_fini(o)
  PROVE  IInv'
<1>1. job' \in JobType /\ job'.next = "leave" /\ job'.pend = {} /\ job'.purge = {o}
  BY DEF LOCK_fini, NoJob, JobType
<1>2. /\ active' = o /\ UNCHANGED <<lrq, lbl, own, held>>
      /\ own[o].pc = "run" /\ own[o].handler = "off"
  BY DEF LOCK_fini, MainLine
<1> QED
  BY <1>1, <1>2, PurgeBegins

LEMMA StepManager ==
  ASSUME IInv, LOCK_manager
  PROVE  IInv'
<1> DEFINE S == {o \in Dead : "signal" \in own[o].flags}
<1>1. job' \in JobType /\ job'.next = "leave" /\ job'.pend = {} /\ job'.purge = S
  BY DEF LOCK_manager, NoJob, JobType, Dead
<1>2. active' = Manager /\ UNCHANGED <<lrq, lbl, own, held>>
  BY DEF LOCK_manager
<1>3. \A p \in S : own[p].pc = "dead"
  BY DEF Dead
<1> HIDE DEF S
<1> QED
  BY <1>1, <1>2, <1>3, ConstantAssumption, PurgeBegins

LEMMA StepScans ==
  ASSUME IInv, NEW o \in Owners, WaitScans(o)
  PROVE  IInv'
<1>1. job' \in JobType /\ job'.next = "scan" /\ job'.pend = {} /\ job'.purge = Dead
  BY DEF WaitScans, NoJob, JobType, Dead
<1>2. /\ active' = o /\ UNCHANGED <<lrq, lbl, own, held>>
      /\ own[o].pc = "wait" /\ own[o].handler = "off"
  BY DEF WaitScans, StillWaiting, Waiting
<1>3. \A p \in Dead : own[p].pc = "dead"
  BY DEF Dead
<1> QED
  BY <1>1, <1>2, <1>3, PurgeBegins

\* Control when one process moves and the critical section stays, or ends.
LEMMA OwnerMoves ==
  ASSUME IInv, Table', NEW o \in Owners, job' \in {job, NoJob},
         active' \in Owners \cup {NoOwner, Manager}, held' \in [Requests -> Levels],
         own' \in [Owners -> OwnerType],
         \A p \in Owners \ {o} : own'[p] = own[p],
         \A x \in Requests : /\ lrq'[x].owner = lrq[x].owner
                             /\ lrq'[x].lock = lrq[x].lock
                             /\ LRQ_pending \in lrq'[x].flags <=> Pending(x),
         own'[o].waits = own[o].waits \/ own'[o].pc \notin {"wait", "denied"},
         own'[o].pc \in {"wait", "denied"} => own[o].pc \in {"wait", "denied"},
         own'[o].pc \in {"off", "dead"} => own'[o].handler = "off",
         own'[o].pc = "off" => own[o].pc = "off",
         own'[o].handler # "off" => "signaled" \in own'[o].flags,
         \A x \in Requests : lrq[x].owner = o /\ Pending(x) =>
           /\ own'[o].pc \in {"wait", "dead"} /\ own'[o].waits = x
           /\ own'[o].pc = "wait" => own'[o].pending = x,
         \/ job' = NoJob
         \/ /\ active' = active /\ own'[o].pc = own[o].pc /\ own'[o].handler # "pop"
         \/ /\ active' = active /\ active # o
            /\ o \in job.purge => own'[o].pc = "dead"
  PROVE  IInv'
<1>0. job' = NoJob => job'.pend = {} /\ job'.purge = {} /\ job'.next = "none"
  BY DEF NoJob
<1>1. WaiterOwns'
  BY DEF IInv, Control, WaiterOwns
<1>2. JobPending'
  BY <1>0 DEF IInv, Control, JobType, JobPending, Pending, Has
<1>3. JobHasOwner'
  BY DEF IInv, Control, JobHasOwner
<1>4. PurgeSound'
  BY <1>0 DEF IInv, Control, PurgeSound, JobType
<1>5. HandlerAlive' /\ OneBlockingAction'
  BY DEF IInv, Control, HandlerAlive, OneBlockingAction, Signaled
<1>6. OffOwnsNothing'
  <2>1. \A x \in Requests : lrq[x].owner \in Owners \cup {NoOwner}
    BY DEF IInv, Table, RequestType
  <2> QED
    BY <2>1 DEF IInv, Control, OffOwnsNothing, IsFree
<1>7. JobFits'
  BY <1>0 DEF IInv, Control, JobFits
<1>8. PendingHasWaiter'
  <2>1. \A x \in Requests : Pending(x) => lrq[x].owner \in Owners
    BY DEF IInv, Table, RequestsLinked, RequestType, FreeRequest, Pending, Has
  <2> QED
    BY <2>1 DEF IInv, Control, PendingHasWaiter, Pending, Has
<1>9. job' \in JobType
  BY DEF IInv, Control, NoJob, JobType
<1> QED
  BY <1>1, <1>2, <1>3, <1>4, <1>5, <1>6, <1>7, <1>8, <1>9 DEF IInv, Control

\* The steps of one process that leave the table and the critical section alone.
LEMMA StepOwner ==
  ASSUME IInv, NEW o \in Owners,
         \/ WaitEnds(o) \/ blocking_action(o) \/ blocking_action_ignored(o)
         \/ AstDeferred(o) \/ AstReturns(o) \/ AstDone(o) \/ Dies(o)
  PROVE  IInv'
<1>1. /\ own \in [Owners -> OwnerType] /\ own[o] \in OwnerType
      /\ held \in [Requests -> Levels] /\ active \in Owners \cup {NoOwner, Manager}
  BY DEF IInv, Control
<1>2. ASSUME UNCHANGED <<lrq, lbl>>
      PROVE  /\ Table'
             /\ \A x \in Requests : /\ lrq'[x].owner = lrq[x].owner
                                    /\ lrq'[x].lock = lrq[x].lock
                                    /\ LRQ_pending \in lrq'[x].flags <=> Pending(x)
  BY <1>2, TableStays DEF IInv, Pending, Has
<1>3. \A x \in Requests : lrq[x].owner = o /\ Pending(x) =>
        /\ own[o].pc \in {"wait", "dead"} /\ own[o].waits = x
        /\ own[o].pc = "wait" => own[o].pending = x
  BY DEF IInv, Control, PendingHasWaiter
<1>4. own[o].handler # "off" => Signaled(o)
  BY DEF IInv, Control, OneBlockingAction
<1>5. own[o].pc \in {"off", "dead"} => own[o].handler = "off"
  BY DEF IInv, Control, HandlerAlive
<1>6. active = NoOwner \/ (active = o /\ own[o].handler = "pop") => job = NoJob
  BY DEF IInv, Control, JobHasOwner
<1>7. CASE WaitEnds(o)
  <2>1. /\ UNCHANGED <<lrq, lbl, active, job>> /\ active # o
        /\ own[o].pc = "wait" /\ own[o].handler = "off" /\ ~Pending(own[o].waits)
    BY <1>7 DEF WaitEnds, Waiting
  <2>2. own[o].waits \in Requests /\ lrq[own[o].waits] \in RequestType
    BY <2>1 DEF IInv, Control, Table, WaiterOwns
  <2>3. held' \in [Requests -> Levels]
    BY <1>1, <1>7, <2>2 DEF WaitEnds, Returns, RequestType
  <2>4. /\ own' \in [Owners -> OwnerType] /\ \A p \in Owners \ {o} : own'[p] = own[p]
        /\ own'[o].pc = "run" \/ (own'[o].pc = "denied" /\ own'[o].waits = own[o].waits)
        /\ own'[o].handler = "off"
    BY <1>1, <1>7, <2>1 DEF WaitEnds, OwnerType, PCs
  <2>5. o \notin job.purge
    BY <2>1 DEF IInv, Control, PurgeSound
  <2> QED
    BY <1>1, <1>2, <1>3, <2>1, <2>3, <2>4, <2>5, OwnerMoves
<1>8. CASE blocking_action(o)
  <2>1. /\ UNCHANGED <<lrq, lbl, held, job>> /\ active = NoOwner /\ active' = o
        /\ Signaled(o) /\ own[o].pc \notin {"off", "dead"}
        /\ own' = [own EXCEPT ![o].handler = "pop"]
    BY <1>8 DEF blocking_action
  <2>2. /\ own' \in [Owners -> OwnerType] /\ \A p \in Owners \ {o} : own'[p] = own[p]
        /\ own'[o].pc = own[o].pc /\ own'[o].waits = own[o].waits
        /\ own'[o].pending = own[o].pending /\ "signaled" \in own'[o].flags
    BY <1>1, <2>1 DEF OwnerType, Phases, Signaled
  <2> QED
    BY <1>1, <1>2, <1>3, <1>6, <2>1, <2>2, OwnerMoves
<1>9. CASE blocking_action_ignored(o)
  <2>1. /\ UNCHANGED <<lrq, lbl, held, active, job>> /\ own[o].handler = "off"
        /\ own' = [own EXCEPT ![o].flags = @ \ {"signaled"}]
    BY <1>9 DEF blocking_action_ignored
  <2>2. /\ own' \in [Owners -> OwnerType] /\ \A p \in Owners \ {o} : own'[p] = own[p]
        /\ own'[o].pc = own[o].pc /\ own'[o].waits = own[o].waits
        /\ own'[o].pending = own[o].pending /\ own'[o].handler = "off"
    BY <1>1, <2>1 DEF OwnerType
  <2>3. \A x \in Requests : lrq[x].owner = o /\ Pending(x) =>
          /\ own'[o].pc \in {"wait", "dead"} /\ own'[o].waits = x
          /\ own'[o].pc = "wait" => own'[o].pending = x
    BY <1>3, <2>2
  <2>4. /\ Table'
        /\ \A x \in Requests : /\ lrq'[x].owner = lrq[x].owner
                               /\ lrq'[x].lock = lrq[x].lock
                               /\ LRQ_pending \in lrq'[x].flags <=> Pending(x)
    BY <1>2, <2>1
  <2>5. /\ active' = active /\ own'[o].handler # "pop"
        /\ active' \in Owners \cup {NoOwner, Manager} /\ held' \in [Requests -> Levels]
    BY <1>1, <2>1, <2>2
  <2> QED
    BY ZenonT(60), <2>1, <2>2, <2>3, <2>4, <2>5, OwnerMoves
<1>10. CASE AstDeferred(o)
  <2>1. /\ UNCHANGED <<lrq, lbl, held, active, job>> /\ own[o].handler = "routine"
        /\ own' = [own EXCEPT ![o].handler = "back"]
    BY <1>10 DEF AstDeferred
  <2>2. /\ own' \in [Owners -> OwnerType] /\ \A p \in Owners \ {o} : own'[p] = own[p]
        /\ own'[o].pc = own[o].pc /\ own'[o].waits = own[o].waits
        /\ own'[o].pending = own[o].pending /\ own'[o].handler = "back"
        /\ own'[o].flags = own[o].flags
    BY <1>1, <2>1 DEF OwnerType, Phases
  <2>3. own[o].pc \notin {"off", "dead"} /\ "signaled" \in own'[o].flags
    BY <1>4, <1>5, <2>1, <2>2 DEF Signaled
  <2> QED
    BY <1>1, <1>2, <1>3, <2>1, <2>2, <2>3, OwnerMoves
<1>11. CASE AstReturns(o)
  <2>1. /\ UNCHANGED <<lrq, lbl, held, job>> /\ own[o].handler = "back"
        /\ active = NoOwner /\ active' = o
        /\ own' = [own EXCEPT ![o].handler = "pop", ![o].ast = NoRequest]
    BY <1>11 DEF AstReturns
  <2>2. /\ own' \in [Owners -> OwnerType] /\ \A p \in Owners \ {o} : own'[p] = own[p]
        /\ own'[o].pc = own[o].pc /\ own'[o].waits = own[o].waits
        /\ own'[o].pending = own[o].pending /\ own'[o].flags = own[o].flags
    BY <1>1, <2>1 DEF OwnerType, Phases
  <2>3. own[o].pc \notin {"off", "dead"} /\ "signaled" \in own'[o].flags
    BY <1>4, <1>5, <2>1, <2>2 DEF Signaled
  <2> QED
    BY <1>1, <1>2, <1>3, <1>6, <2>1, <2>2, <2>3, OwnerMoves
<1>12. CASE AstDone(o)
  <2>1. /\ UNCHANGED <<lrq, lbl, held, job>> /\ own[o].handler = "pop"
        /\ active = o /\ active' = NoOwner
        /\ own' = [own EXCEPT ![o].handler = "off", ![o].flags = @ \ {"signaled"}]
    BY <1>12 DEF AstDone
  <2>2. /\ own' \in [Owners -> OwnerType] /\ \A p \in Owners \ {o} : own'[p] = own[p]
        /\ own'[o].pc = own[o].pc /\ own'[o].waits = own[o].waits
        /\ own'[o].pending = own[o].pending /\ own'[o].handler = "off"
    BY <1>1, <2>1 DEF OwnerType, Phases
  <2> QED
    BY <1>1, <1>2, <1>3, <1>6, <2>1, <2>2, OwnerMoves
<1>13. CASE Dies(o)
  <2>1. /\ UNCHANGED <<lrq, lbl, held, active, job>> /\ active # o
        /\ own' = [own EXCEPT ![o].pc = "dead", ![o].handler = "off", ![o].ast = NoRequest]
    BY <1>13 DEF Dies
  <2>2. /\ own' \in [Owners -> OwnerType] /\ \A p \in Owners \ {o} : own'[p] = own[p]
        /\ own'[o].pc = "dead" /\ own'[o].waits = own[o].waits
        /\ own'[o].handler = "off"
    BY <1>1, <2>1 DEF OwnerType, Phases, PCs
  <2> QED
    BY <1>1, <1>2, <1>3, <2>1, <2>2, OwnerMoves
<1> QED
  BY <1>7, <1>8, <1>9, <1>10, <1>11, <1>12, <1>13

LEMMA StepAstTaken ==
  ASSUME IInv, NEW o \in Owners, AstTaken(o)
  PROVE  IInv'
<1> PICK r \in own_blocks(o) :
      /\ lrq' = [lrq EXCEPT ![r].flags =
                   Uchar((@ \ {LRQ_blocking}) \cup {LRQ_blocking_seen})]
      /\ own' = [own EXCEPT ![o].handler = "routine", ![o].ast = r]
  BY DEF AstTaken
<1>1. /\ own \in [Owners -> OwnerType] /\ own[o] \in OwnerType
      /\ held \in [Requests -> Levels]
      /\ lrq \in [Requests -> RequestType] /\ r \in Requests /\ lrq[r] \in RequestType
      /\ lrq[r].owner = o
  BY DEF IInv, Control, Table, own_blocks, OwnedBy
<1>2. /\ UNCHANGED <<lbl, held, job>> /\ active = o /\ active' = NoOwner
      /\ own[o].handler = "pop"
  BY DEF AstTaken
<1>3. job = NoJob /\ own[o].pc \notin {"off", "dead"} /\ Signaled(o)
  BY <1>2 DEF IInv, Control, JobHasOwner, HandlerAlive, OneBlockingAction
<1>4. /\ own' \in [Owners -> OwnerType] /\ \A p \in Owners \ {o} : own'[p] = own[p]
      /\ own'[o].pc = own[o].pc /\ own'[o].waits = own[o].waits
      /\ own'[o].pending = own[o].pending /\ own'[o].flags = own[o].flags
      /\ own'[o].handler = "routine"
  BY <1>1 DEF OwnerType, Phases
<1>5. lrq' \in [Requests -> RequestType]
  BY <1>1 DEF RequestType, Uchar, LrqBits
<1>6. \A x \in Requests : /\ lrq'[x].owner = lrq[x].owner
                          /\ lrq'[x].lock = lrq[x].lock
                          /\ lrq'[x].state = lrq[x].state
                          /\ LRQ_pending \in lrq'[x].flags <=> Pending(x)
  BY <1>1 DEF RequestType, Pending, Has, Uchar, LRQ_pending, LRQ_blocking, LRQ_blocking_seen
<1>7. \A x \in Requests : IsFree(x) => lrq'[x] = lrq[x]
  BY <1>1, ConstantAssumption DEF IsFree
<1>8. Table'
  BY <1>2, <1>5, <1>6, <1>7, TableUntouched DEF IInv
<1>9. \A x \in Requests : lrq[x].owner = o /\ Pending(x) =>
        /\ own'[o].pc \in {"wait", "dead"} /\ own'[o].waits = x
        /\ own'[o].pc = "wait" => own'[o].pending = x
  BY <1>4 DEF IInv, Control, PendingHasWaiter
<1>10. /\ active' \in Owners \cup {NoOwner, Manager} /\ held' \in [Requests -> Levels]
       /\ own'[o].pc \notin {"off", "dead"} /\ "signaled" \in own'[o].flags
       /\ UNCHANGED job
  BY <1>1, <1>2, <1>3, <1>4 DEF Signaled
<1> QED
  BY ZenonT(60), <1>3, <1>4, <1>6, <1>8, <1>9, <1>10, OwnerMoves

\* The steps of a waiter that begin a critical section.
LEMMA StepWaitDenied ==
  ASSUME IInv, NEW o \in Owners, WaitDenied(o)
  PROVE  IInv'
<1> DEFINE r == own[o].waits
<1>1. /\ active' = o /\ own[o].pc = "denied" /\ own[o].handler = "off" /\ UNCHANGED held
      /\ own' = [own EXCEPT ![o].pc = "run", ![o].waits = NoRequest]
      /\ PostPendingOn(lrq[r].lock, "release")
  BY DEF WaitDenied
<1>2. /\ own \in [Owners -> OwnerType] /\ own[o] \in OwnerType
      /\ held \in [Requests -> Levels] /\ r \in Requests /\ lrq[r].owner = o
      /\ lrq \in [Requests -> RequestType] /\ lrq[r] \in RequestType
      /\ Table /\ ~IsFree(r) /\ lrq[r].lock \in Locks
  BY <1>1, ConstantAssumption DEF IInv, Control, Table, WaiterOwns, IsFree, RequestsLinked
<1>3. /\ own' \in [Owners -> OwnerType] /\ \A p \in Owners \ {o} : own'[p] = own[p]
      /\ own'[o].pc = "run" /\ own'[o].handler = "off"
  BY <1>1, <1>2 DEF OwnerType, PCs
<1>4. /\ job' \in JobType /\ JobPending' /\ job'.next = "release" /\ job'.purge = {}
  BY <1>1, <1>2, GoesOnPosting
<1>5. \A x \in Requests : lrq[x].owner = o => ~Pending(x)
  BY <1>1, RunsUnpending
<1>6. CASE lrq[r].state = LCK_none /\ lrq' = LrqWithout(r) /\ lbl' = LblWithout(r)
  <2>1. Table'
    BY <1>2, <1>6, TableReleased
  <2>2. /\ lrq'[r] = FreeRequest
        /\ \A x \in Requests \ {r} : /\ lrq'[x].owner = lrq[x].owner
                                     /\ lrq'[x].flags = lrq[x].flags
    BY <1>2, <1>6 DEF LrqWithout, RequestType
  <2>3. \A x \in Requests : \/ /\ lrq'[x].owner = lrq[x].owner
                               /\ LRQ_pending \in lrq'[x].flags => Pending(x)
                            \/ /\ lrq[x].owner \in {o, NoOwner}
                               /\ lrq'[x].owner \in {o, NoOwner}
    BY <1>2, <2>2 DEF Pending, Has, FreeRequest
  <2>4. \A x \in Requests : lrq'[x].owner = o => LRQ_pending \notin lrq'[x].flags
    BY <1>5, <2>2, ConstantAssumption DEF Pending, Has, FreeRequest
  <2>5. Control'
    BY <1>1, <1>2, <1>3, <1>4, <2>1, <2>3, <2>4, SectionBegins
  <2> QED
    BY <2>1, <2>5 DEF IInv
<1>7. CASE lrq' = [lrq EXCEPT ![r].requested = lrq[r].state] /\ UNCHANGED lbl
  <2>1. lrq' \in [Requests -> RequestType]
    BY <1>2, <1>7 DEF RequestType
  <2>2. \A x \in Requests : /\ lrq'[x].owner = lrq[x].owner
                            /\ lrq'[x].lock = lrq[x].lock
                            /\ lrq'[x].state = lrq[x].state
                            /\ LRQ_pending \in lrq'[x].flags <=> Pending(x)
                            /\ IsFree(x) => lrq'[x] = lrq[x]
    BY <1>2, <1>7 DEF RequestType, Pending, Has, IsFree
  <2>3. Table'
    BY <1>2, <1>7, <2>1, <2>2, TableUntouched
  <2>4. \A x \in Requests : lrq'[x].owner = o => LRQ_pending \notin lrq'[x].flags
    BY <1>5, <2>2
  <2>5. Control'
    BY <1>1, <1>2, <1>3, <1>4, <2>2, <2>3, <2>4, SectionBegins
  <2> QED
    BY <2>3, <2>5 DEF IInv
<1> QED
  BY <1>6, <1>7 DEF WaitDenied

LEMMA StepWaitWokenUp ==
  ASSUME IInv, NEW o \in Owners, WaitWokenUp(o)
  PROVE  IInv'
<1> DEFINE r == own[o].waits
<1>1. /\ active' = o /\ own[o].pc = "wait" /\ own[o].handler = "off"
      /\ UNCHANGED <<lrq, lbl, held>>
      /\ own' = [own EXCEPT ![o].flags = @ \ {"wakeup"}]
      /\ job' = [NoJob EXCEPT !.next = "release", !.post = r]
  BY DEF WaitWokenUp, StillWaiting, Waiting
<1>2. /\ own \in [Owners -> OwnerType] /\ own[o] \in OwnerType
      /\ held \in [Requests -> Levels] /\ r \in Requests /\ lrq[r].owner = o
  BY <1>1 DEF IInv, Control, WaiterOwns
<1>3. /\ own' \in [Owners -> OwnerType] /\ \A p \in Owners \ {o} : own'[p] = own[p]
      /\ own'[o].pc = "wait" /\ own'[o].handler = "off" /\ own'[o].waits = r
      /\ own'[o].pending = own[o].pending
  BY <1>1, <1>2 DEF OwnerType
<1>4. /\ job' \in JobType /\ JobPending' /\ job'.next = "release" /\ job'.purge = {}
  BY <1>1, <1>2 DEF NoJob, JobType, JobPending
<1>5. \A x \in Requests : lrq[x].owner = o /\ Pending(x) => x = r /\ own[o].pending = x
  BY <1>1 DEF IInv, Control, PendingHasWaiter
<1>6. Table'
  BY <1>1, TableStays DEF IInv
<1>7. \A x \in Requests : /\ lrq'[x].owner = lrq[x].owner
                          /\ LRQ_pending \in lrq'[x].flags <=> Pending(x)
  BY <1>1 DEF Pending, Has
<1>8. Control'
  <2>1. /\ own'[o].pc \notin {"off", "dead"} /\ own'[o].handler # "pop"
        /\ own'[o].handler # "off" => "signaled" \in own'[o].flags
        /\ own'[o].pc \in {"wait", "denied"} =>
             own'[o].waits \in Requests /\ lrq'[own'[o].waits].owner = o
    BY <1>1, <1>2, <1>3
  <2>2. \A x \in Requests : lrq'[x].owner = o /\ LRQ_pending \in lrq'[x].flags =>
          own'[o].pc = "wait" /\ own'[o].waits = x /\ own'[o].pending = x
    BY <1>3, <1>5, <1>7
  <2>3. held' \in [Requests -> Levels] /\ active' = o
    BY <1>1, <1>2
  <2> HIDE DEF r
  <2> QED
    BY <1>3, <1>4, <1>6, <1>7, <2>1, <2>2, <2>3, SectionBegins
<1> QED
  BY <1>6, <1>8 DEF IInv

\* A pending request is rejected: its lock counts one waiter less.
LEMMA TableRejected ==
  ASSUME Table, NEW r \in Requests, ~IsFree(r), Pending(r),
         lrq' = [lrq EXCEPT ![r].flags = (@ \ {LRQ_pending}) \cup {LRQ_rejected}],
         lbl' = [lbl EXCEPT ![lrq[r].lock].pending = @ - 1]
  PROVE  /\ Table'
         /\ \A x \in Requests : lrq'[x].owner = lrq[x].owner /\ lrq'[x].lock = lrq[x].lock
         /\ \A x \in Requests \ {r} : lrq'[x] = lrq[x]
         /\ LRQ_pending \notin lrq'[r].flags
<1> DEFINE l == lrq[r].lock
           q == [lrq[r] EXCEPT !.flags = (lrq[r].flags \ {LRQ_pending}) \cup {LRQ_rejected}]
<1>1. /\ lrq[r] \in RequestType /\ lrq \in [Requests -> RequestType]
      /\ l \in Locks /\ lbl[l] \in LockType
  BY DEF Table, RequestsLinked, IsFree
<1>2. /\ q \in RequestType /\ q.owner = lrq[r].owner /\ q.owner \in Owners /\ q.lock = l
      /\ q.state = lrq[r].state /\ LRQ_pending \notin q.flags
  BY <1>1 DEF RequestType, LrqBits, LRQ_pending, LRQ_rejected, IsFree
<1>3. lrq' = [lrq EXCEPT ![r] = q]
  BY <1>1
<1> HIDE DEF q
<1>4. lbl[l].pending - Ones(Pending(r)) + Ones(LRQ_pending \in q.flags) = lbl[l].pending - 1
  BY <1>1, <1>2 DEF Ones, LockType
<1>5. Table'
  BY <1>1, <1>2, <1>3, <1>4, TableLevelKept
<1> QED
  BY <1>1, <1>2, <1>3, <1>5

LEMMA StepWaitTimesOut ==
  ASSUME IInv, NEW o \in Owners, WaitTimesOut(o)
  PROVE  IInv'
<1> DEFINE r == own[o].waits
<1>1. /\ active' = o /\ own[o].pc = "wait" /\ own[o].handler = "off" /\ Pending(r)
      /\ UNCHANGED held
      /\ lrq' = [lrq EXCEPT ![r].flags = (@ \ {LRQ_pending}) \cup {LRQ_rejected}]
      /\ lbl' = [lbl EXCEPT ![lrq[r].lock].pending = @ - 1]
      /\ own' = [own EXCEPT ![o].flags = @ \ {"wakeup"}]
      /\ job' = [NoJob EXCEPT !.next = "release"]
  BY DEF WaitTimesOut, StillWaiting, Waiting
<1>2. /\ own \in [Owners -> OwnerType] /\ own[o] \in OwnerType
      /\ held \in [Requests -> Levels] /\ r \in Requests /\ lrq[r].owner = o
      /\ Table /\ ~IsFree(r)
  BY <1>1, ConstantAssumption DEF IInv, Control, WaiterOwns, IsFree
<1>3. /\ own' \in [Owners -> OwnerType] /\ \A p \in Owners \ {o} : own'[p] = own[p]
      /\ own'[o].pc = "wait" /\ own'[o].handler = "off" /\ own'[o].waits = r
      /\ own'[o].pending = own[o].pending
  BY <1>1, <1>2 DEF OwnerType
<1>4. /\ job' \in JobType /\ JobPending' /\ job'.next = "release" /\ job'.purge = {}
  BY <1>1 DEF NoJob, JobType, JobPending
<1>5. \A x \in Requests : lrq[x].owner = o /\ Pending(x) => x = r /\ own[o].pending = x
  BY <1>1 DEF IInv, Control, PendingHasWaiter
<1>6. /\ Table'
      /\ \A x \in Requests : lrq'[x].owner = lrq[x].owner
      /\ \A x \in Requests \ {r} : lrq'[x] = lrq[x]
      /\ LRQ_pending \notin lrq'[r].flags
  BY <1>1, <1>2, TableRejected
<1>7. \A x \in Requests : /\ lrq'[x].owner = lrq[x].owner
                          /\ LRQ_pending \in lrq'[x].flags => Pending(x) /\ x # r
  BY <1>6 DEF Pending, Has
<1>8. \A x \in Requests : lrq'[x].owner = o => LRQ_pending \notin lrq'[x].flags
  BY <1>5, <1>7
<1>9. /\ own'[o].pc \notin {"off", "dead"} /\ own'[o].handler = "off" /\ active' = o
      /\ own'[o].waits \in Requests /\ lrq'[own'[o].waits].owner = o
      /\ held' \in [Requests -> Levels]
  BY <1>1, <1>2, <1>3, <1>6
<1>10. Control'
  BY <1>3, <1>4, <1>6, <1>7, <1>8, <1>9, SectionBegins
<1> QED
  BY <1>6, <1>10 DEF IInv

\* Control when a critical section goes on.
LEMMA SectionGoesOn ==
  ASSUME IInv, Table', job # NoJob, active' = active, own' \in [Owners -> OwnerType],
         held' \in [Requests -> Levels], job' \in JobType, JobPending',
         job'.next = job.next, job'.purge = job.purge,
         \A p \in Owners : /\ own'[p].pc = own[p].pc /\ own'[p].handler = own[p].handler
                           /\ own'[p].waits = own[p].waits
                           /\ own'[p].pending = own[p].pending
                           /\ "signaled" \in own[p].flags => "signaled" \in own'[p].flags,
         \A x \in Requests : /\ lrq'[x].owner \in {lrq[x].owner, NoOwner}
                             /\ LRQ_pending \in lrq'[x].flags => Pending(x),
         \A p \in Owners : own[p].pc \in {"wait", "denied"} => lrq'[own[p].waits].owner = p
  PROVE  IInv'
<1>1. \A x \in Requests : IF lrq'[x].owner = NoOwner THEN LRQ_pending \notin lrq'[x].flags
                                                     ELSE lrq'[x].owner \in Owners
  BY DEF Table, RequestsLinked, FreeRequest, RequestType
<1>2. WaiterOwns'
  BY DEF IInv, Control, WaiterOwns
<1>3. JobHasOwner'
  BY DEF IInv, Control, JobHasOwner
<1>4. PurgeSound'
  BY DEF IInv, Control, PurgeSound, JobType
<1>5. HandlerAlive' /\ OneBlockingAction'
  BY DEF IInv, Control, HandlerAlive, OneBlockingAction, Signaled
<1>6. OffOwnsNothing'
  BY <1>1 DEF IInv, Control, OffOwnsNothing, IsFree
<1>7. JobFits'
  BY DEF IInv, Control, JobFits
<1>8. PendingHasWaiter'
  BY <1>1 DEF IInv, Control, PendingHasWaiter, Pending, Has
<1>9. active' \in Owners \cup {NoOwner, Manager}
  BY DEF IInv, Control
<1> QED
  BY <1>2, <1>3, <1>4, <1>5, <1>6, <1>7, <1>8, <1>9 DEF IInv, Control

\* post_pending grants the request it is at.
LEMMA TablePosted ==
  ASSUME Table, NEW r \in Requests, ~IsFree(r),
         NEW c, c = CountDown(lbl[lrq[r].lock].counts, lrq[r].state),
         Compatible(lrq[r].requested, IF lrq[r].state = LCK_none THEN lbl[lrq[r].lock].state
                                                                 ELSE lock_state(c)),
         lrq' = GrantedRequest(r),
         lbl' = [lbl EXCEPT ![lrq[r].lock] = GrantedLock(r, c, lrq[r].requested)]
  PROVE  /\ Table' /\ lrq'[r].owner = lrq[r].owner /\ LRQ_pending \notin lrq'[r].flags
         /\ \A x \in Requests \ {r} : lrq'[x] = lrq[x]
<1> DEFINE l == lrq[r].lock
           level == lrq[r].requested
           q == [lrq[r] EXCEPT !.state = level, !.flags = lrq[r].flags \ {LRQ_pending}]
<1>1. /\ lrq[r] \in RequestType /\ lrq \in [Requests -> RequestType] /\ l \in Locks
      /\ level \in Levels
  BY DEF Table, RequestsLinked, IsFree, RequestType
<1>2. /\ q \in RequestType /\ q.owner = lrq[r].owner /\ q.lock = l /\ q.state = level
      /\ LRQ_pending \notin q.flags
  BY <1>1 DEF RequestType
<1>3. lrq' = [lrq EXCEPT ![r] = q]
  BY <1>1 DEF GrantedRequest
<1>4. Compatible(level, lock_state(c))
  <2>1. CASE lrq[r].state = LCK_none
    <3>1. c = lbl[l].counts
      BY <2>1 DEF CountDown
    <3>2. lbl[l].state = lock_state(c)
      BY <1>1, <3>1 DEF Table, LockBlocksAgree
    <3> QED
      BY <2>1, <3>2
  <2>2. CASE lrq[r].state # LCK_none
    BY <2>2
  <2> QED
    BY <2>1, <2>2
<1> HIDE DEF q
<1>5. Table'
  BY <1>1, <1>2, <1>3, <1>4, TableGranted
<1> QED
  BY <1>1, <1>2, <1>3, <1>5

LEMMA StepPostPending ==
  ASSUME IInv, post_pending
  PROVE  IInv'
<1> PICK r \in job.pend :
      LET q == lrq[r]
          c == CountDown(lbl[q.lock].counts, q.state)
          fits == Compatible(q.requested, IF q.state = LCK_none THEN lbl[q.lock].state
                                                                ELSE lock_state(c))
      IN /\ own' = Wakened(q.owner)
         /\ \/ /\ fits
               /\ lrq' = GrantedRequest(r)
               /\ lbl' = [lbl EXCEPT ![q.lock] = GrantedLock(r, c, q.requested)]
               /\ job' = [job EXCEPT !.pend = @ \ {r}]
            \/ /\ ~fits
               /\ job' = [job EXCEPT !.pend = AfterUnsuited(r)]
               /\ UNCHANGED <<lrq, lbl>>
         /\ UNCHANGED <<held, active>>
  BY DEF post_pending
<1>1. /\ Table /\ Control /\ job \in JobType /\ r \in Requests /\ Pending(r)
      /\ own \in [Owners -> OwnerType] /\ held \in [Requests -> Levels]
  BY DEF IInv, Control, JobType, JobPending
<1>2. ~IsFree(r)
  BY <1>1 DEF Table, RequestsLinked, IsFree, FreeRequest, Pending, Has
<1>3. /\ Table'
      /\ \A x \in Requests : /\ lrq'[x].owner = lrq[x].owner
                             /\ LRQ_pending \in lrq'[x].flags => Pending(x)
      /\ \A x \in Requests \ {r} : lrq'[x] = lrq[x]
  <2>1. CASE UNCHANGED <<lrq, lbl>>
    BY <1>1, <2>1, TableStays DEF Pending, Has
  <2>2. CASE lrq' = GrantedRequest(r)
    <3>1. /\ Table' /\ lrq'[r].owner = lrq[r].owner /\ LRQ_pending \notin lrq'[r].flags
          /\ \A x \in Requests \ {r} : lrq'[x] = lrq[x]
      <4>1. CASE ~(UNCHANGED <<lrq, lbl>>)
        BY <1>1, <1>2, <4>1, TablePosted
      <4>2. CASE UNCHANGED <<lrq, lbl>>
        <5>1. lrq'[r] = lrq[r] /\ lrq[r] \in RequestType
          BY <1>1, <4>2 DEF Table
        <5>2. LRQ_pending \notin lrq'[r].flags
          BY <1>1, <2>2, <5>1 DEF GrantedRequest, Table, RequestType
        <5> QED
          BY <1>1, <4>2, <5>1, <5>2, TableStays
      <4> QED
        BY <4>1, <4>2
    <3> QED
      BY <3>1 DEF Pending, Has
  <2> QED
    BY <2>1, <2>2
<1>4. /\ job' \in JobType /\ job'.next = job.next /\ job'.purge = job.purge
      /\ job'.lock = job.lock
      /\ job'.pend \subseteq job.pend \ {r}
  BY <1>1 DEF JobType, AfterUnsuited
<1>5. JobPending'
  BY <1>1, <1>3, <1>4 DEF Control, JobType, JobPending, Pending, Has
<1>6. /\ own' \in [Owners -> OwnerType]
      /\ \A p \in Owners : /\ own'[p].pc = own[p].pc /\ own'[p].handler = own[p].handler
                           /\ own'[p].waits = own[p].waits
                           /\ own'[p].pending = own[p].pending
                           /\ "signaled" \in own[p].flags => "signaled" \in own'[p].flags
  <2> DEFINE w == lrq[r].owner
  <2>1. w \in Owners /\ own[w] \in OwnerType
    BY <1>1, <1>2 DEF Table, RequestType, IsFree
  <2>2. PICK f \in SUBSET OwnFlags : /\ own[w].flags \subseteq f
                                    /\ own' = [own EXCEPT ![w].flags = f]
    BY <2>1 DEF Wakened, OwnerType, OwnFlags
  <2>3. own' \in [Owners -> OwnerType] /\ \A p \in Owners \ {w} : own'[p] = own[p]
    BY <1>1, <2>1, <2>2 DEF OwnerType
  <2>4. /\ own'[w].pc = own[w].pc /\ own'[w].handler = own[w].handler
        /\ own'[w].waits = own[w].waits /\ own'[w].pending = own[w].pending
        /\ own'[w].flags = f
    BY <1>1, <2>1, <2>2 DEF OwnerType
  <2> QED
    BY <2>1, <2>2, <2>3, <2>4
<1>7. job # NoJob
  BY <1>1 DEF NoJob
<1>8. \A p \in Owners : own[p].pc \in {"wait", "denied"} => lrq'[own[p].waits].owner = p
  BY <1>1, <1>3 DEF Control, WaiterOwns
<1> QED
  BY <1>1, <1>3, <1>4, <1>5, <1>6, <1>7, <1>8, SectionGoesOn

LEMMA PendingIsOwned ==
  ASSUME Table, NEW r \in Requests, Pending(r)
  PROVE  lrq[r].owner \in Owners
BY DEF Table, RequestsLinked, RequestType, FreeRequest, Pending, Has

\* What release_request leaves of the queues.
LEMMA WithoutKeeps ==
  ASSUME Table, NEW r \in Requests, lrq' = LrqWithout(r)
  PROVE  /\ lrq'[r] = FreeRequest
         /\ \A x \in Requests \ {r} : /\ lrq'[x].owner = lrq[x].owner
                                      /\ lrq'[x].flags = lrq[x].flags
BY DEF LrqWithout, Table, RequestType

LEMMA StepPurge ==
  ASSUME IInv, purge_owner
  PROVE  IInv'
<1>0. job.pend = {} /\ active' = active
  BY DEF purge_owner
<1>p. PICK o \in job.purge :
      \/ \E r \in OwnedBy(o) :
           /\ lrq' = LrqWithout(r)
           /\ lbl' = LblWithout(r)
           /\ job' = [job EXCEPT !.lock = lrq[r].lock,
                                 !.pend = PendingOn(lrq', lrq[r].lock)]
           /\ Returns(r, LCK_none)
           /\ UNCHANGED own
      \/ /\ OwnedBy(o) = {}
         /\ own' = [own EXCEPT ![o] = OffOwner]
         /\ job' = [job EXCEPT !.purge = @ \ {o}]
         /\ UNCHANGED <<lrq, lbl, held>>
  BY DEF purge_owner
<1>q. job # NoJob
  BY DEF NoJob
<1>1. /\ Table /\ Control /\ job \in JobType /\ o \in Owners /\ active' = active
      /\ own \in [Owners -> OwnerType] /\ held \in [Requests -> Levels] /\ job.pend = {}
      /\ own[o].pc = "dead" \/ (o = active /\ own[o].pc = "run")
      /\ job # NoJob
  BY <1>0, <1>q DEF IInv, Control, JobType, PurgeSound
<1>2. ASSUME NEW r \in OwnedBy(o), lrq' = LrqWithout(r), lbl' = LblWithout(r),
             job' = [job EXCEPT !.lock = lrq[r].lock,
                                !.pend = PendingOn(lrq', lrq[r].lock)],
             Returns(r, LCK_none), UNCHANGED own
      PROVE  IInv'
  <2>1. /\ r \in Requests /\ lrq[r].owner = o /\ ~IsFree(r) /\ lrq[r].lock \in Locks
        /\ lrq \in [Requests -> RequestType]
    BY <1>1, ConstantAssumption DEF OwnedBy, IsFree, Table, RequestsLinked
  <2>2. Table'
    BY <1>1, <1>2, <2>1, TableReleased
  <2>3. /\ lrq'[r] = FreeRequest
        /\ \A x \in Requests \ {r} : /\ lrq'[x].owner = lrq[x].owner
                                     /\ lrq'[x].flags = lrq[x].flags
    BY <1>1, <1>2, <2>1, WithoutKeeps
  <2>4. \A x \in Requests : /\ lrq'[x].owner \in {lrq[x].owner, NoOwner}
                            /\ LRQ_pending \in lrq'[x].flags => Pending(x)
    <3>1. lrq'[r].owner = NoOwner /\ lrq'[r].flags = {}
      BY <2>3 DEF FreeRequest
    <3> QED
      BY <2>3, <3>1 DEF Pending, Has
  <2>5. held' \in [Requests -> Levels]
    <3>1. held' = [held EXCEPT ![r] = LCK_none] /\ LCK_none \in Levels
      BY <1>2 DEF Returns, Levels, LCK_none
    <3> QED
      BY <1>1, <3>1
  <2>6. /\ job' \in JobType /\ job'.next = job.next /\ job'.purge = job.purge
        /\ job'.lock = lrq[r].lock /\ job'.pend = PendingOn(lrq', lrq[r].lock)
    BY <1>1, <1>2, <2>1 DEF JobType, PendingOn
  <2>7. JobPending'
    BY <2>6 DEF JobPending, PendingOn, Pending, Has
  <2>8. \A p \in Owners : own[p].pc \in {"wait", "denied"} => lrq'[own[p].waits].owner = p
    BY <1>1, <2>1, <2>3 DEF Control, WaiterOwns
  <2>9. \A p \in Owners : own'[p] = own[p]
    BY <1>2
  <2>10. own' \in [Owners -> OwnerType]
    BY <1>1, <1>2
  <2> QED
    BY <1>1, <2>2, <2>4, <2>5, <2>6, <2>7, <2>8, <2>9, <2>10, SectionGoesOn
<1>3. ASSUME OwnedBy(o) = {}, own' = [own EXCEPT ![o] = OffOwner],
             job' = [job EXCEPT !.purge = @ \ {o}], UNCHANGED <<lrq, lbl, held>>
      PROVE  IInv'
  <2>1. Table'
    BY <1>1, <1>3, TableStays
  <2>2. /\ own' \in [Owners -> OwnerType] /\ \A p \in Owners \ {o} : own'[p] = own[p]
        /\ own'[o].pc = "off" /\ own'[o].handler = "off"
    BY <1>1, <1>3 DEF OffOwner, OwnerType, PCs, Phases
  <2>3. /\ job' \in JobType /\ job'.next = job.next /\ job'.purge = job.purge \ {o}
        /\ job'.pend = {}
    BY <1>1, <1>3 DEF JobType
  <2>4. \A x \in Requests : lrq[x].owner # o
    BY <1>3 DEF OwnedBy
  <2>5. WaiterOwns'
    BY <1>1, <1>3, <2>2 DEF Control, WaiterOwns
  <2>6. JobPending' /\ PurgeSound'
    BY <1>1, <2>2, <2>3 DEF Control, JobType, JobPending, PurgeSound
  <2>7. JobHasOwner'
    BY <1>1, <2>2 DEF Control, JobHasOwner
  <2>8. HandlerAlive' /\ OneBlockingAction'
    BY <1>1, <2>2 DEF Control, HandlerAlive, OneBlockingAction, Signaled
  <2>9. OffOwnsNothing'
    <3>1. \A x \in Requests : lrq[x].owner \in Owners \cup {NoOwner}
      BY <1>1 DEF Table, RequestType
    <3> QED
      BY <1>1, <1>3, <2>2, <2>4, <3>1 DEF Control, OffOwnsNothing, IsFree
  <2>10. JobFits'
    BY <1>1, <2>2, <2>3 DEF Control, JobFits
  <2>11. PendingHasWaiter'
    <3>1. \A x \in Requests : Pending(x) => lrq[x].owner \in Owners
      BY <1>1, PendingIsOwned
    <3> QED
      BY <1>1, <1>3, <2>2, <2>4, <3>1 DEF Control, PendingHasWaiter, Pending, Has
  <2> QED
    BY <1>1, <1>3, <2>1, <2>2, <2>3, <2>5, <2>6, <2>7, <2>8, <2>9, <2>10, <2>11
    DEF IInv, Control
<1> QED
  BY <1>p, <1>2, <1>3

LEMMA StepPostBlockage ==
  ASSUME IInv, post_blockage
  PROVE  IInv'
<1> DEFINE r == job.post
           B == BlockersToTell(r)
<1>1. /\ Table /\ Control /\ job \in JobType /\ active' = active /\ UNCHANGED <<lbl, held>>
      /\ own \in [Owners -> OwnerType] /\ held \in [Requests -> Levels] /\ job # NoJob
      /\ lrq \in [Requests -> RequestType] /\ job.pend = {}
      /\ job' = [job EXCEPT !.post = NoRequest]
      /\ lrq' = [x \in Requests |->
                   IF x \in B /\ ~Has(x, LRQ_blocking)
                   THEN [lrq[x] EXCEPT !.flags = (@ \cup {LRQ_blocking}) \ {LRQ_blocking_seen}]
                   ELSE lrq[x]]
      /\ own' = SignalOwners({lrq[b].owner : b \in B} \ {lrq[r].owner})
  BY DEF IInv, Control, Table, post_blockage, NoJob
<1>2. r \in Requests
  BY <1>1 DEF post_blockage, JobType
<1>3. B \subseteq OnLock(lrq[r].lock)
  BY DEF BlockersToTell
<1>4. \A x \in B : ~IsFree(x)
  <2>1. \A x \in B : Has(x, LRQ_blocking) \/ lrq[x].state # LCK_none
    BY NoneIsCompatible DEF BlockersToTell
  <2> QED
    BY <1>1, <1>3, <2>1 DEF Table, RequestsLinked, FreeRequest, IsFree, Has, OnLock
<1>5. lrq' \in [Requests -> RequestType]
  BY <1>1 DEF RequestType, LrqBits
<1>6. \A x \in Requests : /\ lrq'[x].owner = lrq[x].owner
                          /\ lrq'[x].lock = lrq[x].lock
                          /\ lrq'[x].state = lrq[x].state
                          /\ LRQ_pending \in lrq'[x].flags <=> Pending(x)
                          /\ IsFree(x) => lrq'[x] = lrq[x]
  BY <1>1, <1>4 DEF RequestType, Pending, Has, LRQ_pending, LRQ_blocking, LRQ_blocking_seen
<1>7. Table'
  BY <1>1, <1>5, <1>6, TableUntouched
<1>8. /\ own' \in [Owners -> OwnerType]
      /\ \A p \in Owners : /\ own'[p].pc = own[p].pc /\ own'[p].handler = own[p].handler
                           /\ own'[p].waits = own[p].waits
                           /\ own'[p].pending = own[p].pending
                           /\ "signaled" \in own[p].flags => "signaled" \in own'[p].flags
  BY <1>1 DEF SignalOwners, OwnerType, OwnFlags
<1>9. /\ job' \in JobType /\ job'.next = job.next /\ job'.purge = job.purge
      /\ job'.pend = {}
  BY <1>1 DEF JobType
<1>10. JobPending'
  BY <1>9 DEF JobPending
<1>11. \A p \in Owners : own[p].pc \in {"wait", "denied"} => lrq'[own[p].waits].owner = p
  BY <1>1, <1>6 DEF Control, WaiterOwns
<1>12. held' \in [Requests -> Levels]
  BY <1>1
<1> QED
  BY <1>1, <1>6, <1>7, <1>8, <1>9, <1>10, <1>11, <1>12, SectionGoesOn

LEMMA StepCreateOwner ==
  ASSUME IInv, create_owner
  PROVE  IInv'
<1> DEFINE o == active
<1>1. /\ Table /\ Control /\ job \in JobType /\ UNCHANGED <<lrq, lbl, held, active>>
      /\ own \in [Owners -> OwnerType] /\ held \in [Requests -> Levels]
      /\ job.next = "init" /\ job.purge = {} /\ job.pend = {}
      /\ own' = [own EXCEPT ![o] = [OffOwner EXCEPT !.pc = "run"]]
      /\ job' = [job EXCEPT !.next = "release"]
  BY DEF IInv, Control, create_owner, Quiet
<1>2. o \in Owners /\ own[o].pc = "off"
  BY <1>1 DEF Control, JobFits
<1>3. /\ own' \in [Owners -> OwnerType] /\ \A p \in Owners \ {o} : own'[p] = own[p]
      /\ own'[o].pc = "run" /\ own'[o].handler = "off"
  BY <1>1, <1>2 DEF OffOwner, OwnerType, PCs, Phases
<1>4. \A x \in Requests : lrq[x].owner # o
  BY <1>1, <1>2, ConstantAssumption DEF Control, OffOwnsNothing, IsFree
<1>5. /\ job' \in JobType /\ job'.next = "release" /\ job'.purge = {} /\ job'.pend = {}
  BY <1>1 DEF JobType
<1>6. JobPending'
  BY <1>5 DEF JobPending
<1>7. Table'
  BY <1>1, TableStays
<1>8. \A x \in Requests : /\ lrq'[x].owner = lrq[x].owner /\ lrq'[x].owner # o
                          /\ LRQ_pending \in lrq'[x].flags => Pending(x)
  BY <1>1, <1>4 DEF Pending, Has
<1>9. Control'
  BY <1>1, <1>2, <1>3, <1>5, <1>6, <1>7, <1>8, SectionBegins
<1> QED
  BY <1>7, <1>9 DEF IInv

LEMMA StepRelease ==
  ASSUME IInv, release
  PROVE  IInv'
<1> DEFINE o == active
<1>1. /\ job' = NoJob /\ UNCHANGED <<lrq, lbl, held>> /\ job.next = "release"
  BY DEF release
<1>2. /\ Table /\ own \in [Owners -> OwnerType] /\ held \in [Requests -> Levels]
      /\ o \in Owners /\ own[o] \in OwnerType /\ own[o].pc \notin {"off", "dead"}
  BY <1>1 DEF IInv, Control, JobFits
<1>3. /\ Table'
      /\ \A x \in Requests : /\ lrq'[x].owner = lrq[x].owner
                             /\ lrq'[x].lock = lrq[x].lock
                             /\ LRQ_pending \in lrq'[x].flags <=> Pending(x)
  BY <1>1, <1>2, TableStays DEF Pending, Has
<1>4. \A x \in Requests : lrq[x].owner = o /\ Pending(x) =>
        own[o].pc = "wait" /\ own[o].waits = x /\ own[o].pending = x
  BY <1>2 DEF IInv, Control, PendingHasWaiter
<1>5. own[o].handler # "off" => "signaled" \in own[o].flags
  BY <1>2 DEF IInv, Control, OneBlockingAction, Signaled
<1>6. /\ own' \in [Owners -> OwnerType] /\ \A p \in Owners \ {o} : own'[p] = own[p]
      /\ own'[o].pc = own[o].pc /\ own'[o].waits = own[o].waits
      /\ own'[o].pending = own[o].pending
      /\ own'[o].handler # "off" => "signaled" \in own'[o].flags
      /\ active' \in {o, NoOwner}
  <2>1. CASE /\ own' = [own EXCEPT ![o].handler = "pop",
                                   ![o].flags = (@ \ {"signal"}) \cup {"signaled"}]
             /\ UNCHANGED active
    BY <1>2, <2>1 DEF OwnerType, OwnFlags, Phases
  <2>2. CASE UNCHANGED own /\ active' = NoOwner
    BY <1>2, <1>5, <2>2
  <2>3. CASE /\ own[o].handler = "off" /\ active' = NoOwner
             /\ own' = [own EXCEPT ![o].flags = @ \ {"signaled"}]
    BY <1>2, <2>3 DEF OwnerType
  <2> QED
    BY <2>1, <2>2, <2>3 DEF release
<1>7. \A x \in Requests : lrq[x].owner = o /\ Pending(x) =>
        own'[o].pc = "wait" /\ own'[o].waits = x /\ own'[o].pending = x
  BY <1>4, <1>6
<1>8. active' \in Owners \cup {NoOwner, Manager} /\ held' \in [Requests -> Levels]
  BY <1>1, <1>2, <1>6
<1> HIDE DEF o
<1> QED
  BY <1>1, <1>2, <1>3, <1>6, <1>7, <1>8, OwnerMoves

LEMMA StepReleaseMutex ==
  ASSUME IInv, release_mutex
  PROVE  IInv'
<1>1. active' = NoOwner /\ job' = NoJob /\ UNCHANGED <<lrq, lbl, own, held>>
  BY DEF release_mutex
<1>2. Table'
  BY <1>1, TableStays DEF IInv
<1>3. job' \in JobType /\ JobPending' /\ PurgeSound' /\ JobFits' /\ JobHasOwner'
  BY <1>1 DEF NoJob, JobType, JobPending, PurgeSound, JobFits, JobHasOwner
<1>4. /\ WaiterOwns' /\ HandlerAlive' /\ OffOwnsNothing' /\ PendingHasWaiter'
      /\ OneBlockingAction' /\ own' \in [Owners -> OwnerType] /\ held' \in [Requests -> Levels]
  BY <1>1 DEF IInv, Control, WaiterOwns, HandlerAlive, OffOwnsNothing, PendingHasWaiter,
              OneBlockingAction, IsFree, Pending, Has, Signaled
<1> QED
  BY <1>1, <1>2, <1>3, <1>4 DEF IInv, Control

\* A deadlock scan only meets pending requests.
LEMMA VictimsPend ==
  ASSUME IInv, NEW r \in Requests, Pending(r), NEW v \in Victims(r)
  PROVE  v \in Requests /\ Pending(v)
<1> DEFINE S == {x \in Requests : Pending(x)}
<1>1. /\ lrq \in [Requests -> RequestType] /\ own \in [Owners -> OwnerType]
  BY DEF IInv, Control, Table
<1>2. ASSUME NEW y \in Requests PROVE WaitEdges(y) \subseteq S
  <2>1. \A b \in BlockedBy(y) : b \in Requests /\ ~IsFree(b)
    <3> SUFFICES ASSUME NEW b \in BlockedBy(y) PROVE b \in Requests /\ ~IsFree(b)
      OBVIOUS
    <3>1. b \in Requests
      BY <1>1 DEF BlockedBy, OnLock, RequestType
    <3>2. lrq[b].state # LCK_none \/ MaxLevel(lrq[b].state, lrq[b].requested) # LCK_none
      BY NoneIsCompatible DEF BlockedBy
    <3>3. ASSUME IsFree(b) PROVE FALSE
      <4>1. lrq[b] = FreeRequest
        BY <3>1, <3>3 DEF IInv, Table, RequestsLinked, IsFree
      <4> QED
        BY <3>2, <4>1 DEF FreeRequest, MaxLevel
    <3> QED
      BY <3>1, <3>3
  <2>2. \A b \in BlockedBy(y) : own[lrq[b].owner].pending \in Requests \cup {NoRequest}
    BY <1>1, <2>1 DEF RequestType, OwnerType, IsFree
  <2> QED
    BY <2>2 DEF WaitEdges
<1>3. \A T \in SUBSET Requests :
        (r \in T /\ \A y \in T : WaitEdges(y) \subseteq T) => v \in T
  BY DEF Victims, Walk
<1>4. S \in SUBSET Requests /\ r \in S
  OBVIOUS
<1> QED
  BY <1>2, <1>3, <1>4

LEMMA StepDeadlockScan ==
  ASSUME IInv, deadlock_scan
  PROVE  IInv'
<1> DEFINE o == active
           r == own[o].waits
<1>1. /\ job.next = "scan" /\ job.pend = {} /\ job.purge = {} /\ job # NoJob
      /\ UNCHANGED <<held, active>>
  BY DEF deadlock_scan, Quiet, NoJob
<1>2. /\ Table /\ Control /\ job \in JobType /\ own \in [Owners -> OwnerType]
      /\ held \in [Requests -> Levels]
      /\ o \in Owners /\ own[o] \in OwnerType /\ own[o].pc = "wait"
      /\ r \in Requests /\ lrq[r].owner = o /\ own[o].handler # "pop"
  BY <1>1 DEF IInv, Control, JobFits, WaiterOwns, JobHasOwner
<1>3. ASSUME NEW v \in Victims(r), Pending(r), RejectVictim(v, o),
             job' = [job EXCEPT !.next = "release"]
      PROVE  IInv'
  <2> DEFINE w == lrq[v].owner
  <2>1. v \in Requests /\ Pending(v)
    BY <1>2, <1>3, VictimsPend
  <2>2. ~IsFree(v) /\ w \in Owners
    BY <1>2, <2>1, PendingIsOwned, ConstantAssumption DEF IsFree
  <2>3. /\ Table'
        /\ \A x \in Requests : lrq'[x].owner = lrq[x].owner /\ lrq'[x].lock = lrq[x].lock
        /\ \A x \in Requests \ {v} : lrq'[x] = lrq[x]
        /\ LRQ_pending \notin lrq'[v].flags
    BY <1>2, <1>3, <2>1, <2>2, TableRejected DEF RejectVictim
  <2>4. PICK f \in SUBSET OwnFlags :
          /\ own[w].flags \ {"scanned"} \subseteq f
          /\ own' = [own EXCEPT ![w].pending = NoRequest, ![w].flags = f]
    BY <1>2, <1>3, <2>2 DEF RejectVictim, OwnerType, OwnFlags
  <2>5. /\ own' \in [Owners -> OwnerType]
        /\ \A p \in Owners : /\ own'[p].pc = own[p].pc /\ own'[p].handler = own[p].handler
                             /\ own'[p].waits = own[p].waits
                             /\ p # w => own'[p].pending = own[p].pending
                             /\ "signaled" \in own[p].flags => "signaled" \in own'[p].flags
    BY <1>2, <2>2, <2>4 DEF OwnerType
  <2>6. /\ job' \in JobType /\ job'.next = "release" /\ job'.purge = {} /\ job'.pend = {}
    BY <1>1, <1>2, <1>3 DEF JobType
  <2>7. WaiterOwns'
    BY <1>2, <2>3, <2>5 DEF Control, WaiterOwns
  <2>8. /\ JobPending' /\ PurgeSound' /\ JobFits' /\ JobHasOwner'
    BY <1>1, <1>2, <2>5, <2>6, ConstantAssumption
    DEF JobPending, PurgeSound, JobFits, JobHasOwner
  <2>9. HandlerAlive' /\ OneBlockingAction'
    BY <1>2, <2>5 DEF Control, HandlerAlive, OneBlockingAction, Signaled
  <2>10. OffOwnsNothing'
    <3>1. \A x \in Requests : lrq[x].owner \in Owners \cup {NoOwner}
      BY <1>2 DEF Table, RequestType
    <3> QED
      BY <1>2, <2>3, <2>5, <3>1 DEF Control, OffOwnsNothing, IsFree
  <2>11. PendingHasWaiter'
    <3> SUFFICES ASSUME NEW x \in Requests, LRQ_pending \in lrq'[x].flags
                 PROVE  LET p == lrq'[x].owner IN
                        /\ own'[p].pc \in {"wait", "dead"} /\ own'[p].waits = x
                        /\ own'[p].pc = "wait" => own'[p].pending = x
      BY DEF PendingHasWaiter, Pending, Has
    <3>1. x # v /\ Pending(x)
      BY <2>3 DEF Pending, Has
    <3>2. lrq[x].owner \in Owners
      BY <1>2, <3>1, PendingIsOwned
    <3>3. /\ own[lrq[x].owner].pc \in {"wait", "dead"} /\ own[lrq[x].owner].waits = x
          /\ own[lrq[x].owner].pc = "wait" => own[lrq[x].owner].pending = x
          /\ own[w].waits = v
      BY <1>2, <2>1, <3>1 DEF Control, PendingHasWaiter
    <3>4. lrq[x].owner # w
      BY <3>1, <3>3
    <3> QED
      BY <2>3, <2>5, <3>2, <3>3, <3>4
  <2> QED
    BY <1>1, <1>2, <2>3, <2>5, <2>6, <2>7, <2>8, <2>9, <2>10, <2>11 DEF IInv, Control
<1>4. ASSUME UNCHANGED <<lrq, lbl>>, NEW f \in SUBSET OwnFlags, own[o].flags \subseteq f,
             own' = [own EXCEPT ![o].flags = f],
             NEW t \in Requests \cup {NoRequest},
             job' = [job EXCEPT !.next = "release", !.post = t]
      PROVE  IInv'
  <2>1. Table'
    BY <1>2, <1>4, TableStays
  <2>2. /\ own' \in [Owners -> OwnerType] /\ \A p \in Owners \ {o} : own'[p] = own[p]
        /\ own'[o].pc = "wait" /\ own'[o].handler # "pop" /\ own'[o].waits = r
        /\ own'[o].pending = own[o].pending
        /\ own'[o].handler # "off" => "signaled" \in own'[o].flags
    BY <1>2, <1>4 DEF OwnerType, Control, OneBlockingAction, Signaled
  <2>3. /\ job' \in JobType /\ job'.next = "release" /\ job'.purge = {} /\ job'.pend = {}
    BY <1>1, <1>2, <1>4 DEF JobType
  <2>4. JobPending'
    BY <2>3 DEF JobPending
  <2>5. \A x \in Requests : /\ lrq'[x].owner = lrq[x].owner
                            /\ LRQ_pending \in lrq'[x].flags <=> Pending(x)
    BY <1>4 DEF Pending, Has
  <2>6. \A x \in Requests : lrq[x].owner = o /\ Pending(x) => x = r /\ own[o].pending = x
    BY <1>2 DEF Control, PendingHasWaiter
  <2>7. Control'
    BY <1>1, <1>2, <2>1, <2>2, <2>3, <2>4, <2>5, <2>6, SectionBegins
  <2> QED
    BY <2>1, <2>7 DEF IInv
<1>5. CASE ~Pending(r)
  <2>1. /\ job' = [job EXCEPT !.next = "release"] /\ UNCHANGED <<lrq, lbl, own>>
    BY <1>5 DEF deadlock_scan
  <2>2. job' = [job EXCEPT !.next = "release", !.post = job.post]
    BY <1>2, <2>1 DEF JobType
  <2>3. own' = [own EXCEPT ![o].flags = own[o].flags] /\ own[o].flags \in SUBSET OwnFlags
    BY <1>2, <2>1 DEF OwnerType
  <2>4. job.post \in Requests \cup {NoRequest}
    BY <1>2 DEF JobType
  <2> QED
    BY <1>4, <2>1, <2>2, <2>3, <2>4
<1>6. CASE /\ Pending(r)
           /\ \E v \in Victims(r) : RejectVictim(v, o)
           /\ job' = [job EXCEPT !.next = "release"]
  BY <1>3, <1>6
<1>7. CASE /\ own' \in {[own EXCEPT ![o].flags = @ \cup {"scanned"}], own}
           /\ job' = [job EXCEPT !.next = "release", !.post = r]
           /\ UNCHANGED <<lrq, lbl>>
  <2>1. PICK f \in SUBSET OwnFlags : /\ own[o].flags \subseteq f
                                     /\ own' = [own EXCEPT ![o].flags = f]
    <3>1. own = [own EXCEPT ![o].flags = own[o].flags]
      BY <1>2 DEF OwnerType
    <3> QED
      BY <1>2, <1>7, <3>1 DEF OwnerType, OwnFlags
  <2> QED
    BY <1>2, <1>4, <1>7, <2>1
<1> QED
  BY <1>5, <1>6, <1>7 DEF deadlock_scan

LEMMA StepStutters ==
  ASSUME IInv, UNCHANGED vars
  PROVE  IInv'
<1>1. UNCHANGED <<lrq, lbl, own, held, active, job>>
  BY DEF vars
<1>2. Table'
  BY <1>1, TableStays DEF IInv
<1>3. Control'
  BY <1>1 DEF IInv, Control, JobPending, WaiterOwns, JobHasOwner, PurgeSound, HandlerAlive,
              OffOwnsNothing, JobFits, PendingHasWaiter, OneBlockingAction, IsFree,
              Pending, Has, Signaled
<1> QED
  BY <1>2, <1>3 DEF IInv

\* Every step, one lemma per action, keeps the invariant.
LEMMA NextKeeps == IInv /\ [Next]_vars => IInv'
<1> SUFFICES ASSUME IInv, [Next]_vars PROVE IInv'
  OBVIOUS
<1>1. CASE Section
  BY <1>1, StepPostPending, StepPurge, StepPostBlockage, StepCreateOwner,
     StepDeadlockScan, StepRelease, StepReleaseMutex DEF Section
<1>2. CASE LOCK_manager
  BY <1>2, StepManager
<1>3. ASSUME NEW o \in Owners, Call(o) PROVE IInv'
  BY <1>3, StepEnq, StepConvert, StepInit, StepFini DEF Call
<1>4. ASSUME NEW o \in Owners, GiveUp(o) PROVE IInv'
  BY <1>4, StepDeq, StepDowngrade DEF GiveUp
<1>5. ASSUME NEW o \in Owners, Handler(o) PROVE IInv'
  BY <1>5, StepOwner, StepAstTaken DEF Handler
<1>6. ASSUME NEW o \in Owners, Wait(o) PROVE IInv'
  BY <1>6, StepOwner, StepWaitDenied, StepWaitWokenUp DEF Wait
<1>7. ASSUME NEW o \in Owners,
             \/ blocking_action_ignored(o) \/ AstDeferred(o) \/ Dies(o)
             \/ WaitTimesOut(o) \/ WaitScans(o)
      PROVE  IInv'
  BY <1>7, StepOwner, StepWaitTimesOut, StepScans
<1>8. CASE UNCHANGED vars
  BY <1>8, StepStutters
<1> QED
  BY <1>1, <1>2, <1>3, <1>4, <1>5, <1>6, <1>7, <1>8 DEF Next

-----------------------------------------------------------------------------
(* The theorems.                                                           *)

\* The invariant holds in every reachable state.
THEOREM Invariance == Spec => []IInv
<1>1. Init => IInv
  BY InitHolds
<1>2. IInv /\ [Next]_vars => IInv'
  BY NextKeeps
<1> QED
  BY <1>1, <1>2, PTL DEF Spec

\* The table, the owner blocks and the critical section keep their types; in
\* particular lbl_counts and lbl_pending_lrq_count never go below zero
\* (release_request, post_pending, convert).
THEOREM TypeCorrect == Spec => []TypeOK
<1>1. IInv => TypeOK
  BY DEF IInv, Table, Control, TypeOK
<1> QED
  BY <1>1, Invariance, PTL

\* lbl_counts, lbl_state and lbl_pending_lrq_count agree with the requests of the
\* lock at every step of every handler, whoever dies and whoever is purged.
THEOREM LockBlocksCorrect == Spec => []LockBlocksAgree
<1>1. IInv => LockBlocksAgree
  BY DEF IInv, Table
<1> QED
  BY <1>1, Invariance, PTL

\* Granted levels always coexist in the compatibility matrix, although grant_or_que,
\* convert and post_pending look at the highest level of the lock only.
THEOREM NeverIncompatible == Spec => []GrantedCompatible
<1>1. IInv => GrantedCompatible
  BY DEF IInv, Table
<1> QED
  BY <1>1, Invariance, PTL

\* Whoever is pending has a process in wait_for_request, or a dead one, behind it.
THEOREM PendingIsWaitedFor == Spec => []PendingHasWaiter
<1>1. IInv => PendingHasWaiter
  BY DEF IInv, Control
<1> QED
  BY <1>1, Invariance, PTL

\* blocking_action2 never runs twice in one process.
THEOREM BlockingActionAlone == Spec => []OneBlockingAction
<1>1. IInv => OneBlockingAction
  BY DEF IInv, Control
<1> QED
  BY <1>1, Invariance, PTL

-----------------------------------------------------------------------------
(* Nobody takes a lock away.                                               *)

\* The step does not lower request r, or r is lowered by who may do it.
KeepsOrMay(r) ==
  lrq'[r].state < lrq[r].state
    => \/ active' = lrq[r].owner \/ own[lrq[r].owner].pc = "dead"
       \/ Pending(r) /\ lrq'[r].state = lrq[r].requested

\* A step that changes the level of requests of the active owner only.
LEMMA OnlyActive ==
  ASSUME NEW r \in Requests, lrq[r].state \in Levels,
         lrq'[r].state = lrq[r].state \/ active' = lrq[r].owner
  PROVE  KeepsOrMay(r)
BY DEF KeepsOrMay, Levels

LEMMA CallKeepsGrants ==
  ASSUME IInv, NEW o \in Owners,
         \/ \E l \in Locks, x \in Requests, level \in EnqLevels : LOCK_enq(o, l, x, level)
         \/ \E x \in Requests, level \in ConvLevels : LOCK_convert(o, x, level)
         \/ \E x \in Requests : LOCK_deq(o, x) \/ LOCK_downgrade(o, x)
         \/ WaitDenied(o),
         NEW r \in Requests
  PROVE  KeepsOrMay(r)
<1>1. /\ lrq \in [Requests -> RequestType] /\ lrq[r].state \in Levels
      /\ \A x \in Requests : lrq[x] \in RequestType
  BY DEF IInv, Table, RequestType
<1>2. ASSUME NEW l \in Locks, NEW x \in Requests, NEW level \in EnqLevels,
             LOCK_enq(o, l, x, level)
      PROVE  KeepsOrMay(r)
  <2>1. lrq[x] = FreeRequest
    BY <1>2 DEF LOCK_enq, IsFree, IInv, Table, RequestsLinked
  <2>2. lrq[x].state = LCK_none
    BY <2>1 DEF FreeRequest
  <2>3. \/ lrq'[r] = lrq[r]
        \/ r = x
    BY <1>1, <1>2 DEF LOCK_enq, EnqGranted, EnqDenied, EnqWaits, StartWait
  <2>4. lrq' \in [Requests -> RequestType]
    BY <1>2, StepEnq DEF IInv, Table
  <2>5. lrq'[r].state \in Levels
    BY <2>4 DEF RequestType
  <2> QED
    BY <1>1, <2>2, <2>3, <2>5 DEF KeepsOrMay, Levels, LCK_none
<1>3. ASSUME NEW x \in Requests, NEW level \in ConvLevels, LOCK_convert(o, x, level)
      PROVE  KeepsOrMay(r)
  <2>1. active' = o /\ lrq[x].owner = o
    BY <1>3 DEF LOCK_convert
  <2>2. r # x => lrq'[r] = lrq[r]
    BY <1>1, <1>3 DEF LOCK_convert, ConvertGranted, ConvertDenied, ConvertWaits, StartWait
  <2> QED
    BY <1>1, <2>1, <2>2, OnlyActive
<1>4. ASSUME NEW x \in Requests, lrq[x].owner = o, active' = o, lrq' = LrqWithout(x)
      PROVE  KeepsOrMay(r)
  <2>1. r # x => lrq'[r].state = lrq[r].state
    BY <1>1, <1>4 DEF LrqWithout, RequestType
  <2> QED
    BY <1>1, <1>4, <2>1, OnlyActive
<1>5. ASSUME NEW x \in Requests, LOCK_deq(o, x) PROVE KeepsOrMay(r)
  BY <1>4, <1>5 DEF LOCK_deq, Dequeued
<1>6. ASSUME NEW x \in Requests, LOCK_downgrade(o, x) PROVE KeepsOrMay(r)
  <2>1. active' = o /\ lrq[x].owner = o
    BY <1>6 DEF LOCK_downgrade
  <2>2. CASE Dequeued(x)
    BY <1>4, <2>1, <2>2 DEF Dequeued
  <2>3. CASE ~Dequeued(x)
    <3>1. r # x => lrq'[r] = lrq[r]
      BY <1>1, <1>6, <2>3 DEF LOCK_downgrade, ConvertGranted, ConvertDenied
    <3> QED
      BY <1>1, <2>1, <3>1, OnlyActive
  <2> QED
    BY <2>2, <2>3
<1>7. ASSUME WaitDenied(o) PROVE KeepsOrMay(r)
  <2> DEFINE x == own[o].waits
  <2>1. x \in Requests /\ lrq[x].owner = o /\ active' = o
    BY <1>7 DEF WaitDenied, IInv, Control, WaiterOwns
  <2>2. CASE lrq' = LrqWithout(x)
    BY <1>4, <2>1, <2>2
  <2>3. CASE lrq' # LrqWithout(x)
    <3>1. lrq' = [lrq EXCEPT ![x].requested = lrq[x].state]
      BY <1>7, <2>3 DEF WaitDenied
    <3>2. lrq'[r].state = lrq[r].state
      BY <1>1, <2>1, <3>1 DEF RequestType
    <3> QED
      BY <1>1, <3>2, OnlyActive
  <2> QED
    BY <2>2, <2>3
<1> QED
  BY <1>2, <1>3, <1>5, <1>6, <1>7

LEMMA SectionKeepsGrants ==
  ASSUME IInv, Section, NEW r \in Requests
  PROVE  KeepsOrMay(r)
<1>1. /\ lrq \in [Requests -> RequestType] /\ lrq[r].state \in Levels
      /\ \A x \in Requests : lrq[x] \in RequestType
      /\ job \in JobType
  BY DEF IInv, Table, Control, RequestType
<1>2. CASE post_pending
  <2>1. PICK x \in job.pend : UNCHANGED lrq \/ lrq' = GrantedRequest(x)
    BY <1>2 DEF post_pending
  <2>2. Pending(x) /\ x \in Requests
    BY <1>1, <2>1 DEF IInv, Control, JobPending, JobType
  <2>3. CASE UNCHANGED lrq
    BY <1>1, <2>3, OnlyActive
  <2>4. CASE lrq' = GrantedRequest(x)
    <3>1. lrq'[r].state = IF r = x THEN lrq[r].requested ELSE lrq[r].state
      BY <1>1, <2>2, <2>4 DEF GrantedRequest, RequestType
    <3> QED
      BY <1>1, <2>2, <3>1 DEF KeepsOrMay, Levels
  <2> QED
    BY <2>1, <2>3, <2>4
<1>3. CASE purge_owner
  <2>1. PICK o \in job.purge : UNCHANGED lrq \/ \E x \in OwnedBy(o) : lrq' = LrqWithout(x)
    BY <1>3 DEF purge_owner
  <2>2. /\ own[o].pc = "dead" \/ o = active
        /\ active' = active
    BY <1>3 DEF purge_owner, IInv, Control, PurgeSound
  <2>3. CASE UNCHANGED lrq
    BY <1>1, <2>3, OnlyActive
  <2>4. ASSUME NEW x \in OwnedBy(o), lrq' = LrqWithout(x) PROVE KeepsOrMay(r)
    <3>1. r # x => lrq'[r].state = lrq[r].state
      BY <1>1, <2>4 DEF LrqWithout, RequestType
    <3>2. lrq[x].owner = o
      BY DEF OwnedBy
    <3> QED
      BY <1>1, <2>2, <3>1, <3>2 DEF KeepsOrMay, Levels
  <2> QED
    BY <2>1, <2>3, <2>4
<1>4. CASE post_blockage
  <2>1. lrq'[r].state = lrq[r].state
    BY <1>1, <1>4 DEF post_blockage, RequestType
  <2> QED
    BY <1>1, <2>1, OnlyActive
<1>5. CASE deadlock_scan
  <2>1. lrq'[r].state = lrq[r].state
    <3>1. UNCHANGED lrq \/ \E v : RejectVictim(v, active)
      BY <1>5 DEF deadlock_scan
    <3>2. ASSUME NEW v, RejectVictim(v, active) PROVE lrq'[r].state = lrq[r].state
      <4>1. lrq' = [lrq EXCEPT ![v].flags = (@ \ {LRQ_pending}) \cup {LRQ_rejected}]
        BY <3>2 DEF RejectVictim
      <4>2. CASE r = v
        BY <1>1, <4>1, <4>2 DEF RequestType
      <4>3. CASE r # v
        BY <1>1, <4>1, <4>3
      <4> QED
        BY <4>2, <4>3
    <3> QED
      BY <3>1, <3>2
  <2> QED
    BY <1>1, <2>1, OnlyActive
<1>6. CASE create_owner \/ release \/ release_mutex
  BY <1>1, <1>6, OnlyActive DEF create_owner, release, release_mutex
<1> QED
  BY <1>2, <1>3, <1>4, <1>5, <1>6 DEF Section

LEMMA OthersKeepGrants ==
  ASSUME IInv, NEW r \in Requests,
         \/ LOCK_manager
         \/ \E o \in Owners :
              \/ LOCK_init(o) \/ LOCK_fini(o) \/ Handler(o) \/ blocking_action_ignored(o)
              \/ AstDeferred(o) \/ WaitEnds(o) \/ WaitWokenUp(o) \/ WaitTimesOut(o)
              \/ WaitScans(o) \/ Dies(o)
  PROVE  KeepsOrMay(r)
<1>1. /\ lrq \in [Requests -> RequestType] /\ lrq[r].state \in Levels
      /\ lrq[r] \in RequestType
  BY DEF IInv, Table, RequestType
<1>2. lrq'[r].state = lrq[r].state
  <2>1. ASSUME NEW o \in Owners, AstTaken(o) PROVE lrq'[r].state = lrq[r].state
    BY <1>1, <2>1 DEF AstTaken, RequestType
  <2>2. ASSUME NEW o \in Owners, WaitTimesOut(o) PROVE lrq'[r].state = lrq[r].state
    BY <1>1, <2>2 DEF WaitTimesOut, RequestType
  <2>3. CASE UNCHANGED lrq
    BY <2>3
  <2> QED
    BY <2>1, <2>2, <2>3 DEF LOCK_manager, LOCK_init, LOCK_fini, Handler, blocking_action,
       AstReturns, AstDone, blocking_action_ignored, AstDeferred, WaitEnds, WaitWokenUp,
       WaitScans, Dies
<1> QED
  BY <1>1, <1>2, OnlyActive

\* Only its owner, its own waiting conversion or a purge of the dead lowers what
\* was granted (wait_for_request, convert, purge_owner).
THEOREM GrantsAreKept == Spec => NoTakingAway
<1>1. IInv /\ [Next]_vars => [\A r \in Requests : KeepsOrMay(r)]_vars
  <2> SUFFICES ASSUME IInv, Next, NEW r \in Requests PROVE KeepsOrMay(r)
    OBVIOUS
  <2> QED
    BY CallKeepsGrants, SectionKeepsGrants, OthersKeepGrants
    DEF Next, Call, GiveUp, Wait
<1> QED
  BY <1>1, Invariance, PTL DEF Spec, NoTakingAway, KeepsOrMay
=============================================================================
