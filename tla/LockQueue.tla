------------------------------ MODULE LockQueue ------------------------------
(***************************************************************************)
(* The self-relative queues of the lock table (lock/lock.c), write by      *)
(* write. A process may die between any two of them, inside the mutex: the *)
(* next one to acquire the table finds lhb_active_owner, and finishes or   *)
(* undoes the operation that the secondary header (shb) describes. Around  *)
(* them are the operations of the lock manager that move a request between *)
(* the free queue, the queue of the lock and the one of its owner, and the *)
(* purge of an owner that died.                                            *)
(*                                                                         *)
(* The build has the CHECKs of the code (DEV_BUILD): a failing one stops   *)
(* the process in bug_assert.                                              *)
(***************************************************************************)
EXTENDS Naturals, Sequences, FiniteSets, SequencesExt

CONSTANTS Owners, Requests, NoOwner, Deaths

ASSUME ConstantAssumption ==
  NoOwner \notin Owners /\ IsFiniteSet(Requests) /\ Deaths \in Nat

\* The heads of queues, and the links of a request (lrq_lbl_requests, lrq_own_requests).
Free == <<"lhb_free_requests">>
Lock == <<"lbl_requests">>
Own(o) == <<"own_requests", o>>
Lbl(r) == <<"lrq_lbl_requests", r>>
OwnLink(r) == <<"lrq_own_requests", r>>

Heads == {Free, Lock} \cup {Own(o) : o \in Owners}
Links == {Lbl(r) : r \in Requests} \cup {OwnLink(r) : r \in Requests}
Nodes == Heads \cup Links
NoNode == <<>>

VARIABLES
  fwd, bwd,   \* srq_forward and srq_backward of every node
  shb,        \* the secondary header
  active,     \* lhb_active_owner
  holder,     \* who holds the mutex
  work,       \* the queue operations it has still to do
  at,         \* the next write of the first of them
  stage,      \* what it does between them: "repair", "call", "purge"
  held,       \* the requests each owner was given and has not released
  dead,       \* processes that died and are not purged
  deaths,
  bug         \* has a CHECK failed?

links == <<fwd, bwd>>
vars == <<fwd, bwd, shb, active, holder, work, at, stage, held, dead, deaths, bug>>

Operations ==
  [op : {"insert", "remove", "undo"}, que : Heads \cup {NoNode}, node : Nodes \cup {NoNode}]
SHB == [remove_node : Nodes \cup {NoNode}, insert_que : Nodes \cup {NoNode},
        insert_prior : Nodes \cup {NoNode}]

TypeOK ==
  /\ fwd \in [Nodes -> Nodes] /\ bwd \in [Nodes -> Nodes]
  /\ shb \in SHB
  /\ active \in Owners \cup {NoOwner} /\ holder \in Owners \cup {NoOwner}
  /\ work \in Seq(Operations) /\ at \in 1..8
  /\ stage \in {"repair", "call", "purge"}
  /\ held \in [Owners -> SUBSET Requests]
  /\ dead \subseteq Owners /\ deaths \in 0..Deaths /\ bug \in BOOLEAN

\* At the start every request is free.
InitialOrder == <<Free>> \o SetToSeq({Lbl(r) : r \in Requests})
Cyclic(n, step) ==
  LET k == CHOOSE k \in DOMAIN InitialOrder : InitialOrder[k] = n
  IN InitialOrder[((k - 1 + step) % Len(InitialOrder)) + 1]

Init ==
  /\ fwd = [n \in Nodes |-> IF n \in Range(InitialOrder) THEN Cyclic(n, 1) ELSE n]
  /\ bwd = [n \in Nodes |-> IF n \in Range(InitialOrder)
                            THEN Cyclic(n, Len(InitialOrder) - 1) ELSE n]
  /\ shb = [remove_node |-> NoNode, insert_que |-> NoNode, insert_prior |-> NoNode]
  /\ active = NoOwner /\ holder = NoOwner /\ work = <<>> /\ at = 1 /\ stage = "repair"
  /\ held = [o \in Owners |-> {}] /\ dead = {} /\ deaths = 0 /\ bug = FALSE

-----------------------------------------------------------------------------
(* The queue operations, one write each. *)

Inserting(q, n) == [op |-> "insert", que |-> q, node |-> n]
Removing(n) == [op |-> "remove", que |-> NoNode, node |-> n]
Undoing == [op |-> "undo", que |-> NoNode, node |-> NoNode]

Doing(op, step) == work # <<>> /\ Head(work).op = op /\ at = step
Other == UNCHANGED <<active, holder, stage, held, dead, deaths>>

Wrote == at' = at + 1 /\ UNCHANGED <<work, bug>> /\ Other
Done == at' = 1 /\ work' = Tail(work) /\ UNCHANGED bug /\ Other

insert_tail ==
  LET que == Head(work).que
      node == Head(work).node
  IN \/ /\ Doing("insert", 1) /\ Wrote
        /\ shb' = [shb EXCEPT !.insert_que = que] /\ UNCHANGED links
     \/ /\ Doing("insert", 2) /\ Wrote
        /\ shb' = [shb EXCEPT !.insert_prior = bwd[que]] /\ UNCHANGED links
     \/ /\ Doing("insert", 3) /\ Wrote
        /\ fwd' = [fwd EXCEPT ![node] = que] /\ UNCHANGED <<bwd, shb>>
     \/ /\ Doing("insert", 4) /\ Wrote
        /\ bwd' = [bwd EXCEPT ![node] = bwd[que]] /\ UNCHANGED <<fwd, shb>>
     \/ /\ Doing("insert", 5) /\ Wrote
        /\ fwd' = [fwd EXCEPT ![bwd[que]] = node] /\ UNCHANGED <<bwd, shb>>
     \/ /\ Doing("insert", 6) /\ Wrote
        /\ bwd' = [bwd EXCEPT ![que] = node] /\ UNCHANGED <<fwd, shb>>
     \/ /\ Doing("insert", 7) /\ Wrote
        /\ shb' = [shb EXCEPT !.insert_que = NoNode] /\ UNCHANGED links
     \/ /\ Doing("insert", 8) /\ Done
        /\ shb' = [shb EXCEPT !.insert_prior = NoNode] /\ UNCHANGED links

\* The next link might point back to the node, or to its prior link should the
\* backlink change occur before a crash; and the prior link likewise.
CHECK_absent(node) == TRUE
CHECK_next(node) == bwd[fwd[node]] \in {node, bwd[node]}
CHECK_prior(node) == fwd[bwd[node]] \in {node, fwd[node]}

remove_que ==
  LET node == Head(work).node
  IN \/ /\ Doing("remove", 1) /\ Wrote
        /\ shb' = [shb EXCEPT !.remove_node = node] /\ UNCHANGED links
     \/ /\ Doing("remove", 2) /\ CHECK_next(node) /\ Wrote
        /\ bwd' = [bwd EXCEPT ![fwd[node]] = bwd[node]] /\ UNCHANGED <<fwd, shb>>
     \/ /\ Doing("remove", 3) /\ CHECK_prior(node) /\ Wrote
        /\ fwd' = [fwd EXCEPT ![bwd[node]] = fwd[node]] /\ UNCHANGED <<bwd, shb>>
     \/ /\ Doing("remove", 4) /\ Wrote
        /\ shb' = [shb EXCEPT !.remove_node = NoNode] /\ UNCHANGED links
     \/ /\ Doing("remove", 5) /\ Wrote
        /\ bwd' = [bwd EXCEPT ![node] = node] /\ UNCHANGED <<fwd, shb>>
     \/ /\ Doing("remove", 6) /\ Done
        /\ fwd' = [fwd EXCEPT ![node] = node] /\ UNCHANGED <<bwd, shb>>

\* bug_assert.
CheckFails ==
  /\ \/ Doing("remove", 2) /\ ~CHECK_next(Head(work).node)
     \/ Doing("remove", 3) /\ ~CHECK_prior(Head(work).node)
  /\ bug' = TRUE /\ work' = <<>>
  /\ UNCHANGED <<links, shb, active, holder, at, stage, held, dead, deaths>>

\* The unfinished insertion is undone.
undo_insert ==
  LET que == shb.insert_que
      prior == shb.insert_prior
  IN \/ /\ Doing("undo", 1) /\ Wrote
        /\ bwd' = [bwd EXCEPT ![que] = prior] /\ UNCHANGED <<fwd, shb>>
     \/ /\ Doing("undo", 2) /\ Wrote
        /\ fwd' = [fwd EXCEPT ![prior] = que] /\ UNCHANGED <<bwd, shb>>
     \/ /\ Doing("undo", 3) /\ Wrote
        /\ shb' = [shb EXCEPT !.insert_que = NoNode] /\ UNCHANGED links
     \/ /\ Doing("undo", 4) /\ Done
        /\ shb' = [shb EXCEPT !.insert_prior = NoNode] /\ UNCHANGED links

-----------------------------------------------------------------------------
(* The lock manager around them. *)

\* What the next process has to do for one that died inside the mutex.
RepairAnyInsertion ==
  IF active = NoOwner THEN <<>>
  ELSE IF shb.remove_node # NoNode THEN <<Removing(shb.remove_node)>>
  ELSE IF shb.insert_que # NoNode THEN <<Undoing>>
  ELSE <<>>
RepairInsertion ==
  IF active # NoOwner /\ shb.insert_que # NoNode /\ shb.insert_prior # NoNode
    THEN <<Undoing>> ELSE <<>>
Repair ==
  IF active = NoOwner THEN <<>>
  ELSE IF shb.remove_node # NoNode THEN <<Removing(shb.remove_node)>>
  ELSE IF shb.insert_que # NoNode /\ shb.insert_prior # NoNode THEN <<Undoing>>
  ELSE <<>>

acquire(o) ==
  /\ holder = NoOwner /\ o \notin dead /\ ~bug
  /\ holder' = o /\ active' = o
  /\ work' = Repair /\ at' = 1 /\ stage' = "repair"
  /\ UNCHANGED <<links, shb, held, dead, deaths, bug>>

Ready(o, s) == holder = o /\ work = <<>> /\ stage = s /\ ~bug

\* LOCK_enq: a request from the free queue, first to its owner, then to its lock.
EnqLockFirst(o, r) ==
  <<Removing(Lbl(r)), Inserting(Lock, Lbl(r)), Inserting(Own(o), OwnLink(r))>>
EnqOperations(o, r) == <<Removing(Lbl(r)), Inserting(Own(o), OwnLink(r)), Inserting(Lock, Lbl(r))>>

LOCK_enq(o) ==
  /\ Ready(o, "repair") /\ fwd[Free] # Free
  /\ \E r \in Requests :
       /\ Lbl(r) = fwd[Free]
       /\ work' = EnqOperations(o, r)
       /\ held' = [held EXCEPT ![o] = @ \cup {r}]
  /\ stage' = "call"
  /\ UNCHANGED <<links, shb, active, holder, at, dead, deaths, bug>>

\* release_request: away from the lock and the owner, and free.
ReleaseOperations(r) == <<Removing(Lbl(r)), Removing(OwnLink(r)), Inserting(Free, Lbl(r))>>

LOCK_deq(o) ==
  /\ Ready(o, "repair")
  /\ \E r \in held[o] :
       /\ work' = ReleaseOperations(r)
       /\ held' = [held EXCEPT ![o] = @ \ {r}]
  /\ stage' = "call"
  /\ UNCHANGED <<links, shb, active, holder, at, dead, deaths, bug>>

\* purge_owner: the requests of a dead owner are released, one after the other.
Purging(o) == o \in dead /\ fwd[Own(o)] # Own(o)

purge_owner(p) ==
  /\ Ready(p, "repair") \/ Ready(p, "purge")
  /\ \E o \in dead, r \in Requests :
       /\ Purging(o) /\ OwnLink(r) = fwd[Own(o)]
       /\ work' = ReleaseOperations(r)
  /\ stage' = "purge"
  /\ UNCHANGED <<links, shb, active, holder, at, held, dead, deaths, bug>>

\* A process attaches again with an owner block of its own once that is purged.
Restart(o) ==
  /\ o \in dead /\ ~Purging(o) /\ holder = NoOwner /\ active = NoOwner
  /\ dead' = dead \ {o}
  /\ UNCHANGED <<links, shb, active, holder, work, at, stage, held, deaths, bug>>

release(o) ==
  /\ holder = o /\ work = <<>> /\ ~bug
  /\ holder' = NoOwner /\ active' = NoOwner
  /\ UNCHANGED <<links, shb, work, at, stage, held, dead, deaths, bug>>

\* The system releases the mutex of a process that dies; lhb_active_owner stays.
Die(o) ==
  /\ o \notin dead /\ deaths < Deaths /\ ~bug
  /\ dead' = dead \cup {o} /\ deaths' = deaths + 1
  /\ held' = [held EXCEPT ![o] = {}]
  /\ IF holder = o THEN holder' = NoOwner /\ work' = <<>> /\ at' = 1
     ELSE UNCHANGED <<holder, work, at>>
  /\ UNCHANGED <<links, shb, active, stage, bug>>

Next ==
  \/ insert_tail \/ remove_que \/ undo_insert \/ CheckFails
  \/ \E o \in Owners :
       \/ acquire(o) \/ LOCK_enq(o) \/ LOCK_deq(o) \/ purge_owner(o)
       \/ release(o) \/ Restart(o) \/ Die(o)

Spec == Init /\ [][Next]_vars

-----------------------------------------------------------------------------
(* Properties. *)

\* The links as the next process would repair them.
Redone ==
  /\ shb.remove_node # NoNode
  /\ CHECK_next(shb.remove_node) /\ CHECK_prior(shb.remove_node)
Undone ==
  /\ ~Redone /\ shb.insert_que # NoNode /\ shb.insert_prior # NoNode
  /\ ~Doing("insert", 2)
Forward ==
  LET n == shb.remove_node
  IN IF Redone THEN [fwd EXCEPT ![bwd[n]] = fwd[n]]
     ELSE IF Undone THEN [fwd EXCEPT ![shb.insert_prior] = shb.insert_que] ELSE fwd
Backward ==
  LET n == shb.remove_node
  IN IF Redone THEN [bwd EXCEPT ![fwd[n]] = bwd[n]]
     ELSE IF Undone THEN [bwd EXCEPT ![shb.insert_que] = shb.insert_prior] ELSE bwd

\* The links from the head q up to its return, no more than there are.
List(q) ==
  LET node[k \in 0..Cardinality(Links)] ==
        IF k = 0 THEN Forward[q] ELSE IF node[k - 1] = q THEN q ELSE Forward[node[k - 1]]
      length == Cardinality({k \in DOMAIN node : node[k] # q})
  IN [k \in 1..length |-> node[k - 1]]
Lists == [q \in Heads |-> List(q)]
In(q, n) == Contains(List(q), n)

\* Whoever dies and wherever, the queues are whole once the table is repaired: every
\* link points back to where it is pointed from, and no link is in two queues.
Whole ==
  ~bug =>
    /\ \A q \in Heads : \A n \in {q} \cup Range(List(q)) : Backward[Forward[n]] = n
    /\ \A q, p \in Heads : q # p => Range(List(q)) \cap Range(List(p)) = {}

\* Each queue operation is one step, all or nothing.
Abstract == INSTANCE Queues WITH queue <- Lists
Implements == Abstract!Spec

\* A request on a lock is always on an owner too, who releases it or is purged; a
\* free one is on none.
AlwaysOwned ==
  ~bug => \A r \in Requests :
    LET Owned == \E o \in Owners : In(Own(o), OwnLink(r))
    IN /\ In(Lock, Lbl(r)) => Owned
       /\ In(Free, Lbl(r)) => ~Owned

\* No process loses a request it was given, whatever is repaired and purged.
StillQueued ==
  ~bug => \A o \in Owners, r \in Requests :
    r \in held[o] /\ holder # o => In(Lock, Lbl(r)) /\ In(Own(o), OwnLink(r))

\* Processes differ in nothing.
SameProcesses == Permutations(Owners)

\* The CHECKs of remove_que hold, as they say of what a death may have left: a node
\* that is removed is pointed to by its neighbours, or they by each other.
ChecksHold == ~bug
=============================================================================
