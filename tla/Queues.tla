------------------------------- MODULE Queues -------------------------------
(***************************************************************************)
(* What the self-relative queues of the lock table promise: a link is in   *)
(* one queue at most, it enters a queue at the tail and leaves it from     *)
(* anywhere, and a process that dies leaves a queue as it was before or as *)
(* it is after one of these steps.                                         *)
(***************************************************************************)
EXTENDS Sequences, SequencesExt

CONSTANTS Heads, Links

VARIABLE queue   \* the links in each queue, in order

\* The queue before and after a step in which n enters it, or leaves it.
Enters(before, after, n) == after = Append(before, n)
Leaves(before, after, n) ==
  \E i \in DOMAIN before : before[i] = n /\ after = RemoveAt(before, i)

InSome(queues, n) == \E q \in Heads : Contains(queues[q], n)

\* A link is in one queue at most, and there once.
Init ==
  /\ DOMAIN queue = Heads
  /\ \A q, p \in Heads : \A i \in DOMAIN queue[q], j \in DOMAIN queue[p] :
       queue[q][i] = queue[p][j] => q = p /\ i = j

Next ==
  LET before == queue
      after == queue'
  IN /\ DOMAIN after = Heads
     /\ \E q \in Heads :
          /\ after[q] # before[q] /\ \A p \in Heads \ {q} : after[p] = before[p]
          /\ \E n \in Links : \/ ~InSome(before, n) /\ Enters(before[q], after[q], n)
                              \/ Leaves(before[q], after[q], n)

Spec == Init /\ [][Next]_queue
=============================================================================
