----------------------------- MODULE LockLevels -----------------------------
(***************************************************************************)
(* The lock levels of the lock manager, their compatibility matrix and the *)
(* computation of the level of a lock from the counts of its granted       *)
(* requests (src/lock/lock.h, src/lock/lock.c).                            *)
(***************************************************************************)
EXTENDS Integers, FiniteSets

LCK_none == 0
LCK_null == 1
LCK_SR   == 2
LCK_PR   == 3
LCK_SW   == 4
LCK_PW   == 5
LCK_EX   == 6

Levels  == 0..6      \* every value of lrq_state and lrq_requested
Granted == 1..6      \* the levels lbl_counts is ever read at

\* One row of the compatibility matrix: the levels another request may hold
\* beside a request of level l.
CompatibleWith(l) ==
  CASE l \in {LCK_none, LCK_null} -> Levels
    [] l = LCK_SR -> Levels \ {LCK_EX}
    [] l = LCK_PR -> {LCK_none, LCK_null, LCK_SR, LCK_PR}
    [] l = LCK_SW -> {LCK_none, LCK_null, LCK_SR, LCK_SW}
    [] l = LCK_PW -> {LCK_none, LCK_null, LCK_SR}
    [] OTHER      -> {LCK_none, LCK_null}

Compatible(a, b) == b \in CompatibleWith(a)

MaxLevel(a, b) == IF a >= b THEN a ELSE b

\* lock_state: the highest level some granted request holds.
lock_state(counts) ==
  IF \A n \in Granted : counts[n] = 0
  THEN LCK_none
  ELSE CHOOSE n \in Granted : /\ counts[n] # 0
                              /\ \A m \in Granted : m > n => counts[m] = 0

NoCounts == [n \in Granted |-> 0]

\* --lbl_counts[n] and ++lbl_counts[n]; entry LCK_none is never read.
CountDown(counts, n) == IF n = LCK_none THEN counts ELSE [counts EXCEPT ![n] = @ - 1]
CountUp(counts, n)   == IF n = LCK_none THEN counts ELSE [counts EXCEPT ![n] = @ + 1]
=============================================================================
