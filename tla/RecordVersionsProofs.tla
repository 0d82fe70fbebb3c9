----------------------- MODULE RecordVersionsProofs -----------------------
(***************************************************************************)
(* Theorems about RecordVersions.                                          *)
(***************************************************************************)
EXTENDS RecordVersions, FiniteSetTheorems, SequenceTheorems, TLAPS

-----------------------------------------------------------------------------
(* The inductive invariant.                                                *)

(* The first half of the type invariant. *)
Typed ==
    /\ tip \in [Numbers -> States]
    /\ hdr \in [next : 0..MaxTransaction, oldest_transaction : 0..MaxTransaction,
                oldest_active : 0..MaxTransaction, oldest_snapshot : 0..MaxTransaction]
    /\ dbb \in [Sessions -> [oldest_transaction : 0..MaxTransaction,
                oldest_active : 0..MaxTransaction, oldest_snapshot : 0..MaxTransaction]]
    /\ lck \in [Numbers -> 0..MaxTransaction]
    /\ tra \in [Sessions -> TraType]
    /\ overtook \subseteq Sessions

(* Who has a number has the lock on it, and nobody else has it. *)
NumberFits(p) ==
    /\ tra[p].at \in {"idle", "detached"} <=> tra[p].number = 0
    /\ tra[p].at \in {"retain", "retained"} <=> tra[p].new # 0
    /\ tra[p].number # 0 => tra[p].number <= hdr.next /\ lck[tra[p].number] # 0
    /\ tra[p].new # 0 => /\ tra[p].new <= hdr.next /\ lck[tra[p].new] # 0
                         /\ tra[p].new # tra[p].number
    /\ tra[p].at = "retain" => tip[tra[p].new] = "active"
    /\ Undecided(p) => tip[tra[p].number] = "active"

Apart(p, q) ==
    /\ tra[p].number # 0 => tra[p].number \notin {tra[q].number, tra[q].new}
    /\ tra[p].new # 0 => tra[p].new \notin {tra[q].number, tra[q].new}

LocksFit == \A n \in Numbers : /\ n > hdr.next => tip[n] = "active" /\ lck[n] = 0
                               /\ lck[n] <= n

(* All transactions below the number x are over. *)
Over(x) == x <= hdr.next + 1 /\ \A n \in Numbers : n < x => tip[n] # "active"

HeaderFits ==
    1 <= hdr.oldest_transaction /\ Over(hdr.oldest_transaction) /\ Over(hdr.oldest_active)

CountersFit(p) ==
    /\ Over(dbb[p].oldest_transaction) /\ Over(dbb[p].oldest_active)
    /\ Over(tra[p].active) /\ Over(tra[p].oldest_active)
    /\ tra[p].oldest <= hdr.oldest_transaction
    /\ tra[p].at \in {"inventory", "oldest"} =>
         1 <= tra[p].oldest /\ tra[p].oldest <= tra[p].active /\ tra[p].active <= tra[p].number
    /\ tra[p].at \in {"inventory", "oldest", "sweep"} => tra[p].top = tra[p].number

SnapshotFits(p) ==
    /\ \A n \in Numbers : /\ tra[p].snapshot[n] = "committed" => tip[n] = "committed"
                          /\ tra[p].snapshot[n] = "dead" => tip[n] = "dead"
    /\ \A n \in tra[p].sub : tip[n] = "committed" \/ n = tra[p].number
    /\ tra[p].at = "oldest" => \A n \in Numbers :
         n < tra[p].oldest \/ n >= tra[p].active \/ tra[p].snapshot[n] # "active"
    /\ tra[p].at = "sweep" =>
         /\ tra[p].oldest_active <= tra[p].number
         /\ \A n \in Numbers :
              n < tra[p].oldest \/ n >= tra[p].oldest_active \/ tra[p].snapshot[n] # "active"

TransactionsFit ==
    /\ Typed /\ LocksFit /\ HeaderFits
    /\ \A p \in Sessions : NumberFits(p) /\ CountersFit(p) /\ SnapshotFits(p)
    /\ \A p, q \in Sessions : p # q => Apart(p, q)

(* What holds of the number of every version: it is not too high, and older than the
   counters only if it committed. *)
Known(n) ==
    /\ n <= hdr.next /\ (n < hdr.oldest_transaction => Committed(n))
    /\ \A p \in Sessions : /\ n < dbb[p].oldest_transaction => Committed(n)
                           /\ tra[p].at = "retain" => n # tra[p].new

VersionsFit(versions) ==
    \A i \in DOMAIN versions : /\ Known(versions[i].tra)
                               /\ i > 1 => Committed(versions[i].tra)

PagesFit == \A r \in Records : VersionsFit(chain[r]) /\ VersionsFit(disk[r])

IsOwn(versions, p) == versions # <<>> /\ Head(versions).tra = tra[p].number

(* What a statement is about, and that its process did not write the version it wants
   to change. *)
UpdateFits(p) ==
    /\ rpb[p].at # "none" => rpb[p].rec \in Records /\ tra[p].at \in {"active", "sweep"}
    /\ rpb[p].at \notin {"none", "expunge"} => tra[p].at = "active"
    /\ rpb[p].at \in {"wait", "backout"} => 1 <= rpb[p].on /\ rpb[p].on <= hdr.next
    /\ rpb[p].at = "backout" => tip[rpb[p].on] = "dead"
    /\ rpb[p].at \in {"update", "wait", "backout"} => ~IsOwn(chain[rpb[p].rec], p)

(* What a running transaction wrote last is in the cache. *)
OwnKept(p) ==
    Undecided(p) /\ tra[p].at # "undo" =>
      \A r \in Records : IsOwn(disk[r], p) => IsOwn(chain[r], p)

(* The versions below the number x are of committed transactions. *)
Clean(versions, x) == \A i \in DOMAIN versions : versions[i].tra < x => Committed(versions[i].tra)

(* What a sweep has seen is clean, in the cache and, when it is written, in the file. *)
CleanAt(p, r) == /\ Clean(chain[r], tra[p].oldest_active)
                 /\ dirty[r] # p => Clean(disk[r], tra[p].oldest_active)

Swept(p, r) == r \in rpb[p].swept \/ (rpb[p].at = "expunge" /\ r = rpb[p].rec)

SweepFits(p) ==
    /\ tra[p].at # "sweep" => rpb[p].swept = {}
    /\ tra[p].at = "sweep" => \A r \in Records : Swept(p, r) => CleanAt(p, r)

PagesTyped ==
    /\ rpb \in [Sessions -> RpbType]
    /\ chain \in [Records -> Seq(VersionType)] /\ disk \in [Records -> Seq(VersionType)]
    /\ dirty \in [Records -> Sessions \cup {Nobody}] /\ mark \subseteq Records

IInv ==
    /\ TransactionsFit /\ PagesTyped /\ PagesFit
    /\ \A p \in Sessions : UpdateFits(p) /\ OwnKept(p) /\ SweepFits(p)

-----------------------------------------------------------------------------
(* Numbers and types. *)

LEMMA NumbersAre ==
  /\ MaxTransaction \in Nat \ {0} /\ Numbers = 1..MaxTransaction
  /\ 0 \in 0..MaxTransaction /\ 1 \in 0..MaxTransaction
  /\ Numbers \subseteq 0..MaxTransaction /\ Numbers \subseteq Nat
BY NumbersAssumption DEF Numbers

LEMMA LeastOf ==
  ASSUME NEW N \in Nat, NEW S \in SUBSET (0..N), S # {}
  PROVE  Min(S) \in S /\ \A y \in S : Min(S) <= y
<1> DEFINE T == {0..y : y \in S}
           All == 0..N
           R == StrictSubsetOrdering(All)
<1>1. T \subseteq FiniteSubsetsOf(All)
  <2>1. IsFiniteSet(All)
    BY FS_Interval
  <2>2. \A y \in S : 0..y \subseteq All
    OBVIOUS
  <2>3. \A y \in S : IsFiniteSet(0..y)
    BY FS_Interval
  <2> QED
    BY <2>2, <2>3 DEF FiniteSubsetsOf
<1>2. T # {}
  OBVIOUS
<1>3. PICK x \in T : \A y \in T : ~(<<y, x>> \in R)
  <2>1. IsFiniteSet(All)
    BY FS_Interval
  <2> QED
    BY <1>1, <1>2, <2>1, WFMin, FS_StrictSubsetOrderingWellFounded
<1>4. PICK m \in S : x = 0..m
  OBVIOUS
<1>5. ASSUME NEW y \in S, ~(m <= y) PROVE FALSE
  <2>1. 0..y \subseteq 0..m /\ m \in 0..m /\ m \notin 0..y
    BY <1>5
  <2>2. 0..y \in FiniteSubsetsOf(All) /\ 0..m \in FiniteSubsetsOf(All)
    BY <1>1
  <2>3. 0..y \in SUBSET All /\ 0..m \in SUBSET All
    OBVIOUS
  <2>4. <<0..y, 0..m>> \in R
    BY <2>1, <2>2, <2>3 DEF StrictSubsetOrdering
  <2> QED
    BY <1>3, <1>4, <2>4
<1>6. \E z \in S : \A y \in S : z <= y
  BY <1>5
<1> QED
  BY <1>6 DEF Min

LEMMA Least ==
  ASSUME NEW S \in SUBSET (0..MaxTransaction), S # {}
  PROVE  Min(S) \in S /\ \A y \in S : Min(S) <= y
BY NumbersAre, LeastOf

LEMMA NoTraIs ==
  /\ NoTra \in TraType
  /\ NoTra.at = "idle" /\ NoTra.number = 0 /\ NoTra.top = 0 /\ NoTra.oldest = 0 /\ NoTra.active = 0
  /\ NoTra.oldest_active = 0 /\ NoTra.hdr_snapshot = 0 /\ NoTra.new = 0 /\ NoTra.sub = {}
  /\ NoTra.snapshot = [n \in Numbers |-> "active"]
BY NumbersAre DEF NoTra, TraType, Phases, States

LEMMA FieldsAre ==
  ASSUME NEW t \in TraType
  PROVE  /\ t.at \in Phases /\ t.sub \in SUBSET Numbers /\ t.snapshot \in [Numbers -> States]
         /\ t.number \in 0..MaxTransaction /\ t.new \in 0..MaxTransaction
         /\ t.oldest \in 0..MaxTransaction /\ t.active \in 0..MaxTransaction
         /\ t.oldest_active \in 0..MaxTransaction /\ t.top \in 0..MaxTransaction
         /\ t.number \in Nat /\ t.new \in Nat /\ t.oldest \in Nat /\ t.active \in Nat
         /\ t.oldest_active \in Nat /\ t.top \in Nat
<1>1. /\ t.at \in Phases /\ t.sub \in SUBSET Numbers /\ t.snapshot \in [Numbers -> States]
      /\ t.number \in 0..MaxTransaction /\ t.new \in 0..MaxTransaction
      /\ t.oldest \in 0..MaxTransaction /\ t.active \in 0..MaxTransaction
      /\ t.oldest_active \in 0..MaxTransaction /\ t.top \in 0..MaxTransaction
  BY DEF TraType
<1> QED
  BY <1>1, NumbersAre

Begun(n, oldest, active, snapshot, cleanup) ==
  [NoTra EXCEPT !.at = "inventory", !.number = n, !.top = n, !.oldest = oldest, !.active = active,
                !.oldest_active = active, !.hdr_snapshot = snapshot, !.cleanup = cleanup]

LEMMA BegunIs ==
  ASSUME NEW n \in 0..MaxTransaction, NEW oldest \in 0..MaxTransaction, NEW active \in 0..MaxTransaction,
         NEW snapshot \in 0..MaxTransaction, NEW cleanup \in BOOLEAN
  PROVE  LET t == Begun(n, oldest, active, snapshot, cleanup)
         IN  /\ t \in TraType /\ t.at = "inventory" /\ t.number = n /\ t.top = n
             /\ t.oldest = oldest /\ t.active = active /\ t.oldest_active = active
             /\ t.new = 0 /\ t.sub = {} /\ t.snapshot = [m \in Numbers |-> "active"]
BY NoTraIs DEF Begun, TraType, Phases

\* What is over stays so, and counters only go up.
Forward ==
  /\ \A n \in Numbers : tip[n] # "active" => tip'[n] = tip[n]
  /\ hdr'.next >= hdr.next /\ hdr'.oldest_transaction >= hdr.oldest_transaction

\* The other processes' transactions stay, with what is theirs.
OthersStay(p) ==
  \A q \in Sessions : q # p =>
    /\ tra'[q] = tra[q] /\ dbb'[q] = dbb[q]
    /\ \A n \in {tra[q].number, tra[q].new} \ {0} : tip'[n] = tip[n] /\ lck'[n] = lck[n]

-----------------------------------------------------------------------------
(* Every step on transactions keeps their part of the invariant. *)

LEMMA Bumped ==
  ASSUME TransactionsFit, NEW p \in Sessions, hdr.next < MaxTransaction,
         hdr' = bump_transaction_id(p)
  PROVE  /\ hdr' \in [next : 0..MaxTransaction, oldest_transaction : 0..MaxTransaction,
                      oldest_active : 0..MaxTransaction, oldest_snapshot : 0..MaxTransaction]
         /\ hdr'.next = hdr.next + 1 /\ hdr'.next \in Numbers
         /\ hdr'.oldest_transaction \in {hdr.oldest_transaction, dbb[p].oldest_transaction}
         /\ hdr'.oldest_active \in {hdr.oldest_active, dbb[p].oldest_active}
         /\ hdr'.oldest_transaction >= hdr.oldest_transaction
         /\ Over(hdr'.oldest_transaction) /\ Over(hdr'.oldest_active)
<1>1. /\ hdr.next \in 0..MaxTransaction
      /\ hdr.oldest_transaction \in 0..MaxTransaction /\ dbb[p].oldest_transaction \in 0..MaxTransaction
      /\ hdr.oldest_active \in 0..MaxTransaction /\ dbb[p].oldest_active \in 0..MaxTransaction
      /\ hdr.oldest_snapshot \in 0..MaxTransaction /\ dbb[p].oldest_snapshot \in 0..MaxTransaction
  BY DEF TransactionsFit, Typed
<1>2. /\ hdr'.next = hdr.next + 1
      /\ hdr'.oldest_transaction = Larger(hdr.oldest_transaction, dbb[p].oldest_transaction)
      /\ hdr'.oldest_active = Larger(hdr.oldest_active, dbb[p].oldest_active)
      /\ hdr'.oldest_snapshot = Larger(hdr.oldest_snapshot, dbb[p].oldest_snapshot)
      /\ hdr' = [next |-> hdr'.next, oldest_transaction |-> hdr'.oldest_transaction,
                 oldest_active |-> hdr'.oldest_active, oldest_snapshot |-> hdr'.oldest_snapshot]
  BY DEF bump_transaction_id
<1>3. \A a, b \in 0..MaxTransaction :
        Larger(a, b) \in {a, b} /\ Larger(a, b) >= a /\ Larger(a, b) \in 0..MaxTransaction
  BY NumbersAre DEF Larger
<1>4. /\ Over(hdr.oldest_transaction) /\ Over(hdr.oldest_active)
      /\ Over(dbb[p].oldest_transaction) /\ Over(dbb[p].oldest_active)
  BY DEF TransactionsFit, HeaderFits, CountersFit
<1>5. /\ hdr'.next \in Numbers /\ hdr'.next \in 0..MaxTransaction
      /\ hdr'.oldest_transaction \in {hdr.oldest_transaction, dbb[p].oldest_transaction}
      /\ hdr'.oldest_active \in {hdr.oldest_active, dbb[p].oldest_active}
      /\ hdr'.oldest_snapshot \in 0..MaxTransaction
      /\ hdr'.oldest_transaction >= hdr.oldest_transaction
  <2>1. /\ hdr'.next \in Numbers /\ hdr'.next \in 0..MaxTransaction
    BY <1>1, <1>2, NumbersAre
  <2>2. /\ hdr'.oldest_transaction \in {hdr.oldest_transaction, dbb[p].oldest_transaction}
        /\ hdr'.oldest_transaction >= hdr.oldest_transaction
    BY <1>1, <1>2, <1>3
  <2>3. hdr'.oldest_active \in {hdr.oldest_active, dbb[p].oldest_active}
    BY <1>1, <1>2, <1>3
  <2>4. hdr'.oldest_snapshot \in 0..MaxTransaction
    BY <1>1, <1>2, <1>3
  <2> QED
    BY <2>1, <2>2, <2>3, <2>4
<1>6. Over(hdr'.oldest_transaction) /\ Over(hdr'.oldest_active)
  BY <1>4, <1>5
<1>7. hdr' \in [next : 0..MaxTransaction, oldest_transaction : 0..MaxTransaction,
                oldest_active : 0..MaxTransaction, oldest_snapshot : 0..MaxTransaction]
  BY <1>1, <1>2, <1>5
<1> QED
  BY <1>2, <1>5, <1>6, <1>7

LEMMA StaysOver ==
  ASSUME Typed, hdr'.next \in Nat, Forward, NEW x \in 0..MaxTransaction, Over(x)
  PROVE  Over(x)'
<1>1. hdr.next \in Nat /\ x \in Nat
  BY NumbersAre DEF Typed
<1> QED
  BY <1>1 DEF Over, Forward

LEMMA OthersFit ==
  ASSUME TransactionsFit, Typed', NEW p \in Sessions, Forward, OthersStay(p),
         NEW q \in Sessions, q # p
  PROVE  NumberFits(q)' /\ CountersFit(q)' /\ SnapshotFits(q)'
<1>1. NumberFits(q) /\ CountersFit(q) /\ SnapshotFits(q) /\ tra[q] \in TraType /\ tra'[q] = tra[q]
  BY DEF TransactionsFit, Typed, OthersStay
<1>2. hdr.next \in Nat /\ hdr'.next \in Nat
  BY NumbersAre DEF TransactionsFit, Typed
<1>3. NumberFits(q)'
  BY <1>1, <1>2, NumbersAre DEF Forward, OthersStay, NumberFits, TraType, Undecided, Reads
<1>4. CountersFit(q)'
  <2>1. hdr.oldest_transaction \in Nat /\ hdr'.oldest_transaction \in Nat
    BY NumbersAre DEF TransactionsFit, Typed
  <2>2. /\ dbb[q].oldest_transaction \in 0..MaxTransaction /\ dbb[q].oldest_active \in 0..MaxTransaction
        /\ tra[q].oldest \in Nat
    BY <1>1, FieldsAre DEF TransactionsFit, Typed
  <2>3. /\ Over(dbb[q].oldest_transaction)' /\ Over(dbb[q].oldest_active)'
    <3>1. Typed /\ dbb'[q] = dbb[q] /\ Over(dbb[q].oldest_transaction) /\ Over(dbb[q].oldest_active)
      BY <1>1 DEF TransactionsFit, OthersStay, CountersFit
    <3> QED
      BY <1>2, <2>2, <3>1, StaysOver
  <2>4. Over(tra[q].active)' /\ Over(tra[q].oldest_active)'
    <3>1. tra[q].active \in 0..MaxTransaction /\ tra[q].oldest_active \in 0..MaxTransaction
      BY <1>1 DEF TraType
    <3>2. Typed /\ Over(tra[q].active) /\ Over(tra[q].oldest_active)
      BY <1>1 DEF TransactionsFit, CountersFit
    <3> QED
      BY <1>1, <1>2, <3>1, <3>2, StaysOver
  <2> QED
    BY <1>1, <2>1, <2>2, <2>3, <2>4 DEF CountersFit, Forward
<1>5. SnapshotFits(q)'
  BY <1>1 DEF Typed, TraType, SnapshotFits, Forward
<1> QED
  BY <1>3, <1>4, <1>5

\* What there is to show of a step of p.
OneFits(p) ==
  /\ LocksFit /\ HeaderFits /\ NumberFits(p) /\ CountersFit(p) /\ SnapshotFits(p)
  /\ \A q \in Sessions : q # p => Apart(p, q) /\ Apart(q, p)

LEMMA StepFits ==
  ASSUME TransactionsFit, Typed', NEW p \in Sessions, Forward, OthersStay(p), OneFits(p)'
  PROVE  TransactionsFit'
<1>1. ASSUME NEW q \in Sessions PROVE NumberFits(q)' /\ CountersFit(q)' /\ SnapshotFits(q)'
  BY OthersFit DEF OneFits
<1>2. ASSUME NEW q \in Sessions, NEW r \in Sessions, q # r PROVE Apart(q, r)'
  <2>1. CASE q # p /\ r # p
    BY <1>2, <2>1 DEF TransactionsFit, Apart, OthersStay
  <2> QED
    BY <1>2, <2>1 DEF OneFits
<1> QED
  BY <1>1, <1>2 DEF TransactionsFit, OneFits

LEMMA StartKeeps ==
  ASSUME TransactionsFit, NEW p \in Sessions, TRA_start(p)
  PROVE  TransactionsFit' /\ Forward
<1> DEFINE n == hdr'.next
           active == Larger(hdr'.oldest_active, hdr'.oldest_transaction)
<1>1. /\ hdr' \in [next : 0..MaxTransaction, oldest_transaction : 0..MaxTransaction,
                   oldest_active : 0..MaxTransaction, oldest_snapshot : 0..MaxTransaction]
      /\ hdr'.next = n /\ n = hdr.next + 1 /\ n \in Numbers /\ n \in 0..MaxTransaction /\ hdr.next \in Nat
      /\ hdr'.oldest_transaction >= hdr.oldest_transaction
      /\ Over(hdr'.oldest_transaction) /\ Over(hdr'.oldest_active)
  <2>1. hdr.next < MaxTransaction /\ hdr' = bump_transaction_id(p)
    BY DEF TRA_start
  <2>2. hdr.next \in Nat
    BY NumbersAre DEF TransactionsFit, Typed
  <2>3. /\ hdr' \in [next : 0..MaxTransaction, oldest_transaction : 0..MaxTransaction,
                     oldest_active : 0..MaxTransaction, oldest_snapshot : 0..MaxTransaction]
        /\ hdr'.next = hdr.next + 1 /\ hdr'.next \in Numbers
        /\ hdr'.oldest_transaction >= hdr.oldest_transaction
        /\ Over(hdr'.oldest_transaction) /\ Over(hdr'.oldest_active)
    BY <2>1, Bumped
  <2> QED
    BY <2>2, <2>3, NumbersAre
<1>2. active \in 0..MaxTransaction /\ Over(active) /\ active >= hdr'.oldest_transaction
  BY <1>1 DEF Larger
<1>3. active <= n /\ active # 0 /\ 1 <= hdr'.oldest_transaction
  <2>1. active <= n
    BY <1>1, <1>2 DEF Over
  <2>2. 1 <= hdr.oldest_transaction /\ hdr.oldest_transaction \in Nat
    BY DEF TransactionsFit, HeaderFits, Typed
  <2> QED
    BY <1>1, <1>2, <2>1, <2>2
<1>4. /\ tra'[p] \in TraType /\ tra'[p].at = "inventory" /\ tra'[p].number = n /\ tra'[p].top = n
      /\ tra'[p].oldest = hdr'.oldest_transaction /\ tra'[p].active = active
      /\ tra'[p].oldest_active = active /\ tra'[p].new = 0 /\ tra'[p].sub = {}
      /\ tra'[p].snapshot = [m \in Numbers |-> "active"]
  <2>1. PICK c \in BOOLEAN : tra'[p] = Begun(n, hdr'.oldest_transaction, active, hdr'.oldest_snapshot, c)
    BY DEF TRA_start, TransactionsFit, Typed, Begun
  <2>2. hdr'.oldest_transaction \in 0..MaxTransaction /\ hdr'.oldest_snapshot \in 0..MaxTransaction
    BY <1>1
  <2> DEFINE oldest == hdr'.oldest_transaction
             snapshot == hdr'.oldest_snapshot
             t == Begun(n, oldest, active, snapshot, c)
  <2> HIDE DEF n, active, oldest, snapshot
  <2>3. /\ t \in TraType /\ t.at = "inventory" /\ t.number = n /\ t.top = n
        /\ t.oldest = oldest /\ t.active = active /\ t.oldest_active = active
        /\ t.new = 0 /\ t.sub = {} /\ t.snapshot = [m \in Numbers |-> "active"]
    <3>1. /\ n \in 0..MaxTransaction /\ active \in 0..MaxTransaction
          /\ oldest \in 0..MaxTransaction /\ snapshot \in 0..MaxTransaction
      BY <1>1, <1>2, <2>2 DEF oldest, snapshot
    <3> QED
      BY <3>1, BegunIs
  <2> QED
    BY <2>1, <2>3 DEF oldest, snapshot
<1>5. /\ tra' = [tra EXCEPT ![p] = tra'[p]]
      /\ tra[p].at = "idle" /\ tip' = tip /\ dbb' = dbb /\ overtook' = overtook
      /\ lck' = [lck EXCEPT ![n] = active]
  BY DEF TRA_start, TransactionsFit, Typed
<1> HIDE DEF n, active
<1>6. Typed'
  BY <1>1, <1>2, <1>4, <1>5 DEF TransactionsFit, Typed
<1>7. LocksFit'
  <2>1. active \in Nat /\ n \in Nat
    BY <1>1, <1>2, NumbersAre
  <2>2. LocksFit /\ \A m \in Numbers : lck'[m] = IF m = n THEN active ELSE lck[m]
    BY <1>1, <1>5 DEF TransactionsFit, Typed
  <2>3. ASSUME NEW m \in Numbers PROVE lck'[m] <= m
    BY <1>3, <2>2, <2>3 DEF LocksFit
  <2>4. ASSUME NEW m \in Numbers, m > hdr'.next PROVE tip'[m] = "active" /\ lck'[m] = 0
    <3>1. m \in Nat
      BY NumbersAre
    <3>2. m > hdr.next /\ m # n
      BY <1>1, <2>1, <2>4, <3>1
    <3> QED
      BY <1>5, <2>2, <3>2 DEF LocksFit
  <2> QED
    BY <2>3, <2>4 DEF LocksFit
<1>8. \A x \in 0..MaxTransaction : Over(x) => Over(x)'
  BY <1>1, <1>5 DEF Over
<1>9. HeaderFits'
  BY <1>1, <1>3, <1>8 DEF HeaderFits
<1>10. NumberFits(p)'
  BY <1>1, <1>3, <1>4, <1>5 DEF TransactionsFit, Typed, NumberFits, LocksFit, Undecided, Reads
<1>11. CountersFit(p)'
  BY <1>1, <1>2, <1>3, <1>4, <1>5, <1>8 DEF TransactionsFit, Typed, CountersFit
<1>12. SnapshotFits(p)'
  BY <1>4 DEF SnapshotFits
<1>13. ASSUME NEW q \in Sessions, q # p
       PROVE  /\ tra'[q] = tra[q] /\ tra[q].number <= hdr.next /\ tra[q].new <= hdr.next
              /\ tra[q].number \in Nat /\ tra[q].new \in Nat
  <2>1. tra[q] \in TraType /\ tra'[q] = tra[q] /\ NumberFits(q)
    BY <1>5, <1>13 DEF TransactionsFit, Typed
  <2> QED
    BY <1>1, <2>1, FieldsAre DEF NumberFits
<1>14. ASSUME NEW q \in Sessions, q # p PROVE Apart(p, q)' /\ Apart(q, p)'
  BY <1>1, <1>4, <1>13, <1>14 DEF Apart
<1>15. Forward /\ OthersStay(p)
  BY <1>1, <1>5, <1>13 DEF Forward, OthersStay, TransactionsFit, Typed
<1> QED
  BY <1>6, <1>7, <1>9, <1>10, <1>11, <1>12, <1>14, <1>15, StepFits DEF OneFits

LEMMA CountersAre ==
  ASSUME TransactionsFit, NEW p \in Sessions
  PROVE  /\ tra[p] \in TraType /\ NumberFits(p) /\ CountersFit(p) /\ SnapshotFits(p)
         /\ hdr.next \in 0..MaxTransaction /\ hdr.next \in Nat
         /\ hdr.oldest_transaction \in 0..MaxTransaction /\ hdr.oldest_transaction \in Nat
         /\ hdr.oldest_active \in 0..MaxTransaction /\ hdr.oldest_active \in Nat
         /\ \A q \in Sessions : q # p => Apart(p, q) /\ Apart(q, p)
<1>1. /\ hdr.next \in 0..MaxTransaction
      /\ hdr.oldest_transaction \in 0..MaxTransaction /\ hdr.oldest_active \in 0..MaxTransaction
  BY DEF TransactionsFit, Typed
<1> QED
  BY <1>1, NumbersAre DEF TransactionsFit, Typed

LEMMA StaysApart ==
  ASSUME TransactionsFit, NEW p \in Sessions, tra' = [tra EXCEPT ![p] = tra'[p]],
         {tra'[p].number, tra'[p].new} \subseteq {tra[p].number, tra[p].new, 0}
  PROVE  \A q \in Sessions : q # p => /\ tra'[q] = tra[q]
                                      /\ Apart(p, q)' /\ Apart(q, p)'
<1>1. ASSUME NEW q \in Sessions, q # p PROVE tra'[q] = tra[q] /\ Apart(p, q) /\ Apart(q, p)
  BY <1>1, CountersAre DEF TransactionsFit, Typed
<1> QED
  BY <1>1 DEF Apart

LEMMA InventoryKeeps ==
  ASSUME TransactionsFit, NEW p \in Sessions, TRA_get_inventory(p)
  PROVE  TransactionsFit' /\ Forward
<1> DEFINE snapshot == [n \in Numbers |-> IF n >= tra[p].oldest /\ n < tra[p].number
                                          THEN tip[n] ELSE "active"]
<1>1. /\ tra[p] \in TraType /\ tra[p].at = "inventory" /\ tra[p].number # 0
      /\ NumberFits(p) /\ CountersFit(p) /\ SnapshotFits(p)
      /\ tra' = [tra EXCEPT ![p] = tra'[p]] /\ tra'[p] = [tra[p] EXCEPT !.at = "oldest", !.snapshot = snapshot]
      /\ UNCHANGED <<tip, hdr, dbb, lck>>
  BY CountersAre DEF TRA_get_inventory, TransactionsFit, Typed, NumberFits
<1>2. snapshot \in [Numbers -> States]
  BY DEF TransactionsFit, Typed, States
<1> HIDE DEF snapshot
<1>3. /\ tra'[p] \in TraType /\ tra'[p].at = "oldest" /\ tra'[p].snapshot = snapshot
      /\ tra'[p].number = tra[p].number /\ tra'[p].new = tra[p].new /\ tra'[p].sub = tra[p].sub
      /\ tra'[p].oldest = tra[p].oldest /\ tra'[p].active = tra[p].active
      /\ tra'[p].oldest_active = tra[p].oldest_active /\ tra'[p].top = tra[p].top
  BY <1>1, <1>2 DEF TraType, Phases
<1>4. overtook' \subseteq Sessions
  BY DEF TRA_get_inventory, TransactionsFit, Typed, Earlier
<1>5. Typed'
  BY <1>1, <1>3, <1>4 DEF TransactionsFit, Typed
<1>6. LocksFit' /\ HeaderFits' /\ NumberFits(p)' /\ CountersFit(p)'
  <2>1. LocksFit' /\ HeaderFits'
    BY <1>1 DEF TransactionsFit, LocksFit, HeaderFits, Over
  <2>2. NumberFits(p)'
    BY <1>1, <1>3 DEF NumberFits, Undecided, Reads
  <2>3. CountersFit(p)'
    BY <1>1, <1>3 DEF CountersFit, Over
  <2> QED
    BY <2>1, <2>2, <2>3
<1>7. SnapshotFits(p)'
  <2>1. ASSUME NEW n \in Numbers
        PROVE  /\ snapshot[n] = "committed" => tip[n] = "committed"
               /\ snapshot[n] = "dead" => tip[n] = "dead"
    BY DEF snapshot
  <2>2. ASSUME NEW n \in Numbers, n >= tra[p].oldest, n < tra[p].active, snapshot[n] = "active"
        PROVE  FALSE
    <3>1. n < tra[p].number
      BY <1>1, <2>2, FieldsAre, NumbersAre DEF CountersFit
    <3>2. tip[n] # "active"
      BY <1>1, <2>2 DEF CountersFit, Over
    <3> QED
      BY <2>2, <3>1, <3>2 DEF snapshot
  <2>3. \A n \in Numbers : n < tra[p].oldest \/ n >= tra[p].active \/ snapshot[n] # "active"
    BY <1>1, <2>2, FieldsAre, NumbersAre
  <2> QED
    BY <1>1, <1>3, <2>1, <2>3 DEF SnapshotFits
<1>8. \A q \in Sessions : q # p => tra'[q] = tra[q] /\ Apart(p, q)' /\ Apart(q, p)'
  BY <1>1, <1>3, StaysApart
<1>9. Forward /\ OthersStay(p)
  BY <1>1, CountersAre DEF Forward, OthersStay, TransactionsFit, Typed
<1> QED
  BY <1>5, <1>6, <1>7, <1>8, <1>9, StepFits DEF OneFits

LEMMA BelowIs ==
  ASSUME TransactionsFit, NEW p \in Sessions, tra[p].at = "oldest"
  PROVE  /\ ActiveBelow(p) = {n \in Numbers : /\ tra[p].active <= n /\ n < tra[p].number
                                              /\ tra[p].snapshot[n] = "active"}
         /\ ActiveBelow(p) # {} => /\ Min(ActiveBelow(p)) \in ActiveBelow(p)
                                   /\ \A n \in ActiveBelow(p) : Min(ActiveBelow(p)) <= n
<1>1. /\ tra[p].active \in Nat /\ tra[p].number \in 0..MaxTransaction /\ tra[p].number \in Nat
      /\ 1 <= tra[p].active
  BY CountersAre, FieldsAre DEF CountersFit
<1>2. ActiveBelow(p) = {n \in Numbers : /\ tra[p].active <= n /\ n < tra[p].number
                                         /\ tra[p].snapshot[n] = "active"}
  <2>1. \A n : n \in tra[p].active..(tra[p].number - 1) <=>
               n \in Numbers /\ tra[p].active <= n /\ n < tra[p].number
    BY <1>1, NumbersAre
  <2> QED
    BY <2>1 DEF ActiveBelow
<1>3. ActiveBelow(p) \in SUBSET (0..MaxTransaction)
  BY <1>2, NumbersAre
<1> QED
  BY <1>2, <1>3, Least

LEMMA CleanupKeeps ==
  ASSUME TransactionsFit, NEW p \in Sessions, CleansUp(p)
  PROVE  TransactionsFit' /\ Forward
<1> DEFINE n == Min(ActiveBelow(p))
           state == IF tip[n] = "active" THEN "dead" ELSE tip[n]
<1>1. /\ tra[p] \in TraType /\ tra[p].at = "oldest"
      /\ NumberFits(p) /\ CountersFit(p) /\ SnapshotFits(p)
  BY CountersAre DEF CleansUp
<1>2. /\ n \in Numbers /\ n < tra[p].number /\ tra[p].active <= n /\ lck[n] = 0
      /\ n <= hdr.next /\ n \in Nat
  <2>1. n \in Numbers /\ n < tra[p].number /\ tra[p].active <= n
    BY <1>1, BelowIs DEF CleansUp
  <2>2. n \in Nat /\ hdr.next \in Nat /\ tra[p].number \in Nat
    BY <1>1, <2>1, NumbersAre, FieldsAre, CountersAre
  <2> QED
    BY <1>1, <2>1, <2>2 DEF CleansUp, NumberFits
<1>3. state \in States /\ state # "active" /\ (tip[n] # "active" => state = tip[n])
  BY <1>2 DEF TransactionsFit, Typed, States
<1>4. /\ tip' = [tip EXCEPT ![n] = state]
      /\ tra' = [tra EXCEPT ![p] = tra'[p]]
      /\ UNCHANGED <<hdr, dbb, lck>>
      /\ overtook' \subseteq Sessions
  BY DEF CleansUp, TransactionsFit, Typed, Earlier
<1>5. PICK c \in BOOLEAN : tra'[p] = [tra[p] EXCEPT !.snapshot[n] = state, !.cleanup = c]
  BY DEF CleansUp, TransactionsFit, Typed
<1> HIDE DEF n, state
<1>6. /\ tra'[p] \in TraType /\ tra'[p].at = "oldest"
      /\ tra'[p].snapshot = [tra[p].snapshot EXCEPT ![n] = state]
      /\ tra'[p].number = tra[p].number /\ tra'[p].new = tra[p].new /\ tra'[p].sub = tra[p].sub
      /\ tra'[p].oldest = tra[p].oldest /\ tra'[p].active = tra[p].active
      /\ tra'[p].oldest_active = tra[p].oldest_active /\ tra'[p].top = tra[p].top
  <2> DEFINE snapshot == [tra[p].snapshot EXCEPT ![n] = state]
  <2>1. snapshot \in [Numbers -> States]
    BY <1>1, <1>3, FieldsAre
  <2>2. tra'[p] = [tra[p] EXCEPT !.snapshot = snapshot, !.cleanup = c]
    BY <1>1, <1>5 DEF TraType
  <2> HIDE DEF snapshot
  <2>3. /\ tra'[p] \in TraType /\ tra'[p].at = "oldest" /\ tra'[p].snapshot = snapshot
        /\ tra'[p].number = tra[p].number /\ tra'[p].new = tra[p].new /\ tra'[p].sub = tra[p].sub
        /\ tra'[p].oldest = tra[p].oldest /\ tra'[p].active = tra[p].active
        /\ tra'[p].oldest_active = tra[p].oldest_active /\ tra'[p].top = tra[p].top
    BY <1>1, <2>1, <2>2 DEF TraType
  <2> QED
    BY <2>3 DEF snapshot
<1>7. Typed'
  BY <1>2, <1>3, <1>4, <1>6 DEF TransactionsFit, Typed
<1>8. Forward
  BY <1>2, <1>3, <1>4, CountersAre DEF Forward, TransactionsFit, Typed
<1>9. /\ \A q \in Sessions : q # p => tra'[q] = tra[q] /\ Apart(p, q)' /\ Apart(q, p)'
      /\ OthersStay(p)
  <2>1. \A q \in Sessions : q # p => tra'[q] = tra[q] /\ Apart(p, q)' /\ Apart(q, p)'
    BY <1>4, <1>6, StaysApart
  <2>2. \A q \in Sessions : n \notin {tra[q].number, tra[q].new} \ {0}
    BY <1>2, CountersAre DEF NumberFits
  <2> QED
    BY <1>4, <2>1, <2>2 DEF OthersStay, TransactionsFit, Typed
<1>10. LocksFit'
  <2>1. LocksFit /\ \A m \in Numbers : m # n => tip'[m] = tip[m]
    BY <1>2, <1>4 DEF TransactionsFit, Typed
  <2>2. \A m \in Numbers : m > hdr.next => m # n
    BY <1>2, CountersAre, NumbersAre
  <2> QED
    BY <1>4, <2>1, <2>2 DEF LocksFit
<1>11. HeaderFits' /\ CountersFit(p)'
  BY <1>1, <1>2, <1>3, <1>4, <1>6 DEF TransactionsFit, Typed, HeaderFits, CountersFit, Over
<1>12. NumberFits(p)'
  BY <1>1, <1>2, <1>4, <1>6, FieldsAre DEF NumberFits, Undecided, Reads
<1>13. SnapshotFits(p)'
  <2>1. tra[p].snapshot \in [Numbers -> States] /\ tra[p].sub \subseteq Numbers
    BY <1>1, FieldsAre
  <2> QED
    BY <1>1, <1>2, <1>3, <1>4, <1>6, <2>1 DEF TransactionsFit, Typed, SnapshotFits
<1> QED
  BY <1>7, <1>8, <1>9, <1>10, <1>11, <1>12, <1>13, StepFits DEF OneFits

LEMMA SmallerIs == \A a, b \in Nat : Smaller(a, b) \in {a, b} /\ Smaller(a, b) <= a /\ Smaller(a, b) <= b
BY DEF Smaller

\* What the search for the oldest ones comes to.
LEMMA FoundIs ==
  ASSUME TransactionsFit, NEW p \in Sessions, tra[p].at = "oldest"
  PROVE  /\ OldestInteresting(p) \in 0..MaxTransaction /\ Over(OldestInteresting(p))
         /\ \A n \in Numbers : n < OldestInteresting(p) /\ n >= tra[p].oldest => tip[n] = "committed"
         /\ OldestActive(p) \in 0..MaxTransaction /\ Over(OldestActive(p))
         /\ 1 <= OldestActive(p) /\ OldestActive(p) <= tra[p].number
         /\ OldestSnapshot(p) \in 0..MaxTransaction /\ Over(OldestSnapshot(p))
         /\ OldestSnapshot(p) <= tra[p].number
         /\ \A n \in Numbers :
              n < tra[p].oldest \/ n >= OldestSnapshot(p) \/ tra[p].snapshot[n] # "active"
<1>1. /\ tra[p] \in TraType /\ NumberFits(p) /\ CountersFit(p) /\ SnapshotFits(p)
      /\ tra[p].number \in Numbers /\ lck[tra[p].number] # 0 /\ tra[p].number <= hdr.next
      /\ 1 <= tra[p].oldest /\ tra[p].oldest <= tra[p].active /\ tra[p].active <= tra[p].number
      /\ tra[p].oldest <= hdr.oldest_transaction
  <2>1. tra[p] \in TraType /\ NumberFits(p) /\ CountersFit(p) /\ SnapshotFits(p)
    BY CountersAre
  <2>2. tra[p].number # 0
    BY <2>1 DEF NumberFits
  <2>3. tra[p].number \in Numbers
    BY <2>1, <2>2, FieldsAre, NumbersAre
  <2> QED
    BY <2>1, <2>2, <2>3 DEF NumberFits, CountersFit
<1> DEFINE number == tra[p].number
           oldest == tra[p].oldest
<1>2. number \in 0..MaxTransaction /\ number \in Nat /\ oldest \in Nat /\ tra[p].active \in Nat
      /\ hdr.next \in Nat /\ hdr.oldest_transaction \in Nat
      /\ Numbers \subseteq Nat /\ \A n \in Numbers : tip[n] \in States /\ tra[p].snapshot[n] \in States
  BY <1>1, FieldsAre, NumbersAre, CountersAre DEF TransactionsFit, Typed
\* The snapshot tells what is over of what is older than the transaction itself.
<1>3. ASSUME NEW x \in Nat, x <= number,
             \A n \in Numbers : n >= oldest /\ n < x => tra[p].snapshot[n] # "active"
      PROVE  Over(x)
  <2>1. ASSUME NEW n \in Numbers, n < x PROVE tip[n] # "active"
    <3>1. CASE n < oldest
      BY <1>1, <1>2, <2>1, <3>1 DEF TransactionsFit, HeaderFits, Over
    <3>2. CASE n >= oldest
      BY <1>1, <1>2, <1>3, <2>1, <3>2 DEF SnapshotFits, States
    <3> QED
      BY <1>2, <3>1, <3>2
  <2> QED
    BY <1>1, <1>2, <1>3, <2>1 DEF Over
<1>4. \A n \in Numbers : n < oldest \/ n >= tra[p].active \/ tra[p].snapshot[n] # "active"
  BY <1>1 DEF SnapshotFits
<1> HIDE DEF number, oldest
<1>5. /\ OldestInteresting(p) \in 0..MaxTransaction /\ OldestInteresting(p) < number
      /\ \A n \in Numbers : n < OldestInteresting(p) /\ n >= oldest => tra[p].snapshot[n] = "committed"
  <2> DEFINE S == {n \in oldest..(number - 1) : tra[p].snapshot[n] # "committed"} \cup {number}
  <2>1. S \in SUBSET (0..MaxTransaction) /\ number \in S /\ \A n \in S : n >= 1
    BY <1>1, <1>2, NumbersAre DEF number, oldest
  <2>2. Min(S) \in S /\ \A n \in S : Min(S) <= n
    BY <2>1, Least
  <2>3. OldestInteresting(p) = Min(S) - 1
    BY DEF OldestInteresting, number, oldest
  <2>4. \A n \in Numbers : n < Min(S) /\ n >= oldest => tra[p].snapshot[n] = "committed"
    BY <1>2, <2>1, <2>2
  <2> HIDE DEF S
  <2>5. Min(S) \in Nat /\ Min(S) >= 1 /\ Min(S) <= number /\ Min(S) - 1 \in 0..MaxTransaction
    <3>1. Min(S) \in 0..MaxTransaction /\ Min(S) >= 1 /\ Min(S) <= number
      BY <2>1, <2>2
    <3> QED
      BY <1>2, <3>1, NumbersAre
  <2>6. \A n \in Numbers : n < Min(S) - 1 => n < Min(S)
    BY <1>2, <2>5
  <2> DEFINE m == Min(S)
  <2> HIDE DEF m
  <2>7. m - 1 < number
    BY <1>2, <2>5 DEF m
  <2>8. \A n \in Numbers : n < m - 1 /\ n >= oldest => tra[p].snapshot[n] = "committed"
    BY <2>4, <2>6 DEF m
  <2>9. OldestInteresting(p) = m - 1 /\ m - 1 \in 0..MaxTransaction
    BY <2>3, <2>5 DEF m
  <2> QED
    BY <2>7, <2>8, <2>9
<1>6. /\ OldestActive(p) \in 0..MaxTransaction /\ 1 <= OldestActive(p) /\ OldestActive(p) <= number
      /\ \A n \in Numbers : n >= oldest /\ n < OldestActive(p) => tra[p].snapshot[n] # "active"
  <2> DEFINE S == ActiveBelow(p) \cup {number}
  <2>1. /\ S \in SUBSET (0..MaxTransaction) /\ number \in S /\ \A n \in S : n >= 1
        /\ \A n \in Numbers : n >= tra[p].active /\ n < number /\ tra[p].snapshot[n] = "active" => n \in S
    BY <1>1, <1>2, BelowIs, NumbersAre DEF number
  <2>2. Min(S) \in S /\ \A n \in S : Min(S) <= n
    BY <2>1, Least
  <2>3. OldestActive(p) = Min(S)
    BY DEF OldestActive, number
  <2> HIDE DEF S
  <2>4. Min(S) \in Nat /\ Min(S) <= number
    <3>1. Min(S) \in 0..MaxTransaction /\ Min(S) <= number
      BY <2>1, <2>2
    <3> QED
      BY <3>1, NumbersAre
  <2>5. \A n \in Numbers : n >= oldest /\ n < Min(S) => tra[p].snapshot[n] # "active"
    BY <1>2, <1>4, <2>1, <2>2, <2>4
  <2> QED
    BY <2>1, <2>2, <2>3, <2>4, <2>5
<1>7. /\ OldestSnapshot(p) \in 0..MaxTransaction /\ OldestSnapshot(p) <= number
      /\ \A n \in Numbers : n >= oldest /\ n < OldestSnapshot(p) => tra[p].snapshot[n] # "active"
  <2> DEFINE first == Min(ActiveBelow(p))
             data == Smaller(number, IF lck[first] = 0 THEN first ELSE lck[first])
             locks == {lck[n] : n \in Numbers} \ {0}
  <2>1. OldestSnapshot(p) = IF ActiveBelow(p) = {} THEN number
                            ELSE IF data = tra[p].hdr_snapshot THEN data ELSE Smaller(data, Min(locks))
    BY DEF OldestSnapshot, number
  <2>2. CASE ActiveBelow(p) = {}
    BY <1>1, <1>2, <1>4, <2>1, <2>2, BelowIs DEF number
  <2>3. CASE ActiveBelow(p) # {}
    <3>1. /\ first \in Numbers /\ first < number
          /\ \A n \in Numbers : n >= tra[p].active /\ n < first => tra[p].snapshot[n] # "active"
      <4>1. /\ ActiveBelow(p) = {n \in Numbers : /\ tra[p].active <= n /\ n < number
                                                  /\ tra[p].snapshot[n] = "active"}
            /\ first \in ActiveBelow(p) /\ \A n \in ActiveBelow(p) : first <= n
        BY <2>3, BelowIs DEF number
      <4> HIDE DEF first
      <4>2. first \in Numbers /\ first < number
        BY <4>1
      <4>3. ASSUME NEW n \in Numbers, n >= tra[p].active, n < first PROVE tra[p].snapshot[n] # "active"
        <5>1. n < number /\ ~(first <= n) /\ tra[p].active <= n
          BY <1>2, <4>2, <4>3
        <5>2. n \notin ActiveBelow(p)
          BY <4>1, <5>1
        <5> QED
          BY <4>1, <5>1, <5>2
      <4> QED
        BY <1>2, <4>1, <4>2, <4>3
    <3>2. lck[first] <= first /\ lck[first] \in 0..MaxTransaction /\ first \in 0..MaxTransaction
      BY <3>1, NumbersAre DEF TransactionsFit, Typed, LocksFit
    <3>3. Min(locks) \in 0..MaxTransaction
      <4>1. locks \in SUBSET (0..MaxTransaction) /\ lck[number] \in locks
        BY <1>1 DEF TransactionsFit, Typed, number
      <4> QED
        BY <4>1, Least
    <3> HIDE DEF first, locks
    <3>4. data \in 0..MaxTransaction /\ data <= first /\ data <= number
      BY <1>2, <3>1, <3>2, SmallerIs, NumbersAre
    <3> HIDE DEF data
    <3>5. OldestSnapshot(p) \in 0..MaxTransaction /\ OldestSnapshot(p) <= data
      BY <2>1, <2>3, <3>3, <3>4, SmallerIs, NumbersAre
    <3>6. OldestSnapshot(p) <= first /\ OldestSnapshot(p) <= number
      BY <1>2, <3>1, <3>2, <3>4, <3>5, NumbersAre
    <3> QED
      BY <1>2, <1>4, <3>1, <3>2, <3>5, <3>6, NumbersAre
  <2> QED
    BY <2>2, <2>3
<1>8. \A n \in Numbers : tra[p].snapshot[n] = "committed" => tip[n] = "committed"
  BY <1>1 DEF SnapshotFits
<1>9. Over(OldestInteresting(p)) /\ Over(OldestActive(p)) /\ Over(OldestSnapshot(p))
  <2>1. OldestInteresting(p) \in Nat /\ OldestActive(p) \in Nat /\ OldestSnapshot(p) \in Nat
    BY <1>5, <1>6, <1>7, NumbersAre
  <2>2. OldestInteresting(p) <= number
    BY <1>2, <1>5, <2>1
  <2> QED
    BY <1>3, <1>5, <1>6, <1>7, <2>1, <2>2
<1> QED
  BY <1>2, <1>5, <1>6, <1>7, <1>8, <1>9, NumbersAre DEF number, oldest

Found(t, x, c, at) ==
  [t EXCEPT !.oldest_active = x, !.active = 0, !.hdr_snapshot = 0, !.cleanup = c, !.at = at]

LEMMA FoundFieldsAre ==
  ASSUME NEW t \in TraType, NEW x \in 0..MaxTransaction, NEW c \in BOOLEAN, NEW at \in Phases
  PROVE  LET u == Found(t, x, c, at)
         IN  /\ u \in TraType /\ u.at = at /\ u.snapshot = t.snapshot /\ u.sub = t.sub
             /\ u.number = t.number /\ u.new = t.new /\ u.top = t.top /\ u.oldest = t.oldest
             /\ u.active = 0 /\ u.oldest_active = x
<1>1. 0 \in 0..MaxTransaction
  BY NumbersAre
<1> QED
  BY <1>1 DEF Found, TraType

LEMMA OldestKeeps ==
  ASSUME TransactionsFit, NEW p \in Sessions, FindsOldest(p)
  PROVE  TransactionsFit' /\ Forward
<1> DEFINE snapshot == OldestSnapshot(p)
           active == OldestActive(p)
           interesting == OldestInteresting(p)
           kept == Larger(dbb[p].oldest_snapshot, snapshot)
<1>1. /\ tra[p] \in TraType /\ tra[p].at = "oldest" /\ tra[p].number # 0 /\ tra[p].number \in Numbers
      /\ NumberFits(p) /\ CountersFit(p) /\ SnapshotFits(p)
  <2>1. tra[p] \in TraType /\ tra[p].at = "oldest" /\ NumberFits(p) /\ CountersFit(p) /\ SnapshotFits(p)
    BY CountersAre DEF FindsOldest
  <2> QED
    BY <2>1, FieldsAre, NumbersAre DEF NumberFits
<1>2. /\ interesting \in 0..MaxTransaction /\ Over(interesting)
      /\ active \in 0..MaxTransaction /\ Over(active) /\ 1 <= active /\ active <= tra[p].number
      /\ snapshot \in 0..MaxTransaction /\ Over(snapshot) /\ snapshot <= tra[p].number
      /\ \A n \in Numbers : n < tra[p].oldest \/ n >= snapshot \/ tra[p].snapshot[n] # "active"
  BY <1>1, FoundIs
<1>3. kept \in 0..MaxTransaction
  <2>1. dbb[p].oldest_snapshot \in 0..MaxTransaction
    BY DEF TransactionsFit, Typed
  <2> QED
    BY <1>2, <2>1 DEF Larger
<1>4. /\ lck' = [lck EXCEPT ![tra[p].number] = active]
      /\ dbb' = [dbb EXCEPT ![p] = [oldest_transaction |-> interesting, oldest_active |-> active,
                                    oldest_snapshot |-> kept]]
      /\ tra' = [tra EXCEPT ![p] = tra'[p]]
      /\ UNCHANGED <<tip, hdr, overtook>>
  BY DEF FindsOldest, TransactionsFit, Typed
<1>5. PICK at \in {"sweep", "active"} :
        tra'[p] = [tra[p] EXCEPT !.oldest_active = snapshot, !.active = 0, !.hdr_snapshot = 0,
                                 !.cleanup = FALSE, !.at = at]
  BY DEF FindsOldest, TransactionsFit, Typed
<1> HIDE DEF snapshot, active, interesting, kept
<1>6. /\ tra'[p] \in TraType /\ tra'[p].at = at
      /\ tra'[p].snapshot = tra[p].snapshot /\ tra'[p].sub = tra[p].sub
      /\ tra'[p].number = tra[p].number /\ tra'[p].new = tra[p].new /\ tra'[p].top = tra[p].top
      /\ tra'[p].oldest = tra[p].oldest /\ tra'[p].active = 0 /\ tra'[p].oldest_active = snapshot
  <2>1. at \in Phases
    BY DEF Phases
  <2>2. PICK c \in BOOLEAN : tra'[p] = Found(tra[p], snapshot, c, at)
    BY <1>5 DEF Found
  <2> QED
    BY <1>1, <1>2, <2>1, <2>2, FoundFieldsAre
<1>7. Typed'
  BY <1>1, <1>2, <1>3, <1>4, <1>6 DEF TransactionsFit, Typed
<1>8. Forward
  BY <1>4, CountersAre DEF Forward
<1>9. /\ \A q \in Sessions : q # p => tra'[q] = tra[q] /\ Apart(p, q)' /\ Apart(q, p)'
      /\ OthersStay(p)
  <2>1. \A q \in Sessions : q # p => tra'[q] = tra[q] /\ Apart(p, q)' /\ Apart(q, p)'
    BY <1>4, <1>6, StaysApart
  <2>2. \A q \in Sessions : q # p => tra[p].number \notin {tra[q].number, tra[q].new}
    BY <1>1, CountersAre DEF Apart
  <2> QED
    BY <1>4, <2>1, <2>2 DEF OthersStay, TransactionsFit, Typed
<1>10. LocksFit'
  <2>1. tra[p].number <= hdr.next /\ tra[p].number \in Nat /\ hdr.next \in Nat
    BY <1>1, FieldsAre, CountersAre DEF NumberFits
  <2>2. LocksFit /\ \A m \in Numbers : lck'[m] = IF m = tra[p].number THEN active ELSE lck[m]
    BY <1>1, <1>4 DEF TransactionsFit, Typed
  <2>3. ASSUME NEW m \in Numbers PROVE lck'[m] <= m
    BY <1>2, <2>2, <2>3 DEF LocksFit
  <2>4. ASSUME NEW m \in Numbers, m > hdr'.next PROVE tip'[m] = "active" /\ lck'[m] = 0
    <3>1. m \in Nat /\ m > hdr.next
      BY <1>4, <2>4, NumbersAre
    <3>2. m # tra[p].number
      BY <2>1, <3>1
    <3> QED
      BY <1>4, <2>2, <3>1, <3>2 DEF LocksFit
  <2> QED
    BY <2>3, <2>4 DEF LocksFit
<1>11. HeaderFits' /\ CountersFit(p)'
  <2>1. \A x \in 0..MaxTransaction : Over(x) => Over(x)'
    BY <1>4 DEF Over
  <2>2. Over(0)
    BY CountersAre, NumbersAre DEF Over
  <2>3. HeaderFits'
    BY <1>4 DEF TransactionsFit, HeaderFits, Over
  <2> QED
    BY <1>1, <1>2, <1>4, <1>6, <2>1, <2>2, <2>3, NumbersAre DEF TransactionsFit, Typed, CountersFit
<1>12. NumberFits(p)'
  BY <1>1, <1>2, <1>4, <1>6 DEF NumberFits, Undecided, Reads, TransactionsFit, Typed
<1>13. SnapshotFits(p)'
  BY <1>1, <1>2, <1>4, <1>6 DEF SnapshotFits
<1> QED
  BY <1>7, <1>8, <1>9, <1>10, <1>11, <1>12, <1>13, StepFits DEF OneFits

\* A step that changes the transaction of p and nothing else of the transactions.
LEMMA AloneKeeps ==
  ASSUME TransactionsFit, NEW p \in Sessions, UNCHANGED <<tip, hdr, dbb, lck>>,
         tra' = [tra EXCEPT ![p] = tra'[p]], tra'[p] \in TraType, overtook' \subseteq Sessions,
         tra'[p].number = tra[p].number, tra'[p].new = tra[p].new,
         NumberFits(p)', CountersFit(p)', SnapshotFits(p)'
  PROVE  TransactionsFit' /\ Forward
<1>1. Typed'
  BY DEF TransactionsFit, Typed
<1>2. \A q \in Sessions : q # p => tra'[q] = tra[q] /\ Apart(p, q)' /\ Apart(q, p)'
  BY StaysApart
<1>3. Forward /\ OthersStay(p)
  BY <1>2, CountersAre DEF Forward, OthersStay
<1>4. LocksFit' /\ HeaderFits'
  BY DEF TransactionsFit, LocksFit, HeaderFits, Over
<1> QED
  BY <1>1, <1>2, <1>3, <1>4, StepFits DEF OneFits

LEMMA UndoKeeps ==
  ASSUME TransactionsFit, NEW p \in Sessions, tra[p].at = "active",
         tra' = [tra EXCEPT ![p].at = "undo"], UNCHANGED <<tip, hdr, dbb, lck, overtook>>
  PROVE  TransactionsFit' /\ Forward
<1>1. tra[p] \in TraType /\ NumberFits(p) /\ CountersFit(p) /\ SnapshotFits(p)
  BY CountersAre
<1>2. tra' = [tra EXCEPT ![p] = tra'[p]] /\ tra'[p] = [tra[p] EXCEPT !.at = "undo"]
  BY DEF TransactionsFit, Typed
<1>3. /\ tra'[p] \in TraType /\ tra'[p].at = "undo"
      /\ tra'[p].snapshot = tra[p].snapshot /\ tra'[p].sub = tra[p].sub
      /\ tra'[p].number = tra[p].number /\ tra'[p].new = tra[p].new /\ tra'[p].top = tra[p].top
      /\ tra'[p].oldest = tra[p].oldest /\ tra'[p].active = tra[p].active
      /\ tra'[p].oldest_active = tra[p].oldest_active
  BY <1>1, <1>2 DEF TraType, Phases
<1>4. NumberFits(p)' /\ CountersFit(p)' /\ SnapshotFits(p)'
  BY <1>1, <1>3 DEF NumberFits, Undecided, Reads, CountersFit, Over, SnapshotFits
<1>5. overtook' \subseteq Sessions
  BY DEF TransactionsFit, Typed
<1> QED
  BY <1>2, <1>3, <1>4, <1>5, AloneKeeps

LEMMA WriteKeeps ==
  ASSUME TransactionsFit, NEW p \in Sessions, 
         tra' = [tra EXCEPT ![p].write = TRUE], UNCHANGED <<tip, hdr, dbb, lck, overtook>>
  PROVE  TransactionsFit' /\ Forward
<1>1. tra[p] \in TraType /\ NumberFits(p) /\ CountersFit(p) /\ SnapshotFits(p)
  BY CountersAre
<1>2. tra' = [tra EXCEPT ![p] = tra'[p]]
  BY DEF TransactionsFit, Typed
<1> PICK w \in BOOLEAN : tra'[p] = [tra[p] EXCEPT !.write = w]
  BY DEF TransactionsFit, Typed
<1>3. /\ tra'[p] \in TraType /\ tra'[p].at = tra[p].at
      /\ tra'[p].snapshot = tra[p].snapshot /\ tra'[p].sub = tra[p].sub
      /\ tra'[p].number = tra[p].number /\ tra'[p].new = tra[p].new /\ tra'[p].top = tra[p].top
      /\ tra'[p].oldest = tra[p].oldest /\ tra'[p].active = tra[p].active
      /\ tra'[p].oldest_active = tra[p].oldest_active
  BY <1>1, <1>2 DEF TraType
<1>4. NumberFits(p)' /\ CountersFit(p)' /\ SnapshotFits(p)'
  BY <1>1, <1>3 DEF NumberFits, Undecided, Reads, CountersFit, Over, SnapshotFits
<1>5. overtook' \subseteq Sessions
  BY DEF TransactionsFit, Typed
<1> QED
  BY <1>2, <1>3, <1>4, <1>5, AloneKeeps

LEMMA SweepKeeps ==
  ASSUME TransactionsFit, NEW p \in Sessions, SweepEnds(p)
  PROVE  TransactionsFit' /\ Forward
<1>1. /\ tra[p] \in TraType /\ NumberFits(p) /\ CountersFit(p) /\ SnapshotFits(p)
      /\ tra[p].at = "sweep"
      /\ hdr.next \in Nat /\ hdr.oldest_transaction \in Nat /\ hdr.oldest_active \in Nat
  BY CountersAre DEF SweepEnds
<1>2. /\ tra' = [tra EXCEPT ![p] = tra'[p]] /\ tra'[p] = [tra[p] EXCEPT !.at = "active"]
      /\ UNCHANGED <<tip, dbb, lck, overtook>>
  BY DEF SweepEnds, TransactionsFit, Typed
<1>3. /\ tra'[p] \in TraType /\ tra'[p].at = "active"
      /\ tra'[p].snapshot = tra[p].snapshot /\ tra'[p].sub = tra[p].sub
      /\ tra'[p].number = tra[p].number /\ tra'[p].new = tra[p].new /\ tra'[p].top = tra[p].top
      /\ tra'[p].oldest = tra[p].oldest /\ tra'[p].active = tra[p].active
      /\ tra'[p].oldest_active = tra[p].oldest_active
  BY <1>1, <1>2 DEF TraType, Phases
<1> DEFINE oldest == tra[p].oldest_active - 1
<1>4. /\ hdr' = IF hdr.oldest_transaction < oldest THEN [hdr EXCEPT !.oldest_transaction = oldest] ELSE hdr
      /\ hdr.oldest_transaction < oldest => oldest \in 0..MaxTransaction /\ Over(oldest)
  <2>1. /\ tra[p].oldest_active \in Nat /\ tra[p].oldest_active \in 0..MaxTransaction
        /\ tra[p].oldest_active <= tra[p].top /\ tra[p].top \in Nat /\ Over(tra[p].oldest_active)
    BY <1>1, FieldsAre DEF CountersFit, SnapshotFits
  <2>2. oldest \in Int /\ oldest <= tra[p].top
    BY <2>1
  <2>3. hdr.oldest_transaction < oldest => oldest \in Nat
    BY <1>1, <2>2
  <2>4. Smaller(tra[p].top, oldest) = oldest
    BY <2>1, <2>2 DEF Smaller
  <2>5. hdr.oldest_transaction < oldest => oldest \in 0..MaxTransaction /\ Over(oldest)
    BY <1>1, <2>1, <2>3, NumbersAre DEF Over
  <2> QED
    BY <2>4, <2>5 DEF SweepEnds
<1> HIDE DEF oldest
<1>5. /\ hdr' \in [next : 0..MaxTransaction, oldest_transaction : 0..MaxTransaction,
                   oldest_active : 0..MaxTransaction, oldest_snapshot : 0..MaxTransaction]
      /\ hdr'.next = hdr.next /\ hdr'.oldest_active = hdr.oldest_active
      /\ hdr'.oldest_transaction = IF hdr.oldest_transaction < oldest THEN oldest ELSE hdr.oldest_transaction
  BY <1>4 DEF TransactionsFit, Typed
<1>6. hdr'.oldest_transaction >= hdr.oldest_transaction /\ Over(hdr'.oldest_transaction)
  <2>1. CASE hdr.oldest_transaction < oldest
    <3>1. hdr'.oldest_transaction = oldest /\ oldest \in Nat
      BY <1>4, <1>5, <2>1, NumbersAre
    <3> QED
      BY <1>1, <1>4, <2>1, <3>1
  <2>2. CASE ~(hdr.oldest_transaction < oldest)
    BY <1>1, <1>5, <2>2 DEF TransactionsFit, HeaderFits
  <2> QED
    BY <2>1, <2>2
<1>7. Typed'
  BY <1>2, <1>3, <1>5 DEF TransactionsFit, Typed
<1>8. \A q \in Sessions : q # p => tra'[q] = tra[q] /\ Apart(p, q)' /\ Apart(q, p)'
  BY <1>2, <1>3, StaysApart
<1>9. Forward /\ OthersStay(p)
  BY <1>1, <1>2, <1>5, <1>6, <1>8 DEF Forward, OthersStay
<1>10. \A x : Over(x) <=> Over(x)'
  BY <1>2, <1>5 DEF Over
<1>11. LocksFit' /\ HeaderFits'
  <2>1. LocksFit'
    BY <1>2, <1>5 DEF TransactionsFit, LocksFit
  <2>2. 1 <= hdr'.oldest_transaction
    <3>1. hdr'.oldest_transaction \in 0..MaxTransaction
      BY <1>5
    <3>2. hdr'.oldest_transaction \in Nat /\ 1 <= hdr.oldest_transaction
      BY <3>1, NumbersAre DEF TransactionsFit, HeaderFits
    <3> QED
      BY <1>1, <1>6, <3>2
  <2> QED
    BY <1>5, <1>6, <1>10, <2>1, <2>2 DEF TransactionsFit, HeaderFits
<1>12. NumberFits(p)' /\ SnapshotFits(p)'
  BY <1>1, <1>2, <1>3, <1>5 DEF NumberFits, SnapshotFits, Undecided, Reads
<1>13. CountersFit(p)'
  <2>1. tra[p].oldest \in Nat /\ hdr'.oldest_transaction \in Nat /\ tra[p].oldest <= hdr.oldest_transaction
    <3>1. hdr'.oldest_transaction \in 0..MaxTransaction
      BY <1>5
    <3> QED
      BY <1>1, <3>1, FieldsAre, NumbersAre DEF CountersFit
  <2>2. tra[p].oldest <= hdr'.oldest_transaction
    BY <1>1, <1>6, <2>1
  <2> QED
    BY <1>1, <1>2, <1>3, <1>10, <2>2 DEF CountersFit
<1> QED
  BY <1>7, <1>8, <1>9, <1>11, <1>12, <1>13, StepFits DEF OneFits

\* A record of a transaction that is not running: it has a number or not, nothing else.
Ended(at, number) == [NoTra EXCEPT !.at = at, !.number = number]

LEMMA EndedIs ==
  ASSUME NEW at \in Phases, NEW number \in 0..MaxTransaction
  PROVE  LET t == Ended(at, number)
         IN  /\ t \in TraType /\ t.at = at /\ t.number = number /\ t.top = 0 /\ t.oldest = 0
             /\ t.active = 0 /\ t.oldest_active = 0 /\ t.new = 0 /\ t.sub = {}
             /\ t.snapshot = [m \in Numbers |-> "active"]
BY NoTraIs DEF Ended, TraType

\* A step after which p has no transaction, or one whose state is decided.
Ends(p, at, number) ==
  /\ at \in {"idle", "ending", "detached"} /\ number \in {0, tra[p].number}
  /\ at = "ending" <=> number # 0
  /\ tra' = [tra EXCEPT ![p] = Ended(at, number)] /\ hdr' = hdr
  /\ \A n \in Numbers :
       /\ n > hdr.next => tip'[n] = tip[n]
       /\ \/ lck'[n] = lck[n]
          \/ lck'[n] = 0 /\ n \in {tra[p].number, tra[p].new} \ {number}
       /\ \/ tip'[n] = tip[n] \/ n = tra[p].number
          \/ \A q \in Sessions : n \notin {tra[q].number, tra[q].new}
  /\ \A q \in Sessions : q # p => dbb'[q] = dbb[q]
  /\ Over(dbb'[p].oldest_transaction) /\ Over(dbb'[p].oldest_active)

LEMMA EndKeeps ==
  ASSUME TransactionsFit, NEW p \in Sessions, NEW at, NEW number, Ends(p, at, number),
         Typed', Forward
  PROVE  TransactionsFit'
<1>1. /\ tra[p] \in TraType /\ NumberFits(p) /\ CountersFit(p) /\ SnapshotFits(p)
      /\ hdr.next \in Nat
  BY CountersAre
<1>2. number \in 0..MaxTransaction /\ at \in Phases
  BY <1>1, FieldsAre, NumbersAre DEF Ends, Phases
<1>3. /\ tra'[p].at = at /\ tra'[p].number = number /\ tra'[p].top = 0 /\ tra'[p].oldest = 0
      /\ tra'[p].active = 0 /\ tra'[p].oldest_active = 0 /\ tra'[p].new = 0 /\ tra'[p].sub = {}
      /\ tra'[p].snapshot = [m \in Numbers |-> "active"]
  <2>1. tra'[p] = Ended(at, number)
    BY DEF Ends, TransactionsFit, Typed
  <2> QED
    BY <1>2, <2>1, EndedIs
<1>4. tra' = [tra EXCEPT ![p] = tra'[p]]
  BY DEF Ends, TransactionsFit, Typed
<1>5. \A q \in Sessions : q # p => tra'[q] = tra[q] /\ Apart(p, q)' /\ Apart(q, p)'
  <2>1. {tra'[p].number, tra'[p].new} \subseteq {tra[p].number, tra[p].new, 0}
    BY <1>3 DEF Ends
  <2> QED
    BY <1>4, <2>1, StaysApart
<1>6. OthersStay(p)
  <2>1. ASSUME NEW q \in Sessions, q # p, NEW n \in {tra[q].number, tra[q].new} \ {0}
        PROVE  tip'[n] = tip[n] /\ lck'[n] = lck[n]
    <3>1. n \in Numbers
      <4>1. tra[q].number \in 0..MaxTransaction /\ tra[q].new \in 0..MaxTransaction
        BY CountersAre, FieldsAre
      <4> QED
        BY <2>1, <4>1, NumbersAre
    <3>2. n \notin {tra[p].number, tra[p].new}
      BY <2>1, CountersAre DEF Apart
    <3> QED
      BY <2>1, <3>1, <3>2 DEF Ends
  <2> QED
    BY <1>5, <2>1 DEF OthersStay, Ends
<1>7. LocksFit' /\ HeaderFits'
  <2>1. LocksFit'
    BY NumbersAre DEF TransactionsFit, LocksFit, Ends
  <2>2. HeaderFits'
    BY <1>1, CountersAre, StaysOver DEF TransactionsFit, HeaderFits, Ends
  <2> QED
    BY <2>1, <2>2
<1>8. NumberFits(p)'
  <2>1. number # 0 => number \in Numbers /\ number <= hdr.next /\ lck[number] # 0
    BY <1>1, <1>2, NumbersAre DEF NumberFits, Ends
  <2> QED
    BY <1>3, <2>1 DEF NumberFits, Undecided, Reads, Ends
<1>9. CountersFit(p)'
  <2>1. /\ dbb'[p].oldest_transaction \in 0..MaxTransaction /\ dbb'[p].oldest_active \in 0..MaxTransaction
    BY DEF Typed
  <2>2. Over(0)' 
    BY <1>1, NumbersAre DEF Over, Ends
  <2>3. Over(dbb[p].oldest_transaction)' /\ Over(dbb[p].oldest_active)'
    BY <2>1 DEF Over, Forward, Ends
  <2> QED
    BY <1>1, <1>3, <2>2, <2>3, CountersAre DEF CountersFit, Ends
<1>10. SnapshotFits(p)'
  BY <1>3 DEF SnapshotFits, Ends
<1> QED
  BY <1>5, <1>6, <1>7, <1>8, <1>9, <1>10, StepFits DEF OneFits

LEMMA DecideKeeps ==
  ASSUME TransactionsFit, NEW p \in Sessions, tra[p].at \in {"active", "undo"},
         NEW state \in {"committed", "dead"}, SetState(p, state)
  PROVE  TransactionsFit' /\ Forward
<1>1. /\ tra[p] \in TraType /\ NumberFits(p) /\ CountersFit(p) /\ SnapshotFits(p)
      /\ hdr.next \in Nat /\ hdr.oldest_transaction \in Nat
  BY CountersAre
<1>2. /\ tra[p].number # 0 /\ tra[p].number \in Numbers /\ tra[p].number <= hdr.next
      /\ tip[tra[p].number] = "active"
  <2>1. tra[p].number # 0 /\ tra[p].number <= hdr.next /\ tip[tra[p].number] = "active"
    BY <1>1 DEF NumberFits, Undecided, Reads
  <2> QED
    BY <1>1, <2>1, FieldsAre, NumbersAre
<1>3. /\ tra' = [tra EXCEPT ![p] = Ended("ending", tra[p].number)]
      /\ UNCHANGED <<hdr, dbb, lck>> /\ tip' = [tip EXCEPT ![tra[p].number] = state]
      /\ overtook' \subseteq Sessions
  BY DEF SetState, Ended, TransactionsFit, Typed
<1>4. Ended("ending", tra[p].number) \in TraType
  <2>1. "ending" \in Phases /\ tra[p].number \in 0..MaxTransaction
    BY <1>1, FieldsAre DEF Phases
  <2> QED
    BY <2>1, EndedIs
<1>5. Typed'
  BY <1>2, <1>3, <1>4 DEF TransactionsFit, Typed, States
<1>6. Forward
  BY <1>1, <1>2, <1>3 DEF Forward, TransactionsFit, Typed
<1>7. /\ \A n \in Numbers : n > hdr.next => tip'[n] = tip[n]
      /\ \A n \in Numbers : tip'[n] = tip[n] \/ n = tra[p].number
      /\ \A n \in Numbers : lck'[n] = lck[n]
  BY <1>1, <1>2, <1>3, NumbersAre DEF TransactionsFit, Typed
<1>8. /\ \A q \in Sessions : dbb'[q] = dbb[q]
      /\ Over(dbb'[p].oldest_transaction) /\ Over(dbb'[p].oldest_active)
  BY <1>1, <1>3 DEF CountersFit
<1>9. Ends(p, "ending", tra[p].number)
  BY <1>2, <1>3, <1>7, <1>8 DEF Ends
<1> QED
  BY <1>5, <1>6, <1>9, EndKeeps

LEMMA ReleaseKeeps ==
  ASSUME TransactionsFit, NEW p \in Sessions, TRA_release_transaction(p)
  PROVE  TransactionsFit' /\ Forward
<1>1. /\ tra[p] \in TraType /\ NumberFits(p) /\ CountersFit(p)
      /\ hdr.next \in Nat /\ hdr.oldest_transaction \in Nat
  BY CountersAre
<1>2. /\ tra' = [tra EXCEPT ![p] = NoTra]
      /\ UNCHANGED <<hdr, dbb, tip, overtook>> /\ lck' = [lck EXCEPT ![tra[p].number] = 0]
      /\ tra[p].at = "ending"
  BY DEF TRA_release_transaction
<1>3. NoTra = Ended("idle", 0)
  BY NoTraIs DEF NoTra, Ended
<1>4. tra[p].number # 0 /\ tra[p].number \in Numbers
  <2>1. tra[p].number # 0
    BY <1>1, <1>2 DEF NumberFits
  <2> QED
    BY <1>1, <2>1, FieldsAre, NumbersAre
<1>5. Typed'
  BY <1>2, <1>4, NoTraIs, NumbersAre DEF TransactionsFit, Typed
<1>6. Forward
  BY <1>1, <1>2 DEF Forward
<1>7. \A n \in Numbers : lck'[n] = lck[n] \/ (lck'[n] = 0 /\ n \in {tra[p].number, tra[p].new} \ {0})
  BY <1>2, <1>4 DEF TransactionsFit, Typed
<1>8. /\ \A q \in Sessions : dbb'[q] = dbb[q]
      /\ Over(dbb'[p].oldest_transaction) /\ Over(dbb'[p].oldest_active)
  BY <1>1, <1>2 DEF CountersFit
<1>9. Ends(p, "idle", 0)
  BY <1>2, <1>3, <1>7, <1>8 DEF Ends
<1> QED
  BY <1>5, <1>6, <1>9, EndKeeps

LEMMA DeathKeeps ==
  ASSUME TransactionsFit, NEW p \in Sessions, Dies(p)
  PROVE  TransactionsFit' /\ Forward
<1>1. /\ tra[p] \in TraType /\ NumberFits(p) /\ hdr.next \in Nat /\ hdr.oldest_transaction \in Nat
  BY CountersAre
<1> DEFINE none == [oldest_transaction |-> 0, oldest_active |-> 0, oldest_snapshot |-> 0]
<1>2. /\ lck' = [n \in Numbers |-> IF n \in {tra[p].number, tra[p].new} THEN 0 ELSE lck[n]]
      /\ dbb' = [dbb EXCEPT ![p] = none] /\ overtook' \subseteq Sessions /\ UNCHANGED <<tip, hdr>>
  <2>1. dbb[p] \in [oldest_transaction : 0..MaxTransaction, oldest_active : 0..MaxTransaction,
                    oldest_snapshot : 0..MaxTransaction]
    BY DEF TransactionsFit, Typed
  <2>2. [f \in DOMAIN dbb[p] |-> 0] = none
    BY <2>1
  <2>3. dbb' = [dbb EXCEPT ![p] = [f \in DOMAIN dbb[p] |-> 0]]
    BY DEF Dies
  <2> QED
    BY <2>2, <2>3 DEF Dies, TransactionsFit, Typed
<1>3. tra' = [tra EXCEPT ![p] = Ended("detached", 0)]
  <2>1. [NoTra EXCEPT !.at = "detached"] = Ended("detached", 0)
    BY NoTraIs DEF Ended, TraType
  <2> QED
    BY <2>1 DEF Dies
<1>4. Ended("detached", 0) \in TraType
  BY EndedIs, NumbersAre DEF Phases
<1>5. Typed'
  BY <1>2, <1>3, <1>4, NumbersAre DEF TransactionsFit, Typed
<1>6. Forward
  BY <1>1, <1>2 DEF Forward
<1>7. \A n \in Numbers : lck'[n] = lck[n] \/ (lck'[n] = 0 /\ n \in {tra[p].number, tra[p].new} \ {0})
  <2>1. 0 \notin Numbers
    BY NumbersAre
  <2> QED
    BY <1>2, <2>1
<1>8. /\ \A q \in Sessions : q # p => dbb'[q] = dbb[q]
      /\ Over(dbb'[p].oldest_transaction) /\ Over(dbb'[p].oldest_active)
  <2>1. dbb'[p] = none /\ \A q \in Sessions : q # p => dbb'[q] = dbb[q]
    BY <1>2 DEF TransactionsFit, Typed
  <2>2. Over(0)
    BY <1>1, NumbersAre DEF Over
  <2> QED
    BY <2>1, <2>2
<1>9. Ends(p, "detached", 0)
  BY <1>2, <1>3, <1>7, <1>8 DEF Ends
<1> QED
  BY <1>5, <1>6, <1>9, EndKeeps

LEMMA AttachKeeps ==
  ASSUME TransactionsFit, NEW p \in Sessions, Attach(p)
  PROVE  TransactionsFit' /\ Forward
<1>1. /\ tra[p] \in TraType /\ NumberFits(p) /\ tra[p].at = "detached"
      /\ hdr.next \in Nat /\ hdr.oldest_transaction \in Nat
  BY CountersAre DEF Attach
<1>2. /\ tra' = [tra EXCEPT ![p] = NoTra] /\ UNCHANGED <<hdr, lck, overtook>>
      /\ dbb' = [dbb EXCEPT ![p] = [oldest_transaction |-> hdr.oldest_transaction,
                                    oldest_active |-> hdr.oldest_active,
                                    oldest_snapshot |-> hdr.oldest_snapshot]]
  BY DEF Attach
<1>3. NoTra = Ended("idle", 0)
  BY NoTraIs DEF NoTra, Ended
<1>4. /\ tip' \in [Numbers -> States]
      /\ \A n \in Numbers : tip'[n] = tip[n] \/ (/\ tip[n] = "active" /\ n <= hdr.next
                                                 /\ \A q \in Sessions : tra[q].at = "detached")
  BY DEF Attach, TRA_cleanup, TransactionsFit, Typed, States
<1>5. Typed'
  <2>1. /\ hdr.oldest_transaction \in 0..MaxTransaction /\ hdr.oldest_active \in 0..MaxTransaction
        /\ hdr.oldest_snapshot \in 0..MaxTransaction
    BY DEF TransactionsFit, Typed
  <2> QED
    BY <1>2, <1>4, <2>1, NoTraIs DEF TransactionsFit, Typed
<1>6. Forward
  BY <1>1, <1>2, <1>4 DEF Forward
<1>7. /\ \A n \in Numbers : n > hdr.next => tip'[n] = tip[n]
      /\ \A n \in Numbers : tip'[n] = tip[n] \/ (\A q \in Sessions : n \notin {tra[q].number, tra[q].new})
  <2>1. ASSUME NEW n \in Numbers, n > hdr.next PROVE tip'[n] = tip[n]
    BY <1>1, <1>4, <2>1, NumbersAre
  <2>2. ASSUME NEW n \in Numbers, NEW q \in Sessions, tra[q].at = "detached"
        PROVE  n \notin {tra[q].number, tra[q].new}
    BY <2>2, CountersAre, NumbersAre DEF NumberFits
  <2> QED
    BY <1>4, <2>1, <2>2
<1>8. /\ \A q \in Sessions : q # p => dbb'[q] = dbb[q]
      /\ Over(dbb'[p].oldest_transaction) /\ Over(dbb'[p].oldest_active)
  BY <1>2 DEF TransactionsFit, Typed, HeaderFits
<1>9. Ends(p, "idle", 0)
  BY <1>2, <1>3, <1>7, <1>8 DEF Ends
<1> QED
  BY <1>5, <1>6, <1>9, EndKeeps

Kept(t, at, number, new, sub, write) ==
  [t EXCEPT !.at = at, !.number = number, !.new = new, !.sub = sub, !.write = write]

LEMMA KeptIs ==
  ASSUME NEW t \in TraType, NEW at \in Phases, NEW number \in 0..MaxTransaction,
         NEW new \in 0..MaxTransaction, NEW sub \in SUBSET Numbers, NEW write \in BOOLEAN
  PROVE  LET u == Kept(t, at, number, new, sub, write)
         IN  /\ u \in TraType /\ u.at = at /\ u.number = number /\ u.new = new /\ u.sub = sub
             /\ u.snapshot = t.snapshot /\ u.top = t.top /\ u.oldest = t.oldest
             /\ u.active = t.active /\ u.oldest_active = t.oldest_active
BY DEF Kept, TraType

LEMMA CommitRetainingKeeps ==
  ASSUME TransactionsFit, NEW p \in Sessions, TRA_commit_retaining(p)
  PROVE  TransactionsFit' /\ Forward
<1> DEFINE n == hdr'.next
           lock == lck[tra[p].number]
<1>1. /\ tra[p] \in TraType /\ NumberFits(p) /\ CountersFit(p) /\ SnapshotFits(p)
      /\ tra[p].at = "active" /\ hdr.next \in Nat
      /\ hdr.oldest_transaction \in Nat
  BY CountersAre DEF TRA_commit_retaining
<1>2. /\ hdr' \in [next : 0..MaxTransaction, oldest_transaction : 0..MaxTransaction,
                   oldest_active : 0..MaxTransaction, oldest_snapshot : 0..MaxTransaction]
      /\ hdr'.next = n /\ n = hdr.next + 1 /\ n \in Numbers /\ n \in 0..MaxTransaction /\ n \in Nat
      /\ hdr'.oldest_transaction >= hdr.oldest_transaction
      /\ Over(hdr'.oldest_transaction) /\ Over(hdr'.oldest_active)
  BY NumbersAre, Bumped DEF TRA_commit_retaining
<1>3. /\ tra[p].number \in Numbers /\ tra[p].number \in Nat /\ tra[p].number <= hdr.next
      /\ lock \in 0..MaxTransaction /\ lock # 0 /\ lock <= tra[p].number /\ lock \in Nat
  <2>1. /\ tra[p].number \in 0..MaxTransaction /\ tra[p].number # 0
        /\ tra[p].number <= hdr.next /\ lock # 0
    BY <1>1, FieldsAre DEF NumberFits
  <2>2. tra[p].number \in Numbers
    BY <2>1, NumbersAre
  <2> QED
    BY <2>1, <2>2, NumbersAre DEF TransactionsFit, Typed, LocksFit
<1>4. /\ tra' = [tra EXCEPT ![p] = tra'[p]] /\ lck' = [lck EXCEPT ![n] = lock]
      /\ UNCHANGED <<tip, dbb, overtook>>
  BY DEF TRA_commit_retaining, TransactionsFit, Typed
<1>5. /\ tra'[p] \in TraType /\ tra'[p].at = "retain"
      /\ tra'[p].snapshot = tra[p].snapshot /\ tra'[p].sub = tra[p].sub \cup {tra[p].number}
      /\ tra'[p].number = tra[p].number /\ tra'[p].new = n /\ tra'[p].top = tra[p].top
      /\ tra'[p].oldest = tra[p].oldest /\ tra'[p].active = tra[p].active
      /\ tra'[p].oldest_active = tra[p].oldest_active
  <2>1. tra'[p] = Kept(tra[p], "retain", tra[p].number, n, tra[p].sub \cup {tra[p].number}, tra[p].write)
    <3>1. tra'[p] = [tra[p] EXCEPT !.at = "retain", !.new = n, !.sub = tra[p].sub \cup {tra[p].number}]
      BY DEF TRA_commit_retaining, TransactionsFit, Typed, Own
    <3> QED
      BY <1>1, <3>1 DEF Kept, TraType
  <2>2. /\ "retain" \in Phases /\ tra[p].number \in 0..MaxTransaction
        /\ tra[p].sub \cup {tra[p].number} \in SUBSET Numbers
    BY <1>1, <1>3, FieldsAre DEF Phases
  <2>3. tra[p].write \in BOOLEAN
    BY <1>1 DEF TraType
  <2> HIDE DEF n
  <2> QED
    BY <1>1, <1>2, <2>1, <2>2, <2>3, KeptIs
<1> HIDE DEF n, lock
<1>6. Typed'
  BY <1>2, <1>3, <1>4, <1>5 DEF TransactionsFit, Typed
<1>7. ASSUME NEW q \in Sessions, q # p
       PROVE  /\ tra'[q] = tra[q] /\ tra[q].number <= hdr.next /\ tra[q].new <= hdr.next
              /\ tra[q].number \in Nat /\ tra[q].new \in Nat /\ Apart(p, q) /\ Apart(q, p)
  <2>1. tra[q] \in TraType /\ tra'[q] = tra[q] /\ NumberFits(q) /\ Apart(p, q) /\ Apart(q, p)
    BY <1>4, <1>7 DEF TransactionsFit, Typed
  <2> QED
    BY <1>1, <2>1, FieldsAre DEF NumberFits
<1>8. Forward /\ OthersStay(p)
  BY <1>1, <1>2, <1>4, <1>7 DEF Forward, OthersStay, TransactionsFit, Typed
<1>9. LocksFit'
  <2>1. lock <= n
    BY <1>1, <1>2, <1>3
  <2>2. ASSUME NEW m \in Numbers PROVE lck'[m] <= m
    <3>1. lck'[m] = IF m = n THEN lock ELSE lck[m]
      BY <1>4 DEF TransactionsFit, Typed
    <3> QED
      BY <2>1, <3>1 DEF TransactionsFit, LocksFit
  <2>3. ASSUME NEW m \in Numbers, m > hdr'.next PROVE tip'[m] = "active" /\ lck'[m] = 0
    <3>1. m \in Nat /\ m > hdr.next /\ m # n
      BY <1>1, <1>2, <2>3, NumbersAre
    <3>2. lck'[m] = lck[m] /\ tip'[m] = tip[m]
      BY <1>4, <3>1 DEF TransactionsFit, Typed
    <3> QED
      BY <3>1, <3>2 DEF TransactionsFit, LocksFit
  <2> QED
    BY <2>2, <2>3 DEF LocksFit
<1>10. \A x \in 0..MaxTransaction : Over(x) => Over(x)'
  BY <1>1, <1>2, <1>4 DEF Over
<1>11. HeaderFits'
  <2>1. hdr'.oldest_transaction \in 0..MaxTransaction /\ hdr'.oldest_active \in 0..MaxTransaction
    BY <1>2
  <2>2. 1 <= hdr.oldest_transaction /\ hdr'.oldest_transaction \in Nat
    BY <2>1, NumbersAre DEF TransactionsFit, HeaderFits
  <2> QED
    BY <1>1, <1>2, <1>10, <2>1, <2>2 DEF HeaderFits
<1>12. NumberFits(p)'
  <2>1. tip[n] = "active"
    BY <1>1, <1>2 DEF TransactionsFit, LocksFit
  <2>2. n # tra[p].number
    BY <1>1, <1>2, <1>3
  <2>3. lck'[n] # 0 /\ lck'[tra[p].number] # 0 /\ tip' = tip
    BY <1>2, <1>3, <1>4 DEF TransactionsFit, Typed, lock
  <2>4. tra[p].number <= hdr'.next /\ n # 0 /\ tra[p].number # 0
    BY <1>1, <1>2, <1>3, NumbersAre
  <2> QED
    BY <1>1, <1>2, <1>5, <2>1, <2>2, <2>3, <2>4 DEF NumberFits, Undecided, Reads
<1>13. CountersFit(p)'
  <2>1. /\ tra[p].oldest \in Nat /\ hdr'.oldest_transaction \in Nat
        /\ tra[p].active \in 0..MaxTransaction /\ tra[p].oldest_active \in 0..MaxTransaction
        /\ dbb[p].oldest_transaction \in 0..MaxTransaction /\ dbb[p].oldest_active \in 0..MaxTransaction
    <3>1. hdr'.oldest_transaction \in 0..MaxTransaction
      BY <1>2
    <3> QED
      BY <1>1, <3>1, FieldsAre, NumbersAre DEF TransactionsFit, Typed
  <2>2. tra[p].oldest <= hdr'.oldest_transaction
    BY <1>1, <1>2, <2>1 DEF CountersFit
  <2> QED
    BY <1>1, <1>4, <1>5, <1>10, <2>1, <2>2 DEF CountersFit
<1>14. SnapshotFits(p)'
  BY <1>1, <1>4, <1>5 DEF SnapshotFits
<1>15. ASSUME NEW q \in Sessions, q # p PROVE Apart(p, q)' /\ Apart(q, p)'
  <2>1. n \notin {tra[q].number, tra[q].new}
    BY <1>1, <1>2, <1>7, <1>15
  <2> QED
    BY <1>5, <1>7, <1>15, <2>1 DEF Apart
<1> QED
  BY <1>6, <1>8, <1>9, <1>11, <1>12, <1>13, <1>14, <1>15, StepFits DEF OneFits

LEMMA RetainContextKeeps ==
  ASSUME TransactionsFit, NEW p \in Sessions, retain_context(p)
  PROVE  TransactionsFit' /\ Forward
<1>1. /\ tra[p] \in TraType /\ NumberFits(p) /\ CountersFit(p) /\ SnapshotFits(p)
      /\ tra[p].at = "retain" /\ hdr.next \in Nat /\ hdr.oldest_transaction \in Nat
  BY CountersAre DEF retain_context
<1>2. /\ tra[p].number \in Numbers /\ tra[p].new \in Numbers /\ tra[p].number # tra[p].new
      /\ tra[p].number # 0 /\ tra[p].new # 0 /\ tra[p].number <= hdr.next
      /\ tip[tra[p].number] = "active" /\ tip[tra[p].new] = "active"
  <2>1. tra[p].number \in 0..MaxTransaction /\ tra[p].new \in 0..MaxTransaction
    BY <1>1, FieldsAre
  <2>2. /\ tra[p].number # 0 /\ tra[p].new # 0 /\ tra[p].number <= hdr.next
        /\ tip[tra[p].number] = "active" /\ tip[tra[p].new] = "active" /\ tra[p].number # tra[p].new
    BY <1>1 DEF NumberFits, Undecided, Reads
  <2> QED
    BY <2>1, <2>2, NumbersAre
<1>3. /\ tra' = [tra EXCEPT ![p] = tra'[p]] /\ tip' = [tip EXCEPT ![tra[p].number] = "committed"]
      /\ UNCHANGED <<hdr, dbb, lck, overtook>>
  BY DEF retain_context, TransactionsFit, Typed
<1>4. /\ tra'[p] \in TraType /\ tra'[p].at = "retained"
      /\ tra'[p].snapshot = tra[p].snapshot /\ tra'[p].sub = tra[p].sub
      /\ tra'[p].number = tra[p].new /\ tra'[p].new = tra[p].number /\ tra'[p].top = tra[p].top
      /\ tra'[p].oldest = tra[p].oldest /\ tra'[p].active = tra[p].active
      /\ tra'[p].oldest_active = tra[p].oldest_active
  <2>1. tra'[p] = Kept(tra[p], "retained", tra[p].new, tra[p].number, tra[p].sub, tra[p].write)
    <3>1. tra'[p] = [tra[p] EXCEPT !.at = "retained", !.number = tra[p].new, !.new = tra[p].number]
      BY DEF retain_context, TransactionsFit, Typed
    <3> QED
      BY <1>1, <3>1 DEF Kept, TraType
  <2>2. "retained" \in Phases /\ tra[p].write \in BOOLEAN
    BY <1>1 DEF TraType, Phases
  <2>3. /\ tra[p].number \in 0..MaxTransaction /\ tra[p].new \in 0..MaxTransaction
        /\ tra[p].sub \in SUBSET Numbers /\ tra[p] \in TraType
    BY <1>1, FieldsAre
  <2> QED
    BY <2>1, <2>2, <2>3, KeptIs
<1>5. Typed'
  BY <1>2, <1>3, <1>4 DEF TransactionsFit, Typed, States
<1>6. Forward
  BY <1>1, <1>2, <1>3 DEF Forward, TransactionsFit, Typed
<1>7. \A q \in Sessions : q # p => tra'[q] = tra[q] /\ Apart(p, q)' /\ Apart(q, p)'
  BY <1>3, <1>4, StaysApart
<1>8. OthersStay(p)
  <2>1. \A q \in Sessions : q # p => tra[p].number \notin {tra[q].number, tra[q].new}
    BY <1>2, CountersAre DEF Apart
  <2> QED
    BY <1>3, <1>7, <2>1 DEF OthersStay, TransactionsFit, Typed
<1>9. LocksFit' /\ HeaderFits' /\ CountersFit(p)'
  <2>1. \A x : Over(x) => Over(x)'
    BY <1>2, <1>3 DEF Over, TransactionsFit, Typed
  <2>2. LocksFit'
    BY <1>1, <1>2, <1>3, NumbersAre DEF TransactionsFit, Typed, LocksFit
  <2>3. HeaderFits'
    BY <1>3, <2>1 DEF TransactionsFit, HeaderFits
  <2> QED
    BY <1>1, <1>3, <1>4, <2>1, <2>2, <2>3 DEF CountersFit
<1>10. NumberFits(p)'
  BY <1>1, <1>2, <1>3, <1>4 DEF NumberFits, Undecided, Reads, TransactionsFit, Typed
<1>11. SnapshotFits(p)'
  <2>1. tra[p].sub \subseteq Numbers
    BY <1>1, FieldsAre
  <2> QED
    BY <1>1, <1>2, <1>3, <1>4, <2>1 DEF SnapshotFits, TransactionsFit, Typed
<1> QED
  BY <1>5, <1>6, <1>7, <1>8, <1>9, <1>10, <1>11, StepFits DEF OneFits

LEMMA RetainReleaseKeeps ==
  ASSUME TransactionsFit, NEW p \in Sessions, retain_release(p)
  PROVE  TransactionsFit' /\ Forward
<1>1. /\ tra[p] \in TraType /\ NumberFits(p) /\ CountersFit(p) /\ SnapshotFits(p)
      /\ tra[p].at = "retained" /\ hdr.next \in Nat /\ hdr.oldest_transaction \in Nat
  BY CountersAre DEF retain_release
<1>2. tra[p].number # tra[p].new /\ tra[p].number # 0 /\ tra[p].new # 0
  BY <1>1 DEF NumberFits
<1>3. /\ tra' = [tra EXCEPT ![p] = tra'[p]] /\ lck' = [lck EXCEPT ![tra[p].new] = 0]
      /\ UNCHANGED <<tip, hdr, dbb, overtook>>
  BY DEF retain_release, TransactionsFit, Typed
<1>4. /\ tra'[p] \in TraType /\ tra'[p].at = "active"
      /\ tra'[p].snapshot = tra[p].snapshot /\ tra'[p].sub = tra[p].sub
      /\ tra'[p].number = tra[p].number /\ tra'[p].new = 0 /\ tra'[p].top = tra[p].top
      /\ tra'[p].oldest = tra[p].oldest /\ tra'[p].active = tra[p].active
      /\ tra'[p].oldest_active = tra[p].oldest_active
  <2>1. PICK w \in BOOLEAN :
          tra'[p] = Kept(tra[p], "active", tra[p].number, 0, tra[p].sub, w)
    <3>1. tra'[p] = [tra[p] EXCEPT !.at = "active", !.new = 0, !.write = FALSE]
      BY DEF retain_release, TransactionsFit, Typed
    <3>2. tra'[p] = Kept(tra[p], "active", tra[p].number, 0, tra[p].sub, FALSE)
      BY <1>1, <3>1 DEF Kept, TraType
    <3> QED
      BY <3>2
  <2>2. /\ "active" \in Phases /\ 0 \in 0..MaxTransaction
        /\ tra[p].number \in 0..MaxTransaction /\ tra[p].sub \in SUBSET Numbers
    BY <1>1, NumbersAre, FieldsAre DEF Phases
  <2> QED
    BY <1>1, <2>1, <2>2, KeptIs
<1>5. Typed'
  BY <1>3, <1>4, NumbersAre DEF TransactionsFit, Typed
<1>6. Forward
  BY <1>1, <1>3 DEF Forward
<1>7. \A q \in Sessions : q # p => tra'[q] = tra[q] /\ Apart(p, q)' /\ Apart(q, p)'
  BY <1>3, <1>4, StaysApart
<1>8. OthersStay(p)
  <2>1. \A q \in Sessions : q # p => tra[p].new \notin {tra[q].number, tra[q].new}
    BY <1>2, CountersAre DEF Apart
  <2> QED
    BY <1>3, <1>7, <2>1 DEF OthersStay, TransactionsFit, Typed
<1>9. LocksFit' /\ HeaderFits' /\ CountersFit(p)'
  <2>1. \A x : Over(x) => Over(x)'
    BY <1>3 DEF Over
  <2>2. LocksFit'
    BY <1>3, NumbersAre DEF TransactionsFit, Typed, LocksFit
  <2>3. HeaderFits'
    BY <1>3, <2>1 DEF TransactionsFit, HeaderFits
  <2> QED
    BY <1>1, <1>3, <1>4, <2>1, <2>2, <2>3 DEF CountersFit
<1>10. NumberFits(p)'
  BY <1>1, <1>2, <1>3, <1>4 DEF NumberFits, Undecided, Reads, TransactionsFit, Typed
<1>11. SnapshotFits(p)'
  BY <1>1, <1>3, <1>4 DEF SnapshotFits
<1> QED
  BY <1>5, <1>6, <1>7, <1>8, <1>9, <1>10, <1>11, StepFits DEF OneFits

LEMMA WaitKeeps ==
  ASSUME TransactionsFit, NEW p \in Sessions, tra[p].at = "active",
         NEW n \in Numbers, n <= hdr.next, TRA_wait(p, n)
  PROVE  TransactionsFit' /\ Forward
<1> DEFINE state == WaitedState(n)
           snapshot == IF state = "committed" \/ n > tra[p].top THEN tra[p].snapshot
                       ELSE [tra[p].snapshot EXCEPT ![n] = state]
<1>1. /\ tra[p] \in TraType /\ tra[p].at = "active"
      /\ NumberFits(p) /\ CountersFit(p) /\ SnapshotFits(p)
      /\ hdr.next \in Nat /\ hdr.oldest_transaction \in Nat
  BY CountersAre
<1>2. lck[n] = 0 /\ n \in Nat
  BY NumbersAre DEF TRA_wait
<1>3. state \in States /\ state # "active" /\ (tip[n] # "active" => state = tip[n])
  BY DEF TransactionsFit, Typed, States, WaitedState
<1>4. snapshot \in [Numbers -> States]
  BY <1>1, <1>3, FieldsAre
<1>5. /\ tip' = [tip EXCEPT ![n] = state]
      /\ tra' = [tra EXCEPT ![p] = tra'[p]]
      /\ UNCHANGED <<hdr, dbb, lck, overtook>>
  BY DEF TRA_wait, TransactionsFit, Typed
<1>6. tra'[p] = [tra[p] EXCEPT !.snapshot = snapshot]
  <2>1. CASE state = "committed" \/ n > tra[p].top
    <3>1. tra' = tra /\ snapshot = tra[p].snapshot
      BY <2>1 DEF TRA_wait
    <3> HIDE DEF snapshot
    <3> QED
      BY <1>1, <3>1 DEF TraType
  <2>2. CASE ~(state = "committed" \/ n > tra[p].top)
    <3>1. tra' = [tra EXCEPT ![p].snapshot[n] = state]
      BY <2>2 DEF TRA_wait
    <3> QED
      BY <1>1, <2>2, <3>1 DEF TraType, TransactionsFit, Typed
  <2> QED
    BY <2>1, <2>2
<1>7. \A m \in Numbers : snapshot[m] = tra[p].snapshot[m] \/ (m = n /\ snapshot[m] = state)
  BY <1>1, FieldsAre
<1> HIDE DEF state, snapshot
<1>8. /\ tra'[p] \in TraType /\ tra'[p].at = "active" /\ tra'[p].snapshot = snapshot
      /\ tra'[p].number = tra[p].number /\ tra'[p].new = tra[p].new /\ tra'[p].sub = tra[p].sub
      /\ tra'[p].oldest = tra[p].oldest /\ tra'[p].active = tra[p].active
      /\ tra'[p].oldest_active = tra[p].oldest_active /\ tra'[p].top = tra[p].top
  BY <1>1, <1>4, <1>6 DEF TraType
<1>9. Typed'
  BY <1>3, <1>5, <1>8 DEF TransactionsFit, Typed
<1>10. Forward
  BY <1>1, <1>3, <1>5 DEF Forward, TransactionsFit, Typed
<1>11. /\ \A q \in Sessions : q # p => tra'[q] = tra[q] /\ Apart(p, q)' /\ Apart(q, p)'
       /\ OthersStay(p)
  <2>1. \A q \in Sessions : q # p => tra'[q] = tra[q] /\ Apart(p, q)' /\ Apart(q, p)'
    BY <1>5, <1>8, StaysApart
  <2>2. \A q \in Sessions : n \notin {tra[q].number, tra[q].new} \ {0}
    BY <1>2, CountersAre DEF NumberFits
  <2> QED
    BY <1>5, <2>1, <2>2 DEF OthersStay, TransactionsFit, Typed
<1>12. LocksFit'
  BY <1>1, <1>2, <1>3, <1>5, NumbersAre DEF TransactionsFit, Typed, LocksFit
<1>13. HeaderFits' /\ CountersFit(p)'
  BY <1>1, <1>3, <1>5, <1>8 DEF TransactionsFit, Typed, HeaderFits, CountersFit, Over
<1>14. NumberFits(p)'
  <2>1. n # tra[p].number
    BY <1>1, <1>2, NumbersAre DEF NumberFits
  <2> QED
    BY <1>1, <1>2, <1>5, <1>8, <2>1 DEF NumberFits, Undecided, Reads, TransactionsFit, Typed
<1>15. SnapshotFits(p)'
  <2>1. tra[p].sub \subseteq Numbers
    BY <1>1, FieldsAre
  <2>2. \A m \in Numbers : tip'[m] = IF m = n THEN state ELSE tip[m]
    BY <1>5 DEF TransactionsFit, Typed
  <2> QED
    BY <1>1, <1>3, <1>7, <1>8, <2>1, <2>2 DEF SnapshotFits
<1> QED
  BY <1>9, <1>10, <1>11, <1>12, <1>13, <1>14, <1>15, StepFits DEF OneFits

-----------------------------------------------------------------------------
(* Versions. *)

LEMMA TailIs ==
  ASSUME NEW s \in Seq(VersionType), s # <<>>
  PROVE  /\ Head(s) = s[1] /\ 1 \in DOMAIN s /\ Head(s) \in VersionType
         /\ Tail(s) \in Seq(VersionType)
         /\ \A i \in DOMAIN Tail(s) : i + 1 \in DOMAIN s /\ i + 1 > 1 /\ Tail(s)[i] = s[i + 1]
<1>1. Len(s) \in Nat /\ Len(s) # 0 /\ DOMAIN s = 1..Len(s) /\ \A i \in 1..Len(s) : s[i] \in VersionType
  OBVIOUS
<1>2. Tail(s) \in Seq(VersionType) /\ Len(Tail(s)) = Len(s) - 1 /\ DOMAIN Tail(s) = 1..(Len(s) - 1)
  BY <1>1
<1>3. \A i \in 1..(Len(s) - 1) : Tail(s)[i] = s[i + 1]
  BY <1>1
<1> QED
  BY <1>1, <1>2, <1>3

LEMMA ConsIs ==
  ASSUME NEW s \in Seq(VersionType), NEW v \in VersionType
  PROVE  /\ <<v>> \o s \in Seq(VersionType) /\ <<v>> \o s # <<>> /\ Head(<<v>> \o s) = v
         /\ \A i \in DOMAIN (<<v>> \o s) :
              \/ i = 1 /\ (<<v>> \o s)[i] = v
              \/ i > 1 /\ i - 1 \in DOMAIN s /\ (<<v>> \o s)[i] = s[i - 1]
<1> DEFINE t == <<v>> \o s
<1>1. t \in Seq(VersionType) /\ Len(t) = Len(s) + 1 /\ t[1] = v /\ Len(s) \in Nat
  OBVIOUS
<1>2. \A i \in 1..(Len(s) + 1) : i # 1 => t[i] = s[i - 1]
  OBVIOUS
<1>3. DOMAIN t = 1..(Len(s) + 1) /\ DOMAIN s = 1..Len(s) /\ t # <<>> /\ Head(t) = t[1]
  BY <1>1
<1> HIDE DEF t
<1>4. \A i \in DOMAIN t : \/ i = 1 /\ t[i] = v
                          \/ i > 1 /\ i - 1 \in DOMAIN s /\ t[i] = s[i - 1]
  BY <1>1, <1>2, <1>3
<1> QED
  BY <1>1, <1>3, <1>4 DEF t

LEMMA OneIs ==
  ASSUME NEW v \in VersionType
  PROVE  /\ <<v>> \in Seq(VersionType) /\ <<v>> # <<>> /\ Head(<<v>>) = v
         /\ DOMAIN <<v>> = {1} /\ <<v>>[1] = v
OBVIOUS

LEMMA NoneIs == <<>> \in Seq(VersionType) /\ DOMAIN <<>> = {}
OBVIOUS

LEMMA VersionIs ==
  ASSUME NEW v \in VersionType PROVE v.tra \in 0..MaxTransaction /\ v.tra \in Nat
BY NumbersAre DEF VersionType

\* What may take the place of the versions of r by a step of p.
Good(p, r, versions) ==
  /\ versions \in Seq(VersionType) /\ VersionsFit(versions)
  /\ \A s \in Sessions :
       /\ Clean(chain[r], tra[s].oldest_active) => Clean(versions, tra[s].oldest_active)
       /\ Undecided(s) /\ tra[s].at # "undo" /\ IsOwn(chain[r], s) => IsOwn(versions, s)
       /\ s # p /\ tra[s].at = "active" /\ IsOwn(versions, s) => IsOwn(chain[r], s)

\* Nobody who may still commit what he did made the primary version.
Loose(r) ==
  \A s \in Sessions : Undecided(s) /\ tra[s].at # "undo" => Head(chain[r]).tra # tra[s].number

LEMMA SameIsGood ==
  ASSUME PagesTyped, PagesFit, NEW p \in Sessions, NEW r \in Records
  PROVE  Good(p, r, chain[r])
BY DEF Good, PagesTyped, PagesFit

LEMMA AliveIs ==
  ASSUME TransactionsFit, NEW s \in Sessions, Undecided(s)
  PROVE  /\ tra[s].number \in Numbers /\ tip[tra[s].number] = "active" /\ ~Committed(tra[s].number)
         /\ tra[s].oldest_active <= tra[s].number /\ tra[s].number # 0 /\ tra[s].number <= hdr.next
<1>1. /\ tra[s] \in TraType /\ NumberFits(s) /\ CountersFit(s) /\ tra[s].number # 0
      /\ tip[tra[s].number] = "active"
  BY CountersAre DEF NumberFits, Undecided, Reads
<1>2. tra[s].number \in Numbers /\ tra[s].number \in Nat /\ tra[s].oldest_active \in Nat
  BY <1>1, FieldsAre, NumbersAre
<1>3. ~(tra[s].number < tra[s].oldest_active)
  BY <1>1, <1>2 DEF CountersFit, Over
<1> QED
  BY <1>1, <1>2, <1>3 DEF Committed, NumberFits

LEMMA TailIsGood ==
  ASSUME TransactionsFit, PagesTyped, PagesFit, NEW p \in Sessions, NEW r \in Records,
         chain[r] # <<>>, Loose(r)
  PROVE  Good(p, r, Tail(chain[r]))
<1> DEFINE old == chain[r]
           new == Tail(old)
<1>1. /\ old \in Seq(VersionType) /\ old # <<>> /\ VersionsFit(old)
  BY DEF PagesTyped, PagesFit
<1> HIDE DEF old
<1>2. /\ new \in Seq(VersionType)
      /\ \A i \in DOMAIN new : i + 1 \in DOMAIN old /\ i + 1 > 1 /\ new[i] = old[i + 1]
  BY <1>1, TailIs
<1>3. new # <<>> => Head(new) = new[1] /\ 1 \in DOMAIN new
  BY <1>2, TailIs
<1> HIDE DEF new
<1>4. \A i \in DOMAIN new : Known(new[i].tra) /\ Committed(new[i].tra)
  BY <1>1, <1>2 DEF VersionsFit
<1>5. ASSUME NEW s \in Sessions, Undecided(s) PROVE ~IsOwn(new, s)
  BY <1>3, <1>4, <1>5, AliveIs DEF IsOwn
<1>6. \A s \in Sessions : tra[s].at = "active" => Undecided(s)
  BY DEF Undecided, Reads
<1>7. \A s \in Sessions : Undecided(s) /\ tra[s].at # "undo" => ~IsOwn(old, s)
  BY DEF Loose, IsOwn, old
<1>8. Good(p, r, new)
  BY <1>2, <1>4, <1>5, <1>6, <1>7 DEF Good, VersionsFit, Clean, old
<1> QED
  BY <1>8 DEF new, old

LEMMA NoneIsGood ==
  ASSUME PagesTyped, NEW p \in Sessions, NEW r \in Records, chain[r] # <<>>, Loose(r)
  PROVE  Good(p, r, <<>>)
BY NoneIs DEF Good, VersionsFit, Clean, IsOwn, Loose

LEMMA HeadIsGood ==
  ASSUME PagesTyped, PagesFit, NEW p \in Sessions, NEW r \in Records, chain[r] # <<>>
  PROVE  Good(p, r, <<Head(chain[r])>>)
<1> DEFINE old == chain[r]
           v == Head(old)
<1>1. /\ old \in Seq(VersionType) /\ old # <<>> /\ VersionsFit(old)
  BY DEF PagesTyped, PagesFit
<1>2. v = old[1] /\ 1 \in DOMAIN old /\ v \in VersionType
  BY <1>1, TailIs
<1> HIDE DEF v
<1>3. /\ <<v>> \in Seq(VersionType) /\ <<v>> # <<>> /\ Head(<<v>>) = v
      /\ DOMAIN <<v>> = {1} /\ <<v>>[1] = v
  BY <1>2, OneIs
<1>4. VersionsFit(<<v>>)
  BY <1>1, <1>2, <1>3 DEF VersionsFit
<1>5. \A s \in Sessions : IsOwn(<<v>>, s) <=> IsOwn(old, s)
  BY <1>1, <1>3 DEF IsOwn, v
<1>6. \A x : Clean(old, x) => Clean(<<v>>, x)
  BY <1>2, <1>3 DEF Clean
<1> QED
  BY <1>3, <1>4, <1>5, <1>6 DEF Good, v

-----------------------------------------------------------------------------
(* Pages. *)

\* Pages are written or not; one whose changed copy p did not write is not p's.
Written ==
  /\ disk' \in [Records -> Seq(VersionType)]
  /\ dirty' \in [Records -> Sessions \cup {Nobody}] /\ mark' \subseteq Records
  /\ \A q \in Records :
       /\ disk'[q] \in {disk[q], chain[q], chain'[q]}
       /\ \A s \in Sessions : dirty'[q] # s =>
            \/ disk'[q] \in {chain[q], chain'[q]}
            \/ disk'[q] = disk[q] /\ dirty[q] # s

Changed(p, r, versions) ==
  /\ chain' = [chain EXCEPT ![r] = versions] /\ Written
  /\ dirty'[r] # p => disk'[r] \in {chain[r], chain'[r]}

LEMMA ChangeIs ==
  ASSUME PagesTyped, NEW p \in Sessions, NEW r \in Records,
         NEW versions \in Seq(VersionType), Change(p, r, versions)
  PROVE  Changed(p, r, versions)
<1>1. chain' = [chain EXCEPT ![r] = versions] /\ chain' \in [Records -> Seq(VersionType)]
  BY DEF Change, PagesTyped
<1>2. CASE Mortal = {}
  <2>1. disk' = chain' /\ UNCHANGED <<dirty, mark>>
    BY <1>2 DEF Change
  <2> QED
    BY <1>1, <2>1 DEF Changed, Written, PagesTyped
<1>3. CASE Mortal # {}
  <2>1. /\ disk' = [disk EXCEPT ![r] = IF dirty[r] = p THEN @ ELSE chain[r]]
        /\ dirty' = [dirty EXCEPT ![r] = p] /\ mark' = mark \cup {r}
    BY <1>3 DEF Change
  <2>2. /\ disk' \in [Records -> Seq(VersionType)]
        /\ dirty' \in [Records -> Sessions \cup {Nobody}] /\ mark' \subseteq Records
    BY <2>1 DEF PagesTyped
  <2> QED
    BY <1>1, <2>1, <2>2 DEF Changed, Written, PagesTyped
<1> QED
  BY <1>2, <1>3

LEMMA AccessIs ==
  ASSUME PagesTyped, NEW p \in Sessions, NEW r \in Records, Access(p, r)
  PROVE  Changed(p, r, chain[r])
<1>1. /\ disk' = [disk EXCEPT ![r] = IF dirty[r] = p THEN @ ELSE chain[r]]
      /\ dirty' = [dirty EXCEPT ![r] = IF @ = p THEN p ELSE Nobody]
      /\ mark' \subseteq Records /\ chain' = chain
  BY DEF Access, PagesTyped
<1>2. /\ disk' \in [Records -> Seq(VersionType)]
      /\ dirty' \in [Records -> Sessions \cup {Nobody}]
  BY <1>1 DEF PagesTyped
<1> QED
  BY <1>1, <1>2 DEF Changed, Written, PagesTyped

LEMMA FlushIs ==
  ASSUME PagesTyped, NEW p \in Sessions, NEW rs, Flush(p, rs)
  PROVE  chain' = chain /\ Written
<1> DEFINE going == {r \in rs : dirty[r] = p}
<1>1. /\ disk' = [r \in Records |-> IF r \in going THEN chain[r] ELSE disk[r]]
      /\ dirty' = [r \in Records |-> IF r \in going THEN Nobody ELSE dirty[r]]
      /\ mark' \subseteq Records /\ chain' = chain
  BY DEF Flush, PagesTyped
<1> HIDE DEF going
<1>2. /\ disk' \in [Records -> Seq(VersionType)]
      /\ dirty' \in [Records -> Sessions \cup {Nobody}]
  BY <1>1 DEF PagesTyped
<1> QED
  BY <1>1, <1>2 DEF Written, PagesTyped

LEMMA CacheIs ==
  ASSUME PagesTyped, NEW r \in Records, CacheWrites(r)
  PROVE  chain' = chain /\ Written
<1>1. /\ disk' = [disk EXCEPT ![r] = chain[r]] /\ dirty' = [dirty EXCEPT ![r] = Nobody]
      /\ mark' \subseteq Records /\ chain' = chain
  BY DEF CacheWrites, PagesTyped
<1>2. /\ disk' \in [Records -> Seq(VersionType)]
      /\ dirty' \in [Records -> Sessions \cup {Nobody}]
  BY <1>1 DEF PagesTyped
<1> QED
  BY <1>1, <1>2 DEF Written, PagesTyped

LEMMA ForgetIs ==
  ASSUME PagesTyped, NEW p \in Sessions, Forget(p), UNCHANGED <<chain, disk, dirty>>
  PROVE  chain' = chain /\ Written
BY DEF Forget, Written, PagesTyped

\* The transactions are what they were, but for the note that something was written.
SameTransactions ==
  /\ tip' = tip /\ hdr' = hdr /\ dbb' = dbb
  /\ \A s \in Sessions : /\ tra'[s].at = tra[s].at /\ tra'[s].number = tra[s].number
                         /\ tra'[s].new = tra[s].new /\ tra'[s].oldest_active = tra[s].oldest_active

LEMMA SameIs ==
  ASSUME SameTransactions
  PROVE  /\ \A n : (Known(n) <=> Known(n)') /\ (Committed(n) <=> Committed(n)')
         /\ \A s \in Sessions : Undecided(s) <=> Undecided(s)'
BY DEF SameTransactions, Known, Committed, Undecided, Reads

\* What p may do to the versions of r keeps what is true of pages and of the others.
LEMMA PagesKeep ==
  ASSUME PagesTyped, PagesFit, NEW p \in Sessions, NEW r \in Records, NEW versions,
         Good(p, r, versions), Changed(p, r, versions), SameTransactions
  PROVE  /\ chain' \in [Records -> Seq(VersionType)] /\ PagesFit'
         /\ \A s \in Sessions :
              /\ OwnKept(s) => OwnKept(s)'
              /\ \A q \in Records : CleanAt(s, q) => CleanAt(s, q)'
              /\ s # p /\ tra[s].at = "active" =>
                   \A q \in Records : ~IsOwn(chain[q], s) => ~IsOwn(chain[q], s)'
         /\ (Clean(chain[r], tra[p].oldest_active) => CleanAt(p, r)')
<1>1. /\ versions \in Seq(VersionType) /\ VersionsFit(versions)
      /\ \A q \in Records : chain'[q] = IF q = r THEN versions ELSE chain[q]
      /\ chain' \in [Records -> Seq(VersionType)]
  BY DEF Good, Changed, PagesTyped
<1>2. \A q \in Records : disk'[q] \in {disk[q], chain[q], chain'[q]}
  BY DEF Changed, Written
<1>3. PagesFit'
  <2>1. \A q \in Records : VersionsFit(chain'[q]) /\ VersionsFit(disk'[q])
    BY <1>1, <1>2 DEF PagesFit
  <2>2. \A n : (Known(n) <=> Known(n)') /\ (Committed(n) <=> Committed(n)')
    BY SameIs
  <2> QED
    BY <2>1, <2>2 DEF PagesFit, VersionsFit
<1>4. ASSUME NEW s \in Sessions, OwnKept(s) PROVE OwnKept(s)'
  <2>1. tra'[s].number = tra[s].number /\ tra'[s].at = tra[s].at /\ (Undecided(s) <=> Undecided(s)')
    BY SameIs DEF SameTransactions
  <2> SUFFICES ASSUME Undecided(s), tra[s].at # "undo", NEW q \in Records, IsOwn(disk'[q], s)
               PROVE  IsOwn(chain'[q], s)
    BY <2>1 DEF OwnKept, IsOwn
  <2>2. IsOwn(disk[q], s) => IsOwn(chain[q], s)
    BY <1>4 DEF OwnKept
  <2>3. IsOwn(chain[q], s) => IsOwn(chain'[q], s)
    BY <1>1 DEF Good
  <2> QED
    BY <1>2, <2>2, <2>3
<1>5. \A s \in Sessions, q \in Records :
        Clean(chain[q], tra[s].oldest_active) => Clean(chain'[q], tra[s].oldest_active)
  BY <1>1 DEF Good
<1>6. ASSUME NEW vs, NEW s \in Sessions, Clean(vs, tra[s].oldest_active)
      PROVE  \A i \in DOMAIN vs : vs[i].tra < tra'[s].oldest_active => Committed(vs[i].tra)'
  BY <1>6, SameIs DEF Clean, SameTransactions
<1>7. ASSUME NEW s \in Sessions, NEW q \in Records, Clean(chain'[q], tra[s].oldest_active),
             dirty'[q] # s => Clean(disk'[q], tra[s].oldest_active)
      PROVE  CleanAt(s, q)'
  BY <1>7, SameIs DEF CleanAt, Clean, SameTransactions
<1>8. ASSUME NEW s \in Sessions, NEW q \in Records, CleanAt(s, q) PROVE CleanAt(s, q)'
  <2>1. Clean(chain[q], tra[s].oldest_active) /\ Clean(chain'[q], tra[s].oldest_active)
    BY <1>5, <1>8 DEF CleanAt
  <2>2. dirty'[q] # s => Clean(disk'[q], tra[s].oldest_active)
    BY <1>8, <2>1 DEF Changed, Written, CleanAt
  <2> QED
    BY <1>7, <2>1, <2>2
<1>9. ASSUME NEW s \in Sessions, s # p, tra[s].at = "active", NEW q \in Records, ~IsOwn(chain[q], s)
      PROVE  ~IsOwn(chain[q], s)'
  <2>1. ~IsOwn(chain'[q], s)
    BY <1>1, <1>9 DEF Good
  <2> QED
    BY <2>1 DEF IsOwn, SameTransactions
<1>10. ASSUME Clean(chain[r], tra[p].oldest_active) PROVE CleanAt(p, r)'
  <2>1. Clean(chain'[r], tra[p].oldest_active)
    BY <1>5, <1>10
  <2>2. dirty'[r] # p => Clean(disk'[r], tra[p].oldest_active)
    BY <1>10, <2>1 DEF Changed
  <2> QED
    BY <1>7, <2>1, <2>2
<1> QED
  BY <1>1, <1>3, <1>4, <1>8, <1>9, <1>10

-----------------------------------------------------------------------------
(* What a snapshot says of a version. *)

LEMMA StateIs ==
  ASSUME TransactionsFit, NEW p \in Sessions, NEW n \in 0..MaxTransaction, Known(n)
  PROVE  /\ State(p, n) \in {"us", "active", "dead", "committed"}
         /\ State(p, n) = "us" => n # 0 /\ n = tra[p].number
         /\ State(p, n) = "committed" => Committed(n)
         /\ State(p, n) \in {"active", "dead"} => n \in Numbers /\ n # tra[p].number
         /\ State(p, n) = "dead" => tip[n] = "dead"
         /\ State(p, n) = "active" => n > tra[p].top \/ (n >= tra[p].oldest /\ tra[p].snapshot[n] = "active")
<1>1. tra[p] \in TraType /\ SnapshotFits(p) /\ tra[p].oldest <= hdr.oldest_transaction
      /\ hdr.oldest_transaction \in Nat
  BY CountersAre DEF CountersFit
<1>2. /\ tra[p].snapshot \in [Numbers -> States] /\ tra[p].oldest \in Nat /\ tra[p].top \in Nat
      /\ tra[p].number \in Nat
  BY <1>1, FieldsAre
<1>3. n \in Nat /\ (n = 0 \/ n \in Numbers)
  BY NumbersAre
<1>4. CASE n = 0
  BY <1>4 DEF State, Committed
<1>5. CASE n = tra[p].number /\ n # 0
  <2>1. State(p, n) = "us"
    BY <1>5 DEF State, TRA_snapshot_state
  <2> QED
    BY <1>5, <2>1
<1>6. CASE n \in Numbers /\ n # tra[p].number /\ n < tra[p].oldest
  <2>1. State(p, n) = "committed" /\ n < hdr.oldest_transaction
    BY <1>1, <1>2, <1>3, <1>6 DEF State, TRA_snapshot_state
  <2> QED
    BY <2>1 DEF Known
<1>7. CASE n \in Numbers /\ n # tra[p].number /\ n \in tra[p].sub
  <2>1. State(p, n) = "committed" /\ tip[n] = "committed"
    BY <1>1, <1>7, NumbersAre DEF State, TRA_snapshot_state, SnapshotFits
  <2> QED
    BY <2>1 DEF Committed
<1>8. CASE n \in Numbers /\ n # tra[p].number /\ ~(n < tra[p].oldest) /\ n \notin tra[p].sub
  <2>1. State(p, n) = IF n > tra[p].top THEN "active" ELSE tra[p].snapshot[n]
    BY <1>8, NumbersAre DEF State, TRA_snapshot_state
  <2>2. tra[p].snapshot[n] \in States
    BY <1>2, <1>8
  <2>3. /\ tra[p].snapshot[n] = "committed" => tip[n] = "committed"
        /\ tra[p].snapshot[n] = "dead" => tip[n] = "dead"
    BY <1>1, <1>8 DEF SnapshotFits
  <2> QED
    BY <1>2, <1>3, <1>8, <2>1, <2>2, <2>3 DEF States, Committed
<1> QED
  BY <1>3, <1>4, <1>5, <1>6, <1>7, <1>8

LEMMA PrimaryIs ==
  ASSUME TransactionsFit, PagesTyped, PagesFit, NEW p \in Sessions, NEW r \in Records, chain[r] # <<>>
  PROVE  /\ Primary(r) = Head(chain[r]) /\ Primary(r) = chain[r][1] /\ 1 \in DOMAIN chain[r]
         /\ Primary(r) \in VersionType
         /\ Primary(r).tra \in 0..MaxTransaction /\ Primary(r).tra \in Nat /\ Known(Primary(r).tra)
         /\ HeadState(p, r) \in {"us", "active", "dead", "committed"}
         /\ HeadState(p, r) = "us" => IsOwn(chain[r], p)
         /\ HeadState(p, r) = "committed" => Committed(Primary(r).tra)
         /\ HeadState(p, r) \in {"active", "dead"} =>
              Primary(r).tra \in Numbers /\ 1 <= Primary(r).tra /\ Primary(r).tra <= hdr.next
         /\ HeadState(p, r) = "dead" => tip[Primary(r).tra] = "dead"
<1>1. chain[r] \in Seq(VersionType) /\ VersionsFit(chain[r])
  BY DEF PagesTyped, PagesFit
<1>2. Primary(r) = Head(chain[r]) /\ Primary(r) = chain[r][1] /\ 1 \in DOMAIN chain[r]
      /\ Primary(r) \in VersionType
  BY <1>1, TailIs DEF Primary
<1>3. Primary(r).tra \in 0..MaxTransaction /\ Primary(r).tra \in Nat /\ Known(Primary(r).tra)
  BY <1>1, <1>2, VersionIs DEF VersionsFit
<1>4. HeadState(p, r) = State(p, Primary(r).tra)
  BY DEF HeadState
<1>5. Primary(r).tra \in Numbers => 1 <= Primary(r).tra
  BY NumbersAre
<1> QED
  BY <1>2, <1>3, <1>4, <1>5, StateIs DEF IsOwn, Known

LEMMA OverIsLoose ==
  ASSUME TransactionsFit, NEW r \in Records, NEW n \in 0..MaxTransaction, n = Head(chain[r]).tra,
         Committed(n) \/ (n \in Numbers /\ tip[n] # "active")
  PROVE  Loose(r)
<1>1. ASSUME NEW s \in Sessions, Undecided(s) PROVE n # tra[s].number
  BY <1>1, AliveIs
<1> QED
  BY <1>1 DEF Loose

LEMMA MatureIsLoose ==
  ASSUME TransactionsFit, PagesTyped, PagesFit, NEW p \in Sessions, NEW r \in Records,
         chain[r] # <<>>, Mature(p, r)
  PROVE  Loose(r)
<1>1. Primary(r).tra = Head(chain[r]).tra /\ Primary(r).tra \in 0..MaxTransaction
  BY PrimaryIs DEF Primary
<1>2. CASE Primary(r).tra = 0
  <2>1. Committed(Primary(r).tra)
    BY <1>2 DEF Committed
  <2> QED
    BY <1>1, <2>1, OverIsLoose
<1>3. CASE Primary(r).tra # 0
  <2>1. Primary(r).tra \in Numbers
    BY <1>1, <1>3, NumbersAre
  <2>2. Over(tra[p].oldest_active) /\ Primary(r).tra < tra[p].oldest_active
    BY CountersAre DEF CountersFit, Mature
  <2>3. tip[Primary(r).tra] # "active"
    BY <2>1, <2>2 DEF Over
  <2> QED
    BY <1>1, <2>1, <2>3, OverIsLoose
<1> QED
  BY <1>2, <1>3

LEMMA UnmadeIsLoose ==
  ASSUME TransactionsFit, NEW p \in Sessions, NEW r \in Records, tra[p].at = "undo",
         Head(chain[r]).tra = tra[p].number
  PROVE  Loose(r)
<1>1. \A q \in Sessions : q # p => Apart(p, q)
  BY CountersAre
<1>2. Undecided(p)
  BY DEF Undecided, Reads
<1>3. tra[p].number # 0
  BY <1>2, AliveIs
<1> QED
  BY <1>1, <1>3 DEF Loose, Apart

\* The first version of a transaction that runs.
LEMMA OwnIs ==
  ASSUME TransactionsFit, NEW p \in Sessions, tra[p].at = "active"
  PROVE  /\ tra[p].number \in 0..MaxTransaction /\ Known(tra[p].number)
         /\ \A s \in Sessions : /\ ~(tra[p].number < tra[s].oldest_active)
                                /\ s # p => tra[p].number # tra[s].number
<1> DEFINE n == tra[p].number
<1>1. Undecided(p)
  BY DEF Undecided, Reads
<1>2. n \in Numbers /\ tip[n] = "active" /\ n # 0 /\ n <= hdr.next
  BY <1>1, AliveIs
<1>3. ~(n < hdr.oldest_transaction)
  BY <1>2 DEF TransactionsFit, HeaderFits, Over
<1>4. ASSUME NEW s \in Sessions
      PROVE  ~(n < dbb[s].oldest_transaction) /\ ~(n < tra[s].oldest_active)
  <2>1. CountersFit(s)
    BY CountersAre
  <2> QED
    BY <1>2, <2>1 DEF CountersFit, Over
<1>5. ASSUME NEW s \in Sessions PROVE /\ s # p => n # tra[s].number
                                      /\ tra[s].at = "retain" => n # tra[s].new
  <2>1. s # p => Apart(p, s)
    BY CountersAre
  <2> QED
    BY <1>2, <2>1 DEF Apart
<1>6. Known(n)
  BY <1>2, <1>3, <1>4, <1>5 DEF Known
<1> QED
  BY <1>2, <1>4, <1>5, <1>6, NumbersAre

LEMMA ConsIsGood ==
  ASSUME TransactionsFit, PagesTyped, PagesFit, NEW p \in Sessions, NEW r \in Records,
         tra[p].at = "active", NEW v \in VersionType, v.tra = tra[p].number,
         chain[r] # <<>>, Committed(Primary(r).tra)
  PROVE  Good(p, r, <<v>> \o chain[r])
<1> DEFINE old == chain[r]
           new == <<v>> \o old
<1>1. /\ old \in Seq(VersionType) /\ old # <<>> /\ VersionsFit(old)
      /\ old[1] = Primary(r) /\ Head(old) = Primary(r)
  BY PrimaryIs DEF PagesTyped, PagesFit
<1> HIDE DEF old
<1>2. /\ new \in Seq(VersionType) /\ new # <<>> /\ Head(new) = v
      /\ \A i \in DOMAIN new : \/ i = 1 /\ new[i] = v
                               \/ i > 1 /\ i - 1 \in DOMAIN old /\ new[i] = old[i - 1]
  BY <1>1, ConsIs
<1> HIDE DEF new
<1>3. DOMAIN old \subseteq Nat \ {0}
  BY <1>1
<1>4. \A i \in DOMAIN old : Known(old[i].tra) /\ Committed(old[i].tra)
  BY <1>1, <1>3 DEF VersionsFit
<1>5. /\ Known(v.tra)
      /\ \A s \in Sessions : ~(v.tra < tra[s].oldest_active) /\ (s # p => v.tra # tra[s].number)
  BY OwnIs
<1>6. VersionsFit(new)
  BY <1>2, <1>4, <1>5 DEF VersionsFit
<1>7. \A s \in Sessions : Clean(new, tra[s].oldest_active)
  BY <1>2, <1>4, <1>5 DEF Clean
<1>8. ASSUME NEW s \in Sessions, Undecided(s) PROVE ~IsOwn(old, s)
  BY <1>1, <1>8, AliveIs DEF IsOwn
<1>9. \A s \in Sessions : s # p => ~IsOwn(new, s)
  BY <1>2, <1>5 DEF IsOwn
<1>10. Good(p, r, new)
  BY <1>2, <1>6, <1>7, <1>8, <1>9 DEF Good, old
<1> QED
  BY <1>10 DEF new, old

LEMMA FirstIsGood ==
  ASSUME TransactionsFit, PagesTyped, PagesFit, NEW p \in Sessions, NEW r \in Records,
         tra[p].at = "active", NEW v \in VersionType, v.tra = tra[p].number, chain[r] = <<>>
  PROVE  Good(p, r, <<v>>)
<1>1. /\ <<v>> \in Seq(VersionType) /\ <<v>> # <<>> /\ Head(<<v>>) = v
      /\ DOMAIN <<v>> = {1} /\ <<v>>[1] = v
  BY OneIs
<1>2. /\ Known(v.tra)
      /\ \A s \in Sessions : ~(v.tra < tra[s].oldest_active) /\ (s # p => v.tra # tra[s].number)
  BY OwnIs
<1>3. VersionsFit(<<v>>)
  BY <1>1, <1>2 DEF VersionsFit
<1> QED
  BY <1>1, <1>2, <1>3 DEF Good, Clean, IsOwn

-----------------------------------------------------------------------------
(* Every step on a page keeps the invariant. *)

\* What p does to a record, besides changing its page.
RpbKept(p, r) ==
  /\ rpb' \in [Sessions -> RpbType]
  /\ \A s \in Sessions : s # p => rpb'[s] = rpb[s]
  /\ tra[p].at # "sweep" => rpb'[p].swept = {}
  /\ tra[p].at = "sweep" => \A q \in Records :
       Swept(p, q)' => Swept(p, q) \/ (q = r /\ Clean(chain[r], tra[p].oldest_active))

LEMMA SameNotes ==
  ASSUME IInv, NEW p \in Sessions, rpb' = rpb
  PROVE  \A r \in Records : RpbKept(p, r)
BY DEF IInv, PagesTyped, RpbKept, SweepFits, Swept

LEMMA PageStepKeeps ==
  ASSUME IInv, NEW p \in Sessions, NEW r \in Records, NEW versions,
         Good(p, r, versions), Changed(p, r, versions), SameTransactions, TransactionsFit',
         RpbKept(p, r), UpdateFits(p)'
  PROVE  IInv'
<1>1. PagesTyped /\ PagesFit /\ TransactionsFit /\ \A s \in Sessions : UpdateFits(s) /\ OwnKept(s) /\ SweepFits(s)
  BY DEF IInv
<1>2. /\ chain' \in [Records -> Seq(VersionType)] /\ PagesFit'
      /\ \A s \in Sessions :
           /\ OwnKept(s) => OwnKept(s)'
           /\ \A q \in Records : CleanAt(s, q) => CleanAt(s, q)'
           /\ s # p /\ tra[s].at = "active" =>
                \A q \in Records : ~IsOwn(chain[q], s) => ~IsOwn(chain[q], s)'
      /\ (Clean(chain[r], tra[p].oldest_active) => CleanAt(p, r)')
  BY <1>1, PagesKeep
<1>3. PagesTyped'
  BY <1>2 DEF Changed, Written, PagesTyped, RpbKept
<1>4. ASSUME NEW s \in Sessions, s # p PROVE UpdateFits(s)'
  <2>1. UpdateFits(s) /\ rpb'[s] = rpb[s] /\ tra'[s].at = tra[s].at /\ hdr' = hdr /\ tip' = tip
    BY <1>1, <1>4 DEF RpbKept, SameTransactions
  <2>2. rpb[s].at \in {"update", "wait", "backout"} => ~IsOwn(chain[rpb[s].rec], s)'
    BY <1>2, <1>4, <2>1 DEF UpdateFits
  <2> QED
    BY <2>1, <2>2 DEF UpdateFits
<1>5. ASSUME NEW s \in Sessions, s # p PROVE SweepFits(s)'
  <2>1. SweepFits(s) /\ rpb'[s] = rpb[s] /\ tra'[s].at = tra[s].at
    BY <1>1, <1>5 DEF RpbKept, SameTransactions
  <2> QED
    BY <1>2, <2>1 DEF SweepFits, Swept
<1>6. SweepFits(p)'
  <2>1. SweepFits(p) /\ tra'[p].at = tra[p].at
    BY <1>1 DEF SameTransactions
  <2> QED
    BY <1>2, <2>1 DEF SweepFits, RpbKept
<1> QED
  BY <1>1, <1>2, <1>3, <1>4, <1>5, <1>6 DEF IInv

LEMMA StaysTyped ==
  ASSUME IInv, NEW p \in Sessions, UNCHANGED transactionVars
  PROVE  TransactionsFit' /\ SameTransactions
<1>1. TransactionsFit /\ tip' = tip /\ hdr' = hdr /\ dbb' = dbb /\ lck' = lck /\ tra' = tra
      /\ overtook' = overtook
  BY DEF IInv, transactionVars
<1>2. tra' = [tra EXCEPT ![p] = tra'[p]] /\ tra'[p] \in TraType /\ overtook' \subseteq Sessions
      /\ tra'[p] = tra[p]
  BY <1>1 DEF TransactionsFit, Typed
<1>3. NumberFits(p)' /\ CountersFit(p)' /\ SnapshotFits(p)'
  <2>1. NumberFits(p) /\ CountersFit(p) /\ SnapshotFits(p)
    BY <1>1 DEF TransactionsFit
  <2> QED
    BY <1>1, <2>1 DEF NumberFits, CountersFit, SnapshotFits, Undecided, Reads, Over
<1>4. TransactionsFit'
  BY <1>1, <1>2, <1>3, AloneKeeps
<1> QED
  BY <1>1, <1>4 DEF SameTransactions

\* A chase, which keeps no notes, changes the page.
LEMMA ChaseKeeps ==
  ASSUME IInv, NEW p \in Sessions, NEW r \in Records, NEW versions,
         rpb[p].at \in {"none", "expunge"}, Good(p, r, versions), Change(p, r, versions),
         rpb' = rpb, UNCHANGED transactionVars
  PROVE  IInv'
<1>1. Changed(p, r, versions)
  BY ChangeIs DEF IInv, Good
<1>2. TransactionsFit' /\ SameTransactions /\ RpbKept(p, r)
  BY StaysTyped, SameNotes
<1>3. UpdateFits(p)'
  <2>1. UpdateFits(p) /\ rpb' = rpb /\ tra'[p].at = tra[p].at
    BY <1>2 DEF IInv, SameTransactions
  <2> QED
    BY <2>1 DEF UpdateFits
<1> QED
  BY <1>1, <1>2, <1>3, PageStepKeeps

LEMMA BackOutKeeps ==
  ASSUME IInv, NEW p \in Sessions, NEW r \in Records, ChaseBacksOut(p, r)
  PROVE  IInv'
<1>1. /\ TransactionsFit /\ PagesTyped /\ PagesFit /\ chain[r] # <<>> /\ HeadState(p, r) = "dead"
      /\ rpb[p].at = "none" /\ Change(p, r, Tail(chain[r])) /\ rpb' = rpb
      /\ UNCHANGED transactionVars
  BY DEF IInv, ChaseBacksOut, Chases
<1>2. /\ Head(chain[r]).tra \in 0..MaxTransaction /\ Head(chain[r]).tra \in Numbers
      /\ tip[Head(chain[r]).tra] = "dead"
  BY <1>1, PrimaryIs
<1>3. Loose(r)
  BY <1>1, <1>2, OverIsLoose
<1>4. Good(p, r, Tail(chain[r]))
  BY <1>1, <1>3, TailIsGood
<1> QED
  BY <1>1, <1>4, ChaseKeeps

LEMMA PurgeKeeps ==
  ASSUME IInv, NEW p \in Sessions, NEW r \in Records, purge(p, r)
  PROVE  IInv'
<1>1. /\ TransactionsFit /\ PagesTyped /\ PagesFit /\ chain[r] # <<>>
      /\ rpb[p].at = "none" /\ Change(p, r, <<Head(chain[r])>>) /\ rpb' = rpb
      /\ UNCHANGED transactionVars
  BY DEF IInv, purge, Chases, Primary
<1>2. Good(p, r, <<Head(chain[r])>>)
  BY <1>1, HeadIsGood
<1> QED
  BY <1>1, <1>2, ChaseKeeps

LEMMA UnmakeKeeps ==
  ASSUME IInv, NEW p \in Sessions, NEW r \in Records, VIO_verb_cleanup(p, r)
  PROVE  IInv'
<1>1. /\ TransactionsFit /\ PagesTyped /\ PagesFit /\ chain[r] # <<>> /\ tra[p].at = "undo"
      /\ Head(chain[r]).tra = tra[p].number
      /\ Change(p, r, Tail(chain[r])) /\ rpb' = rpb /\ UNCHANGED transactionVars
  BY DEF IInv, VIO_verb_cleanup, Unmade, Primary
<1>2. rpb[p].at \in {"none", "expunge"}
  BY <1>1 DEF IInv, UpdateFits
<1>3. Good(p, r, Tail(chain[r]))
  BY <1>1, UnmadeIsLoose, TailIsGood
<1> QED
  BY <1>1, <1>2, <1>3, ChaseKeeps

\* What is noted of a record.
Ats == {"none", "expunge", "update", "wait", "backout", "disappeared"}
Blank(swept)       == [NoRpb EXCEPT !.swept = swept]
At(t, at)          == [t EXCEPT !.at = at]
AtRec(t, at, rec)  == [t EXCEPT !.at = at, !.rec = rec]
AtOn(t, at, on)    == [t EXCEPT !.at = at, !.on = on]
AtConflict(t, at, on) == [t EXCEPT !.at = at, !.conflict = on]
WithTemp(t, temp)  == [t EXCEPT !.temp = temp]
AtUpdate(t, rec, op, read, temp) ==
  [t EXCEPT !.at = "update", !.rec = rec, !.op = op, !.read = read, !.temp = temp]

LEMMA BlankIs ==
  ASSUME NEW swept \in SUBSET Records
  PROVE  Blank(swept) \in RpbType /\ Blank(swept).at = "none" /\ Blank(swept).swept = swept
BY NumbersAre DEF Blank, NoRpb, RpbType

LEMMA NotesAre ==
  ASSUME NEW t \in RpbType, NEW at \in Ats, NEW on \in 0..MaxTransaction
  PROVE  /\ LET u == At(t, at) IN u \in RpbType /\ u.at = at /\ u.swept = t.swept /\ u.rec = t.rec /\ u.on = t.on
         /\ LET u == AtOn(t, at, on)
            IN  u \in RpbType /\ u.at = at /\ u.swept = t.swept /\ u.rec = t.rec /\ u.on = on
         /\ LET u == AtConflict(t, at, on)
            IN  u \in RpbType /\ u.at = at /\ u.swept = t.swept /\ u.rec = t.rec /\ u.on = t.on
<1>1. LET u == At(t, at)
      IN  u \in RpbType /\ u.at = at /\ u.swept = t.swept /\ u.rec = t.rec /\ u.on = t.on
  BY DEF At, RpbType, Ats
<1>2. LET u == AtOn(t, at, on)
      IN  u \in RpbType /\ u.at = at /\ u.swept = t.swept /\ u.rec = t.rec /\ u.on = on
  BY DEF AtOn, RpbType, Ats
<1>3. LET u == AtConflict(t, at, on)
      IN  u \in RpbType /\ u.at = at /\ u.swept = t.swept /\ u.rec = t.rec /\ u.on = t.on
  BY DEF AtConflict, RpbType, Ats
<1> QED
  BY <1>1, <1>2, <1>3

LEMMA AtRecIs ==
  ASSUME NEW t \in RpbType, NEW at \in Ats, NEW rec \in Records
  PROVE  LET u == AtRec(t, at, rec)
         IN  u \in RpbType /\ u.at = at /\ u.swept = t.swept /\ u.rec = rec
BY DEF AtRec, RpbType, Ats

LEMMA WithTempIs ==
  ASSUME NEW t \in RpbType, NEW temp \in (0..MaxTransaction) \X Nat
  PROVE  LET u == WithTemp(t, temp)
         IN  u \in RpbType /\ u.at = t.at /\ u.swept = t.swept /\ u.rec = t.rec /\ u.on = t.on
BY DEF WithTemp, RpbType

LEMMA AtUpdateIs ==
  ASSUME NEW t \in RpbType, NEW rec \in Records, NEW op \in Operations,
         NEW read \in 0..MaxTransaction, NEW temp \in (0..MaxTransaction) \X Nat
  PROVE  LET u == AtUpdate(t, rec, op, read, temp)
         IN  u \in RpbType /\ u.at = "update" /\ u.swept = t.swept /\ u.rec = rec
BY DEF AtUpdate, RpbType

LEMMA RpbIs ==
  ASSUME IInv, NEW p \in Sessions
  PROVE  /\ rpb[p] \in RpbType /\ rpb[p].swept \in SUBSET Records /\ UpdateFits(p) /\ SweepFits(p)
         /\ rpb[p].at \in Ats /\ rpb[p].on \in 0..MaxTransaction
         /\ TransactionsFit /\ PagesTyped /\ PagesFit /\ NumberFits(p)
<1>1. rpb[p] \in RpbType
  BY DEF IInv, PagesTyped
<1> QED
  BY <1>1, CountersAre DEF IInv, RpbType, Ats

\* Notes about an update or its end.
LEMMA NotedIs ==
  ASSUME IInv, NEW p \in Sessions, NEW r \in Records, NEW t \in RpbType,
         rpb' = [rpb EXCEPT ![p] = t], t.swept = rpb[p].swept,
         t.at = "expunge" => t.rec = r /\ Clean(chain[r], tra[p].oldest_active)
  PROVE  RpbKept(p, r) /\ rpb'[p] = t
<1>1. rpb' \in [Sessions -> RpbType] /\ rpb'[p] = t /\ \A s \in Sessions : s # p => rpb'[s] = rpb[s]
  BY DEF IInv, PagesTyped
<1> QED
  BY <1>1, RpbIs DEF RpbKept, SweepFits, Swept

LEMMA FinishedIs ==
  ASSUME IInv, NEW p \in Sessions, NEW r \in Records, Finished(p, r),
         tra[p].at = "sweep" => Swept(p, r) \/ Clean(chain[r], tra[p].oldest_active)
  PROVE  RpbKept(p, r) /\ rpb'[p].at = "none"
<1> DEFINE swept == IF tra[p].at = "sweep" THEN rpb[p].swept \cup {r} ELSE {}
<1>1. swept \in SUBSET Records
  BY RpbIs
<1>2. rpb' = [rpb EXCEPT ![p] = Blank(swept)]
  BY DEF Finished, Blank
<1>3. Blank(swept) \in RpbType /\ Blank(swept).at = "none" /\ Blank(swept).swept = swept
  BY <1>1, BlankIs
<1>4. rpb' \in [Sessions -> RpbType] /\ rpb'[p] = Blank(swept) /\ \A s \in Sessions : s # p => rpb'[s] = rpb[s]
  BY <1>2, <1>3 DEF IInv, PagesTyped
<1>5. tra[p].at = "sweep" => \A q \in Records :
        Swept(p, q)' => Swept(p, q) \/ (q = r /\ Clean(chain[r], tra[p].oldest_active))
  BY <1>3, <1>4 DEF Swept
<1> QED
  BY <1>3, <1>4, <1>5 DEF RpbKept

\* A page is looked at, or changed, and the transactions stay.
LEMMA LookKeeps ==
  ASSUME IInv, NEW p \in Sessions, NEW r \in Records, Access(p, r), UNCHANGED transactionVars,
         RpbKept(p, r), UpdateFits(p)'
  PROVE  IInv'
<1>1. Changed(p, r, chain[r]) /\ Good(p, r, chain[r])
  BY AccessIs, SameIsGood DEF IInv
<1>2. TransactionsFit' /\ SameTransactions
  BY StaysTyped
<1> QED
  BY <1>1, <1>2, PageStepKeeps

LEMMA DoneFits ==
  ASSUME NEW p \in Sessions, rpb'[p].at = "none" PROVE UpdateFits(p)'
BY DEF UpdateFits

LEMMA CleanIs ==
  ASSUME IInv, NEW p \in Sessions, NEW r \in Records,
         chain[r] # <<>> => \/ Committed(Primary(r).tra)
                            \/ ~(Primary(r).tra < tra[p].oldest_active)
  PROVE  Clean(chain[r], tra[p].oldest_active)
<1>1. chain[r] \in Seq(VersionType) /\ VersionsFit(chain[r])
  BY DEF IInv, PagesTyped, PagesFit
<1>2. CASE chain[r] = <<>>
  BY <1>2, NoneIs DEF Clean
<1>3. CASE chain[r] # <<>>
  <2>1. Primary(r) = chain[r][1] /\ DOMAIN chain[r] \subseteq Nat \ {0}
    BY <1>1, <1>3, TailIs DEF Primary
  <2>2. \A i \in DOMAIN chain[r] : i # 1 => Committed(chain[r][i].tra)
    BY <1>1, <2>1 DEF VersionsFit
  <2> QED
    BY <1>3, <2>1, <2>2 DEF Clean
<1> QED
  BY <1>2, <1>3

LEMMA ExpungeStarts ==
  ASSUME IInv, NEW p \in Sessions, NEW r \in Records, ChaseExpunges(p, r)
  PROVE  IInv'
<1>1. /\ TransactionsFit /\ PagesTyped /\ PagesFit /\ chain[r] # <<>> /\ HeadState(p, r) = "committed"
      /\ tra[p].at \in {"active", "sweep"} /\ UNCHANGED transactionVars /\ Access(p, r)
      /\ rpb' = [rpb EXCEPT ![p] = AtRec(rpb[p], "expunge", r)]
  BY DEF IInv, ChaseExpunges, Chases, AtRec
<1>2. Clean(chain[r], tra[p].oldest_active)
  BY <1>1, PrimaryIs, CleanIs
<1>3. AtRec(rpb[p], "expunge", r) \in RpbType /\ AtRec(rpb[p], "expunge", r).swept = rpb[p].swept
      /\ AtRec(rpb[p], "expunge", r).at = "expunge" /\ AtRec(rpb[p], "expunge", r).rec = r
  <2>1. rpb[p] \in RpbType /\ "expunge" \in Ats
    BY RpbIs DEF Ats
  <2> QED
    BY <2>1, AtRecIs
<1>4. RpbKept(p, r) /\ rpb'[p] = AtRec(rpb[p], "expunge", r)
  BY <1>1, <1>2, <1>3, NotedIs
<1>5. UpdateFits(p)'
  <2>1. tra'[p].at = tra[p].at
    BY <1>1, StaysTyped DEF SameTransactions
  <2> QED
    BY <1>1, <1>3, <1>4, <2>1 DEF UpdateFits
<1> QED
  BY <1>1, <1>4, <1>5, LookKeeps

LEMMA ExpungeKeeps ==
  ASSUME IInv, NEW p \in Sessions, NEW r \in Records, expunge(p, r)
  PROVE  IInv'
<1>1. /\ TransactionsFit /\ PagesTyped /\ PagesFit /\ UNCHANGED transactionVars
      /\ rpb[p].at = "expunge" /\ rpb[p].rec = r /\ Finished(p, r)
  BY DEF IInv, expunge
<1>2. RpbKept(p, r) /\ rpb'[p].at = "none"
  BY <1>1, FinishedIs DEF Swept
<1>3. UpdateFits(p)'
  BY <1>2, DoneFits
<1>4. CASE Access(p, r)
  BY <1>1, <1>2, <1>3, <1>4, LookKeeps
<1>5. CASE chain[r] # <<>> /\ Mature(p, r) /\ Change(p, r, <<>>)
  <2>1. Good(p, r, <<>>)
    BY <1>1, <1>5, MatureIsLoose, NoneIsGood
  <2>2. Changed(p, r, <<>>)
    BY <1>1, <1>5, <2>1, ChangeIs DEF Good
  <2>3. TransactionsFit' /\ SameTransactions
    BY <1>1, StaysTyped
  <2> QED
    BY <1>2, <1>3, <2>1, <2>2, <2>3, PageStepKeeps
<1> QED
  BY <1>4, <1>5 DEF expunge

LEMMA SweepSees ==
  ASSUME IInv, NEW p \in Sessions, NEW r \in Records, VIO_sweep(p, r)
  PROVE  IInv'
<1>1. /\ TransactionsFit /\ PagesTyped /\ PagesFit /\ UNCHANGED transactionVars
      /\ tra[p].at = "sweep" /\ Access(p, r) /\ Finished(p, r)
      /\ chain[r] # <<>> => HeadState(p, r) # "dead"
  BY DEF IInv, VIO_sweep, ChaseReturns, Chases
<1>2. ASSUME chain[r] # <<>>
      PROVE  Committed(Primary(r).tra) \/ ~(Primary(r).tra < tra[p].oldest_active)
  <2> DEFINE n == Primary(r).tra
  <2>1. /\ n \in 0..MaxTransaction /\ n \in Nat /\ Known(n) /\ HeadState(p, r) = State(p, n)
        /\ HeadState(p, r) \in {"us", "active", "dead", "committed"}
    BY <1>1, <1>2, PrimaryIs DEF HeadState
  <2>2. CASE HeadState(p, r) = "committed"
    BY <1>1, <1>2, <2>2, PrimaryIs
  <2>3. Undecided(p)
    BY <1>1 DEF Undecided, Reads
  <2>4. tra[p].oldest_active <= tra[p].number /\ tra[p].top = tra[p].number
        /\ tra[p].oldest_active \in Nat /\ tra[p].number \in Nat /\ SnapshotFits(p)
    BY <1>1, <2>3, AliveIs, CountersAre, FieldsAre DEF CountersFit
  <2>5. CASE HeadState(p, r) = "us"
    <3>1. n = tra[p].number
      BY <1>1, <2>1, <2>5, StateIs
    <3> QED
      BY <2>4, <3>1
  <2>6. CASE HeadState(p, r) = "active"
    <3>1. n \in Numbers /\ (n > tra[p].top \/ (n >= tra[p].oldest /\ tra[p].snapshot[n] = "active"))
      <4>1. TransactionsFit /\ n \in 0..MaxTransaction /\ Known(n) /\ State(p, n) = "active"
        BY <1>1, <2>1, <2>6
      <4> HIDE DEF n
      <4> QED
        BY <4>1, StateIs
    <3>2. tra[p].oldest \in Nat
      BY <1>1, CountersAre, FieldsAre
    <3>3. CASE n > tra[p].top
      BY <2>1, <2>4, <3>3
    <3>4. CASE n >= tra[p].oldest /\ tra[p].snapshot[n] = "active"
      BY <1>1, <2>1, <2>4, <3>1, <3>2, <3>4 DEF SnapshotFits
    <3> QED
      BY <3>1, <3>3, <3>4
  <2> QED
    BY <1>1, <1>2, <2>1, <2>2, <2>5, <2>6
<1>3. Clean(chain[r], tra[p].oldest_active)
  BY <1>2, CleanIs
<1>4. RpbKept(p, r) /\ rpb'[p].at = "none"
  BY <1>1, <1>3, FinishedIs
<1>5. UpdateFits(p)'
  BY <1>4, DoneFits
<1> QED
  BY <1>1, <1>4, <1>5, LookKeeps

LEMMA LeastOne ==
  ASSUME NEW S \in SUBSET (Nat \ {0}), 1 \in S PROVE Min(S) = 1
<1>1. \A y \in S : 1 <= y
  OBVIOUS
<1>2. \E x \in S : \A y \in S : x <= y
  BY <1>1
<1>3. Min(S) \in S /\ \A y \in S : Min(S) <= y
  BY <1>2 DEF Min
<1>4. Min(S) <= 1 /\ Min(S) \in Nat \ {0}
  BY <1>3
<1> QED
  BY <1>4

LEMMA NewestIs ==
  ASSUME IInv, NEW p \in Sessions, NEW r \in Records
  PROVE  /\ Newest(p, r) \in VersionType /\ View(p, r) \in VersionType
         /\ Newest(p, r).tra \in 0..MaxTransaction /\ View(p, r).tra \in 0..MaxTransaction
         /\ Newest(p, r) = NoVersion \/ \E i \in Seen(p, r) : Newest(p, r) = chain[r][i]
         /\ 1 \in Seen(p, r) => Newest(p, r) = chain[r][1]
<1>1. chain[r] \in Seq(VersionType)
  BY DEF IInv, PagesTyped
<1>2. /\ DOMAIN chain[r] = 1..Len(chain[r]) /\ Len(chain[r]) \in Nat
      /\ \A i \in DOMAIN chain[r] : chain[r][i] \in VersionType
  BY <1>1
<1>3. Seen(p, r) \in SUBSET DOMAIN chain[r]
  BY DEF Seen
<1>4. NoVersion \in VersionType
  BY NumbersAre DEF NoVersion, Version, VersionType
<1>5. ASSUME Seen(p, r) # {} PROVE Min(Seen(p, r)) \in Seen(p, r)
  <2>1. Seen(p, r) \in SUBSET (0..Len(chain[r]))
    BY <1>2, <1>3
  <2> QED
    BY <1>2, <1>5, <2>1, LeastOf
<1>6. 1 \in Seen(p, r) => Min(Seen(p, r)) = 1
  <2>1. Seen(p, r) \in SUBSET (Nat \ {0})
    BY <1>2, <1>3
  <2> QED
    BY <2>1, LeastOne
<1>7. Newest(p, r) = NoVersion \/ \E i \in Seen(p, r) : Newest(p, r) = chain[r][i]
  BY <1>5 DEF Newest
<1>8. Newest(p, r) \in VersionType
  BY <1>2, <1>3, <1>4, <1>7
<1>9. View(p, r) \in VersionType
  BY <1>4, <1>8 DEF View
<1> QED
  BY <1>6, <1>7, <1>8, <1>9, VersionIs DEF Newest

LEMMA PointersAre ==
  ASSUME IInv, NEW r \in Records, NEW p \in Sessions, chain[r] # <<>>
  PROVE  Pointers(r) \in (0..MaxTransaction) \X Nat
<1>1. Primary(r).tra \in 0..MaxTransaction
  BY PrimaryIs DEF IInv
<1>2. Len(chain[r]) \in Nat
  BY DEF IInv, PagesTyped
<1> QED
  BY <1>1, <1>2 DEF Pointers

LEMMA GetKeeps ==
  ASSUME IInv, NEW p \in Sessions, NEW r \in Records, NEW op \in Operations, VIO_get(p, r, op)
  PROVE  IInv'
<1> DEFINE v == View(p, r)
           temp == IF v = Primary(r) THEN Pointers(r) ELSE <<v.tra, 0>>
<1>1. /\ TransactionsFit /\ PagesTyped /\ PagesFit /\ UNCHANGED transactionVars
      /\ tra[p].at = "active" /\ rpb[p].at = "none" /\ Access(p, r)
  BY DEF IInv, VIO_get, ChaseReturns, Chases
<1>2. \/ rpb' = rpb
      \/ /\ v # NoVersion /\ v.tra # tra[p].number
         /\ rpb' = [rpb EXCEPT ![p] = AtUpdate(rpb[p], r, op, v.tra, temp)]
  BY DEF VIO_get, AtUpdate
<1>3. tra'[p] = tra[p]
  BY <1>1 DEF transactionVars
<1>4. CASE rpb' = rpb
  <2>1. RpbKept(p, r)
    BY <1>4, SameNotes
  <2>2. UpdateFits(p)'
    BY <1>1, <1>4 DEF UpdateFits
  <2> QED
    BY <1>1, <2>1, <2>2, LookKeeps
<1>5. CASE /\ v # NoVersion /\ v.tra # tra[p].number
           /\ rpb' = [rpb EXCEPT ![p] = AtUpdate(rpb[p], r, op, v.tra, temp)]
  <2>1. v = Newest(p, r) /\ \E i \in Seen(p, r) : v = chain[r][i]
    BY <1>5, NewestIs DEF View
  <2>2. chain[r] # <<>>
    BY <2>1 DEF Seen
  <2>3. ~IsOwn(chain[r], p)
    <3> SUFFICES ASSUME IsOwn(chain[r], p) PROVE FALSE
      OBVIOUS
    <3>1. chain[r][1].tra = tra[p].number /\ 1 \in DOMAIN chain[r] /\ Head(chain[r]) = chain[r][1]
      BY <1>1, <2>2, PrimaryIs DEF IsOwn
    <3>2. Undecided(p)
      BY <1>1 DEF Undecided, Reads
    <3>3. tra[p].number # 0
      BY <1>1, <3>2, AliveIs
    <3>4. State(p, chain[r][1].tra) = "us"
      BY <3>1, <3>3 DEF State, TRA_snapshot_state
    <3>5. 1 \in Seen(p, r)
      BY <3>1, <3>4 DEF Seen
    <3>6. v = chain[r][1]
      BY <2>1, <3>5, NewestIs
    <3> QED
      BY <1>5, <3>1, <3>6
  <2>4. temp \in (0..MaxTransaction) \X Nat /\ v.tra \in 0..MaxTransaction
    <3>1. v.tra \in 0..MaxTransaction
      BY NewestIs
    <3>2. Pointers(r) \in (0..MaxTransaction) \X Nat
      BY <2>2, PointersAre
    <3> QED
      BY <3>1, <3>2
  <2> DEFINE u == AtUpdate(rpb[p], r, op, v.tra, temp)
  <2> HIDE DEF v, temp
  <2>5. u \in RpbType /\ u.at = "update" /\ u.swept = rpb[p].swept /\ u.rec = r
    BY <2>4, RpbIs, AtUpdateIs
  <2> HIDE DEF u
  <2>6. rpb' = [rpb EXCEPT ![p] = u]
    BY <1>5 DEF u
  <2>7. RpbKept(p, r) /\ rpb'[p] = u
    BY <2>5, <2>6, NotedIs
  <2>8. ~IsOwn(chain[r], p)'
    BY <1>1, <1>3, <2>3 DEF Access, IsOwn
  <2>9. UpdateFits(p)'
    BY <1>1, <1>3, <2>5, <2>7, <2>8 DEF UpdateFits
  <2> QED
    BY <1>1, <2>7, <2>9, LookKeeps
<1> QED
  BY <1>2, <1>4, <1>5

LEMMA WriteIs ==
  ASSUME IInv, NEW p \in Sessions, tra' = [tra EXCEPT ![p].write = TRUE],
         UNCHANGED <<tip, hdr, dbb, lck, overtook>>
  PROVE  TransactionsFit' /\ SameTransactions
<1>1. TransactionsFit'
  BY WriteKeeps DEF IInv
<1>2. \A s \in Sessions :
        /\ tra'[s].at = tra[s].at /\ tra'[s].number = tra[s].number
        /\ tra'[s].new = tra[s].new /\ tra'[s].oldest_active = tra[s].oldest_active
  <2>1. tra \in [Sessions -> TraType]
    BY DEF IInv, TransactionsFit, Typed
  <2> QED
    BY <2>1 DEF TraType
<1> QED
  BY <1>1, <1>2 DEF SameTransactions

LEMMA ReplaceKeeps ==
  ASSUME IInv, NEW p \in Sessions, NEW r \in Records, Replaces(p, r)
  PROVE  IInv'
<1> DEFINE v == Version(tra[p].number, rpb[p].read, rpb[p].op = "erase")
<1>1. /\ TransactionsFit /\ PagesTyped /\ PagesFit /\ chain[r] # <<>>
      /\ rpb[p].at = "update" /\ rpb[p].rec = r /\ Updatable(p, r)
      /\ Change(p, r, <<v>> \o chain[r]) /\ Finished(p, r)
      /\ tra' = [tra EXCEPT ![p].write = TRUE] /\ UNCHANGED <<tip, hdr, dbb, lck, overtook>>
  BY DEF IInv, Replaces, Updates
<1>2. tra[p].at = "active" /\ ~IsOwn(chain[r], p)
  BY <1>1, RpbIs DEF UpdateFits
<1>3. HeadState(p, r) = "committed" /\ Committed(Primary(r).tra)
  BY <1>1, <1>2, PrimaryIs DEF Updatable
<1>4. v \in VersionType /\ v.tra = tra[p].number
  <2>1. tra[p].number \in 0..MaxTransaction
    BY <1>1, CountersAre, FieldsAre
  <2>2. rpb[p].read \in 0..MaxTransaction
    BY RpbIs DEF RpbType
  <2> QED
    BY <2>1, <2>2 DEF Version, VersionType
<1> HIDE DEF v
<1>5. Good(p, r, <<v>> \o chain[r])
  BY <1>1, <1>2, <1>3, <1>4, ConsIsGood
<1>6. Changed(p, r, <<v>> \o chain[r])
  BY <1>1, <1>5, ChangeIs DEF Good
<1>7. TransactionsFit' /\ SameTransactions
  BY <1>1, WriteIs
<1>8. RpbKept(p, r) /\ rpb'[p].at = "none"
  BY <1>1, <1>2, FinishedIs
<1>9. UpdateFits(p)'
  BY <1>8, DoneFits
<1> QED
  BY <1>5, <1>6, <1>7, <1>8, <1>9, PageStepKeeps

LEMMA StoreKeeps ==
  ASSUME IInv, NEW p \in Sessions, NEW r \in Records, VIO_store(p, r)
  PROVE  IInv'
<1> DEFINE v == Version(tra[p].number, 0, FALSE)
<1>1. /\ TransactionsFit /\ PagesTyped /\ PagesFit /\ chain[r] = <<>>
      /\ tra[p].at = "active" /\ rpb[p].at = "none" /\ rpb' = rpb /\ Change(p, r, <<v>>)
      /\ tra' = [tra EXCEPT ![p].write = TRUE] /\ UNCHANGED <<tip, hdr, dbb, lck, overtook>>
  BY DEF IInv, VIO_store
<1>2. v \in VersionType /\ v.tra = tra[p].number
  <2>1. tra[p].number \in 0..MaxTransaction
    BY <1>1, CountersAre, FieldsAre
  <2> QED
    BY <2>1, NumbersAre DEF Version, VersionType
<1> HIDE DEF v
<1>3. Good(p, r, <<v>>)
  BY <1>1, <1>2, FirstIsGood
<1>4. Changed(p, r, <<v>>)
  BY <1>1, <1>3, ChangeIs DEF Good
<1>5. TransactionsFit' /\ SameTransactions
  BY <1>1, WriteIs
<1>6. RpbKept(p, r) /\ rpb'[p].at = "none"
  BY <1>1, SameNotes
<1>7. UpdateFits(p)'
  BY <1>6, DoneFits
<1> QED
  BY <1>3, <1>4, <1>5, <1>6, <1>7, PageStepKeeps

\* The record is looked at, and not done with yet.
LEMMA NoteKeeps ==
  ASSUME IInv, NEW p \in Sessions, NEW r \in Records, NEW t \in RpbType,
         rpb[p].at = "update", rpb[p].rec = r,
         Access(p, r), UNCHANGED transactionVars, rpb' = [rpb EXCEPT ![p] = t],
         t.swept = rpb[p].swept, t.rec = r, t.at \in {"update", "wait", "backout", "disappeared"},
         t.at \in {"wait", "backout"} => 1 <= t.on /\ t.on <= hdr.next,
         t.at = "backout" => tip[t.on] = "dead"
  PROVE  IInv'
<1>1. RpbKept(p, r) /\ rpb'[p] = t
  BY NotedIs
<1>2. tra[p].at = "active" /\ ~IsOwn(chain[r], p)
  BY RpbIs DEF UpdateFits
<1>3. tra' = tra /\ tip' = tip /\ hdr' = hdr /\ chain' = chain
  BY DEF transactionVars, Access
<1>4. UpdateFits(p)'
  BY <1>1, <1>2, <1>3 DEF UpdateFits, IsOwn
<1> QED
  BY <1>1, <1>4, LookKeeps

LEMMA CorrectKeeps ==
  ASSUME IInv, NEW p \in Sessions, NEW r \in Records, CorrectsPointers(p, r)
  PROVE  IInv'
<1> DEFINE t == WithTemp(rpb[p], Pointers(r))
<1>1. /\ chain[r] # <<>> /\ rpb[p].at = "update" /\ rpb[p].rec = r
      /\ Access(p, r) /\ UNCHANGED transactionVars /\ rpb' = [rpb EXCEPT ![p] = t]
  BY DEF CorrectsPointers, Updates, WithTemp
<1>2. Pointers(r) \in (0..MaxTransaction) \X Nat
  BY <1>1, PointersAre
<1>3. t \in RpbType /\ t.at = "update" /\ t.swept = rpb[p].swept /\ t.rec = r
  BY <1>1, <1>2, RpbIs, WithTempIs
<1> HIDE DEF t
<1> QED
  BY <1>1, <1>3, NoteKeeps

LEMMA BlockKeeps ==
  ASSUME IInv, NEW p \in Sessions, NEW r \in Records, UpdateBlocked(p, r)
  PROVE  IInv'
<1> DEFINE at == IF HeadState(p, r) = "dead" THEN "backout" ELSE "wait"
           on == Primary(r).tra
           t == AtOn(rpb[p], at, on)
<1>1. /\ TransactionsFit /\ PagesTyped /\ PagesFit
      /\ chain[r] # <<>> /\ rpb[p].at = "update" /\ rpb[p].rec = r
      /\ HeadState(p, r) \in {"active", "dead"}
      /\ Access(p, r) /\ UNCHANGED transactionVars /\ rpb' = [rpb EXCEPT ![p] = t]
  BY DEF IInv, UpdateBlocked, Updates, AtOn
<1>2. /\ on \in 0..MaxTransaction /\ 1 <= on /\ on <= hdr.next
      /\ at = "backout" => tip[on] = "dead"
  BY <1>1, PrimaryIs
<1>3. at \in Ats /\ at \in {"wait", "backout"}
  BY DEF Ats
<1> HIDE DEF at, on
<1>4. t \in RpbType /\ t.at = at /\ t.swept = rpb[p].swept /\ t.rec = r /\ t.on = on
  BY <1>1, <1>2, <1>3, RpbIs, NotesAre
<1> HIDE DEF t
<1> QED
  BY <1>1, <1>2, <1>3, <1>4, NoteKeeps

LEMMA NothingKeeps ==
  ASSUME IInv, NEW p \in Sessions, NEW r \in Records, NothingToUpdate(p, r)
  PROVE  IInv'
<1>1. /\ rpb[p].at = "update" /\ rpb[p].rec = r /\ Access(p, r) /\ UNCHANGED transactionVars
  BY DEF NothingToUpdate, Updates
<1>2. CASE Step(p, "disappeared")
  <2> DEFINE t == At(rpb[p], "disappeared")
  <2>1. rpb' = [rpb EXCEPT ![p] = t]
    BY <1>2 DEF Step, At
  <2>2. t \in RpbType /\ t.at = "disappeared" /\ t.swept = rpb[p].swept /\ t.rec = r
    <3>1. rpb[p] \in RpbType /\ "disappeared" \in Ats /\ 0 \in 0..MaxTransaction
      BY RpbIs, NumbersAre DEF Ats
    <3> QED
      BY <1>1, <3>1, NotesAre
  <2> HIDE DEF t
  <2> QED
    BY <1>1, <2>1, <2>2, NoteKeeps
<1>3. CASE Finished(p, r)
  <2>1. tra[p].at = "active"
    BY <1>1, RpbIs DEF UpdateFits
  <2>2. RpbKept(p, r) /\ rpb'[p].at = "none"
    BY <1>3, <2>1, FinishedIs
  <2>3. UpdateFits(p)'
    BY <2>2, DoneFits
  <2> QED
    BY <1>1, <2>2, <2>3, LookKeeps
<1> QED
  BY <1>2, <1>3 DEF NothingToUpdate

LEMMA BackoutKeeps ==
  ASSUME IInv, NEW p \in Sessions, NEW r \in Records, VIO_backout(p, r)
  PROVE  IInv'
<1> DEFINE t == At(rpb[p], "update")
<1>1. /\ TransactionsFit /\ PagesTyped /\ PagesFit
      /\ rpb[p].at = "backout" /\ rpb[p].rec = r /\ UNCHANGED transactionVars
      /\ rpb' = [rpb EXCEPT ![p] = t]
  BY DEF IInv, VIO_backout, Step, At
<1>2. tra[p].at = "active" /\ ~IsOwn(chain[r], p) /\ tip[rpb[p].on] = "dead" /\ 1 <= rpb[p].on
      /\ rpb[p].on \in 0..MaxTransaction
  BY <1>1, RpbIs DEF UpdateFits
<1>3. t \in RpbType /\ t.at = "update" /\ t.swept = rpb[p].swept /\ t.rec = r
  <2>1. rpb[p] \in RpbType /\ "update" \in Ats /\ 0 \in 0..MaxTransaction
    BY RpbIs, NumbersAre DEF Ats
  <2> QED
    BY <1>1, <2>1, NotesAre
<1> HIDE DEF t
<1>4. RpbKept(p, r) /\ rpb'[p] = t
  BY <1>1, <1>3, NotedIs
<1>5. TransactionsFit' /\ SameTransactions /\ tra' = tra
  BY <1>1, StaysTyped DEF transactionVars
<1>6. ASSUME ~IsOwn(chain'[r], p) PROVE UpdateFits(p)'
  BY <1>2, <1>3, <1>4, <1>5, <1>6 DEF UpdateFits, IsOwn
<1>7. CASE Access(p, r)
  <2>1. chain' = chain
    BY <1>7 DEF Access
  <2> QED
    BY <1>1, <1>2, <1>4, <1>6, <1>7, <2>1, LookKeeps
<1>8. CASE chain[r] # <<>> /\ Primary(r).tra = rpb[p].on /\ Change(p, r, Tail(chain[r]))
  <2> DEFINE new == Tail(chain[r])
  <2>1. rpb[p].on \in Numbers /\ rpb[p].on = Head(chain[r]).tra
    BY <1>2, <1>8, NumbersAre DEF Primary
  <2>2. Loose(r)
    BY <1>1, <1>2, <2>1, OverIsLoose
  <2>3. Good(p, r, new)
    BY <1>1, <1>8, <2>2, TailIsGood
  <2> HIDE DEF new
  <2>4. Changed(p, r, new) /\ chain'[r] = new
    BY <1>1, <1>8, <2>3, ChangeIs DEF Good, new, Change, PagesTyped
  <2>5. ~IsOwn(new, p)
    <3>1. chain[r] \in Seq(VersionType) /\ VersionsFit(chain[r])
      BY <1>1 DEF PagesTyped, PagesFit
    <3>2. /\ new \in Seq(VersionType)
          /\ \A i \in DOMAIN new : i + 1 \in DOMAIN chain[r] /\ i + 1 > 1 /\ new[i] = chain[r][i + 1]
      BY <1>8, <3>1, TailIs DEF new
    <3>3. new # <<>> => Head(new) = new[1] /\ 1 \in DOMAIN new
      BY <3>2, TailIs
    <3>4. new # <<>> => Committed(Head(new).tra)
      BY <3>1, <3>2, <3>3 DEF VersionsFit
    <3>5. Undecided(p)
      BY <1>2 DEF Undecided, Reads
    <3> QED
      BY <1>1, <3>4, <3>5, AliveIs DEF IsOwn
  <2>6. UpdateFits(p)'
    BY <1>6, <2>4, <2>5
  <2> QED
    BY <1>4, <1>5, <2>3, <2>4, <2>6, PageStepKeeps
<1> QED
  BY <1>7, <1>8 DEF VIO_backout

-----------------------------------------------------------------------------
(* Every step of a transaction keeps the invariant. *)

\* Pages are written, or what p did not write of them is lost.
PagesStay(p) ==
  /\ chain' \in [Records -> Seq(VersionType)] /\ disk' \in [Records -> Seq(VersionType)]
  /\ dirty' \in [Records -> Sessions \cup {Nobody}] /\ mark' \subseteq Records
  /\ \A q \in Records :
       \/ /\ chain'[q] = chain[q] /\ disk'[q] \in {disk[q], chain[q]}
          /\ \A s \in Sessions : dirty'[q] # s => disk'[q] = chain[q] \/ (disk'[q] = disk[q] /\ dirty[q] # s)
       \/ chain'[q] = disk[q] /\ disk'[q] = disk[q] /\ dirty[q] = p

\* What a step of p does to transactions.
Moves(p) ==
  /\ TransactionsFit' /\ Forward /\ \A s \in Sessions : s # p => tra'[s] = tra[s]
  /\ Undecided(p)' /\ tra'[p].at # "undo" =>
       \/ tra'[p].number = tra[p].number /\ Undecided(p) /\ tra[p].at # "undo"
       \/ \A n \in 0..MaxTransaction : Known(n) => n # tra'[p].number

LEMMA WrittenStay ==
  ASSUME PagesTyped, NEW p \in Sessions, chain' = chain, Written PROVE PagesStay(p)
BY DEF PagesTyped, Written, PagesStay

LEMMA CommittedStays ==
  ASSUME Forward, NEW n \in 0..MaxTransaction, Committed(n) PROVE Committed(n)'
<1>1. n = 0 \/ n \in Numbers
  BY NumbersAre
<1> QED
  BY <1>1 DEF Forward, Committed

LEMMA CleanStays ==
  ASSUME Forward, NEW versions \in Seq(VersionType), NEW x, Clean(versions, x)
  PROVE  \A i \in DOMAIN versions : versions[i].tra < x => Committed(versions[i].tra)'
<1>1. \A i \in DOMAIN versions : versions[i].tra \in 0..MaxTransaction
  <2>1. \A i \in DOMAIN versions : versions[i] \in VersionType
    OBVIOUS
  <2> QED
    BY <2>1, VersionIs
<1> QED
  BY <1>1, CommittedStays DEF Clean

LEMMA KnownStays ==
  ASSUME TransactionsFit, NEW p \in Sessions, Moves(p), NEW n \in 0..MaxTransaction, Known(n),
         \A s \in Sessions : s # p => dbb'[s] = dbb[s],
         n < hdr'.oldest_transaction => Committed(n),
         n < dbb'[p].oldest_transaction => Committed(n),
         tra'[p].at = "retain" => n # tra'[p].new
  PROVE  Known(n)'
<1>1. Committed(n) => Committed(n)'
  BY CommittedStays DEF Moves
<1>2. n <= hdr'.next
  <2>1. hdr.next \in Nat /\ hdr'.next \in Nat /\ n \in Nat
    BY NumbersAre DEF TransactionsFit, Typed, Moves
  <2> QED
    BY <2>1 DEF Moves, Forward, Known
<1> QED
  BY <1>1, <1>2 DEF Known, Moves

LEMMA PagesStayFit ==
  ASSUME PagesTyped, PagesFit, Forward, NEW p \in Sessions, PagesStay(p),
         \A n \in 0..MaxTransaction : Known(n) => Known(n)'
  PROVE  PagesFit'
<1>1. ASSUME NEW versions \in Seq(VersionType), VersionsFit(versions)
      PROVE  \A i \in DOMAIN versions : /\ Known(versions[i].tra)'
                                        /\ i > 1 => Committed(versions[i].tra)'
  <2>1. \A i \in DOMAIN versions : versions[i] \in VersionType
    OBVIOUS
  <2>2. \A i \in DOMAIN versions : versions[i].tra \in 0..MaxTransaction
    BY <2>1, VersionIs
  <2> QED
    BY <1>1, <2>2, CommittedStays DEF VersionsFit
<1>2. ASSUME NEW q \in Records PROVE VersionsFit(chain[q])' /\ VersionsFit(disk[q])'
  <2>1. /\ chain[q] \in Seq(VersionType) /\ disk[q] \in Seq(VersionType)
        /\ VersionsFit(chain[q]) /\ VersionsFit(disk[q])
    BY DEF PagesTyped, PagesFit
  <2>2. chain'[q] \in {chain[q], disk[q]} /\ disk'[q] \in {chain[q], disk[q]}
    BY DEF PagesStay
  <2> QED
    BY <1>1, <2>1, <2>2 DEF VersionsFit
<1> QED
  BY <1>2 DEF PagesFit

LEMMA TransactionStepKeeps ==
  ASSUME IInv, NEW p \in Sessions, Moves(p), PagesStay(p), PagesFit',
         rpb' \in [Sessions -> RpbType], \A s \in Sessions : s # p => rpb'[s] = rpb[s],
         UpdateFits(p)', SweepFits(p)'
  PROVE  IInv'
<1>1. /\ TransactionsFit /\ PagesTyped /\ PagesFit /\ Forward /\ TransactionsFit'
      /\ \A s \in Sessions : UpdateFits(s) /\ OwnKept(s) /\ SweepFits(s)
  BY DEF IInv, Moves
<1>2. PagesTyped'
  BY DEF PagesStay, PagesTyped
<1>3. ASSUME NEW s \in Sessions, s # p PROVE UpdateFits(s)' /\ OwnKept(s)' /\ SweepFits(s)'
  <2>1. tra'[s] = tra[s] /\ rpb'[s] = rpb[s] /\ UpdateFits(s) /\ OwnKept(s) /\ SweepFits(s)
    BY <1>1, <1>3 DEF Moves
  <2>2. ASSUME NEW q \in Records, Undecided(s), tra[s].at # "undo", ~IsOwn(chain[q], s)
        PROVE  ~IsOwn(chain[q], s)'
    <3>1. ~IsOwn(disk[q], s)
      BY <2>1, <2>2 DEF OwnKept
    <3>2. chain'[q] \in {chain[q], disk[q]}
      BY DEF PagesStay
    <3> QED
      BY <2>1, <2>2, <3>1, <3>2 DEF IsOwn
  <2>3. UpdateFits(s)'
    <3>1. rpb[s].at \in {"update", "wait", "backout"} => ~IsOwn(chain[rpb[s].rec], s)'
      BY <2>1, <2>2 DEF UpdateFits, Undecided, Reads
    <3>2. rpb[s].on \in 0..MaxTransaction
      BY RpbIs
    <3>3. rpb[s].at \in {"wait", "backout"} => rpb[s].on \in Numbers /\ rpb[s].on <= hdr'.next
      <4>1. hdr.next \in Nat /\ hdr'.next \in Nat /\ hdr'.next >= hdr.next
        BY <1>1, NumbersAre DEF TransactionsFit, Typed, Forward
      <4> QED
        BY <2>1, <3>2, <4>1, NumbersAre DEF UpdateFits
    <3>4. rpb[s].at = "backout" => tip'[rpb[s].on] = "dead"
      BY <1>1, <2>1, <3>3 DEF UpdateFits, Forward
    <3> QED
      BY <2>1, <3>1, <3>3, <3>4 DEF UpdateFits
  <2>4. OwnKept(s)'
    <3> SUFFICES ASSUME Undecided(s), tra[s].at # "undo", NEW q \in Records, IsOwn(disk'[q], s)
                 PROVE  IsOwn(chain'[q], s)
      BY <2>1 DEF OwnKept, IsOwn, Undecided, Reads
    <3>1. IsOwn(disk[q], s) => IsOwn(chain[q], s)
      BY <2>1 DEF OwnKept
    <3> QED
      BY <3>1 DEF PagesStay
  <2>5. ASSUME NEW q \in Records, CleanAt(s, q) PROVE CleanAt(s, q)'
    <3> DEFINE x == tra[s].oldest_active
    <3>1. Clean(chain[q], x) /\ (dirty[q] # s => Clean(disk[q], x))
      BY <2>5 DEF CleanAt
    <3>2. Clean(chain'[q], x) /\ (dirty'[q] # s => Clean(disk'[q], x))
      BY <1>3, <3>1 DEF PagesStay
    <3>3. chain'[q] \in Seq(VersionType) /\ disk'[q] \in Seq(VersionType)
      BY DEF PagesStay
    <3> HIDE DEF x
    <3>4. Clean(chain[q], x)' /\ (dirty'[q] # s => Clean(disk[q], x)')
      <4>1. x' = x
        BY <2>1 DEF x
      <4> QED
        BY <1>1, <3>2, <3>3, <4>1, CleanStays DEF Clean
    <3> QED
      BY <3>4 DEF CleanAt, x
  <2>6. SweepFits(s)'
    BY <2>1, <2>5 DEF SweepFits, Swept
  <2> QED
    BY <2>3, <2>4, <2>6
<1>4. OwnKept(p)'
  <2> SUFFICES ASSUME Undecided(p)', tra'[p].at # "undo", NEW q \in Records, IsOwn(disk[q], p)'
               PROVE  IsOwn(chain[q], p)'
    BY DEF OwnKept
  <2>1. CASE tra'[p].number = tra[p].number /\ Undecided(p) /\ tra[p].at # "undo"
    <3>1. IsOwn(disk[q], p) => IsOwn(chain[q], p)
      BY <1>1, <2>1 DEF OwnKept
    <3> QED
      BY <2>1, <3>1 DEF PagesStay, IsOwn
  <2>2. CASE \A n \in 0..MaxTransaction : Known(n) => n # tra'[p].number
    <3>1. /\ chain[q] \in Seq(VersionType) /\ disk[q] \in Seq(VersionType)
          /\ VersionsFit(chain[q]) /\ VersionsFit(disk[q])
      BY <1>1 DEF PagesTyped, PagesFit
    <3>2. ASSUME NEW versions \in Seq(VersionType), VersionsFit(versions), versions # <<>>
          PROVE  Head(versions).tra # tra'[p].number
      <4>1. Head(versions) = versions[1] /\ 1 \in DOMAIN versions /\ Head(versions) \in VersionType
        BY <3>2, TailIs
      <4>2. Known(Head(versions).tra) /\ Head(versions).tra \in 0..MaxTransaction
        BY <3>2, <4>1, VersionIs DEF VersionsFit
      <4> QED
        BY <2>2, <4>2
    <3>3. disk'[q] \in {disk[q], chain[q]}
      BY DEF PagesStay
    <3>4. disk'[q] # <<>> => Head(disk'[q]).tra # tra'[p].number
      BY <3>1, <3>2, <3>3
    <3> QED
      BY <3>4 DEF IsOwn
  <2> QED
    BY <2>1, <2>2 DEF Moves
<1> QED
  BY <1>1, <1>2, <1>3, <1>4 DEF IInv

\* A step of a transaction that looks at no record.
LEMMA QuietStepKeeps ==
  ASSUME IInv, NEW p \in Sessions, Moves(p), PagesStay(p), rpb' = rpb, rpb[p].at = "none",
         tra[p].at # "sweep", \A n \in 0..MaxTransaction : Known(n) => Known(n)'
  PROVE  IInv'
<1>1. PagesFit'
  BY PagesStayFit DEF IInv, Moves
<1>2. rpb[p].swept = {}
  BY RpbIs DEF SweepFits
<1>3. UpdateFits(p)' /\ SweepFits(p)'
  BY <1>2 DEF UpdateFits, SweepFits, Swept
<1>4. rpb' \in [Sessions -> RpbType]
  BY DEF IInv, PagesTyped
<1> QED
  BY <1>1, <1>3, <1>4, TransactionStepKeeps

LEMMA StillKeeps ==
  ASSUME IInv, NEW p \in Sessions, Moves(p), UNCHANGED Pages, tra[p].at \notin {"active", "sweep"},
         \A n \in 0..MaxTransaction : Known(n) => Known(n)'
  PROVE  IInv'
<1>1. UNCHANGED <<chain, disk, dirty, mark, rpb>>
  BY DEF Pages
<1>2. PagesStay(p)
  BY <1>1 DEF IInv, PagesTyped, PagesStay
<1>3. rpb[p].at = "none"
  BY RpbIs DEF UpdateFits
<1> QED
  BY <1>1, <1>2, <1>3, QuietStepKeeps

\* What a step does that leaves the counters of the header page and of the processes.
LEMMA CountersStay ==
  ASSUME TransactionsFit, NEW p \in Sessions, Moves(p), UNCHANGED <<hdr, dbb>>,
         tra'[p].at # "retain"
  PROVE  \A n \in 0..MaxTransaction : Known(n) => Known(n)'
<1> SUFFICES ASSUME NEW n \in 0..MaxTransaction, Known(n) PROVE Known(n)'
  OBVIOUS
<1>1. /\ \A s \in Sessions : s # p => dbb'[s] = dbb[s]
      /\ n < hdr'.oldest_transaction => Committed(n)
      /\ n < dbb'[p].oldest_transaction => Committed(n)
  BY DEF Known
<1> QED
  BY <1>1, KnownStays

LEMMA StartIsSafe ==
  ASSUME IInv, NEW p \in Sessions, TRA_start(p), UNCHANGED Pages
  PROVE  IInv' /\ Moves(p)
<1>1. TransactionsFit /\ TransactionsFit' /\ Forward
  BY StartKeeps DEF IInv
<1>2. /\ tra[p].at = "idle" /\ hdr.next < MaxTransaction /\ hdr' = bump_transaction_id(p) /\ dbb' = dbb
  BY DEF TRA_start
<1>3. \A s \in Sessions : s # p => tra'[s] = tra[s]
  BY <1>1 DEF TRA_start, TransactionsFit, Typed
<1>4. tra'[p].at = "inventory" /\ tra'[p].number = hdr'.next
  BY <1>1, NumbersAre DEF TRA_start, NoTra, TransactionsFit, Typed
<1>5. /\ hdr'.next = hdr.next + 1 /\ hdr.next \in Nat
      /\ hdr'.oldest_transaction \in {hdr.oldest_transaction, dbb[p].oldest_transaction}
  BY <1>1, <1>2, Bumped, CountersAre
<1>6. \A n \in 0..MaxTransaction : Known(n) => n # hdr'.next
  BY <1>5 DEF Known
<1>7. Moves(p)
  BY <1>1, <1>3, <1>4, <1>6 DEF Moves
<1>8. ASSUME NEW n \in 0..MaxTransaction, Known(n) PROVE Known(n)'
  <2>1. /\ n < hdr'.oldest_transaction => Committed(n)
        /\ n < dbb'[p].oldest_transaction => Committed(n)
    BY <1>2, <1>5, <1>8 DEF Known
  <2> QED
    BY <1>1, <1>2, <1>4, <1>7, <1>8, <2>1, KnownStays
<1> QED
  BY <1>2, <1>7, <1>8, StillKeeps

LEMMA InventoryIsSafe ==
  ASSUME IInv, NEW p \in Sessions, TRA_get_inventory(p), UNCHANGED Pages
  PROVE  IInv' /\ Moves(p)
<1>1. TransactionsFit /\ TransactionsFit' /\ Forward
  BY InventoryKeeps DEF IInv
<1>2. /\ tra[p].at = "inventory" /\ UNCHANGED <<hdr, dbb>>
      /\ tra'[p].at = "oldest" /\ tra'[p].number = tra[p].number
      /\ \A s \in Sessions : s # p => tra'[s] = tra[s]
  BY <1>1 DEF TRA_get_inventory, TransactionsFit, Typed, TraType
<1>3. Moves(p)
  BY <1>1, <1>2 DEF Moves, Undecided
<1> QED
  BY <1>1, <1>2, <1>3, CountersStay, StillKeeps

LEMMA CleanupIsSafe ==
  ASSUME IInv, NEW p \in Sessions, CleansUp(p), UNCHANGED Pages
  PROVE  IInv' /\ Moves(p)
<1>1. TransactionsFit /\ TransactionsFit' /\ Forward
  BY CleanupKeeps DEF IInv
<1>2. /\ tra[p].at = "oldest" /\ UNCHANGED <<hdr, dbb>>
      /\ tra'[p].at = "oldest" /\ tra'[p].number = tra[p].number
      /\ \A s \in Sessions : s # p => tra'[s] = tra[s]
  <2>1. /\ tra[p].at = "oldest" /\ UNCHANGED <<hdr, dbb>>
        /\ \E n, state, cleanup :
             tra' = [tra EXCEPT ![p].snapshot[n] = state, ![p].cleanup = cleanup]
    BY DEF CleansUp
  <2>2. tra \in [Sessions -> TraType]
    BY <1>1 DEF TransactionsFit, Typed
  <2> QED
    BY <2>1, <2>2 DEF TraType
<1>3. Moves(p)
  BY <1>1, <1>2 DEF Moves, Undecided
<1> QED
  BY <1>1, <1>2, <1>3, CountersStay, StillKeeps

LEMMA OldestIsSafe ==
  ASSUME IInv, NEW p \in Sessions, FindsOldest(p), UNCHANGED Pages
  PROVE  IInv' /\ Moves(p)
<1>1. TransactionsFit /\ TransactionsFit' /\ Forward
  BY OldestKeeps DEF IInv
<1>2. /\ tra[p].at = "oldest" /\ UNCHANGED hdr
      /\ tra'[p].at \in {"sweep", "active"} /\ tra'[p].number = tra[p].number
      /\ \A s \in Sessions : s # p => tra'[s] = tra[s] /\ dbb'[s] = dbb[s]
      /\ dbb'[p].oldest_transaction = OldestInteresting(p)
  <2>1. /\ tra[p].at = "oldest" /\ UNCHANGED hdr
        /\ \E k : dbb' = [dbb EXCEPT ![p] = [oldest_transaction |-> OldestInteresting(p),
                                             oldest_active |-> OldestActive(p), oldest_snapshot |-> k]]
        /\ \E x, at : /\ at \in {"sweep", "active"}
                      /\ tra' = [tra EXCEPT ![p].oldest_active = x, ![p].active = 0,
                                   ![p].hdr_snapshot = 0, ![p].cleanup = FALSE, ![p].at = at]
    BY DEF FindsOldest
  <2>2. /\ \A s \in Sessions : s # p => dbb'[s] = dbb[s]
        /\ dbb'[p].oldest_transaction = OldestInteresting(p)
    BY <1>1, <2>1 DEF TransactionsFit, Typed
  <2>3. tra \in [Sessions -> TraType]
    BY <1>1 DEF TransactionsFit, Typed
  <2>4. /\ tra'[p].at \in {"sweep", "active"} /\ tra'[p].number = tra[p].number
        /\ \A s \in Sessions : s # p => tra'[s] = tra[s]
    BY <2>1, <2>3 DEF TraType
  <2> QED
    BY <2>1, <2>2, <2>4
<1>3. Moves(p)
  BY <1>1, <1>2 DEF Moves, Undecided
<1>4. ASSUME NEW n \in 0..MaxTransaction, Known(n) PROVE Known(n)'
  <2>1. n < hdr'.oldest_transaction => Committed(n)
    BY <1>2, <1>4 DEF Known
  <2>2. ASSUME n < dbb'[p].oldest_transaction PROVE Committed(n)
    <3>1. CASE n = 0
      BY <3>1 DEF Committed
    <3>2. CASE n \in Numbers /\ n >= tra[p].oldest
      BY <1>1, <1>2, <2>2, <3>2, FoundIs DEF Committed
    <3>3. CASE n < tra[p].oldest
      <4>1. n < hdr.oldest_transaction
        <5>1. tra[p].oldest <= hdr.oldest_transaction /\ tra[p].oldest \in Nat
              /\ hdr.oldest_transaction \in Nat
          BY <1>1, CountersAre, FieldsAre DEF CountersFit
        <5> QED
          BY <3>3, <5>1, NumbersAre
      <4> QED
        BY <1>4, <4>1 DEF Known
    <3>4. n \in Nat /\ (n = 0 \/ n \in Numbers) /\ tra[p].oldest \in Nat
      BY <1>1, CountersAre, FieldsAre, NumbersAre
    <3> QED
      BY <3>1, <3>2, <3>3, <3>4
  <2> QED
    BY <1>1, <1>2, <1>3, <1>4, <2>1, <2>2, KnownStays
<1> QED
  BY <1>2, <1>3, <1>4, StillKeeps

LEMMA RetainIsSafe ==
  ASSUME IInv, NEW p \in Sessions, retain_context(p), UNCHANGED Pages
  PROVE  IInv' /\ Moves(p)
<1>1. TransactionsFit /\ TransactionsFit' /\ Forward
  BY RetainContextKeeps DEF IInv
<1>2. /\ tra[p].at = "retain" /\ UNCHANGED <<hdr, dbb>>
      /\ tra'[p].at = "retained" /\ tra'[p].number = tra[p].new
      /\ \A s \in Sessions : s # p => tra'[s] = tra[s]
  BY <1>1 DEF retain_context, TransactionsFit, Typed, TraType
<1>3. \A n \in 0..MaxTransaction : Known(n) => n # tra'[p].number
  BY <1>2 DEF Known
<1>4. Moves(p)
  BY <1>1, <1>2, <1>3 DEF Moves
<1> QED
  BY <1>1, <1>2, <1>4, CountersStay, StillKeeps

LEMMA RetainedIsSafe ==
  ASSUME IInv, NEW p \in Sessions, retain_release(p), UNCHANGED Pages
  PROVE  IInv' /\ Moves(p)
<1>1. TransactionsFit /\ TransactionsFit' /\ Forward
  BY RetainReleaseKeeps DEF IInv
<1>2. /\ tra[p].at = "retained" /\ UNCHANGED <<hdr, dbb>>
      /\ tra'[p].at = "active" /\ tra'[p].number = tra[p].number
      /\ \A s \in Sessions : s # p => tra'[s] = tra[s]
  BY <1>1 DEF retain_release, TransactionsFit, Typed, TraType
<1>3. Moves(p)
  BY <1>1, <1>2 DEF Moves, Undecided, Reads
<1> QED
  BY <1>1, <1>2, <1>3, CountersStay, StillKeeps

LEMMA ReleaseIsSafe ==
  ASSUME IInv, NEW p \in Sessions, TRA_release_transaction(p), UNCHANGED Pages
  PROVE  IInv' /\ Moves(p)
<1>1. TransactionsFit /\ TransactionsFit' /\ Forward
  BY ReleaseKeeps DEF IInv
<1>2. /\ tra[p].at = "ending" /\ UNCHANGED <<hdr, dbb>> /\ tra'[p].at = "idle"
      /\ \A s \in Sessions : s # p => tra'[s] = tra[s]
  BY <1>1, NoTraIs DEF TRA_release_transaction, TransactionsFit, Typed
<1>3. Moves(p)
  BY <1>1, <1>2 DEF Moves, Undecided, Reads
<1> QED
  BY <1>1, <1>2, <1>3, CountersStay, StillKeeps

LEMMA AttachIsSafe ==
  ASSUME IInv, NEW p \in Sessions, Attach(p), UNCHANGED Pages
  PROVE  IInv' /\ Moves(p)
<1>1. TransactionsFit /\ TransactionsFit' /\ Forward
  BY AttachKeeps DEF IInv
<1>2. /\ tra[p].at = "detached" /\ UNCHANGED hdr /\ tra'[p].at = "idle"
      /\ \A s \in Sessions : s # p => tra'[s] = tra[s] /\ dbb'[s] = dbb[s]
      /\ dbb'[p].oldest_transaction = hdr.oldest_transaction
  BY <1>1, NoTraIs DEF Attach, TransactionsFit, Typed
<1>3. Moves(p)
  BY <1>1, <1>2 DEF Moves, Undecided, Reads
<1>4. ASSUME NEW n \in 0..MaxTransaction, Known(n) PROVE Known(n)'
  <2>1. /\ n < hdr'.oldest_transaction => Committed(n)
        /\ n < dbb'[p].oldest_transaction => Committed(n)
    BY <1>2, <1>4 DEF Known
  <2> QED
    BY <1>1, <1>2, <1>3, <1>4, <2>1, KnownStays
<1> QED
  BY <1>2, <1>3, <1>4, StillKeeps

LEMMA CacheIsSafe ==
  ASSUME IInv, NEW r \in Records, CacheWrites(r)
  PROVE  IInv'
<1>1. PICK p \in Sessions : p = dirty[r]
  BY DEF CacheWrites, IInv, PagesTyped
<1>2. /\ disk' = [disk EXCEPT ![r] = chain[r]] /\ chain' = chain /\ rpb' = rpb
      /\ UNCHANGED transactionVars /\ Written
  BY CacheIs DEF CacheWrites, IInv
<1>3. Changed(p, r, chain[r]) /\ Good(p, r, chain[r])
  BY <1>1, <1>2, SameIsGood DEF Changed, IInv, PagesTyped
<1>4. TransactionsFit' /\ SameTransactions /\ RpbKept(p, r)
  BY <1>1, <1>2, StaysTyped, SameNotes
<1>5. UpdateFits(p)'
  <2>1. tra' = tra /\ tip' = tip /\ hdr' = hdr /\ UpdateFits(p)
    BY <1>1, <1>2 DEF transactionVars, IInv
  <2> QED
    BY <1>2, <2>1 DEF UpdateFits, IsOwn
<1> QED
  BY <1>1, <1>3, <1>4, <1>5, PageStepKeeps

LEMMA SetStateMoves ==
  ASSUME IInv, NEW p \in Sessions, tra[p].at \in {"active", "undo"},
         NEW state \in {"committed", "dead"}, SetState(p, state)
  PROVE  Moves(p) /\ tra'[p].at = "ending" /\ UNCHANGED <<hdr, dbb>>
<1>1. TransactionsFit /\ TransactionsFit' /\ Forward
  BY DecideKeeps DEF IInv
<1>2. /\ UNCHANGED <<hdr, dbb>> /\ tra' = [tra EXCEPT ![p] = Ended("ending", tra[p].number)]
  BY DEF SetState, Ended
<1>3. "ending" \in Phases /\ tra[p].number \in 0..MaxTransaction
  BY <1>1, CountersAre, FieldsAre DEF Phases
<1>4. tra'[p].at = "ending" /\ \A s \in Sessions : s # p => tra'[s] = tra[s]
  BY <1>1, <1>2, <1>3, EndedIs DEF TransactionsFit, Typed
<1> QED
  BY <1>1, <1>2, <1>4 DEF Moves, Undecided, Reads

LEMMA DecisionIsSafe ==
  ASSUME IInv, NEW p \in Sessions, tra[p].at \in {"active", "undo"}, Quiet(p),
         NEW state \in {"committed", "dead"}, SetState(p, state), PagesStay(p), rpb' = rpb
  PROVE  IInv' /\ Moves(p)
<1>1. Moves(p) /\ tra'[p].at = "ending" /\ UNCHANGED <<hdr, dbb>>
  BY SetStateMoves
<1>2. \A n \in 0..MaxTransaction : Known(n) => Known(n)'
  BY <1>1, CountersStay DEF IInv
<1> QED
  BY <1>1, <1>2, QuietStepKeeps DEF Quiet

LEMMA CommitIsSafe ==
  ASSUME IInv, NEW p \in Sessions, Commits(p)
  PROVE  IInv' /\ Moves(p)
<1>1. Quiet(p) /\ rpb' = rpb /\ PagesStay(p)
  <2>1. Flush(p, mark) /\ PagesTyped
    BY DEF Commits, IInv
  <2> QED
    BY <2>1, FlushIs, WrittenStay DEF Commits
<1>2. CASE TRA_commit(p)
  BY <1>1, <1>2, DecisionIsSafe DEF TRA_commit
<1>3. CASE TRA_commit_retaining(p)
  <2>1. TransactionsFit /\ TransactionsFit' /\ Forward
    BY <1>3, CommitRetainingKeeps DEF IInv
  <2>2. /\ tra[p].at = "active" /\ hdr.next < MaxTransaction /\ hdr' = bump_transaction_id(p) /\ dbb' = dbb
        /\ tra' = [tra EXCEPT ![p].at = "retain", ![p].new = hdr'.next, ![p].sub = Own(p)]
    BY <1>3 DEF TRA_commit_retaining
  <2>3. /\ tra'[p].at = "retain" /\ tra'[p].new = hdr'.next /\ tra'[p].number = tra[p].number
        /\ \A s \in Sessions : s # p => tra'[s] = tra[s]
    BY <2>1, <2>2 DEF TransactionsFit, Typed, TraType
  <2>4. /\ hdr'.next = hdr.next + 1 /\ hdr.next \in Nat
        /\ hdr'.oldest_transaction \in {hdr.oldest_transaction, dbb[p].oldest_transaction}
    BY <2>1, <2>2, Bumped, CountersAre
  <2>5. Moves(p)
    BY <2>1, <2>2, <2>3 DEF Moves, Undecided, Reads
  <2>6. ASSUME NEW n \in 0..MaxTransaction, Known(n) PROVE Known(n)'
    <3>1. /\ n < hdr'.oldest_transaction => Committed(n)
          /\ n < dbb'[p].oldest_transaction => Committed(n)
          /\ n # tra'[p].new
      BY <2>2, <2>3, <2>4, <2>6 DEF Known
    <3> QED
      BY <2>1, <2>2, <2>5, <2>6, <3>1, KnownStays
  <2> QED
    BY <1>1, <2>2, <2>5, <2>6, QuietStepKeeps DEF Quiet
<1> QED
  BY <1>2, <1>3 DEF Commits

LEMMA RollbackIsSafe ==
  ASSUME IInv, NEW p \in Sessions, RollsBack(p)
  PROVE  IInv' /\ Moves(p)
<1>1. Quiet(p) /\ rpb' = rpb /\ tra[p].at = "active" /\ PagesTyped /\ TransactionsFit
  BY DEF RollsBack, TRA_rollback, IInv
<1>2. PagesStay(p)
  <2>1. CASE Flush(p, mark)
    BY <1>1, <2>1, FlushIs, WrittenStay
  <2>2. CASE Forget(p) /\ UNCHANGED <<chain, disk, dirty>>
    BY <1>1, <2>2, ForgetIs, WrittenStay
  <2> QED
    BY <2>1, <2>2 DEF RollsBack
<1>3. CASE SetState(p, "dead")
  BY <1>1, <1>2, <1>3, DecisionIsSafe
<1>4. CASE tra' = [tra EXCEPT ![p].at = "undo"] /\ UNCHANGED <<tip, hdr, dbb, lck, overtook>>
  <2>1. TransactionsFit' /\ Forward
    BY <1>1, <1>4, UndoKeeps
  <2>2. tra'[p].at = "undo" /\ \A s \in Sessions : s # p => tra'[s] = tra[s]
    BY <1>1, <1>4 DEF TransactionsFit, Typed, TraType
  <2>3. Moves(p)
    BY <2>1, <2>2 DEF Moves
  <2>4. \A n \in 0..MaxTransaction : Known(n) => Known(n)'
    BY <1>1, <1>4, <2>2, <2>3, CountersStay
  <2> QED
    BY <1>1, <1>2, <2>3, <2>4, QuietStepKeeps DEF Quiet
<1> QED
  BY <1>3, <1>4 DEF RollsBack, TRA_rollback

LEMMA UndoIsSafe ==
  ASSUME IInv, NEW p \in Sessions, UndoEnds(p) \/ UndoGivesUp(p)
  PROVE  IInv' /\ Moves(p)
<1>1. tra[p].at = "undo" /\ rpb' = rpb /\ PagesTyped
  BY DEF UndoEnds, UndoGivesUp, Undone, UndoFails, IInv
<1>2. Quiet(p)
  BY <1>1, RpbIs DEF UpdateFits, Quiet
<1>3. PagesStay(p)
  <2>1. CASE Flush(p, mark)
    BY <1>1, <2>1, FlushIs, WrittenStay
  <2>2. CASE Forget(p) /\ UNCHANGED <<chain, disk, dirty>>
    BY <1>1, <2>2, ForgetIs, WrittenStay
  <2> QED
    BY <2>1, <2>2 DEF UndoEnds, UndoGivesUp
<1>4. \E state \in {"committed", "dead"} : SetState(p, state)
  BY DEF UndoEnds, UndoGivesUp, Undone, UndoFails
<1> QED
  BY <1>1, <1>2, <1>3, <1>4, DecisionIsSafe

LEMMA NoRpbIs == NoRpb \in RpbType /\ NoRpb.at = "none" /\ NoRpb.swept = {}
BY NumbersAre DEF NoRpb, RpbType

LEMMA DeathIsSafe ==
  ASSUME IInv, NEW p \in Sessions, ProcessDies(p)
  PROVE  IInv' /\ Moves(p)
<1>1. Dies(p) /\ TransactionsFit /\ TransactionsFit' /\ Forward /\ PagesTyped /\ PagesFit
  BY DeathKeeps DEF IInv, ProcessDies
<1>2. /\ hdr' = hdr /\ tra'[p].at = "detached"
      /\ \A s \in Sessions : s # p => tra'[s] = tra[s]
  BY <1>1, NoTraIs DEF Dies, TransactionsFit, Typed, NoTra
<1>3. dbb'[p].oldest_transaction = 0 /\ \A s \in Sessions : s # p => dbb'[s] = dbb[s]
  BY <1>1 DEF Dies, TransactionsFit, Typed
<1>4. Moves(p)
  BY <1>1, <1>2 DEF Moves, Undecided, Reads
<1>5. ASSUME NEW n \in 0..MaxTransaction, Known(n) PROVE Known(n)'
  <2>1. (n < hdr'.oldest_transaction => Committed(n)) /\ ~(n < dbb'[p].oldest_transaction)
    BY <1>2, <1>3, <1>5, NumbersAre DEF Known
  <2> QED
    BY <1>1, <1>2, <1>3, <1>4, <1>5, <2>1, KnownStays
<1>6. PagesStay(p)
  <2>1. /\ chain' = [r \in Records |-> IF dirty[r] = p THEN disk[r] ELSE chain[r]]
        /\ dirty' = [r \in Records |-> IF dirty[r] = p THEN Nobody ELSE dirty[r]]
        /\ mark' \subseteq Records /\ disk' = disk
    BY <1>1 DEF ProcessDies, Forget, PagesTyped
  <2>2. chain' \in [Records -> Seq(VersionType)] /\ dirty' \in [Records -> Sessions \cup {Nobody}]
    BY <1>1, <2>1 DEF PagesTyped
  <2> QED
    BY <1>1, <2>1, <2>2 DEF PagesStay, PagesTyped
<1>7. PagesFit'
  BY <1>1, <1>5, <1>6, PagesStayFit
<1>8. /\ rpb' \in [Sessions -> RpbType] /\ rpb'[p] = NoRpb /\ \A s \in Sessions : s # p => rpb'[s] = rpb[s]
  <2>1. rpb' = [rpb EXCEPT ![p] = NoRpb]
    BY DEF ProcessDies
  <2> QED
    BY <1>1, <2>1, NoRpbIs DEF PagesTyped
<1>9. UpdateFits(p)' /\ SweepFits(p)'
  BY <1>8, NoRpbIs DEF UpdateFits, SweepFits, Swept
<1> QED
  BY <1>4, <1>6, <1>7, <1>8, <1>9, TransactionStepKeeps

LEMMA SweepIsSafe ==
  ASSUME IInv, NEW p \in Sessions, TRA_sweep(p)
  PROVE  IInv' /\ Moves(p)
<1> DEFINE x == tra[p].oldest_active
<1>1. SweepEnds(p) /\ TransactionsFit /\ TransactionsFit' /\ Forward /\ PagesTyped /\ PagesFit
      /\ SweepFits(p)
  BY SweepKeeps DEF IInv, TRA_sweep
<1>2. /\ tra[p].at = "sweep" /\ dbb' = dbb /\ tra'[p].at = "active" /\ tra'[p].number = tra[p].number
      /\ \A s \in Sessions : s # p => tra'[s] = tra[s]
  BY <1>1 DEF SweepEnds, TransactionsFit, Typed, TraType
<1>3. hdr'.oldest_transaction = hdr.oldest_transaction \/ hdr'.oldest_transaction < x
  <2>1. x \in Nat /\ tra[p].top \in Nat /\ hdr.oldest_transaction \in Nat
    BY <1>1, CountersAre, FieldsAre
  <2>2. \/ hdr' = hdr
        \/ hdr.oldest_transaction < x - 1 /\ hdr'.oldest_transaction = Smaller(tra[p].top, x - 1)
    BY <1>1 DEF SweepEnds, TransactionsFit, Typed
  <2>3. hdr.oldest_transaction < x - 1 => Smaller(tra[p].top, x - 1) < x
    BY <2>1 DEF Smaller
  <2> QED
    BY <2>2, <2>3
<1>4. Moves(p)
  BY <1>1, <1>2 DEF Moves, Undecided, Reads
<1>5. ASSUME NEW n \in 0..MaxTransaction, Known(n), n < x => Committed(n) PROVE Known(n)'
  <2>1. n < hdr'.oldest_transaction => Committed(n)
    <3>1. x \in Nat /\ hdr'.oldest_transaction \in Nat /\ n \in Nat
      BY <1>1, CountersAre, FieldsAre, NumbersAre DEF TransactionsFit, Typed
    <3> QED
      BY <1>3, <1>5, <3>1 DEF Known
  <2>2. n < dbb'[p].oldest_transaction => Committed(n)
    BY <1>2, <1>5 DEF Known
  <2> QED
    BY <1>1, <1>2, <1>4, <1>5, <2>1, <2>2, KnownStays
<1>6. /\ PagesStay(p)
      /\ chain' = chain /\ \A q \in Records : disk'[q] = IF dirty[q] = p THEN chain[q] ELSE disk[q]
  <2>1. Flush(p, Records)
    BY DEF TRA_sweep
  <2> QED
    BY <1>1, <2>1, FlushIs, WrittenStay DEF Flush
<1>7. ASSUME NEW q \in Records PROVE VersionsFit(chain[q])' /\ VersionsFit(disk[q])'
  <2>1. CleanAt(p, q)
    <3>1. rpb[p].swept = Records
      BY DEF TRA_sweep
    <3> QED
      BY <1>1, <1>2, <3>1 DEF SweepFits, Swept
  <2>2. ASSUME NEW versions \in Seq(VersionType), VersionsFit(versions), Clean(versions, x)
        PROVE  \A i \in DOMAIN versions : /\ Known(versions[i].tra)'
                                          /\ i > 1 => Committed(versions[i].tra)'
    <3>1. \A i \in DOMAIN versions : versions[i] \in VersionType
      OBVIOUS
    <3>2. \A i \in DOMAIN versions : versions[i].tra \in 0..MaxTransaction
      BY <3>1, VersionIs
    <3> QED
      BY <1>1, <1>5, <2>2, <3>2, CommittedStays DEF VersionsFit, Clean
  <2>3. /\ chain[q] \in Seq(VersionType) /\ disk[q] \in Seq(VersionType)
        /\ VersionsFit(chain[q]) /\ VersionsFit(disk[q])
    BY <1>1 DEF PagesTyped, PagesFit
  <2>4. Clean(chain[q], x) /\ (dirty[q] # p => Clean(disk[q], x))
    BY <2>1 DEF CleanAt
  <2> HIDE DEF x
  <2>5. VersionsFit(chain[q])'
    BY <1>6, <2>2, <2>3, <2>4 DEF VersionsFit
  <2>6. VersionsFit(disk[q])'
    BY <1>6, <2>2, <2>3, <2>4 DEF VersionsFit
  <2> QED
    BY <2>5, <2>6
<1>8. PagesFit'
  BY <1>7 DEF PagesFit
<1>9. /\ rpb' \in [Sessions -> RpbType] /\ rpb'[p] = NoRpb /\ \A s \in Sessions : s # p => rpb'[s] = rpb[s]
  <2>1. rpb' = [rpb EXCEPT ![p] = NoRpb]
    BY DEF TRA_sweep
  <2> QED
    BY <1>1, <2>1, NoRpbIs DEF PagesTyped
<1>10. UpdateFits(p)' /\ SweepFits(p)'
  BY <1>9, NoRpbIs DEF UpdateFits, SweepFits, Swept
<1> QED
  BY <1>4, <1>6, <1>8, <1>9, <1>10, TransactionStepKeeps

LEMMA WaitEndIsSafe ==
  ASSUME IInv, NEW p \in Sessions, WaitEnds(p)
  PROVE  IInv' /\ Moves(p)
<1> DEFINE n == rpb[p].on
           r == rpb[p].rec
<1>1. /\ TransactionsFit /\ PagesTyped /\ PagesFit /\ rpb[p].at = "wait" /\ TRA_wait(p, n)
      /\ UNCHANGED <<chain, disk, dirty, mark>>
  BY DEF IInv, WaitEnds
<1>2. /\ tra[p].at = "active" /\ r \in Records /\ n \in Numbers /\ n <= hdr.next
      /\ ~IsOwn(chain[r], p) /\ n \in 0..MaxTransaction
  <2>1. /\ tra[p].at = "active" /\ r \in Records /\ n <= hdr.next /\ 1 <= n
        /\ ~IsOwn(chain[r], p) /\ n \in 0..MaxTransaction
    BY <1>1, RpbIs DEF UpdateFits
  <2> QED
    BY <2>1, NumbersAre
<1>3. TransactionsFit' /\ Forward
  BY <1>1, <1>2, WaitKeeps
<1>4. /\ UNCHANGED <<hdr, dbb>> /\ tip'[n] = WaitedState(n)
      /\ tra' = tra \/ tra' = [tra EXCEPT ![p].snapshot[n] = WaitedState(n)]
  <2>1. tip' = [tip EXCEPT ![n] = WaitedState(n)] /\ tip \in [Numbers -> States]
    BY <1>1 DEF TRA_wait, TransactionsFit, Typed
  <2> QED
    BY <1>1, <1>2, <2>1 DEF TRA_wait
<1>5. /\ tra'[p].at = "active" /\ tra'[p].number = tra[p].number
      /\ \A s \in Sessions : s # p => tra'[s] = tra[s]
  <2>1. tra \in [Sessions -> TraType]
    BY <1>1 DEF TransactionsFit, Typed
  <2> QED
    BY <1>2, <1>4, <2>1 DEF TraType
<1>6. Moves(p)
  BY <1>2, <1>3, <1>5 DEF Moves, Undecided, Reads
<1>7. \A m \in 0..MaxTransaction : Known(m) => Known(m)'
  BY <1>1, <1>4, <1>5, <1>6, CountersStay
<1>8. PagesStay(p)
  BY <1>1 DEF PagesStay, PagesTyped
<1>9. PagesFit'
  BY <1>1, <1>3, <1>7, <1>8, PagesStayFit
<1>10. n <= hdr'.next /\ 1 <= n /\ rpb[p] \in RpbType /\ rpb[p].swept = {}
  BY <1>2, <1>4, RpbIs, NumbersAre DEF SweepFits
<1>11. ASSUME NEW t \in RpbType, rpb' = [rpb EXCEPT ![p] = t], t.swept = {}, t.rec = r, t.on = n,
              t.at \in {"backout", "update"}, t.at = "backout" => tip'[n] = "dead"
       PROVE  IInv'
  <2>1. rpb' \in [Sessions -> RpbType] /\ rpb'[p] = t /\ \A s \in Sessions : s # p => rpb'[s] = rpb[s]
    BY <1>1, <1>11 DEF PagesTyped
  <2>2. chain'[rpb'[p].rec] = chain[r]
    BY <1>1, <1>11, <2>1
  <2>3. UpdateFits(p)'
    BY <1>2, <1>5, <1>10, <1>11, <2>1, <2>2 DEF UpdateFits, IsOwn
  <2>4. SweepFits(p)'
    BY <1>5, <1>11, <2>1 DEF SweepFits
  <2> QED
    BY <1>6, <1>8, <1>9, <2>1, <2>3, <2>4, TransactionStepKeeps
<1>12. CASE WaitedState(n) = "dead" /\ Step(p, "backout")
  <2> DEFINE t == At(rpb[p], "backout")
  <2>1. rpb' = [rpb EXCEPT ![p] = t]
    BY <1>12 DEF Step, At
  <2>2. t \in RpbType /\ t.at = "backout" /\ t.swept = {} /\ t.rec = r /\ t.on = n
    <3>1. "backout" \in Ats
      BY DEF Ats
    <3> QED
      BY <1>2, <1>10, <3>1, NotesAre
  <2> HIDE DEF t
  <2> QED
    BY <1>4, <1>6, <1>11, <1>12, <2>1, <2>2
<1>13. CASE rpb' = [rpb EXCEPT ![p].at = "update", ![p].conflict = rpb[p].on]
  <2> DEFINE t == AtConflict(rpb[p], "update", n)
  <2>1. rpb' = [rpb EXCEPT ![p] = t]
    BY <1>13 DEF AtConflict
  <2>2. t \in RpbType /\ t.at = "update" /\ t.swept = {} /\ t.rec = r /\ t.on = n
    <3>1. "update" \in Ats
      BY DEF Ats
    <3> QED
      BY <1>2, <1>10, <3>1, NotesAre
  <2> HIDE DEF t
  <2> QED
    BY <1>6, <1>11, <2>1, <2>2
<1>14. CASE Finished(p, r)
  <2>1. RpbKept(p, r) /\ rpb'[p].at = "none"
    BY <1>2, <1>14, FinishedIs
  <2>2. UpdateFits(p)'
    BY <2>1, DoneFits
  <2>3. SweepFits(p)'
    BY <1>2, <1>5, <2>1 DEF SweepFits, RpbKept
  <2> QED
    BY <1>6, <1>8, <1>9, <2>1, <2>2, <2>3, TransactionStepKeeps DEF RpbKept
<1> QED
  BY <1>6, <1>12, <1>13, <1>14 DEF WaitEnds

LEMMA DenialIsSafe ==
  ASSUME IInv, NEW p \in Sessions, WaitDenied(p)
  PROVE  IInv' /\ Moves(p)
<1> DEFINE r == rpb[p].rec
<1>1. /\ TransactionsFit /\ PagesTyped /\ PagesFit /\ rpb[p].at = "wait" /\ Finished(p, r)
      /\ UNCHANGED transactionVars /\ UNCHANGED <<chain, disk, dirty, mark>>
  BY DEF IInv, WaitDenied
<1>2. tra[p].at = "active" /\ r \in Records
  BY <1>1, RpbIs DEF UpdateFits
<1>3. /\ tra' = tra /\ tip' = tip /\ hdr' = hdr /\ dbb' = dbb
      /\ TransactionsFit' /\ Forward
  <2>1. hdr.next \in Nat /\ hdr.oldest_transaction \in Nat
    BY <1>1, NumbersAre DEF TransactionsFit, Typed
  <2> QED
    BY <1>1, <2>1, StaysTyped DEF transactionVars, Forward
<1>4. Moves(p)
  BY <1>2, <1>3 DEF Moves, Undecided, Reads
<1>5. \A m \in 0..MaxTransaction : Known(m) => Known(m)'
  BY <1>3 DEF Known, Committed
<1>6. PagesStay(p)
  BY <1>1 DEF PagesStay, PagesTyped
<1>7. PagesFit'
  BY <1>1, <1>3, <1>5, <1>6, PagesStayFit
<1>8. RpbKept(p, r) /\ rpb'[p].at = "none"
  BY <1>1, <1>2, FinishedIs
<1>9. UpdateFits(p)' /\ SweepFits(p)'
  BY <1>2, <1>3, <1>8, DoneFits DEF SweepFits, RpbKept
<1> QED
  BY <1>4, <1>6, <1>7, <1>8, <1>9, TransactionStepKeeps DEF RpbKept

-----------------------------------------------------------------------------
(* The invariant holds. *)

LEMMA InitIsFine == Init => IInv
<1> SUFFICES ASSUME Init PROVE IInv
  OBVIOUS
<1> DEFINE first == Version(0, 0, FALSE)
<1>1. /\ tip = [n \in Numbers |-> "active"]
      /\ hdr = [next |-> 0, oldest_transaction |-> 1, oldest_active |-> 0, oldest_snapshot |-> 0]
      /\ dbb = [p \in Sessions |-> [oldest_transaction |-> 1, oldest_active |-> 0, oldest_snapshot |-> 0]]
      /\ lck = [n \in Numbers |-> 0] /\ tra = [p \in Sessions |-> NoTra] /\ overtook = {}
      /\ chain = [r \in Records |-> <<first>>] /\ disk = chain
      /\ dirty = [r \in Records |-> Nobody] /\ mark = {} /\ rpb = [p \in Sessions |-> NoRpb]
  BY DEF Init, Init_tra
<1>2. first \in VersionType /\ first.tra = 0
  BY NumbersAre DEF Version, VersionType
<1> HIDE DEF first
<1>3. <<first>> \in Seq(VersionType) /\ DOMAIN <<first>> = {1} /\ <<first>>[1] = first
      /\ <<first>> # <<>> /\ Head(<<first>>) = first
  BY <1>2, OneIs
<1>4. Typed
  BY <1>1, NoTraIs, NumbersAre DEF Typed, States
<1>5. PagesTyped
  BY <1>1, <1>3, NoRpbIs DEF PagesTyped
<1>6. LocksFit
  BY <1>1, NumbersAre DEF LocksFit
<1>7. Over(0) /\ Over(1)
  BY <1>1, NumbersAre DEF Over
<1>8. HeaderFits
  BY <1>1, <1>7 DEF HeaderFits
<1>9. ASSUME NEW p \in Sessions PROVE NumberFits(p) /\ CountersFit(p) /\ SnapshotFits(p)
  <2>1. tra[p] = NoTra /\ ~Undecided(p)
    BY <1>1, NoTraIs DEF Undecided, Reads
  <2>2. NumberFits(p)
    BY <2>1, NoTraIs DEF NumberFits
  <2>3. CountersFit(p)
    BY <1>1, <1>7, <2>1, NoTraIs DEF CountersFit
  <2>4. SnapshotFits(p)
    BY <2>1, NoTraIs DEF SnapshotFits
  <2> QED
    BY <2>2, <2>3, <2>4
<1>10. \A p, q \in Sessions : p # q => Apart(p, q)
  BY <1>1, NoTraIs DEF Apart
<1>11. TransactionsFit
  BY <1>4, <1>6, <1>8, <1>9, <1>10 DEF TransactionsFit
<1>12. Known(0)
  <2>1. \A p \in Sessions : tra[p].at # "retain"
    BY <1>1, NoTraIs
  <2> QED
    BY <1>1, <2>1 DEF Known, Committed
<1>13. PagesFit
  BY <1>1, <1>2, <1>3, <1>12 DEF PagesFit, VersionsFit
<1>14. ASSUME NEW p \in Sessions PROVE UpdateFits(p) /\ OwnKept(p) /\ SweepFits(p)
  <2>1. tra[p] = NoTra /\ rpb[p] = NoRpb
    BY <1>1
  <2> QED
    BY <2>1, NoTraIs, NoRpbIs DEF UpdateFits, OwnKept, SweepFits, Undecided, Reads
<1> QED
  BY <1>5, <1>11, <1>13, <1>14 DEF IInv

LEMMA StutterIsFine ==
  ASSUME IInv, UNCHANGED vars PROVE IInv'
<1>1. /\ tip' = tip /\ hdr' = hdr /\ dbb' = dbb /\ lck' = lck /\ tra' = tra /\ overtook' = overtook
      /\ chain' = chain /\ disk' = disk /\ dirty' = dirty /\ mark' = mark /\ rpb' = rpb
  BY DEF vars, transactionVars
<1>2. TransactionsFit' <=> TransactionsFit
  BY <1>1 DEF TransactionsFit, Typed, LocksFit, HeaderFits, NumberFits, CountersFit, SnapshotFits,
              Apart, Over, Undecided, Reads
<1>3. PagesTyped' /\ PagesFit'
  BY <1>1 DEF IInv, PagesTyped, PagesFit, VersionsFit, Known, Committed
<1>4. ASSUME NEW p \in Sessions PROVE UpdateFits(p)' /\ OwnKept(p)' /\ SweepFits(p)'
  BY <1>1 DEF IInv, UpdateFits, OwnKept, SweepFits, Swept, CleanAt, Clean, Committed, IsOwn, Undecided, Reads
<1> QED
  BY <1>2, <1>3, <1>4 DEF IInv

LEMMA NextKeeps ==
  ASSUME IInv, Next PROVE IInv'
<1>1. ASSUME NEW p \in Sessions, Starts(p) PROVE IInv'
  BY <1>1, StartIsSafe, InventoryIsSafe, CleanupIsSafe, OldestIsSafe, RetainIsSafe, RetainedIsSafe,
     ReleaseIsSafe, AttachIsSafe DEF Starts
<1>2. ASSUME NEW p \in Sessions,
             \/ Commits(p) \/ RollsBack(p) \/ UndoEnds(p) \/ UndoGivesUp(p)
             \/ TRA_sweep(p) \/ ProcessDies(p) \/ WaitEnds(p) \/ WaitDenied(p)
      PROVE  IInv'
  BY <1>2, CommitIsSafe, RollbackIsSafe, UndoIsSafe, SweepIsSafe, DeathIsSafe, WaitEndIsSafe,
     DenialIsSafe
<1>3. ASSUME NEW p \in Sessions, NEW r \in Records, \E op \in Operations : VIO_get(p, r, op)
      PROVE  IInv'
  BY <1>3, GetKeeps
<1>4. ASSUME NEW p \in Sessions, NEW r \in Records,
             \/ VIO_sweep(p, r) \/ VIO_store(p, r) \/ VIO_verb_cleanup(p, r)
             \/ ChaseBacksOut(p, r) \/ purge(p, r) \/ ChaseExpunges(p, r) \/ expunge(p, r)
      PROVE  IInv'
  BY <1>4, SweepSees, StoreKeeps, UnmakeKeeps, BackOutKeeps, PurgeKeeps, ExpungeStarts, ExpungeKeeps
<1>5. ASSUME NEW p \in Sessions, NEW r \in Records,
             \/ Replaces(p, r) \/ CorrectsPointers(p, r) \/ NothingToUpdate(p, r)
             \/ UpdateBlocked(p, r) \/ VIO_backout(p, r)
      PROVE  IInv'
  BY <1>5, ReplaceKeeps, CorrectKeeps, NothingKeeps, BlockKeeps, BackoutKeeps
<1>6. ASSUME NEW r \in Records, CacheWrites(r) PROVE IInv'
  BY <1>6, CacheIsSafe
<1> QED
  BY <1>1, <1>2, <1>3, <1>4, <1>5, <1>6 DEF Next

(* The inductive invariant holds in every state: the numbers and the locks on them, the
   counters, the snapshots, the versions in the caches and in the file, and what the
   statements and the sweep rely on between two looks at a page fit together. *)
THEOREM Invariance == Spec => []IInv
<1>1. IInv /\ [Next]_vars => IInv'
  BY NextKeeps, StutterIsFine
<1> QED
  BY InitIsFine, <1>1, PTL DEF Spec

(* The counters of the header page, of the processes and of the transactions stay within the
   numbers and every state a step looks at is one of those the code knows: no counter passes
   below zero or above the last number (bump_transaction_id and the end of TRA_start). *)
THEOREM TypeCorrect == Spec => []TypeOK
<1>1. IInv => TypeOK
  BY DEF IInv, TransactionsFit, Typed, PagesTyped, TypeOK
<1> QED
  BY Invariance, <1>1, PTL

(* Nobody declares a transaction dead whose process lives and has not decided about it: not a
   start that cleans up, not a waiter, and not the cleanup of the first to attach
   (TRA_wait, TRA_cleanup). *)
THEOREM ActiveIsAlwaysAlive == Spec => []ActiveIsAlive
<1>1. IInv => ActiveIsAlive
  BY DEF IInv, TransactionsFit, NumberFits, ActiveIsAlive
<1> QED
  BY Invariance, <1>1, PTL

(* Only the primary version of a record may be the work of a transaction that did not commit,
   whoever updates, backs out, purges, expunges, undoes or dies (prepare_update, VIO_backout). *)
THEOREM BackVersionsAreCommitted == Spec => []BackVersionsCommitted
<1>1. ASSUME IInv PROVE BackVersionsCommitted
  <2>1. \A r \in Records : chain[r] \in Seq(VersionType) /\ VersionsFit(chain[r])
    BY <1>1 DEF IInv, PagesTyped, PagesFit
  <2>2. \A r \in Records : \A i \in 2..Len(chain[r]) : i \in DOMAIN chain[r] /\ i > 1
    BY <2>1
  <2> QED
    BY <2>1, <2>2 DEF BackVersionsCommitted, VersionsFit
<1> QED
  BY Invariance, <1>1, PTL

(* No dirty read: the version of a record a snapshot sees is its own work or committed, by
   what it read of the inventory or because it is older than all the inventory was read for
   (TRA_snapshot_state). *)
THEOREM VisibleIsAlwaysCommitted == Spec => []VisibleIsCommitted
<1>1. ASSUME IInv PROVE VisibleIsCommitted
  <2> SUFFICES ASSUME NEW p \in Sessions, NEW r \in Records, View(p, r).tra \notin Own(p)
               PROVE  Committed(View(p, r).tra)
    BY DEF VisibleIsCommitted
  <2>1. CASE View(p, r) = NoVersion
    BY <2>1 DEF NoVersion, Version, Committed
  <2>2. CASE View(p, r) # NoVersion
    <3>1. PICK i \in Seen(p, r) : View(p, r) = chain[r][i]
      BY <1>1, <2>2, NewestIs DEF View
    <3>2. i \in DOMAIN chain[r] /\ State(p, chain[r][i].tra) \in {"us", "committed"}
      BY DEF Seen
    <3>3. Known(chain[r][i].tra) /\ chain[r][i].tra \in 0..MaxTransaction
      BY <1>1, <3>1, <3>2, NewestIs DEF IInv, PagesFit, VersionsFit
    <3> QED
      BY <1>1, <3>1, <3>2, <3>3, StateIs DEF IInv, Own
  <2> QED
    BY <2>1, <2>2
<1> QED
  BY Invariance, <1>1, PTL

(* What is older than the oldest interesting transaction of the header page needs no
   inventory: every version of it in a cache or in the file is of a transaction that
   committed, also after a sweep raised the counter over dead transactions and when a process
   dies before it wrote what it swept (TRA_sweep, bump_transaction_id). *)
THEOREM OldestIsAlwaysSettled == Spec => []OldestIsSettled
<1>1. ASSUME IInv PROVE OldestIsSettled
  <2>1. ASSUME NEW versions, VersionsFit(versions), NEW v \in ToSet(versions),
               v.tra < hdr.oldest_transaction
        PROVE  Committed(v.tra)
    <3>1. PICK i \in DOMAIN versions : v = versions[i]
      BY <2>1 DEF ToSet
    <3> QED
      BY <2>1, <3>1 DEF VersionsFit, Known
  <2>2. \A r \in Records : VersionsFit(chain[r]) /\ VersionsFit(disk[r])
    BY <1>1 DEF IInv, PagesFit
  <2> QED
    BY <2>1, <2>2 DEF OldestIsSettled
<1> QED
  BY Invariance, <1>1, PTL
=============================================================================
