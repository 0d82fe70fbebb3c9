--------------------------- MODULE SnapshotProofs ---------------------------
(***************************************************************************)
(* More theorems about RecordVersions: updates are made from the version   *)
(* they replace, what committed stays, in the caches and in the file, a    *)
(* transaction finds the same versions from its start to its end, and a    *)
(* later snapshot has what an earlier one has.                             *)
(***************************************************************************)
EXTENDS RecordVersionsProofs

-----------------------------------------------------------------------------
(* The inductive invariant of updates, beside that of RecordVersionsProofs. *)

(* Every version was made from the one behind it. *)
Follows(versions) ==
  \A i \in DOMAIN versions : i + 1 \in DOMAIN versions => versions[i].base = versions[i + 1].tra

(* p is in the middle of an update and has let the page of its record go. *)
Changes(p) == rpb[p].at \in {"update", "wait", "backout"}

(* The newest version the snapshot of p has committed, if there is one left, is of n. *)
Leading(p, versions, i) ==
  /\ State(p, versions[i].tra) = "committed"
  /\ \A j \in DOMAIN versions : j < i => State(p, versions[j].tra) # "committed"

LedBy(p, versions, n) == \A i \in DOMAIN versions : Leading(p, versions, i) => versions[i].tra = n

(* What p read for its update is still the newest its snapshot has. *)
ReadKept(p) ==
  Changes(p) => /\ LedBy(p, chain[rpb[p].rec], rpb[p].read)
                /\ dirty[rpb[p].rec] # p => LedBy(p, disk[rpb[p].rec], rpb[p].read)

(* An expunge finds nothing below its oldest active transaction that is not committed, though
   it does not ask. *)
ExpungeFits(p) == rpb[p].at = "expunge" => CleanAt(p, rpb[p].rec)

(* The newest committed version: only the primary one may be anybody's who did not commit. *)
Top(versions) ==
  IF versions = <<>> THEN NoVersion
  ELSE IF Committed(Head(versions).tra) THEN Head(versions)
  ELSE IF Tail(versions) = <<>> THEN NoVersion ELSE Head(Tail(versions))

(* The record is the same to who sees v and to who sees w. *)
Same(v, w) == v = w \/ (v.del /\ w.del)

(* The file has the newest committed version too, or has the record erased as well. *)
FileKept == \A r \in Records : Same(Top(chain[r]), Top(disk[r]))

(* The page in the file has the same version of p's transaction as the cache. *)
Even(p, versions, others) ==
  IsOwn(versions, p) /\ IsOwn(others, p) /\ Head(versions) = Head(others)

(* What a commit of p has to write is marked for it. *)
OwnMarked(p) ==
  Undecided(p) =>
    \A r \in Records : IsOwn(chain[r], p) \/ IsOwn(disk[r], p) =>
      \/ dirty[r] = p /\ r \in mark /\ tra[p].at # "retain"
      \/ Even(p, chain[r], disk[r])

BInv ==
  /\ IInv /\ FileKept
  /\ \A r \in Records : Follows(chain[r]) /\ Follows(disk[r])
  /\ \A p \in Sessions : ReadKept(p) /\ ExpungeFits(p) /\ OwnMarked(p)

(* What a step does to the newest committed version of a record: it stays, is erased as it
   was, or is one that had not committed. *)
KeptBy(r) == Same(Top(chain[r]), Top(chain[r])') \/ ~Committed(Top(chain[r])'.tra)
TopsKept == \A r \in Records : KeptBy(r)

-----------------------------------------------------------------------------
(* Versions. *)

LEMMA SameIsSymmetric ==
  /\ \A v : Same(v, v)
  /\ \A v, w : Same(v, w) => Same(w, v)
  /\ \A u, v, w : Same(u, v) /\ Same(v, w) => Same(u, w)
BY DEF Same

LEMMA SecondIs ==
  ASSUME NEW s \in Seq(VersionType), s # <<>>, VersionsFit(s)
  PROVE  /\ Tail(s) \in Seq(VersionType)
         /\ Tail(s) # <<>> => /\ Committed(Head(Tail(s)).tra) /\ Head(Tail(s)) = s[2]
                              /\ 2 \in DOMAIN s
<1>1. /\ Tail(s) \in Seq(VersionType)
      /\ \A i \in DOMAIN Tail(s) : i + 1 \in DOMAIN s /\ i + 1 > 1 /\ Tail(s)[i] = s[i + 1]
  BY TailIs
<1>2. Tail(s) # <<>> => Head(Tail(s)) = Tail(s)[1] /\ 1 \in DOMAIN Tail(s)
  BY <1>1, TailIs
<1> QED
  BY <1>1, <1>2 DEF VersionsFit

LEMMA TopOfTail ==
  ASSUME NEW s \in Seq(VersionType), s # <<>>, VersionsFit(s), ~Committed(Head(s).tra)
  PROVE  Top(Tail(s)) = Top(s)
BY SecondIs DEF Top

LEMMA TopOfHead ==
  ASSUME NEW v \in VersionType, Committed(v.tra)
  PROVE  Top(<<v>>) = v
BY OneIs DEF Top

LEMMA TopOfOne ==
  ASSUME NEW v \in VersionType, ~Committed(v.tra)
  PROVE  Top(<<v>>) = NoVersion
BY OneIs DEF Top

LEMMA TopOfCons ==
  ASSUME NEW s \in Seq(VersionType), NEW v \in VersionType, ~Committed(v.tra), s # <<>>,
         Committed(Head(s).tra)
  PROVE  Top(<<v>> \o s) = Top(s)
<1> DEFINE t == <<v>> \o s
<1>1. t # <<>> /\ Head(t) = v
  BY ConsIs
<1>2. Tail(t) = s
  OBVIOUS
<1> HIDE DEF t
<1>3. Top(t) = Head(s) /\ Top(s) = Head(s)
  BY <1>1, <1>2 DEF Top
<1> QED
  BY <1>3 DEF t

\* The domain of a sequence of one element.
LEMMA OneLong ==
  ASSUME NEW s \in Seq(VersionType), s # <<>>, Tail(s) = <<>>
  PROVE  DOMAIN s = {1}
<1>1. Len(s) \in Nat /\ DOMAIN s = 1..Len(s)
  OBVIOUS
<1>2. Len(Tail(s)) = Len(s) - 1
  OBVIOUS
<1>3. Len(Tail(s)) = 0
  <2>1. Len(<<>>) = 0
    OBVIOUS
  <2> QED
    BY <2>1
<1>4. Len(s) = 1
  BY <1>1, <1>2, <1>3
<1>5. 1..1 = {1}
  OBVIOUS
<1> QED
  BY <1>1, <1>4, <1>5

LEMMA LeastIs ==
  ASSUME NEW S \in SUBSET Nat, NEW x \in S, \A y \in S : x <= y
  PROVE  Min(S) = x
<1>1. Min(S) \in S /\ \A y \in S : Min(S) <= y
  BY DEF Min
<1>2. Min(S) <= x /\ x <= Min(S) /\ x \in Nat /\ Min(S) \in Nat
  BY <1>1
<1> QED
  BY <1>2

\* The newest committed version of a record, as the properties look for it.
NewestAreTops == \A r \in Records : NewestCommitted(r) = Top(chain[r])

LEMMA NewestIsTop == IInv => NewestAreTops
<1> SUFFICES ASSUME IInv, NEW r \in Records PROVE NewestCommitted(r) = Top(chain[r])
  BY DEF NewestAreTops
<1> DEFINE s == chain[r]
           is == {i \in DOMAIN s : Committed(s[i].tra)}
<1>1. s \in Seq(VersionType) /\ VersionsFit(s)
  BY DEF IInv, PagesTyped, PagesFit
<1>2. NewestCommitted(r) = IF is = {} THEN NoVersion ELSE s[Min(is)]
  BY DEF NewestCommitted
<1> HIDE DEF s
<1>3. is \in SUBSET Nat /\ is \in SUBSET (Nat \ {0})
  BY <1>1
<1>4. ASSUME s = <<>> PROVE NewestCommitted(r) = Top(s)
  BY <1>2, <1>4, NoneIs DEF Top
<1>5. ASSUME s # <<>> PROVE Head(s) = s[1] /\ 1 \in DOMAIN s
  BY <1>1, <1>5, TailIs
<1>6. ASSUME s # <<>>, Committed(Head(s).tra)
      PROVE  NewestCommitted(r) = Top(s)
  <2>1. 1 \in is
    BY <1>5, <1>6
  <2>2. Min(is) = 1
    BY <1>3, <2>1, LeastOne
  <2> QED
    BY <1>2, <1>5, <1>6, <2>1, <2>2 DEF Top
<1>7. ASSUME s # <<>>, ~Committed(Head(s).tra), Tail(s) = <<>>
      PROVE  NewestCommitted(r) = Top(s)
  <2>1. DOMAIN s = {1}
    BY <1>1, <1>7, OneLong
  <2>2. is = {}
    BY <1>5, <1>7, <2>1
  <2> QED
    BY <1>2, <1>7, <2>2 DEF Top
<1>8. ASSUME s # <<>>, ~Committed(Head(s).tra), Tail(s) # <<>>
      PROVE  NewestCommitted(r) = Top(s)
  <2>1. Committed(s[2].tra) /\ Head(Tail(s)) = s[2] /\ 2 \in is
    BY <1>1, <1>8, SecondIs
  <2>2. 1 \notin is
    BY <1>5, <1>8
  <2>3. \A i \in is : 2 <= i
    BY <1>3, <2>2
  <2>4. Min(is) = 2
    BY <1>3, <2>1, <2>3, LeastIs
  <2> QED
    BY <1>2, <1>8, <2>1, <2>4 DEF Top
<1>9. NewestCommitted(r) = Top(s)
  BY <1>4, <1>6, <1>7, <1>8
<1> QED
  BY <1>9 DEF s

-----------------------------------------------------------------------------
(* Steps on a page. *)

\* The snapshots are what they were.
SameSnapshots ==
  \A s \in Sessions : /\ tra'[s].top = tra[s].top /\ tra'[s].oldest = tra[s].oldest
                      /\ tra'[s].sub = tra[s].sub /\ tra'[s].snapshot = tra[s].snapshot

\* What p makes of the page of r: it is written, or it is changed and p's to write, or
\* it is p's and only looked at.
Touched(p, r, versions) ==
  /\ chain' = [chain EXCEPT ![r] = versions]
  /\ \A q \in Records : q # r =>
       \/ disk'[q] = chain[q]
       \/ disk'[q] = disk[q] /\ dirty'[q] = dirty[q] /\ (q \in mark => q \in mark')
  /\ \/ disk'[r] = versions
     \/ /\ dirty'[r] = p /\ r \in mark' /\ tra[p].at # "retain"
        /\ disk'[r] = chain[r] \/ (disk'[r] = disk[r] /\ dirty[r] = p)
     \/ /\ versions = chain[r] /\ disk'[r] = disk[r] /\ dirty[r] = p /\ dirty'[r] = p
        /\ r \in mark => r \in mark'

LEMMA ChangeTouches ==
  ASSUME PagesTyped, NEW p \in Sessions, NEW r \in Records, NEW versions \in Seq(VersionType),
         Change(p, r, versions), tra[p].at # "retain"
  PROVE  Touched(p, r, versions)
<1>1. chain' = [chain EXCEPT ![r] = versions] /\ chain'[r] = versions
      /\ \A q \in Records : q # r => chain'[q] = chain[q]
  BY DEF Change, PagesTyped
<1>2. CASE Mortal = {}
  <2>1. disk' = chain'
    BY <1>2 DEF Change
  <2> QED
    BY <1>1, <2>1 DEF Touched
<1>3. CASE Mortal # {}
  <2>1. /\ disk' = [disk EXCEPT ![r] = IF dirty[r] = p THEN @ ELSE chain[r]]
        /\ dirty' = [dirty EXCEPT ![r] = p] /\ mark' = mark \cup {r}
    BY <1>3 DEF Change
  <2>2. /\ disk'[r] = IF dirty[r] = p THEN disk[r] ELSE chain[r]
        /\ dirty'[r] = p /\ r \in mark' /\ mark \subseteq mark'
        /\ \A q \in Records : q # r => disk'[q] = disk[q] /\ dirty'[q] = dirty[q]
    BY <2>1 DEF PagesTyped
  <2> QED
    BY <1>1, <2>2 DEF Touched
<1> QED
  BY <1>2, <1>3

LEMMA AccessTouches ==
  ASSUME PagesTyped, NEW p \in Sessions, NEW r \in Records, Access(p, r)
  PROVE  Touched(p, r, chain[r])
<1>1. /\ disk' = [disk EXCEPT ![r] = IF dirty[r] = p THEN @ ELSE chain[r]]
      /\ dirty' = [dirty EXCEPT ![r] = IF @ = p THEN p ELSE Nobody]
      /\ mark' = (IF dirty[r] = p THEN mark ELSE mark \ {r}) /\ chain' = chain
  BY DEF Access
<1>2. /\ disk'[r] = IF dirty[r] = p THEN disk[r] ELSE chain[r]
      /\ dirty[r] = p => dirty'[r] = p /\ mark' = mark
      /\ \A q \in Records : q # r => disk'[q] = disk[q] /\ dirty'[q] = dirty[q]
                                   /\ (q \in mark => q \in mark')
      /\ chain' = [chain EXCEPT ![r] = chain[r]]
  BY <1>1 DEF PagesTyped
<1> QED
  BY <1>2 DEF Touched

\* The versions of r may be replaced by others: nobody's view of what committed changes,
\* and nobody but p has work there.
Proper(p, r, versions) ==
  /\ Follows(versions) /\ Same(Top(versions), Top(chain[r]))
  /\ \A s \in Sessions : \A n : LedBy(s, chain[r], n) => LedBy(s, versions, n)
  /\ \/ versions = chain[r]
     \/ \A s \in Sessions : s # p /\ Undecided(s) => ~IsOwn(versions, s) /\ ~IsOwn(chain[r], s)

LEMMA SameIsProper ==
  ASSUME BInv, NEW p \in Sessions, NEW r \in Records
  PROVE  Proper(p, r, chain[r])
BY SameIsSymmetric DEF Proper, BInv

\* What p notes while it has the page of r.
Notes(p, r) ==
  /\ \A s \in Sessions : s # p => rpb'[s] = rpb[s]
  /\ Changes(p)' =>
       \/ Changes(p) /\ rpb'[p].rec = rpb[p].rec /\ rpb'[p].read = rpb[p].read
       \/ rpb'[p].rec = r /\ LedBy(p, chain[r], rpb'[p].read)
  /\ rpb'[p].at = "expunge" =>
       \/ rpb[p].at = "expunge" /\ rpb'[p].rec = rpb[p].rec
       \/ rpb'[p].rec = r /\ Clean(chain[r], tra[p].oldest_active)

\* An update goes on from what was read, if the snapshot has the same committed.
LEMMA ReadStays ==
  ASSUME IInv', NEW s \in Sessions, NEW q, NEW n,
         \A m \in 0..MaxTransaction : State(s, m)' = "committed" <=> State(s, m) = "committed",
         Changes(s)' => /\ rpb'[s].rec = q /\ rpb'[s].read = n
                        /\ LedBy(s, chain'[q], n)
                        /\ dirty'[q] # s => LedBy(s, disk'[q], n)
  PROVE  ReadKept(s)'
<1> SUFFICES ASSUME Changes(s)' PROVE /\ LedBy(s, chain[rpb[s].rec], rpb[s].read)'
                                      /\ dirty'[q] # s => LedBy(s, disk[rpb[s].rec], rpb[s].read)'
  BY DEF ReadKept
<1>1. chain'[q] \in Seq(VersionType) /\ disk'[q] \in Seq(VersionType)
  BY DEF IInv, PagesTyped, UpdateFits, Changes
<1>2. ASSUME NEW vs \in Seq(VersionType)
      PROVE  \A i \in DOMAIN vs : vs[i].tra \in 0..MaxTransaction
  <2>1. \A i \in DOMAIN vs : vs[i] \in VersionType
    OBVIOUS
  <2> QED
    BY <2>1, VersionIs
<1>3. LedBy(s, chain[rpb[s].rec], rpb[s].read)'
  BY <1>1, <1>2 DEF LedBy, Leading
<1>4. dirty'[q] # s => LedBy(s, disk[rpb[s].rec], rpb[s].read)'
  BY <1>1, <1>2 DEF LedBy, Leading
<1> QED
  BY <1>3, <1>4

LEMMA SameStates ==
  ASSUME SameTransactions, SameSnapshots
  PROVE  \A s \in Sessions : \A m : State(s, m)' = State(s, m)
BY DEF SameTransactions, SameSnapshots, State, TRA_snapshot_state

LEMMA PageStepHolds ==
  ASSUME BInv, IInv', NEW p \in Sessions, NEW r \in Records, NEW versions,
         Good(p, r, versions), Changed(p, r, versions), Touched(p, r, versions),
         Proper(p, r, versions), SameTransactions, SameSnapshots, Notes(p, r)
  PROVE  BInv' /\ TopsKept
<1>1. /\ IInv /\ PagesTyped /\ PagesFit /\ TransactionsFit
      /\ \A s \in Sessions : UpdateFits(s) /\ ReadKept(s) /\ ExpungeFits(s) /\ OwnMarked(s)
  BY DEF BInv, IInv
<1>2. /\ \A q \in Records : chain'[q] = IF q = r THEN versions ELSE chain[q]
      /\ \A q \in Records : disk'[q] \in {chain'[q], chain[q], disk[q]}
  BY <1>1 DEF Touched, PagesTyped
<1>3. \A q \in Records : Top(chain[q])' = Top(chain'[q]) /\ Top(disk[q])' = Top(disk'[q])
  BY DEF SameTransactions, Top, Committed
<1>4. \A q \in Records : Same(Top(chain[q]), Top(chain'[q])) /\ Same(Top(chain'[q]), Top(disk'[q]))
  BY <1>2, SameIsSymmetric DEF Proper, BInv, FileKept
<1>5. FileKept' /\ TopsKept
  BY <1>3, <1>4 DEF FileKept, TopsKept, KeptBy, Same
<1>6. \A q \in Records : Follows(chain[q])' /\ Follows(disk[q])'
  BY <1>2 DEF Follows, Proper, BInv
<1>7. ASSUME NEW s \in Sessions PROVE ReadKept(s)'
  <2> DEFINE q == rpb'[s].rec
             n == rpb'[s].read
  <2>1. \A m \in 0..MaxTransaction : State(s, m)' = "committed" <=> State(s, m) = "committed"
    BY SameStates
  <2>2. ASSUME Changes(s)' PROVE LedBy(s, chain'[q], n) /\ (dirty'[q] # s => LedBy(s, disk'[q], n))
    <3>1. CASE Changes(s) /\ q = rpb[s].rec /\ n = rpb[s].read
      <4>1. LedBy(s, chain[q], n) /\ (dirty[q] # s => LedBy(s, disk[q], n)) /\ q \in Records
        BY <1>1, <3>1 DEF ReadKept, UpdateFits, Changes
      <4>2. LedBy(s, chain'[q], n)
        BY <1>2, <4>1 DEF Proper
      <4> QED
        BY <4>1, <4>2, <1>2 DEF Touched
    <3>2. CASE s = p /\ q = r /\ LedBy(p, chain[r], n)
      <4>1. LedBy(s, chain'[q], n)
        BY <1>2, <3>2 DEF Proper
      <4> QED
        BY <3>2, <4>1, <1>2 DEF Touched
    <3> QED
      BY <2>2, <3>1, <3>2 DEF Notes, Changes
  <2> QED
    BY <2>1, <2>2, ReadStays
<1>8. ASSUME NEW s \in Sessions PROVE ExpungeFits(s)'
  <2>1. /\ \A q \in Records : CleanAt(s, q) => CleanAt(s, q)'
        /\ Clean(chain[r], tra[p].oldest_active) => CleanAt(p, r)'
    BY <1>1, PagesKeep
  <2> SUFFICES ASSUME rpb'[s].at = "expunge" PROVE CleanAt(s, rpb[s].rec)'
    BY DEF ExpungeFits
  <2>2. CASE rpb[s].at = "expunge" /\ rpb'[s].rec = rpb[s].rec
    <3> DEFINE q == rpb[s].rec
    <3>1. q \in Records /\ CleanAt(s, q)
      BY <1>1, <2>2 DEF ExpungeFits, UpdateFits
    <3>2. CleanAt(s, q)'
      BY <2>1, <2>2, <3>1 DEF CleanAt
    <3> QED
      BY <2>2, <3>2 DEF CleanAt
  <2>3. CASE s = p /\ rpb'[p].rec = r /\ Clean(chain[r], tra[p].oldest_active)
    BY <2>1, <2>3 DEF CleanAt
  <2> QED
    BY <2>2, <2>3 DEF Notes
<1>9. ASSUME NEW s \in Sessions PROVE OwnMarked(s)'
  <2> SUFFICES ASSUME Undecided(s), NEW q \in Records, IsOwn(chain'[q], s) \/ IsOwn(disk'[q], s)
               PROVE  \/ dirty'[q] = s /\ q \in mark' /\ tra[s].at # "retain"
                      \/ Even(s, chain'[q], disk'[q])
    BY SameIs DEF OwnMarked, Even, IsOwn, SameTransactions
  <2>1. ASSUME IsOwn(chain[q], s) \/ IsOwn(disk[q], s)
        PROVE  \/ dirty[q] = s /\ q \in mark /\ tra[s].at # "retain"
               \/ Even(s, chain[q], disk[q])
    BY <1>1, <2>1 DEF OwnMarked
  <2>2. CASE disk'[q] = chain'[q]
    BY <2>2 DEF Even
  <2>3. CASE q # r /\ disk'[q] # chain[q]
    BY <1>2, <2>1, <2>3 DEF Touched
  <2>4. CASE /\ q = r /\ dirty'[r] = p /\ r \in mark' /\ tra[p].at # "retain"
             /\ disk'[r] = chain[r] \/ (disk'[r] = disk[r] /\ dirty[r] = p)
    <3>1. CASE s = p
      BY <2>4, <3>1
    <3>2. CASE s # p /\ versions = chain[r]
      BY <1>2, <2>1, <2>4, <3>2 DEF Even
    <3>3. CASE s # p /\ ~IsOwn(versions, s) /\ ~IsOwn(chain[r], s)
      BY <1>2, <2>1, <2>4, <3>3 DEF Even
    <3> QED
      BY <3>1, <3>2, <3>3 DEF Proper
  <2>5. CASE /\ q = r /\ versions = chain[r] /\ disk'[r] = disk[r] /\ dirty[r] = p /\ dirty'[r] = p
             /\ r \in mark => r \in mark'
    BY <1>2, <2>1, <2>5
  <2> QED
    BY <1>2, <2>2, <2>3, <2>4, <2>5 DEF Touched
<1> QED
  BY <1>5, <1>6, <1>7, <1>8, <1>9 DEF BInv

LEMMA ChangeHolds ==
  ASSUME BInv, IInv', NEW p \in Sessions, NEW r \in Records, NEW versions,
         Change(p, r, versions), Good(p, r, versions), Proper(p, r, versions),
         tra[p].at # "retain", SameTransactions, SameSnapshots, Notes(p, r)
  PROVE  BInv' /\ TopsKept
<1>1. PagesTyped /\ versions \in Seq(VersionType)
  BY DEF BInv, IInv, Good
<1>2. Changed(p, r, versions) /\ Touched(p, r, versions)
  BY <1>1, ChangeIs, ChangeTouches
<1> QED
  BY <1>2, PageStepHolds

LEMMA AllSame ==
  ASSUME UNCHANGED transactionVars
  PROVE  SameTransactions /\ SameSnapshots
BY DEF transactionVars, SameTransactions, SameSnapshots

LEMMA LookHolds ==
  ASSUME BInv, IInv', NEW p \in Sessions, NEW r \in Records, Access(p, r),
         UNCHANGED transactionVars, Notes(p, r)
  PROVE  BInv' /\ TopsKept
<1>1. PagesTyped /\ PagesFit
  BY DEF BInv, IInv
<1>2. Changed(p, r, chain[r]) /\ Touched(p, r, chain[r]) /\ Good(p, r, chain[r])
  BY <1>1, AccessIs, AccessTouches, SameIsGood
<1>3. Proper(p, r, chain[r]) /\ SameTransactions /\ SameSnapshots
  BY SameIsProper, AllSame
<1> QED
  BY <1>2, <1>3, PageStepHolds

-----------------------------------------------------------------------------
(* What may take the place of the versions of a record. *)

LEMMA ChainIs ==
  ASSUME BInv, NEW r \in Records
  PROVE  /\ chain[r] \in Seq(VersionType) /\ VersionsFit(chain[r]) /\ Follows(chain[r])
         /\ \A i \in DOMAIN chain[r] : /\ chain[r][i].tra \in 0..MaxTransaction
                                       /\ Known(chain[r][i].tra) /\ i \in Nat
         /\ \A s \in Sessions : \A i \in DOMAIN chain[r] :
              State(s, chain[r][i].tra) = "committed" => Committed(chain[r][i].tra)
<1>1. chain[r] \in Seq(VersionType) /\ VersionsFit(chain[r]) /\ Follows(chain[r]) /\ TransactionsFit
  BY DEF BInv, IInv, PagesTyped, PagesFit
<1>2. \A i \in DOMAIN chain[r] : chain[r][i] \in VersionType /\ i \in Nat
  BY <1>1
<1>3. \A i \in DOMAIN chain[r] : chain[r][i].tra \in 0..MaxTransaction /\ Known(chain[r][i].tra)
  BY <1>1, <1>2, VersionIs DEF VersionsFit
<1> QED
  BY <1>1, <1>2, <1>3, StateIs

LEMMA CommittedIsNoOwn ==
  ASSUME BInv, NEW s \in Sessions, Undecided(s), NEW versions, versions # <<>>,
         Committed(Head(versions).tra)
  PROVE  ~IsOwn(versions, s)
BY AliveIs DEF BInv, IInv, IsOwn

LEMMA TailIsProper ==
  ASSUME BInv, NEW p \in Sessions, NEW r \in Records, chain[r] # <<>>,
         ~Committed(Head(chain[r]).tra),
         \A s \in Sessions : s # p /\ Undecided(s) => Head(chain[r]).tra # tra[s].number
  PROVE  Proper(p, r, Tail(chain[r]))
<1> DEFINE old == chain[r]
           new == Tail(old)
<1>1. /\ old \in Seq(VersionType) /\ VersionsFit(old) /\ Follows(old) /\ old # <<>>
      /\ \A s \in Sessions : \A i \in DOMAIN old :
           State(s, old[i].tra) = "committed" => Committed(old[i].tra)
  BY ChainIs
<1>2. Top(new) = Top(old)
  BY <1>1, TopOfTail
<1>3. /\ Head(old) = old[1] /\ 1 \in DOMAIN old
      /\ new # <<>> => Committed(Head(new).tra)
  BY <1>1, TailIs, SecondIs
<1>4. /\ Len(old) \in Nat /\ DOMAIN old = 1..Len(old) /\ DOMAIN new = 1..(Len(old) - 1)
      /\ \A i \in DOMAIN new : new[i] = old[i + 1]
  BY <1>1
<1>5. \A s \in Sessions : s # p /\ Undecided(s) => ~IsOwn(old, s) /\ ~IsOwn(new, s)
  BY <1>3, CommittedIsNoOwn DEF IsOwn
<1> HIDE DEF old, new
<1>6. Follows(new)
  BY <1>1, <1>4 DEF Follows
<1>7. ASSUME NEW s \in Sessions, NEW n, LedBy(s, old, n) PROVE LedBy(s, new, n)
  <2> SUFFICES ASSUME NEW i \in DOMAIN new, Leading(s, new, i) PROVE new[i].tra = n
    BY DEF LedBy
  <2>1. State(s, old[1].tra) # "committed"
    <3>1. ~Committed(old[1].tra)
      BY <1>3 DEF old
    <3> QED
      BY <1>1, <1>3, <3>1
  <2>2. ASSUME NEW j \in DOMAIN old, j < i + 1 PROVE State(s, old[j].tra) # "committed"
    <3>1. CASE j = 1
      BY <2>1, <3>1
    <3>2. CASE j # 1
      <4>1. j - 1 \in DOMAIN new /\ j - 1 < i /\ new[j - 1] = old[j]
        BY <1>4, <2>2, <3>2
      <4> QED
        BY <4>1 DEF Leading
    <3> QED
      BY <3>1, <3>2
  <2>3. i + 1 \in DOMAIN old /\ new[i] = old[i + 1]
    BY <1>4
  <2> QED
    BY <1>7, <2>2, <2>3 DEF LedBy, Leading
<1>8. Proper(p, r, new)
  BY <1>2, <1>5, <1>6, <1>7, SameIsSymmetric DEF Proper, old
<1> QED
  BY <1>8 DEF new, old

LEMMA HeadIsProper ==
  ASSUME BInv, NEW p \in Sessions, NEW r \in Records, chain[r] # <<>>, Committed(Head(chain[r]).tra)
  PROVE  Proper(p, r, <<Head(chain[r])>>)
<1> DEFINE v == Head(chain[r])
<1>1. chain[r] \in Seq(VersionType) /\ \A i \in DOMAIN chain[r] : i \in Nat
  BY ChainIs
<1>2. v = chain[r][1] /\ 1 \in DOMAIN chain[r] /\ v \in VersionType
  BY <1>1, TailIs
<1>3. Top(chain[r]) = v
  BY DEF Top
<1> HIDE DEF v
<1>4. /\ <<v>> # <<>> /\ Head(<<v>>) = v /\ DOMAIN <<v>> = {1} /\ <<v>>[1] = v
  BY <1>2, OneIs
<1>5. Top(<<v>>) = v
  BY <1>2, TopOfHead DEF v
<1>6. \A s \in Sessions : Undecided(s) => ~IsOwn(chain[r], s) /\ ~IsOwn(<<v>>, s)
  BY <1>4, CommittedIsNoOwn DEF v
<1>7. Follows(<<v>>)
  BY <1>4 DEF Follows
<1>8. DOMAIN chain[r] = 1..Len(chain[r])
  BY <1>1
<1>9. \A s \in Sessions : \A n : LedBy(s, chain[r], n) => LedBy(s, <<v>>, n)
  BY <1>2, <1>4, <1>8 DEF LedBy, Leading
<1>10. Proper(p, r, <<v>>)
  BY <1>3, <1>5, <1>6, <1>7, <1>9, SameIsSymmetric DEF Proper
<1> QED
  BY <1>10 DEF v

LEMMA NoneIsProper ==
  ASSUME BInv, NEW p \in Sessions, NEW r \in Records, chain[r] # <<>>,
         Committed(Head(chain[r]).tra), Head(chain[r]).del
  PROVE  Proper(p, r, <<>>)
<1>1. Top(chain[r]) = Head(chain[r]) /\ Top(<<>>) = NoVersion /\ NoVersion.del
  BY DEF Top, NoVersion, Version
<1>2. \A s \in Sessions : Undecided(s) => ~IsOwn(chain[r], s) /\ ~IsOwn(<<>>, s)
  BY CommittedIsNoOwn DEF IsOwn
<1>3. DOMAIN <<>> = {}
  BY NoneIs
<1> QED
  BY <1>1, <1>2, <1>3 DEF Proper, Follows, LedBy, Same

LEMMA ConsIsProper ==
  ASSUME BInv, NEW p \in Sessions, NEW r \in Records, tra[p].at = "active", chain[r] # <<>>,
         Committed(Head(chain[r]).tra), NEW v \in VersionType, v.tra = tra[p].number,
         v.base = Head(chain[r]).tra
  PROVE  Proper(p, r, <<v>> \o chain[r])
<1> DEFINE old == chain[r]
           new == <<v>> \o old
<1>1. /\ old \in Seq(VersionType) /\ Follows(old) /\ old # <<>> /\ TransactionsFit
      /\ Head(old) = old[1] /\ 1 \in DOMAIN old
  BY ChainIs, TailIs DEF BInv, IInv
<1>2. /\ new # <<>> /\ Head(new) = v
      /\ \A i \in DOMAIN new : \/ i = 1 /\ new[i] = v
                               \/ i > 1 /\ i - 1 \in DOMAIN old /\ new[i] = old[i - 1]
  BY <1>1, ConsIs
<1>3. /\ Len(old) \in Nat /\ DOMAIN old = 1..Len(old) /\ DOMAIN new = 1..(Len(old) + 1)
      /\ new[1] = v
  BY <1>1
<1>4. Undecided(p)
  BY DEF Undecided, Reads
<1>5. ~Committed(v.tra) /\ Known(v.tra) /\ v.tra \in 0..MaxTransaction
  BY <1>1, <1>4, AliveIs, OwnIs
<1>6. Top(new) = Top(old)
  BY <1>1, <1>5, TopOfCons
<1>7. \A s \in Sessions : s # p /\ Undecided(s) => ~IsOwn(old, s) /\ ~IsOwn(new, s)
  BY <1>1, <1>2, CommittedIsNoOwn, OwnIs DEF IsOwn
<1>8. Head(old) = old[1] /\ v.base = old[1].tra
  BY <1>1
<1> HIDE DEF old, new
<1>9. Follows(new)
  <2> SUFFICES ASSUME NEW i \in DOMAIN new, i + 1 \in DOMAIN new
               PROVE  new[i].base = new[i + 1].tra
    BY DEF Follows
  <2>1. new[i + 1] = old[i] /\ i \in DOMAIN old
    BY <1>2, <1>3
  <2>2. CASE i = 1
    BY <1>3, <1>8, <2>1, <2>2
  <2>3. CASE i # 1
    BY <1>1, <1>2, <1>3, <2>1, <2>3 DEF Follows
  <2> QED
    BY <2>2, <2>3
<1>10. ASSUME NEW s \in Sessions, NEW n, LedBy(s, old, n) PROVE LedBy(s, new, n)
  <2> SUFFICES ASSUME NEW i \in DOMAIN new, Leading(s, new, i) PROVE new[i].tra = n
    BY DEF LedBy
  <2>1. i # 1
    <3>1. State(s, v.tra) # "committed"
      BY <1>1, <1>5, StateIs
    <3> QED
      BY <1>3, <3>1 DEF Leading
  <2>2. i - 1 \in DOMAIN old /\ new[i] = old[i - 1]
    BY <1>2, <2>1
  <2>3. ASSUME NEW j \in DOMAIN old, j < i - 1 PROVE State(s, old[j].tra) # "committed"
    <3>1. j + 1 \in DOMAIN new /\ j + 1 < i /\ new[j + 1] = old[j]
      BY <1>2, <1>3, <2>3
    <3> QED
      BY <3>1 DEF Leading
  <2> QED
    BY <1>10, <2>2, <2>3 DEF LedBy, Leading
<1>11. Proper(p, r, new)
  BY <1>6, <1>7, <1>9, <1>10, SameIsSymmetric DEF Proper, old
<1> QED
  BY <1>11 DEF new, old

LEMMA OneIsProper ==
  ASSUME BInv, NEW p \in Sessions, NEW r \in Records, tra[p].at = "active", chain[r] = <<>>,
         NEW v \in VersionType, v.tra = tra[p].number
  PROVE  Proper(p, r, <<v>>)
<1>1. /\ <<v>> # <<>> /\ Head(<<v>>) = v /\ DOMAIN <<v>> = {1} /\ <<v>>[1] = v
  BY OneIs
<1>2. Undecided(p) /\ TransactionsFit
  BY DEF Undecided, Reads, BInv, IInv
<1>3. ~Committed(v.tra) /\ Known(v.tra) /\ v.tra \in 0..MaxTransaction
  BY <1>2, AliveIs, OwnIs
<1>4. Top(<<v>>) = NoVersion /\ Top(chain[r]) = NoVersion
  BY <1>3, TopOfOne DEF Top
<1>5. \A s \in Sessions : s # p => ~IsOwn(<<v>>, s) /\ ~IsOwn(chain[r], s)
  BY <1>1, <1>2, OwnIs DEF IsOwn
<1>6. \A s \in Sessions : State(s, v.tra) # "committed"
  BY <1>2, <1>3, StateIs
<1> QED
  BY <1>1, <1>4, <1>5, <1>6, SameIsSymmetric DEF Proper, Follows, LedBy, Leading

-----------------------------------------------------------------------------
(* The statements' steps. *)

LEMMA NothingNoted ==
  ASSUME NEW p \in Sessions, NEW r \in Records, rpb' = rpb PROVE Notes(p, r)
BY DEF Notes, Changes

LEMMA DoneIsNoted ==
  ASSUME NEW p \in Sessions, NEW r \in Records, rpb'[p].at = "none",
         \A s \in Sessions : s # p => rpb'[s] = rpb[s]
  PROVE  Notes(p, r)
BY DEF Notes, Changes

LEMMA FinishedNotes ==
  ASSUME BInv, NEW p \in Sessions, NEW r \in Records, Finished(p, r)
  PROVE  /\ Notes(p, r) /\ rpb'[p].at = "none"
         /\ \A s \in Sessions : s # p => rpb'[s] = rpb[s]
<1> DEFINE swept == IF tra[p].at = "sweep" THEN rpb[p].swept \cup {r} ELSE {}
<1>1. swept \in SUBSET Records /\ rpb \in [Sessions -> RpbType]
  BY RpbIs DEF BInv, IInv, PagesTyped
<1>2. rpb' = [rpb EXCEPT ![p] = Blank(swept)]
  BY DEF Finished, Blank
<1>3. Blank(swept).at = "none"
  BY <1>1, BlankIs
<1> HIDE DEF swept
<1>4. rpb'[p].at = "none" /\ \A s \in Sessions : s # p => rpb'[s] = rpb[s]
  BY <1>1, <1>2, <1>3
<1> QED
  BY <1>4, DoneIsNoted

LEMMA TypesAre ==
  ASSUME BInv
  PROVE  /\ IInv /\ TransactionsFit /\ PagesTyped /\ PagesFit /\ rpb \in [Sessions -> RpbType]
         /\ tra \in [Sessions -> TraType]
         /\ \A p \in Sessions : UpdateFits(p) /\ ReadKept(p) /\ ExpungeFits(p) /\ OwnMarked(p)
BY DEF BInv, IInv, PagesTyped, TransactionsFit, Typed

\* The version of a dead transaction goes.
LEMMA DeadIsTakenOff ==
  ASSUME BInv, NEW p \in Sessions, NEW r \in Records, chain[r] # <<>>,
         Primary(r).tra \in Numbers, tip[Primary(r).tra] = "dead"
  PROVE  Good(p, r, Tail(chain[r])) /\ Proper(p, r, Tail(chain[r]))
<1> DEFINE n == Head(chain[r]).tra
<1>1. TransactionsFit /\ PagesTyped /\ PagesFit
  BY TypesAre
<1>2. n = Primary(r).tra /\ n \in 0..MaxTransaction /\ n \in Numbers /\ tip[n] = "dead" /\ n # 0
  BY <1>1, PrimaryIs, NumbersAre
<1>3. Loose(r)
  BY <1>1, <1>2, OverIsLoose
<1>4. ~Committed(n)
  BY <1>2 DEF Committed
<1>5. \A s \in Sessions : Undecided(s) => n # tra[s].number
  BY <1>1, <1>2, AliveIs
<1> QED
  BY <1>1, <1>3, <1>4, <1>5, TailIsGood, TailIsProper

LEMMA BackOutHolds ==
  ASSUME BInv, NEW p \in Sessions, NEW r \in Records, ChaseBacksOut(p, r)
  PROVE  BInv' /\ TopsKept
<1>1. /\ TransactionsFit /\ PagesTyped /\ PagesFit /\ chain[r] # <<>> /\ HeadState(p, r) = "dead"
      /\ tra[p].at \in {"active", "sweep"} /\ Change(p, r, Tail(chain[r])) /\ rpb' = rpb
      /\ UNCHANGED transactionVars
  BY TypesAre DEF ChaseBacksOut, Chases
<1>2. Primary(r).tra \in Numbers /\ tip[Primary(r).tra] = "dead"
  BY <1>1, PrimaryIs
<1>3. Good(p, r, Tail(chain[r])) /\ Proper(p, r, Tail(chain[r]))
  BY <1>1, <1>2, DeadIsTakenOff
<1>4. IInv'
  BY BackOutKeeps DEF BInv
<1> QED
  BY <1>1, <1>3, <1>4, AllSame, NothingNoted, ChangeHolds

LEMMA PurgeHolds ==
  ASSUME BInv, NEW p \in Sessions, NEW r \in Records, purge(p, r)
  PROVE  BInv' /\ TopsKept
<1>1. /\ TransactionsFit /\ PagesTyped /\ PagesFit /\ chain[r] # <<>>
      /\ HeadState(p, r) = "committed"
      /\ tra[p].at \in {"active", "sweep"} /\ Change(p, r, <<Head(chain[r])>>) /\ rpb' = rpb
      /\ UNCHANGED transactionVars
  BY TypesAre DEF purge, Chases, Primary
<1>2. Committed(Head(chain[r]).tra)
  BY <1>1, PrimaryIs
<1>3. Good(p, r, <<Head(chain[r])>>) /\ Proper(p, r, <<Head(chain[r])>>)
  BY <1>1, <1>2, HeadIsGood, HeadIsProper
<1>4. IInv'
  BY PurgeKeeps DEF BInv
<1> QED
  BY <1>1, <1>3, <1>4, AllSame, NothingNoted, ChangeHolds

LEMMA UnmakeHolds ==
  ASSUME BInv, NEW p \in Sessions, NEW r \in Records, VIO_verb_cleanup(p, r)
  PROVE  BInv' /\ TopsKept
<1> DEFINE n == Head(chain[r]).tra
<1>1. /\ TransactionsFit /\ PagesTyped /\ PagesFit /\ chain[r] # <<>> /\ tra[p].at = "undo"
      /\ n = tra[p].number
      /\ Change(p, r, Tail(chain[r])) /\ rpb' = rpb /\ UNCHANGED transactionVars
  BY TypesAre DEF VIO_verb_cleanup, Unmade, Primary
<1>2. Undecided(p)
  BY <1>1 DEF Undecided, Reads
<1>3. ~Committed(n) /\ n # 0
  BY <1>1, <1>2, AliveIs
<1>4. \A s \in Sessions : s # p => n # tra[s].number
  BY <1>1, <1>3, CountersAre DEF Apart
<1>5. Good(p, r, Tail(chain[r])) /\ Proper(p, r, Tail(chain[r]))
  BY <1>1, <1>3, <1>4, UnmadeIsLoose, TailIsGood, TailIsProper
<1>6. IInv'
  BY UnmakeKeeps DEF BInv
<1> QED
  BY <1>1, <1>5, <1>6, AllSame, NothingNoted, ChangeHolds

LEMMA ExpungeStartHolds ==
  ASSUME BInv, NEW p \in Sessions, NEW r \in Records, ChaseExpunges(p, r)
  PROVE  BInv' /\ TopsKept
<1>1. /\ TransactionsFit /\ PagesTyped /\ PagesFit /\ chain[r] # <<>> /\ HeadState(p, r) = "committed"
      /\ UNCHANGED transactionVars /\ Access(p, r)
      /\ rpb' = [rpb EXCEPT ![p] = AtRec(rpb[p], "expunge", r)]
  BY TypesAre DEF ChaseExpunges, Chases, AtRec
<1>2. Clean(chain[r], tra[p].oldest_active)
  BY <1>1, PrimaryIs, CleanIs DEF BInv
<1>3. /\ rpb'[p].at = "expunge" /\ rpb'[p].rec = r
      /\ \A s \in Sessions : s # p => rpb'[s] = rpb[s]
  BY <1>1, TypesAre DEF AtRec, RpbType
<1>4. Notes(p, r)
  BY <1>2, <1>3 DEF Notes, Changes
<1>5. IInv'
  BY ExpungeStarts DEF BInv
<1> QED
  BY <1>1, <1>4, <1>5, LookHolds

LEMMA ExpungeHolds ==
  ASSUME BInv, NEW p \in Sessions, NEW r \in Records, expunge(p, r)
  PROVE  BInv' /\ TopsKept
<1>1. /\ TransactionsFit /\ PagesTyped /\ PagesFit /\ UNCHANGED transactionVars
      /\ rpb[p].at = "expunge" /\ rpb[p].rec = r /\ Finished(p, r)
  BY TypesAre DEF expunge
<1>2. Notes(p, r) /\ IInv'
  BY <1>1, FinishedNotes, ExpungeKeeps DEF BInv
<1>3. CASE Access(p, r)
  BY <1>1, <1>2, <1>3, LookHolds
<1>4. CASE chain[r] # <<>> /\ Primary(r).del /\ Mature(p, r) /\ Change(p, r, <<>>)
  <2>1. tra[p].at # "retain"
    BY <1>1, TypesAre DEF UpdateFits
  <2>2. /\ Primary(r) = Head(chain[r]) /\ Primary(r) = chain[r][1] /\ 1 \in DOMAIN chain[r]
        /\ Primary(r).tra < tra[p].oldest_active
    BY <1>1, <1>4, PrimaryIs DEF Mature
  <2>3. Committed(Head(chain[r]).tra)
    <3>1. Clean(chain[r], tra[p].oldest_active)
      BY <1>1, TypesAre DEF ExpungeFits, CleanAt
    <3> QED
      BY <2>2, <3>1 DEF Clean
  <2>4. Good(p, r, <<>>) /\ Proper(p, r, <<>>)
    BY <1>1, <1>4, <2>2, <2>3, MatureIsLoose, NoneIsGood, NoneIsProper
  <2> QED
    BY <1>1, <1>2, <1>4, <2>1, <2>4, AllSame, ChangeHolds
<1> QED
  BY <1>3, <1>4 DEF expunge

LEMMA SweepHolds ==
  ASSUME BInv, NEW p \in Sessions, NEW r \in Records, VIO_sweep(p, r)
  PROVE  BInv' /\ TopsKept
<1>1. UNCHANGED transactionVars /\ Access(p, r) /\ Finished(p, r)
  BY DEF VIO_sweep, ChaseReturns, Chases
<1>2. Notes(p, r) /\ IInv'
  BY <1>1, FinishedNotes, SweepSees DEF BInv
<1> QED
  BY <1>1, <1>2, LookHolds

\* What a statement finds is the newest version its snapshot has, another's that committed.
LEMMA ViewLeads ==
  ASSUME BInv, NEW p \in Sessions, NEW r \in Records, View(p, r) # NoVersion,
         View(p, r).tra # tra[p].number
  PROVE  LedBy(p, chain[r], View(p, r).tra)
<1> DEFINE s == chain[r]
           S == Seen(p, r)
<1>1. /\ s \in Seq(VersionType)
      /\ \A i \in DOMAIN s : s[i].tra \in 0..MaxTransaction /\ Known(s[i].tra)
      /\ TransactionsFit
  BY ChainIs, TypesAre
<1>2. S \in SUBSET (0..Len(s)) /\ Len(s) \in Nat /\ S \subseteq DOMAIN s /\ S \in SUBSET Nat
  BY <1>1 DEF Seen
<1>3. View(p, r) = Newest(p, r) /\ S # {}
  BY DEF View, Newest
<1>4. Min(S) \in S /\ (\A i \in S : Min(S) <= i) /\ View(p, r) = s[Min(S)]
  BY <1>2, <1>3, LeastOf DEF Newest
<1>5. \A i \in DOMAIN s : State(p, s[i].tra) = "committed" => i \in S
  BY DEF Seen
<1>6. State(p, s[Min(S)].tra) = "committed"
  <2>1. State(p, s[Min(S)].tra) \in {"us", "committed"} /\ Min(S) \in DOMAIN s
    BY <1>4 DEF Seen
  <2> QED
    BY <1>1, <1>4, <2>1, StateIs
<1> SUFFICES ASSUME NEW i \in DOMAIN s, Leading(p, s, i) PROVE i = Min(S)
  BY <1>4 DEF LedBy
<1>7. i \in S /\ Min(S) <= i /\ i \in Nat /\ Min(S) \in Nat /\ Min(S) \in DOMAIN s
  BY <1>2, <1>4, <1>5 DEF Leading
<1>8. ~(Min(S) < i)
  BY <1>6, <1>7 DEF Leading
<1> QED
  BY <1>7, <1>8

LEMMA GetHolds ==
  ASSUME BInv, NEW p \in Sessions, NEW r \in Records, NEW op \in Operations, VIO_get(p, r, op)
  PROVE  BInv' /\ TopsKept
<1> DEFINE v == View(p, r)
           temp == IF v = Primary(r) THEN Pointers(r) ELSE <<v.tra, 0>>
<1>1. UNCHANGED transactionVars /\ Access(p, r)
  BY DEF VIO_get, ChaseReturns, Chases
<1>2. \/ rpb' = rpb
      \/ /\ v # NoVersion /\ v.tra # tra[p].number
         /\ rpb' = [rpb EXCEPT ![p] = AtUpdate(rpb[p], r, op, v.tra, temp)]
  BY DEF VIO_get, AtUpdate
<1>3. IInv'
  BY GetKeeps DEF BInv
<1>4. CASE rpb' = rpb
  BY <1>1, <1>3, <1>4, NothingNoted, LookHolds
<1>5. CASE /\ v # NoVersion /\ v.tra # tra[p].number
           /\ rpb' = [rpb EXCEPT ![p] = AtUpdate(rpb[p], r, op, v.tra, temp)]
  <2>1. LedBy(p, chain[r], v.tra)
    BY <1>5, ViewLeads
  <2> HIDE DEF v, temp
  <2>2. /\ rpb'[p].at = "update" /\ rpb'[p].rec = r /\ rpb'[p].read = v.tra
        /\ \A s \in Sessions : s # p => rpb'[s] = rpb[s]
    BY <1>5, TypesAre DEF AtUpdate, RpbType
  <2>3. Notes(p, r)
    BY <2>1, <2>2 DEF Notes
  <2> QED
    BY <1>1, <1>3, <2>3, LookHolds
<1> QED
  BY <1>2, <1>4, <1>5

\* A version goes on the chain, of a transaction that runs.
LEMMA WriteHolds ==
  ASSUME BInv, IInv', NEW p \in Sessions, NEW r \in Records, NEW versions, tra[p].at = "active",
         Change(p, r, versions), Good(p, r, versions), Proper(p, r, versions), Notes(p, r),
         tra' = [tra EXCEPT ![p].write = TRUE], UNCHANGED <<tip, hdr, dbb, lck, overtook>>
  PROVE  BInv' /\ TopsKept
<1>1. SameTransactions
  BY WriteIs DEF BInv
<1>2. SameSnapshots
  <2>1. tra \in [Sessions -> TraType]
    BY TypesAre
  <2> QED
    BY <2>1 DEF SameSnapshots, TraType
<1> QED
  BY <1>1, <1>2, ChangeHolds

LEMMA ReplaceHolds ==
  ASSUME BInv, NEW p \in Sessions, NEW r \in Records, Replaces(p, r)
  PROVE  BInv' /\ TopsKept
<1> DEFINE v == Version(tra[p].number, rpb[p].read, rpb[p].op = "erase")
<1>1. /\ TransactionsFit /\ PagesTyped /\ PagesFit /\ chain[r] # <<>>
      /\ rpb[p].at = "update" /\ rpb[p].rec = r /\ Updatable(p, r)
      /\ Change(p, r, <<v>> \o chain[r]) /\ Finished(p, r)
      /\ tra' = [tra EXCEPT ![p].write = TRUE] /\ UNCHANGED <<tip, hdr, dbb, lck, overtook>>
  BY TypesAre DEF Replaces, Updates
<1>2. tra[p].at = "active" /\ ~IsOwn(chain[r], p)
  BY <1>1, TypesAre DEF UpdateFits
<1>3. /\ HeadState(p, r) = "committed" /\ Committed(Head(chain[r]).tra)
      /\ Head(chain[r]) = chain[r][1] /\ 1 \in DOMAIN chain[r]
      /\ \A i \in DOMAIN chain[r] : ~(i < 1)
  <2>1. DOMAIN chain[r] = 1..Len(chain[r])
    BY ChainIs
  <2> QED
    BY <1>1, <1>2, <2>1, PrimaryIs DEF Updatable
<1>4. rpb[p].read = Head(chain[r]).tra
  <2>1. LedBy(p, chain[r], rpb[p].read)
    BY <1>1, TypesAre DEF ReadKept, Changes
  <2>2. Leading(p, chain[r], 1)
    BY <1>1, <1>3, PrimaryIs DEF Leading, HeadState
  <2> QED
    BY <1>3, <2>1, <2>2 DEF LedBy
<1>5. v \in VersionType /\ v.tra = tra[p].number /\ v.base = Head(chain[r]).tra
  <2>1. tra[p].number \in 0..MaxTransaction
    BY <1>1, CountersAre, FieldsAre
  <2>2. rpb[p].read \in 0..MaxTransaction
    BY TypesAre DEF RpbType
  <2> QED
    BY <1>4, <2>1, <2>2 DEF Version, VersionType
<1> HIDE DEF v
<1>6. Good(p, r, <<v>> \o chain[r]) /\ Proper(p, r, <<v>> \o chain[r])
  <2>1. Committed(Primary(r).tra)
    BY <1>3 DEF Primary
  <2> QED
    BY <1>1, <1>2, <1>3, <1>5, <2>1, ConsIsGood, ConsIsProper
<1>7. Notes(p, r) /\ IInv'
  BY <1>1, FinishedNotes, ReplaceKeeps DEF BInv
<1> QED
  BY <1>1, <1>2, <1>6, <1>7, WriteHolds

LEMMA StoreHolds ==
  ASSUME BInv, NEW p \in Sessions, NEW r \in Records, VIO_store(p, r)
  PROVE  BInv' /\ TopsKept
<1> DEFINE v == Version(tra[p].number, 0, FALSE)
<1>1. /\ TransactionsFit /\ PagesTyped /\ PagesFit /\ chain[r] = <<>>
      /\ tra[p].at = "active" /\ rpb' = rpb /\ Change(p, r, <<v>>)
      /\ tra' = [tra EXCEPT ![p].write = TRUE] /\ UNCHANGED <<tip, hdr, dbb, lck, overtook>>
  BY TypesAre DEF VIO_store
<1>2. v \in VersionType /\ v.tra = tra[p].number
  <2>1. tra[p].number \in 0..MaxTransaction
    BY <1>1, CountersAre, FieldsAre
  <2> QED
    BY <2>1, NumbersAre DEF Version, VersionType
<1> HIDE DEF v
<1>3. Good(p, r, <<v>>) /\ Proper(p, r, <<v>>)
  BY <1>1, <1>2, FirstIsGood, OneIsProper
<1>4. Notes(p, r) /\ IInv'
  BY <1>1, NothingNoted, StoreKeeps DEF BInv
<1> QED
  BY <1>1, <1>3, <1>4, WriteHolds

\* An update that goes on, or ends, has read what it had read.
LEMMA UpdateNotes ==
  ASSUME BInv, NEW p \in Sessions, NEW r \in Records, Changes(p), NEW t,
         rpb' = [rpb EXCEPT ![p] = t], t.at # "expunge", t.rec = rpb[p].rec, t.read = rpb[p].read
  PROVE  Notes(p, r)
<1>1. rpb'[p] = t /\ \A s \in Sessions : s # p => rpb'[s] = rpb[s]
  BY TypesAre
<1> QED
  BY <1>1 DEF Notes

LEMMA CorrectHolds ==
  ASSUME BInv, NEW p \in Sessions, NEW r \in Records, CorrectsPointers(p, r)
  PROVE  BInv' /\ TopsKept
<1> DEFINE t == WithTemp(rpb[p], Pointers(r))
<1>1. /\ rpb[p].at = "update" /\ Access(p, r) /\ UNCHANGED transactionVars
      /\ rpb' = [rpb EXCEPT ![p] = t]
  BY DEF CorrectsPointers, Updates, WithTemp
<1>2. t.at = "update" /\ t.rec = rpb[p].rec /\ t.read = rpb[p].read
  BY <1>1, TypesAre DEF RpbType, WithTemp
<1> HIDE DEF t
<1>3. Notes(p, r) /\ IInv'
  BY <1>1, <1>2, UpdateNotes, CorrectKeeps DEF BInv, Changes
<1> QED
  BY <1>1, <1>3, LookHolds

LEMMA BlockHolds ==
  ASSUME BInv, NEW p \in Sessions, NEW r \in Records, UpdateBlocked(p, r)
  PROVE  BInv' /\ TopsKept
<1> DEFINE at == IF HeadState(p, r) = "dead" THEN "backout" ELSE "wait"
           t == AtOn(rpb[p], at, Primary(r).tra)
<1>1. /\ rpb[p].at = "update" /\ Access(p, r) /\ UNCHANGED transactionVars
      /\ rpb' = [rpb EXCEPT ![p] = t]
  BY DEF UpdateBlocked, Updates, AtOn
<1>2. t.at # "expunge" /\ t.rec = rpb[p].rec /\ t.read = rpb[p].read
  <2>1. at # "expunge"
    OBVIOUS
  <2> HIDE DEF at
  <2> QED
    BY <2>1, TypesAre DEF RpbType, AtOn
<1> HIDE DEF t
<1>3. Notes(p, r) /\ IInv'
  BY <1>1, <1>2, UpdateNotes, BlockKeeps DEF BInv, Changes
<1> QED
  BY <1>1, <1>3, LookHolds

LEMMA NothingHolds ==
  ASSUME BInv, NEW p \in Sessions, NEW r \in Records, NothingToUpdate(p, r)
  PROVE  BInv' /\ TopsKept
<1>1. rpb[p].at = "update" /\ Access(p, r) /\ UNCHANGED transactionVars /\ IInv'
  BY NothingKeeps DEF NothingToUpdate, Updates, BInv
<1>2. CASE Step(p, "disappeared")
  <2> DEFINE t == At(rpb[p], "disappeared")
  <2>1. rpb' = [rpb EXCEPT ![p] = t]
    BY <1>2 DEF Step, At
  <2>2. t.at # "expunge" /\ t.rec = rpb[p].rec /\ t.read = rpb[p].read
    BY TypesAre DEF RpbType, At
  <2> HIDE DEF t
  <2>3. Notes(p, r)
    BY <1>1, <2>1, <2>2, UpdateNotes DEF Changes
  <2> QED
    BY <1>1, <2>3, LookHolds
<1>3. CASE Finished(p, r)
  BY <1>1, <1>3, FinishedNotes, LookHolds
<1> QED
  BY <1>2, <1>3 DEF NothingToUpdate

LEMMA BackoutHolds ==
  ASSUME BInv, NEW p \in Sessions, NEW r \in Records, VIO_backout(p, r)
  PROVE  BInv' /\ TopsKept
<1> DEFINE t == At(rpb[p], "update")
<1>1. /\ TransactionsFit /\ PagesTyped /\ PagesFit
      /\ rpb[p].at = "backout" /\ rpb[p].rec = r /\ UNCHANGED transactionVars
      /\ rpb' = [rpb EXCEPT ![p] = t]
  BY TypesAre DEF VIO_backout, Step, At
<1>2. t.at # "expunge" /\ t.rec = rpb[p].rec /\ t.read = rpb[p].read
  BY TypesAre DEF RpbType, At
<1> HIDE DEF t
<1>3. Notes(p, r) /\ IInv'
  BY <1>1, <1>2, UpdateNotes, BackoutKeeps DEF BInv, Changes
<1>4. CASE Access(p, r)
  BY <1>1, <1>3, <1>4, LookHolds
<1>5. CASE chain[r] # <<>> /\ Primary(r).tra = rpb[p].on /\ Change(p, r, Tail(chain[r]))
  <2>1. /\ tra[p].at = "active" /\ tip[rpb[p].on] = "dead" /\ 1 <= rpb[p].on
        /\ rpb[p].on \in 0..MaxTransaction
    BY <1>1, TypesAre, RpbIs DEF UpdateFits
  <2>2. Primary(r).tra \in Numbers
    BY <1>5, <2>1, NumbersAre
  <2>3. Good(p, r, Tail(chain[r])) /\ Proper(p, r, Tail(chain[r]))
    BY <1>5, <2>1, <2>2, DeadIsTakenOff
  <2> QED
    BY <1>1, <1>3, <1>5, <2>1, <2>3, AllSame, ChangeHolds
<1> QED
  BY <1>4, <1>5 DEF VIO_backout

LEMMA CacheHolds ==
  ASSUME BInv, NEW r \in Records, CacheWrites(r)
  PROVE  BInv' /\ TopsKept
<1>1. PagesTyped /\ PagesFit /\ UNCHANGED transactionVars /\ rpb' = rpb
  BY TypesAre DEF CacheWrites
<1>2. PICK p \in Sessions : p = dirty[r]
  BY <1>1 DEF CacheWrites, PagesTyped
<1>3. /\ disk' = [disk EXCEPT ![r] = chain[r]] /\ chain' = chain
      /\ dirty' = [dirty EXCEPT ![r] = Nobody] /\ mark' = mark \ {r} /\ Written
  BY <1>1, CacheIs DEF CacheWrites
<1>4. Changed(p, r, chain[r]) /\ Touched(p, r, chain[r])
  BY <1>1, <1>2, <1>3 DEF Changed, Touched, PagesTyped
<1>5. Good(p, r, chain[r]) /\ Proper(p, r, chain[r]) /\ IInv'
  BY <1>1, SameIsGood, SameIsProper, CacheIsSafe DEF BInv
<1> QED
  BY <1>1, <1>4, <1>5, AllSame, NothingNoted, PageStepHolds

-----------------------------------------------------------------------------
(* Steps of a transaction. *)

\* Only pages p changed are written or lost.
OwnPages(p) ==
  \A q \in Records :
    \/ /\ dirty[q] # p /\ chain'[q] = chain[q] /\ disk'[q] = disk[q] /\ dirty'[q] = dirty[q]
       /\ q \in mark => q \in mark'
    \/ dirty[q] = p /\ chain'[q] = chain[q] /\ disk'[q] \in {disk[q], chain[q]}
    \/ dirty[q] = p /\ chain'[q] = disk[q] /\ disk'[q] = disk[q]

\* The step commits the primary version.
CommittedNext(n) == n = 0 \/ tip'[n] = "committed"
NewlyTop(versions) ==
  /\ versions # <<>>
  /\ CommittedNext(Head(versions).tra) /\ ~Committed(Head(versions).tra)

\* Only the number of p commits, and with all its versions in the file.
Decides(p) ==
  \A n \in 0..MaxTransaction : CommittedNext(n) =>
    \/ Committed(n)
    \/ /\ n = tra[p].number
       /\ \A q \in Records : IsOwn(chain'[q], p) \/ IsOwn(disk'[q], p) =>
            chain'[q] = chain[q] /\ Even(p, chain'[q], disk'[q])

LEMMA TopStays ==
  ASSUME Forward, NEW c \in Seq(VersionType),
         ~NewlyTop(c)
  PROVE  Top(c)' = Top(c)
<1>1. c # <<>> => Head(c).tra \in 0..MaxTransaction
  <2>1. c # <<>> => Head(c) \in VersionType
    BY TailIs
  <2> QED
    BY <2>1, VersionIs
<1>2. c # <<>> => (Committed(Head(c).tra)' <=> Committed(Head(c).tra))
  BY <1>1, CommittedStays DEF NewlyTop, CommittedNext, Committed
<1> QED
  BY <1>2 DEF Top

LEMMA MoveHolds ==
  ASSUME BInv, IInv', NEW p \in Sessions, Moves(p), OwnPages(p), Decides(p), OwnMarked(p)',
         \A s \in Sessions : s # p => rpb'[s] = rpb[s],
         rpb'[p].at # "expunge",
         Changes(p)' =>
           /\ Changes(p) /\ rpb'[p].rec = rpb[p].rec /\ rpb'[p].read = rpb[p].read
           /\ chain' = chain /\ disk' = disk /\ dirty' = dirty
           /\ \A m \in 0..MaxTransaction : State(p, m)' = "committed" <=> State(p, m) = "committed"
  PROVE  BInv' /\ TopsKept
<1>1. /\ TransactionsFit /\ PagesTyped /\ Forward
      /\ \A s \in Sessions : UpdateFits(s) /\ ReadKept(s) /\ ExpungeFits(s) /\ OwnMarked(s)
      /\ \A s \in Sessions : s # p => tra'[s] = tra[s]
  BY TypesAre DEF Moves
<1>2. /\ \A q \in Records : chain'[q] \in {chain[q], disk[q]} /\ disk'[q] \in {chain[q], disk[q]}
      /\ \A q \in Records : chain'[q] \in Seq(VersionType) /\ disk'[q] \in Seq(VersionType)
  BY <1>1 DEF OwnPages, PagesTyped
<1>3. ASSUME NEW q \in Records PROVE Same(Top(chain[q])', Top(disk[q])') /\ KeptBy(q)
  <2>1. ASSUME NEW c \in {chain'[q], disk'[q]}, NewlyTop(c)
        PROVE  chain'[q] = chain[q] /\ IsOwn(c, p) /\ Even(p, chain'[q], disk'[q])
    <3>1. c \in Seq(VersionType) /\ c # <<>> /\ CommittedNext(Head(c).tra) /\ ~Committed(Head(c).tra)
      BY <1>2, <2>1 DEF NewlyTop
    <3>2. Head(c) \in VersionType
      BY <3>1, TailIs
    <3>3. Head(c).tra \in 0..MaxTransaction
      BY <3>2, VersionIs
    <3>4. Head(c).tra = tra[p].number
      BY <3>1, <3>3 DEF Decides
    <3>5. IsOwn(c, p)
      BY <3>1, <3>4 DEF IsOwn
    <3> QED
      BY <2>1, <3>1, <3>3, <3>5 DEF Decides
  <2>2. CASE NewlyTop(chain'[q]) \/ NewlyTop(disk'[q])
    <3>1. chain'[q] = chain[q] /\ Even(p, chain'[q], disk'[q])
      BY <2>1, <2>2
    <3>2. /\ Head(chain'[q]) = Head(disk'[q]) /\ chain'[q] # <<>> /\ disk'[q] # <<>>
          /\ CommittedNext(Head(chain'[q]).tra) /\ ~Committed(Head(chain'[q]).tra)
      BY <2>2, <3>1 DEF Even, IsOwn, NewlyTop
    <3>3. Top(chain[q])' = Head(chain'[q]) /\ Top(disk[q])' = Head(disk'[q])
      BY <3>2 DEF Top, Committed, CommittedNext
    <3>4. Top(chain[q])' = Top(disk[q])'
      BY <3>2, <3>3
    <3>5. Same(Top(chain[q])', Top(disk[q])')
      BY <3>4 DEF Same
    <3>6. KeptBy(q)
      BY <3>2, <3>3 DEF KeptBy
    <3> QED
      BY <3>5, <3>6
  <2>3. CASE ~NewlyTop(chain'[q]) /\ ~NewlyTop(disk'[q])
    <3>1. Top(chain[q])' = Top(chain'[q]) /\ Top(disk[q])' = Top(disk'[q])
      BY <1>1, <1>2, <2>3, TopStays
    <3>2. /\ Same(Top(chain'[q]), Top(disk'[q])) /\ Same(Top(chain[q]), Top(chain'[q]))
      BY <1>2, SameIsSymmetric DEF BInv, FileKept
    <3> QED
      BY <3>1, <3>2 DEF KeptBy
  <2> QED
    BY <2>2, <2>3
<1>4. FileKept' /\ TopsKept
  BY <1>3 DEF FileKept, TopsKept
<1>5. \A q \in Records : Follows(chain[q])' /\ Follows(disk[q])'
  BY <1>2 DEF Follows, BInv
<1>6. ASSUME NEW s \in Sessions, s # p PROVE ReadKept(s)'
  <2> DEFINE q == rpb[s].rec
             n == rpb[s].read
  <2>1. \A m \in 0..MaxTransaction : State(s, m)' = "committed" <=> State(s, m) = "committed"
    BY <1>1, <1>6 DEF State, TRA_snapshot_state
  <2>2. rpb'[s] = rpb[s]
    BY <1>6
  <2>3. ASSUME Changes(s) PROVE LedBy(s, chain'[q], n) /\ (dirty'[q] # s => LedBy(s, disk'[q], n))
    <3>1. q \in Records /\ LedBy(s, chain[q], n) /\ (dirty[q] # s => LedBy(s, disk[q], n))
      BY <1>1, <2>3 DEF ReadKept, UpdateFits, Changes
    <3> HIDE DEF q, n
    <3> QED
      BY <1>6, <3>1 DEF OwnPages
  <2> HIDE DEF n
  <2>4. Changes(s)' => /\ rpb'[s].rec = q /\ rpb'[s].read = n
                       /\ LedBy(s, chain'[q], n) /\ (dirty'[q] # s => LedBy(s, disk'[q], n))
    BY <2>2, <2>3 DEF Changes, n
  <2> HIDE DEF q
  <2> QED
    BY <2>1, <2>4, ReadStays
<1>7. ReadKept(p)'
  <2>1. CASE ~Changes(p)'
    BY <2>1 DEF ReadKept
  <2>2. CASE Changes(p)'
    <3> DEFINE q == rpb[p].rec
               n == rpb[p].read
    <3>1. /\ LedBy(p, chain'[q], n) /\ (dirty'[q] # p => LedBy(p, disk'[q], n))
          /\ rpb'[p].rec = q /\ rpb'[p].read = n
      BY <1>1, <2>2 DEF ReadKept
    <3> HIDE DEF q, n
    <3> QED
      BY <2>2, <3>1, ReadStays
  <2> QED
    BY <2>1, <2>2
<1>8. ASSUME NEW s \in Sessions PROVE ExpungeFits(s)'
  <2>1. CASE s = p
    BY <2>1 DEF ExpungeFits
  <2>2. CASE s # p
    <3> DEFINE x == tra[s].oldest_active
               q == rpb[s].rec
    <3> SUFFICES ASSUME rpb[s].at = "expunge" PROVE CleanAt(s, q)'
      BY <2>2 DEF ExpungeFits
    <3>1. q \in Records /\ Clean(chain[q], x) /\ (dirty[q] # s => Clean(disk[q], x))
      BY <1>1 DEF ExpungeFits, CleanAt, UpdateFits
    <3>2. q' = q /\ x' = x
      BY <1>1, <2>2
    <3> HIDE DEF x, q
    <3>3. Clean(chain'[q], x) /\ (dirty'[q] # s => Clean(disk'[q], x))
      BY <2>2, <3>1 DEF OwnPages
    <3>4. Clean(chain[q], x)' /\ (dirty'[q] # s => Clean(disk[q], x)')
      BY <1>1, <1>2, <3>1, <3>2, <3>3, CleanStays DEF Clean
    <3> QED
      BY <3>2, <3>4 DEF CleanAt, x
  <2> QED
    BY <2>1, <2>2
<1>9. ASSUME NEW s \in Sessions, s # p PROVE OwnMarked(s)'
  <2>1. tra'[s] = tra[s]
    BY <1>1, <1>9
  <2> SUFFICES ASSUME Undecided(s), NEW q \in Records, IsOwn(chain'[q], s) \/ IsOwn(disk'[q], s)
               PROVE  \/ dirty'[q] = s /\ q \in mark' /\ tra[s].at # "retain"
                      \/ Even(s, chain'[q], disk'[q])
    BY <2>1 DEF OwnMarked, Even, IsOwn, Undecided, Reads
  <2>2. ASSUME IsOwn(chain[q], s) \/ IsOwn(disk[q], s)
        PROVE  \/ dirty[q] = s /\ q \in mark /\ tra[s].at # "retain"
               \/ Even(s, chain[q], disk[q])
    BY <1>1, <2>2 DEF OwnMarked
  <2> QED
    BY <1>9, <2>2 DEF OwnPages, Even
<1> QED
  BY <1>4, <1>5, <1>6, <1>7, <1>8, <1>9 DEF BInv

\* No number becomes committed.
LEMMA NothingCommits ==
  ASSUME NEW p \in Sessions, \A n \in Numbers : tip'[n] = "committed" => tip[n] = "committed"
  PROVE  Decides(p)
<1>1. \A n \in 0..MaxTransaction : n = 0 \/ n \in Numbers
  BY NumbersAre
<1> QED
  BY <1>1 DEF Decides, CommittedNext, Committed

\* A transaction goes on with what it marked, or has a number no version has.
LEMMA OwnStaysMarked ==
  ASSUME BInv, NEW p \in Sessions, Moves(p), UNCHANGED <<chain, disk, dirty, mark>>,
         tra'[p].at \notin {"retain", "undo"}
  PROVE  OwnMarked(p)'
<1> SUFFICES ASSUME Undecided(p)', NEW q \in Records, IsOwn(chain[q], p)' \/ IsOwn(disk[q], p)'
             PROVE  \/ dirty[q] = p /\ q \in mark
                    \/ Even(p, chain[q], disk[q])'
  BY DEF OwnMarked
<1>1. CASE tra'[p].number = tra[p].number /\ Undecided(p) /\ tra[p].at # "undo"
  <2>1. IsOwn(chain[q], p) \/ IsOwn(disk[q], p)
    BY <1>1 DEF IsOwn
  <2>2. (dirty[q] = p /\ q \in mark) \/ Even(p, chain[q], disk[q])
    BY <1>1, <2>1 DEF BInv, OwnMarked
  <2> QED
    BY <1>1, <2>2 DEF Even, IsOwn
<1>2. CASE \A n \in 0..MaxTransaction : Known(n) => n # tra'[p].number
  <2>1. ASSUME NEW versions \in Seq(VersionType), VersionsFit(versions), versions # <<>>
        PROVE  Head(versions).tra # tra'[p].number
    <3>1. Head(versions) = versions[1] /\ 1 \in DOMAIN versions /\ Head(versions) \in VersionType
      BY <2>1, TailIs
    <3>2. Known(Head(versions).tra) /\ Head(versions).tra \in 0..MaxTransaction
      BY <2>1, <3>1, VersionIs DEF VersionsFit
    <3> QED
      BY <1>2, <3>2
  <2>2. /\ chain[q] \in Seq(VersionType) /\ disk[q] \in Seq(VersionType)
        /\ VersionsFit(chain[q]) /\ VersionsFit(disk[q])
    BY TypesAre DEF PagesTyped, PagesFit
  <2>3. ~IsOwn(chain[q], p)' /\ ~IsOwn(disk[q], p)'
    BY <2>1, <2>2 DEF IsOwn
  <2> QED
    BY <2>3
<1> QED
  BY <1>1, <1>2 DEF Moves

LEMMA StillIsOwnPages ==
  ASSUME NEW p \in Sessions, UNCHANGED <<chain, disk, dirty>>,
         \A q \in mark : dirty[q] # p => q \in mark'
  PROVE  OwnPages(p)
BY DEF OwnPages

\* A step of a transaction that looks at no page.
LEMMA StillHolds ==
  ASSUME BInv, IInv', NEW p \in Sessions, Moves(p), UNCHANGED Pages,
         tra[p].at \notin {"active", "sweep"}, tra'[p].at \notin {"retain", "undo"}, Decides(p)
  PROVE  BInv' /\ TopsKept
<1>1. UNCHANGED <<chain, disk, dirty, mark>> /\ rpb' = rpb
  BY DEF Pages
<1>2. OwnPages(p)
  BY <1>1, StillIsOwnPages
<1>3. rpb'[p].at = "none"
  BY <1>1 DEF BInv, IInv, UpdateFits
<1>4. OwnMarked(p)'
  BY <1>1, OwnStaysMarked
<1> QED
  BY <1>1, <1>2, <1>3, <1>4, MoveHolds DEF Changes

LEMMA StartHolds ==
  ASSUME BInv, NEW p \in Sessions, Starts(p)
  PROVE  BInv' /\ TopsKept
<1>1. IInv /\ TransactionsFit /\ PagesTyped /\ UNCHANGED Pages /\ OwnMarked(p)
  BY TypesAre DEF BInv, Starts
<1>2. tip \in [Numbers -> States] /\ tra \in [Sessions -> TraType]
  BY <1>1 DEF TransactionsFit, Typed
<1>3. CASE TRA_start(p)
  <2>1. IInv' /\ Moves(p)
    BY <1>1, <1>3, StartIsSafe
  <2>2. tra[p].at = "idle" /\ tra'[p].at = "inventory" /\ tip' = tip
    BY <1>2, <1>3 DEF TRA_start, NoTra
  <2> QED
    BY <1>1, <2>1, <2>2, NothingCommits, StillHolds
<1>4. CASE TRA_get_inventory(p)
  <2>1. IInv' /\ Moves(p)
    BY <1>1, <1>4, InventoryIsSafe
  <2>2. tra[p].at = "inventory" /\ tra'[p].at = "oldest" /\ tip' = tip
    BY <1>2, <1>4 DEF TRA_get_inventory, TraType
  <2> QED
    BY <1>1, <2>1, <2>2, NothingCommits, StillHolds
<1>5. CASE CleansUp(p)
  <2>1. IInv' /\ Moves(p)
    BY <1>1, <1>5, CleanupIsSafe
  <2>2. PICK n, state, cleanup :
          /\ tra' = [tra EXCEPT ![p].snapshot[n] = state, ![p].cleanup = cleanup]
          /\ tip' = [tip EXCEPT ![n] = state]
          /\ state = "committed" => tip[n] = "committed"
    BY <1>5 DEF CleansUp
  <2>3. tra[p].at = "oldest" /\ tra'[p].at = "oldest"
    BY <1>2, <1>5, <2>2 DEF CleansUp, TraType
  <2>4. \A m \in Numbers : tip'[m] = "committed" => tip[m] = "committed"
    BY <1>2, <2>2
  <2> QED
    BY <1>1, <2>1, <2>3, <2>4, NothingCommits, StillHolds
<1>6. CASE FindsOldest(p)
  <2>1. IInv' /\ Moves(p)
    BY <1>1, <1>6, OldestIsSafe
  <2>2. PICK x, at : /\ at \in {"sweep", "active"}
                     /\ tra' = [tra EXCEPT ![p].oldest_active = x, ![p].active = 0,
                                  ![p].hdr_snapshot = 0, ![p].cleanup = FALSE, ![p].at = at]
    BY <1>6 DEF FindsOldest
  <2>3. tra[p].at = "oldest" /\ tra'[p].at \in {"sweep", "active"} /\ tip' = tip
    BY <1>2, <1>6, <2>2 DEF FindsOldest, TraType
  <2> QED
    BY <1>1, <2>1, <2>3, NothingCommits, StillHolds
<1>7. CASE retain_context(p)
  <2>1. IInv' /\ Moves(p)
    BY <1>1, <1>7, RetainIsSafe
  <2>2. /\ tra[p].at = "retain" /\ tra'[p].at = "retained"
        /\ tip' = [tip EXCEPT ![tra[p].number] = "committed"]
    BY <1>2, <1>7 DEF retain_context, TraType
  <2>3. chain' = chain /\ disk' = disk
    BY <1>1 DEF Pages
  <2>4. \A q \in Records : IsOwn(chain[q], p) \/ IsOwn(disk[q], p) => Even(p, chain[q], disk[q])
    BY <1>1, <2>2 DEF OwnMarked, Undecided, Reads
  <2>5. \A n \in Numbers : n # tra[p].number => tip'[n] = tip[n]
    BY <1>2, <2>2
  <2>6. \A n \in 0..MaxTransaction : n = 0 \/ n \in Numbers
    BY NumbersAre
  <2>7. Decides(p)
    BY <2>3, <2>4, <2>5, <2>6 DEF Decides, CommittedNext, Committed
  <2> QED
    BY <1>1, <2>1, <2>2, <2>7, StillHolds
<1>8. CASE retain_release(p)
  <2>1. IInv' /\ Moves(p)
    BY <1>1, <1>8, RetainedIsSafe
  <2>2. tra[p].at = "retained" /\ tra'[p].at = "active" /\ tip' = tip
    BY <1>2, <1>8 DEF retain_release, TraType
  <2> QED
    BY <1>1, <2>1, <2>2, NothingCommits, StillHolds
<1>9. CASE TRA_release_transaction(p)
  <2>1. IInv' /\ Moves(p)
    BY <1>1, <1>9, ReleaseIsSafe
  <2>2. tra[p].at = "ending" /\ tra'[p].at = "idle" /\ tip' = tip
    BY <1>2, <1>9, NoTraIs DEF TRA_release_transaction
  <2> QED
    BY <1>1, <2>1, <2>2, NothingCommits, StillHolds
<1>10. CASE Attach(p)
  <2>1. IInv' /\ Moves(p)
    BY <1>1, <1>10, AttachIsSafe
  <2>2. tra[p].at = "detached" /\ tra'[p].at = "idle"
    BY <1>2, <1>10, NoTraIs DEF Attach
  <2>3. \A n \in Numbers : tip'[n] = "committed" => tip[n] = "committed"
    BY <1>10 DEF Attach, TRA_cleanup
  <2> QED
    BY <1>1, <2>1, <2>2, <2>3, NothingCommits, StillHolds
<1> QED
  BY <1>3, <1>4, <1>5, <1>6, <1>7, <1>8, <1>9, <1>10 DEF Starts

\* What a flush writes: p's changed pages of rs, with all that its transaction marked.
LEMMA FlushWrites ==
  ASSUME PagesTyped, NEW p \in Sessions, NEW rs \in SUBSET Records, Flush(p, rs)
  PROVE  /\ OwnPages(p) /\ chain' = chain
         /\ \A q \in Records : disk'[q] = IF q \in rs /\ dirty[q] = p THEN chain[q] ELSE disk[q]
<1>1. /\ \A q \in Records : disk'[q] = IF q \in rs /\ dirty[q] = p THEN chain[q] ELSE disk[q]
      /\ \A q \in Records : dirty'[q] = IF q \in rs /\ dirty[q] = p THEN Nobody ELSE dirty[q]
      /\ \A q \in mark : dirty[q] # p => q \in mark'
      /\ chain' = chain
  BY DEF Flush
<1> QED
  BY <1>1 DEF OwnPages

\* After it the file has what the transaction wrote.
LEMMA FlushedIsEven ==
  ASSUME BInv, NEW p \in Sessions, Undecided(p), NEW rs \in SUBSET Records, mark \subseteq rs,
         Flush(p, rs)
  PROVE  \A q \in Records : IsOwn(chain'[q], p) \/ IsOwn(disk'[q], p) =>
           Even(p, chain'[q], disk'[q])
<1> SUFFICES ASSUME NEW q \in Records, IsOwn(chain'[q], p) \/ IsOwn(disk'[q], p)
             PROVE  Even(p, chain'[q], disk'[q])
  OBVIOUS
<1>1. /\ chain'[q] = chain[q]
      /\ disk'[q] = IF q \in rs /\ dirty[q] = p THEN chain[q] ELSE disk[q]
  BY TypesAre, FlushWrites
<1>2. (dirty[q] = p /\ q \in mark) \/ Even(p, chain[q], disk[q])
  BY <1>1 DEF BInv, OwnMarked
<1> QED
  BY <1>1, <1>2 DEF Even

\* A transaction that flushed keeps its number or is over.
LEMMA OwnIsWritten ==
  ASSUME NEW p \in Sessions, tra'[p].number = tra[p].number,
         \A q \in Records : IsOwn(chain'[q], p) \/ IsOwn(disk'[q], p) =>
           Even(p, chain'[q], disk'[q])
  PROVE  OwnMarked(p)'
BY DEF OwnMarked, Even, IsOwn

LEMMA DecidesCommitted ==
  ASSUME TransactionsFit, NEW p \in Sessions, NEW state \in {"committed", "dead"}, SetState(p, state),
         chain' = chain,
         state = "committed" =>
           \A q \in Records : IsOwn(chain'[q], p) \/ IsOwn(disk'[q], p) =>
             Even(p, chain'[q], disk'[q])
  PROVE  Decides(p)
<1>1. tip \in [Numbers -> States] /\ tip' = [tip EXCEPT ![tra[p].number] = state]
  BY DEF TransactionsFit, Typed, SetState
<1>2. \A n \in 0..MaxTransaction : n = 0 \/ n \in Numbers
  BY NumbersAre
<1> QED
  BY <1>1, <1>2 DEF Decides, CommittedNext, Committed

\* A transaction is decided about.
LEMMA DecisionHolds ==
  ASSUME BInv, NEW p \in Sessions, tra[p].at \in {"active", "undo"}, Quiet(p),
         NEW state \in {"committed", "dead"}, SetState(p, state), PagesStay(p), rpb' = rpb,
         OwnPages(p), chain' = chain,
         state = "committed" =>
           \A q \in Records : IsOwn(chain'[q], p) \/ IsOwn(disk'[q], p) =>
             Even(p, chain'[q], disk'[q])
  PROVE  BInv' /\ TopsKept
<1>1. IInv' /\ Moves(p) /\ TransactionsFit
  BY DecisionIsSafe DEF BInv, IInv
<1>2. tra'[p].at = "ending"
  BY <1>1, SetStateMoves DEF BInv
<1>3. OwnMarked(p)'
  BY <1>2 DEF OwnMarked, Undecided, Reads
<1>4. Decides(p)
  BY <1>1, DecidesCommitted
<1> QED
  BY <1>1, <1>3, <1>4, MoveHolds DEF Changes, Quiet

LEMMA CommitHolds ==
  ASSUME BInv, NEW p \in Sessions, Commits(p)
  PROVE  BInv' /\ TopsKept
<1>1. /\ Quiet(p) /\ rpb' = rpb /\ Flush(p, mark) /\ PagesTyped /\ TransactionsFit /\ IInv
      /\ tra[p].at = "active"
  BY TypesAre DEF Commits, BInv, TRA_commit, TRA_commit_retaining
<1>2. Undecided(p) /\ mark \in SUBSET Records
  BY <1>1 DEF Undecided, Reads, PagesTyped
<1>3. PagesStay(p)
  BY <1>1, <1>2, FlushIs, WrittenStay
<1>4. OwnPages(p) /\ chain' = chain
  BY <1>1, <1>2, FlushWrites
<1>5. \A q \in Records : IsOwn(chain'[q], p) \/ IsOwn(disk'[q], p) => Even(p, chain'[q], disk'[q])
  BY <1>1, <1>2, FlushedIsEven
<1>6. CASE TRA_commit(p)
  BY <1>1, <1>3, <1>4, <1>5, <1>6, DecisionHolds DEF TRA_commit
<1>7. CASE TRA_commit_retaining(p)
  <2>1. /\ tra' = [tra EXCEPT ![p].at = "retain", ![p].new = hdr'.next, ![p].sub = Own(p)]
        /\ tip' = tip /\ tra \in [Sessions -> TraType]
    BY <1>1, <1>7 DEF TRA_commit_retaining, TransactionsFit, Typed
  <2>2. tra'[p].number = tra[p].number
    BY <2>1 DEF TraType
  <2>3. OwnMarked(p)' /\ Decides(p)
    BY <1>5, <2>1, <2>2, OwnIsWritten, NothingCommits
  <2>4. IInv' /\ Moves(p)
    BY <1>1, CommitIsSafe
  <2> QED
    BY <1>1, <1>4, <2>3, <2>4, MoveHolds DEF Changes, Quiet
<1> QED
  BY <1>6, <1>7 DEF Commits

LEMMA RollbackHolds ==
  ASSUME BInv, NEW p \in Sessions, RollsBack(p)
  PROVE  BInv' /\ TopsKept
<1>1. /\ Quiet(p) /\ rpb' = rpb /\ PagesTyped /\ TransactionsFit /\ IInv /\ tra[p].at = "active"
      /\ tra \in [Sessions -> TraType]
  BY TypesAre DEF RollsBack, BInv, TRA_rollback, TransactionsFit, Typed
<1>2. Undecided(p) /\ mark \in SUBSET Records
  BY <1>1 DEF Undecided, Reads, PagesTyped
<1>3. CASE SetState(p, "dead")
  <2>1. tra'[p].at = "ending"
    BY <1>1, <1>3, SetStateMoves
  <2>2. Forget(p) /\ UNCHANGED <<chain, disk, dirty>>
    BY <2>1 DEF RollsBack
  <2>3. PagesStay(p)
    BY <1>1, <2>2, ForgetIs, WrittenStay
  <2>4. OwnPages(p)
    BY <2>2, StillIsOwnPages DEF Forget
  <2> QED
    BY <1>1, <1>3, <2>2, <2>3, <2>4, DecisionHolds
<1>4. CASE tra' = [tra EXCEPT ![p].at = "undo"] /\ UNCHANGED <<tip, hdr, dbb, lck, overtook>>
  <2>1. tra'[p].at = "undo" /\ tra'[p].number = tra[p].number
    BY <1>1, <1>4 DEF TraType
  <2>2. Flush(p, mark)
    BY <2>1 DEF RollsBack
  <2>3. OwnPages(p)
    BY <1>1, <1>2, <2>2, FlushWrites
  <2>4. OwnMarked(p)' /\ Decides(p)
    BY <1>2, <1>4, <2>1, <2>2, FlushedIsEven, OwnIsWritten, NothingCommits
  <2>5. IInv' /\ Moves(p)
    BY <1>1, RollbackIsSafe
  <2> QED
    BY <1>1, <2>3, <2>4, <2>5, MoveHolds DEF Changes, Quiet
<1> QED
  BY <1>3, <1>4 DEF RollsBack, TRA_rollback

LEMMA UndoHolds ==
  ASSUME BInv, NEW p \in Sessions, UndoEnds(p) \/ UndoGivesUp(p)
  PROVE  BInv' /\ TopsKept
<1>1. tra[p].at = "undo" /\ rpb' = rpb /\ PagesTyped /\ IInv
  BY TypesAre DEF UndoEnds, UndoGivesUp, Undone, UndoFails, BInv
<1>2. Quiet(p) /\ Undecided(p) /\ mark \in SUBSET Records
  BY <1>1 DEF IInv, UpdateFits, Quiet, Undecided, Reads, PagesTyped
<1>3. CASE UndoEnds(p)
  <2>1. Flush(p, mark) /\ SetState(p, "committed")
    BY <1>3 DEF UndoEnds, Undone
  <2>2. PagesStay(p)
    BY <1>1, <1>2, <2>1, FlushIs, WrittenStay
  <2>3. OwnPages(p) /\ chain' = chain
    BY <1>1, <1>2, <2>1, FlushWrites
  <2>4. \A q \in Records : IsOwn(chain'[q], p) \/ IsOwn(disk'[q], p) => Even(p, chain'[q], disk'[q])
    BY <1>2, <2>1, FlushedIsEven
  <2> QED
    BY <1>1, <1>2, <2>1, <2>2, <2>3, <2>4, DecisionHolds
<1>4. CASE UndoGivesUp(p)
  <2>1. Forget(p) /\ UNCHANGED <<chain, disk, dirty>> /\ SetState(p, "dead")
    BY <1>4 DEF UndoGivesUp, UndoFails
  <2>2. PagesStay(p)
    BY <1>1, <2>1, ForgetIs, WrittenStay
  <2>3. OwnPages(p)
    BY <2>1, StillIsOwnPages DEF Forget
  <2> QED
    BY <1>1, <1>2, <2>1, <2>2, <2>3, DecisionHolds
<1> QED
  BY <1>3, <1>4

LEMMA SweepEndHolds ==
  ASSUME BInv, NEW p \in Sessions, TRA_sweep(p)
  PROVE  BInv' /\ TopsKept
<1>1. /\ SweepEnds(p) /\ Flush(p, Records) /\ rpb' = [rpb EXCEPT ![p] = NoRpb]
      /\ tra[p].at = "sweep" /\ tra' = [tra EXCEPT ![p].at = "active"] /\ tip' = tip
  BY DEF TRA_sweep, SweepEnds
<1>2. IInv /\ PagesTyped /\ tra \in [Sessions -> TraType] /\ rpb \in [Sessions -> RpbType]
  BY TypesAre
<1>3. Undecided(p) /\ mark \subseteq Records
  BY <1>1, <1>2 DEF Undecided, Reads, PagesTyped
<1>4. tra'[p].number = tra[p].number /\ tra'[p].at = "active"
  BY <1>1, <1>2 DEF TraType
<1>5. OwnPages(p)
  BY <1>1, <1>2, FlushWrites
<1>6. \A q \in Records : IsOwn(chain'[q], p) \/ IsOwn(disk'[q], p) => Even(p, chain'[q], disk'[q])
  BY <1>1, <1>3, FlushedIsEven
<1>7. OwnMarked(p)' /\ Decides(p)
  BY <1>1, <1>4, <1>6, OwnIsWritten, NothingCommits
<1>8. rpb'[p].at = "none" /\ \A s \in Sessions : s # p => rpb'[s] = rpb[s]
  BY <1>1, <1>2, NoRpbIs
<1>9. IInv' /\ Moves(p)
  BY <1>2, SweepIsSafe
<1> QED
  BY <1>5, <1>7, <1>8, <1>9, MoveHolds DEF Changes

LEMMA DeathHolds ==
  ASSUME BInv, NEW p \in Sessions, ProcessDies(p)
  PROVE  BInv' /\ TopsKept
<1>1. /\ chain' = [r \in Records |-> IF dirty[r] = p THEN disk[r] ELSE chain[r]]
      /\ dirty' = [r \in Records |-> IF dirty[r] = p THEN Nobody ELSE dirty[r]]
      /\ mark' = {r \in mark : dirty[r] # p} /\ disk' = disk
      /\ rpb' = [rpb EXCEPT ![p] = NoRpb]
      /\ tra' = [tra EXCEPT ![p] = [NoTra EXCEPT !.at = "detached"]] /\ tip' = tip
  BY DEF ProcessDies, Dies, Forget
<1>2. IInv /\ tra \in [Sessions -> TraType] /\ rpb \in [Sessions -> RpbType]
  BY TypesAre
<1>3. tra'[p].at = "detached"
  BY <1>1, <1>2 DEF NoTra
<1>4. OwnPages(p)
  BY <1>1 DEF OwnPages
<1>5. OwnMarked(p)' /\ Decides(p)
  BY <1>1, <1>3, NothingCommits DEF OwnMarked, Undecided, Reads
<1>6. rpb'[p].at = "none" /\ \A s \in Sessions : s # p => rpb'[s] = rpb[s]
  BY <1>1, <1>2, NoRpbIs
<1>7. IInv' /\ Moves(p)
  BY <1>2, DeathIsSafe
<1> QED
  BY <1>4, <1>5, <1>6, <1>7, MoveHolds DEF Changes

\* A wait corrects a snapshot only where a number turned out to be dead.
LEMMA WaitEndHolds ==
  ASSUME BInv, NEW p \in Sessions, WaitEnds(p)
  PROVE  BInv' /\ TopsKept
<1> DEFINE n == rpb[p].on
<1>1. /\ IInv /\ TransactionsFit /\ tra \in [Sessions -> TraType] /\ rpb \in [Sessions -> RpbType]
      /\ UpdateFits(p) /\ rpb[p].at = "wait"
      /\ TRA_wait(p, n) /\ UNCHANGED <<chain, disk, dirty, mark>>
  BY TypesAre DEF WaitEnds
<1>2. tra[p].at = "active" /\ n \in Numbers /\ rpb[p].rec \in Records
  <2>1. /\ tra[p].at = "active" /\ rpb[p].rec \in Records /\ n <= hdr.next /\ 1 <= n
        /\ n \in 0..MaxTransaction
    BY <1>1, RpbIs DEF UpdateFits
  <2> QED
    BY <2>1, NumbersAre
<1>3. /\ tip \in [Numbers -> States] /\ tip' = [tip EXCEPT ![n] = WaitedState(n)]
      /\ \/ tra' = tra
         \/ WaitedState(n) # "committed" /\ tra' = [tra EXCEPT ![p].snapshot[n] = WaitedState(n)]
  BY <1>1 DEF TRA_wait, TransactionsFit, Typed
<1>4. \A m \in Numbers : tip'[m] = "committed" => tip[m] = "committed"
  BY <1>3 DEF WaitedState
<1>5. Decides(p)
  BY <1>4, NothingCommits
<1>6. /\ tra'[p].at = "active" /\ tra'[p].number = tra[p].number /\ tra'[p].top = tra[p].top
      /\ tra'[p].oldest = tra[p].oldest /\ tra'[p].sub = tra[p].sub
      /\ \A m \in Numbers \ {n} : tra'[p].snapshot[m] = tra[p].snapshot[m]
      /\ tra'[p].snapshot[n] = tra[p].snapshot[n] \/ tra'[p].snapshot[n] # "committed"
  BY <1>1, <1>2, <1>3 DEF TraType
<1>7. tra'[p].snapshot[n] # tra[p].snapshot[n] => tra[p].snapshot[n] # "committed"
  <2>1. tra[p].snapshot[n] = "committed" => tip[n] = "committed"
    BY <1>1, <1>2 DEF TransactionsFit, SnapshotFits
  <2>2. tip[n] = "committed" => tra' = tra
    BY <1>2, <1>3 DEF WaitedState
  <2> QED
    BY <2>1, <2>2
<1>8. \A m \in 0..MaxTransaction : State(p, m)' = "committed" <=> State(p, m) = "committed"
  <2>1. \A m \in 0..MaxTransaction : m = 0 \/ m \in Numbers
    BY NumbersAre
  <2> QED
    BY <1>6, <1>7, <2>1 DEF State, TRA_snapshot_state
<1>9. IInv' /\ Moves(p)
  BY <1>1, WaitEndIsSafe
<1>10. OwnMarked(p)' /\ OwnPages(p)
  BY <1>1, <1>6, <1>9, OwnStaysMarked, StillIsOwnPages
<1>11. ASSUME NEW t, rpb' = [rpb EXCEPT ![p] = t], t.at # "expunge",
              (t.rec = rpb[p].rec /\ t.read = rpb[p].read) \/ t.at = "none"
       PROVE  BInv' /\ TopsKept
  <2>1. rpb'[p] = t /\ \A s \in Sessions : s # p => rpb'[s] = rpb[s]
    BY <1>1, <1>11
  <2>2. Changes(p)' => Changes(p) /\ rpb'[p].rec = rpb[p].rec /\ rpb'[p].read = rpb[p].read
    BY <1>1, <1>11, <2>1 DEF Changes
  <2> QED
    BY <1>1, <1>5, <1>8, <1>9, <1>10, <1>11, <2>1, <2>2, MoveHolds
<1>12. CASE Step(p, "backout")
  <2>1. rpb' = [rpb EXCEPT ![p] = At(rpb[p], "backout")]
    BY <1>12 DEF Step, At
  <2>2. LET t == At(rpb[p], "backout")
        IN  t.at = "backout" /\ t.rec = rpb[p].rec /\ t.read = rpb[p].read
    BY <1>1 DEF At, RpbType
  <2> QED
    BY <1>11, <2>1, <2>2
<1>13. CASE rpb' = [rpb EXCEPT ![p].at = "update", ![p].conflict = rpb[p].on]
  <2>1. rpb' = [rpb EXCEPT ![p] = AtConflict(rpb[p], "update", n)]
    BY <1>13 DEF AtConflict
  <2>2. LET t == AtConflict(rpb[p], "update", n)
        IN  t.at = "update" /\ t.rec = rpb[p].rec /\ t.read = rpb[p].read
    BY <1>1 DEF AtConflict, RpbType
  <2> QED
    BY <1>11, <2>1, <2>2
<1>14. CASE Finished(p, rpb[p].rec)
  <2>1. rpb'[p].at = "none" /\ \A s \in Sessions : s # p => rpb'[s] = rpb[s]
    BY <1>2, <1>14, FinishedNotes
  <2> QED
    BY <1>5, <1>9, <1>10, <2>1, MoveHolds DEF Changes
<1> QED
  BY <1>12, <1>13, <1>14 DEF WaitEnds

LEMMA DenialHolds ==
  ASSUME BInv, NEW p \in Sessions, WaitDenied(p)
  PROVE  BInv' /\ TopsKept
<1>1. /\ IInv /\ UpdateFits(p) /\ rpb[p].at = "wait" /\ Finished(p, rpb[p].rec)
      /\ UNCHANGED transactionVars /\ UNCHANGED <<chain, disk, dirty, mark>>
  BY TypesAre DEF WaitDenied
<1>2. tra[p].at = "active" /\ rpb[p].rec \in Records /\ tra' = tra /\ tip' = tip
  BY <1>1 DEF UpdateFits, transactionVars
<1>3. rpb'[p].at = "none" /\ \A s \in Sessions : s # p => rpb'[s] = rpb[s]
  BY <1>1, <1>2, FinishedNotes
<1>4. IInv' /\ Moves(p)
  BY <1>1, DenialIsSafe
<1>5. OwnMarked(p)' /\ OwnPages(p) /\ Decides(p)
  BY <1>1, <1>2, <1>4, OwnStaysMarked, StillIsOwnPages, NothingCommits
<1> QED
  BY <1>3, <1>4, <1>5, MoveHolds DEF Changes

-----------------------------------------------------------------------------
(* The invariant holds. *)

LEMMA InitHolds == Init => BInv
<1> SUFFICES ASSUME Init PROVE BInv
  OBVIOUS
<1> DEFINE first == Version(0, 0, FALSE)
<1>1. /\ chain = [r \in Records |-> <<first>>] /\ disk = chain
      /\ tra = [p \in Sessions |-> NoTra] /\ rpb = [p \in Sessions |-> NoRpb]
  BY DEF Init, Init_tra
<1> HIDE DEF first
<1>2. FileKept
  BY <1>1 DEF FileKept, Same
<1>3. \A r \in Records : Follows(chain[r]) /\ Follows(disk[r])
  BY <1>1 DEF Follows
<1>4. ASSUME NEW p \in Sessions PROVE ReadKept(p) /\ ExpungeFits(p) /\ OwnMarked(p)
  <2>1. rpb[p].at = "none" /\ tra[p].at = "idle"
    BY <1>1, NoTraIs, NoRpbIs
  <2> QED
    BY <2>1 DEF ReadKept, ExpungeFits, OwnMarked, Changes, Undecided, Reads
<1> QED
  BY <1>2, <1>3, <1>4, InitIsFine DEF BInv

LEMMA StutterHolds ==
  ASSUME BInv, UNCHANGED vars PROVE BInv'
<1>1. /\ tip' = tip /\ tra' = tra
      /\ chain' = chain /\ disk' = disk /\ dirty' = dirty /\ mark' = mark /\ rpb' = rpb
  BY DEF vars, transactionVars
<1>2. IInv'
  BY StutterIsFine DEF BInv
<1>3. FileKept'
  BY <1>1 DEF BInv, FileKept, Top, Committed
<1>4. \A r \in Records : Follows(chain[r])' /\ Follows(disk[r])'
  BY <1>1 DEF BInv, Follows
<1>5. ASSUME NEW p \in Sessions PROVE ReadKept(p)' /\ ExpungeFits(p)' /\ OwnMarked(p)'
  <2>1. ReadKept(p) /\ ExpungeFits(p) /\ OwnMarked(p)
    BY DEF BInv
  <2>2. ReadKept(p)'
    <3> DEFINE q == rpb[p].rec
               n == rpb[p].read
    <3>1. \A m : State(p, m)' = State(p, m)
      BY <1>1 DEF State, TRA_snapshot_state
    <3>2. Changes(p)' => /\ rpb'[p].rec = q /\ rpb'[p].read = n
                         /\ LedBy(p, chain'[q], n) /\ (dirty'[q] # p => LedBy(p, disk'[q], n))
      BY <1>1, <2>1 DEF ReadKept, Changes
    <3> HIDE DEF q, n
    <3> QED
      BY <1>2, <3>1, <3>2, ReadStays
  <2>3. ExpungeFits(p)'
    BY <1>1, <2>1 DEF ExpungeFits, CleanAt, Clean, Committed
  <2>4. OwnMarked(p)'
    BY <1>1, <2>1 DEF OwnMarked, IsOwn, Even, Undecided, Reads
  <2> QED
    BY <2>2, <2>3, <2>4
<1> QED
  BY <1>2, <1>3, <1>4, <1>5 DEF BInv

LEMMA NextHolds ==
  ASSUME BInv, Next PROVE BInv' /\ TopsKept
<1>1. ASSUME NEW p \in Sessions,
             \/ Starts(p) \/ Commits(p) \/ RollsBack(p) \/ UndoEnds(p) \/ UndoGivesUp(p)
             \/ TRA_sweep(p) \/ ProcessDies(p) \/ WaitEnds(p) \/ WaitDenied(p)
      PROVE  BInv' /\ TopsKept
  BY <1>1, StartHolds, CommitHolds, RollbackHolds, UndoHolds, SweepEndHolds, DeathHolds,
     WaitEndHolds, DenialHolds
<1>2. ASSUME NEW p \in Sessions, NEW r \in Records, \E op \in Operations : VIO_get(p, r, op)
      PROVE  BInv' /\ TopsKept
  BY <1>2, GetHolds
<1>3. ASSUME NEW p \in Sessions, NEW r \in Records,
             \/ VIO_sweep(p, r) \/ VIO_store(p, r) \/ VIO_verb_cleanup(p, r)
             \/ ChaseBacksOut(p, r) \/ purge(p, r) \/ ChaseExpunges(p, r) \/ expunge(p, r)
      PROVE  BInv' /\ TopsKept
  BY <1>3, SweepHolds, StoreHolds, UnmakeHolds, BackOutHolds, PurgeHolds, ExpungeStartHolds,
     ExpungeHolds
<1>4. ASSUME NEW p \in Sessions, NEW r \in Records,
             \/ Replaces(p, r) \/ CorrectsPointers(p, r) \/ NothingToUpdate(p, r)
             \/ UpdateBlocked(p, r) \/ VIO_backout(p, r)
      PROVE  BInv' /\ TopsKept
  BY <1>4, ReplaceHolds, CorrectHolds, NothingHolds, BlockHolds, BackoutHolds
<1>5. ASSUME NEW r \in Records, CacheWrites(r) PROVE BInv' /\ TopsKept
  BY <1>5, CacheHolds
<1> QED
  BY <1>1, <1>2, <1>3, <1>4, <1>5 DEF Next

(* The inductive invariant holds in every state: what an update read is still the newest
   version its snapshot has, the file has the newest committed version of every record as the
   caches have it, and what a commit has to write is marked for it. *)
THEOREM UpdateInvariance == Spec => []BInv
<1>1. BInv /\ [Next]_vars => BInv'
  BY NextHolds, StutterHolds
<1> QED
  BY InitHolds, <1>1, PTL DEF Spec

(* No update is lost: in every state every version was made from the version behind it.  The
   copy that prepare_update stored before it let the page go is put in front only of the
   version it was made from, whoever backs out, purges, expunges or sweeps meanwhile. *)
THEOREM NoUpdateIsLost == Spec => []BasedOnPredecessor
<1>1. BInv => BasedOnPredecessor
  <2> SUFFICES ASSUME BInv, NEW r \in Records, NEW i \in 1..(Len(chain[r]) - 1)
               PROVE  chain[r][i].base = chain[r][i + 1].tra
    BY DEF BasedOnPredecessor
  <2>1. chain[r] \in Seq(VersionType) /\ Follows(chain[r])
    BY ChainIs
  <2>2. i \in DOMAIN chain[r] /\ i + 1 \in DOMAIN chain[r]
    BY <2>1
  <2> QED
    BY <2>1, <2>2 DEF Follows
<1> QED
  BY <1>1, UpdateInvariance, PTL

(* What committed stays: no step, no death of a process with changed pages in its cache either,
   takes the newest committed version of a record away, unless it is an erased one that is
   collected or another transaction commits (CCH_flush before the state is written). *)
THEOREM CommittedIsKept == Spec => CommittedKept
<1>1. /\ BInv /\ NewestAreTops /\ NewestAreTops' /\ [Next]_vars
      => [\A r \in Records :
            LET old == NewestCommitted(r)
                new == NewestCommitted(r)'
            IN  new = old \/ (old.del /\ new.del) \/ ~Committed(new.tra)]_vars
  <2> SUFFICES ASSUME BInv, NewestAreTops, NewestAreTops', Next, NEW r \in Records
               PROVE  \/ NewestCommitted(r)' = NewestCommitted(r)
                      \/ NewestCommitted(r).del /\ NewestCommitted(r)'.del
                      \/ ~Committed(NewestCommitted(r)'.tra)
    OBVIOUS
  <2>1. NewestCommitted(r) = Top(chain[r]) /\ NewestCommitted(r)' = Top(chain[r])'
    BY DEF NewestAreTops
  <2>2. KeptBy(r)
    BY NextHolds DEF TopsKept
  <2> QED
    BY <2>1, <2>2 DEF KeptBy, Same
<1>2. BInv => NewestAreTops
  BY NewestIsTop DEF BInv
<1> QED
  BY <1>1, <1>2, UpdateInvariance, PTL DEF Spec, CommittedKept

-----------------------------------------------------------------------------
(* The inductive invariant of snapshots, beside that of updates. *)

(* p has a snapshot and was not overtaken. *)
HasSnapshot(p) == tra[p].at = "oldest" \/ Reads(p)
Stands(p) == HasSnapshot(p) /\ p \notin overtook

(* Whose versions p sees, its own apart; before it has its snapshot those it would get. *)
Visible(p) ==
  IF tra[p].at = "inventory" THEN {n \in 0..MaxTransaction : Committed(n) /\ n < tra[p].number}
  ELSE {n \in 0..MaxTransaction : State(p, n) = "committed"}

(* The snapshot of p has everything that committed below x. *)
FitsFor(p, x) ==
  \A n \in Numbers : n < x /\ tip[n] = "committed" => State(p, n) = "committed"

(* What is below x is over, and all snapshots that were not overtaken have what committed
   of it: versions behind one below x are nobody's. *)
Reached(x) == Over(x) /\ \A p \in Sessions : Stands(p) => FitsFor(p, x)

(* The numbers from which a transaction takes what is mature have been reached. *)
CountersReached(p) ==
  /\ Reached(dbb[p].oldest_snapshot) /\ Reached(tra[p].hdr_snapshot)
  /\ Reads(p) => Reached(tra[p].oldest_active)

(* The data of the lock of p tells how far its snapshot is complete, and so will that of the
   number it gets next. *)
LockReached(p) ==
  /\ Undecided(p) => Over(lck[tra[p].number])
  /\ HasSnapshot(p) => FitsFor(p, lck[tra[p].number])
  /\ tra[p].at = "retain" => lck[tra[p].new] = lck[tra[p].number] /\ tra[p].number \in tra[p].sub

(* While t looks for the oldest active transaction a younger one has what t has, or t finds
   active what the younger one committed and retained. *)
Within(t, p) ==
  \A n \in Numbers : n < tra[t].number /\ tip[n] = "committed" /\ State(t, n) = "committed"
                       => State(p, n) = "committed"

InOrder(t, p) ==
  tra[t].at = "oldest" /\ Stands(p) /\ tra[p].number > tra[t].number =>
    (\E m \in tra[p].sub : m \in ActiveBelow(t)) \/ Within(t, p)

(* What a record is to who sees the versions of the transactions in N: the first of these,
   unless it says that the record is erased. *)
Shown(N, versions) ==
  {versions[i] : i \in {i \in DOMAIN versions :
       /\ versions[i].tra \in N /\ ~versions[i].del
       /\ \A j \in DOMAIN versions : j < i => versions[j].tra \notin N}}

(* The numbers a transaction that cleans up may yet find committed. *)
Correctable(p) ==
  IF tra[p].at = "oldest" /\ tra[p].cleanup
  THEN {n \in ActiveBelow(p) : tip[n] = "committed"} ELSE {}

Cuts(p) == {Visible(p) \cup {n} : n \in Correctable(p) \cup {0}}

(* The file has what p sees as the cache has it. *)
Agrees(N) == \A r \in Records : Shown(N, chain[r]) = Shown(N, disk[r])
PagesAgree(p) == Undecided(p) /\ p \notin overtook => \A N \in Cuts(p) : Agrees(N)

ReachInv ==
  /\ Reached(hdr.oldest_snapshot)
  /\ \A p \in Sessions : /\ CountersReached(p) /\ LockReached(p)
                         /\ p \in overtook => HasSnapshot(p)
  /\ \A t, p \in Sessions : InOrder(t, p)

Plain(p) == tra[p].at = "inventory" => tra[p].sub = {}

SInv == BInv /\ ReachInv /\ \A p \in Sessions : Plain(p) /\ PagesAgree(p)

-----------------------------------------------------------------------------
(* What a step of a transaction does to the others' snapshots. *)

\* The snapshot of p has what it had of what committed.
Grows(p) ==
  \A n \in Numbers : tip[n] = "committed" /\ State(p, n) = "committed" => State(p, n)' = "committed"

\* The snapshot of p is new.
Fresh(p) ==
  /\ Undecided(p)'
  /\ \A n \in Numbers : n < tra'[p].number /\ tip'[n] = "committed" => State(p, n)' = "committed"

\* A step of p leaves the others' transactions and their locks alone.
Steady(p) ==
  \A s \in Sessions : s # p =>
    /\ tra'[s] = tra[s] /\ dbb'[s] = dbb[s]
    /\ s \in overtook => s \in overtook'
    /\ Undecided(s) => lck'[tra[s].number] = lck[tra[s].number]
    /\ tra[s].at = "retain" => lck'[tra[s].new] = lck[tra[s].new]

LEMMA SnapshotIsOver ==
  ASSUME TransactionsFit, NEW p \in Sessions, NEW n \in Numbers, State(p, n) = "committed"
  PROVE  tip[n] # "active" /\ n # tra[p].number
<1>1. tra[p] \in TraType /\ SnapshotFits(p) /\ tra[p].oldest <= hdr.oldest_transaction
      /\ hdr.oldest_transaction \in Nat /\ n \in Nat /\ n # 0
  BY CountersAre, NumbersAre DEF CountersFit
<1>2. tra[p].oldest \in Nat
  BY <1>1, FieldsAre
<1>3. /\ n # tra[p].number
      /\ n < tra[p].oldest \/ n \in tra[p].sub \/ tra[p].snapshot[n] = "committed"
  BY <1>1 DEF State, TRA_snapshot_state
<1>4. n < tra[p].oldest => tip[n] # "active"
  BY <1>1, <1>2 DEF TransactionsFit, HeaderFits, Over
<1> QED
  BY <1>1, <1>3, <1>4 DEF SnapshotFits

LEMMA OthersSee ==
  ASSUME NEW p \in Sessions, Steady(p), NEW s \in Sessions, s # p
  PROVE  /\ \A n : State(s, n)' = State(s, n)
         /\ HasSnapshot(s)' <=> HasSnapshot(s)
         /\ Undecided(s)' <=> Undecided(s)
         /\ Stands(s)' => Stands(s)
BY DEF Steady, State, TRA_snapshot_state, HasSnapshot, Undecided, Reads, Stands

\* What has been reached stays so: what is below is over, and a new snapshot has it.
LEMMA ReachedStays ==
  ASSUME TransactionsFit, TransactionsFit', Forward, NEW p \in Sessions, Steady(p),
         Stands(p)' => (Stands(p) /\ Grows(p)) \/ Fresh(p),
         NEW x \in 0..MaxTransaction, Reached(x)
  PROVE  Reached(x)'
<1>1. Over(x) /\ x \in Nat
  BY NumbersAre DEF Reached
<1>2. Over(x)'
  <2>1. hdr'.next \in Nat
    BY NumbersAre DEF TransactionsFit, Typed
  <2> QED
    BY <1>1, <2>1, StaysOver DEF TransactionsFit
<1>3. \A n \in Numbers : n < x => tip'[n] = tip[n]
  BY <1>1 DEF Over, Forward
<1>4. ASSUME NEW s \in Sessions, Stands(s)' PROVE FitsFor(s, x)'
  <2> SUFFICES ASSUME NEW n \in Numbers, n < x, tip'[n] = "committed"
               PROVE  State(s, n)' = "committed"
    BY DEF FitsFor
  <2>1. tip[n] = "committed"
    BY <1>3
  <2>2. ASSUME Stands(s) PROVE State(s, n) = "committed"
    BY <2>1, <2>2 DEF Reached, FitsFor
  <2>3. CASE s # p
    BY <1>4, <2>2, <2>3, OthersSee
  <2>4. CASE s = p /\ Stands(p) /\ Grows(p)
    BY <2>1, <2>2, <2>4 DEF Grows
  <2>5. CASE s = p /\ Fresh(p)
    <3>1. tra'[p].number \in Numbers /\ tip'[tra'[p].number] = "active"
      <4>1. Undecided(p)' /\ tra'[p] \in TraType /\ NumberFits(p)'
        BY <2>5 DEF Fresh, TransactionsFit, Typed
      <4>2. tra'[p].number # 0 /\ tip'[tra'[p].number] = "active"
        BY <4>1 DEF NumberFits, Undecided, Reads
      <4> QED
        BY <4>1, <4>2, FieldsAre, NumbersAre
    <3>2. ~(tra'[p].number < x)
      BY <1>2, <3>1 DEF Over
    <3>3. n < tra'[p].number
      BY <1>1, <3>1, <3>2, NumbersAre
    <3> QED
      BY <2>5, <3>3 DEF Fresh
  <2> QED
    BY <1>4, <2>3, <2>4, <2>5
<1> QED
  BY <1>2, <1>4 DEF Reached

\* The snapshot of p is complete below x, and everything there is over.
LEMMA FitsStays ==
  ASSUME Forward, NEW p \in Sessions, NEW x, Over(x), FitsFor(p, x), Grows(p)
  PROVE  FitsFor(p, x)'
<1>1. \A n \in Numbers : n < x => tip'[n] = tip[n]
  BY DEF Over, Forward
<1> QED
  BY <1>1 DEF FitsFor, Grows

LEMMA OthersStayInOrder ==
  ASSUME TransactionsFit, Forward, NEW p \in Sessions, Steady(p),
         NEW t \in Sessions, t # p, NEW s \in Sessions, InOrder(t, s),
         \/ s # p
         \/ /\ (Stands(p)' => Stands(p)) /\ Grows(p) /\ s = p
            /\ tra'[p].number = tra[p].number /\ tra[p].sub \subseteq tra'[p].sub
  PROVE  InOrder(t, s)'
<1>1. tra'[t] = tra[t] /\ \A n : State(t, n)' = State(t, n)
  BY OthersSee DEF Steady
<1>2. Stands(s)' => Stands(s)
  BY OthersSee
<1>3. tra'[s].number = tra[s].number /\ tra[s].sub \subseteq tra'[s].sub
  BY DEF Steady
<1>4. Grows(s)
  <2>1. CASE s = p
    BY <2>1
  <2>2. CASE s # p
    BY <2>2, OthersSee DEF Grows
  <2> QED
    BY <2>1, <2>2
<1>5. ActiveBelow(t)' = ActiveBelow(t)
  BY <1>1 DEF ActiveBelow
<1>6. Within(t, s) => Within(t, s)'
  <2> SUFFICES ASSUME Within(t, s), NEW n \in Numbers, n < tra[t].number, tip'[n] = "committed",
                      State(t, n) = "committed"
               PROVE  State(s, n)' = "committed"
    BY <1>1 DEF Within
  <2>1. tip[n] = "committed"
    BY SnapshotIsOver DEF Forward
  <2>2. State(s, n) = "committed"
    BY <2>1 DEF Within
  <2> QED
    BY <1>4, <2>1, <2>2 DEF Grows
<1> QED
  BY <1>1, <1>2, <1>3, <1>5, <1>6 DEF InOrder

\* A new snapshot has what the older transactions have.
LEMMA FreshIsInOrder ==
  ASSUME TransactionsFit', NEW p \in Sessions, Fresh(p), NEW t \in Sessions
  PROVE  InOrder(t, p)'
<1> SUFFICES ASSUME tra'[p].number > tra'[t].number, NEW n \in Numbers, n < tra'[t].number,
                    tip'[n] = "committed"
             PROVE  State(p, n)' = "committed"
  BY DEF InOrder, Within
<1>1. tra'[p] \in TraType /\ tra'[t] \in TraType
  BY DEF TransactionsFit, Typed
<1>2. tra'[p].number \in Nat /\ tra'[t].number \in Nat /\ n \in Nat
  BY <1>1, FieldsAre, NumbersAre
<1> QED
  BY <1>2 DEF Fresh

LEMMA LockStaysReached ==
  ASSUME TransactionsFit, TransactionsFit', Forward,
         NEW s \in Sessions, LockReached(s), Grows(s),
         Undecided(s)' => Undecided(s), HasSnapshot(s)' => HasSnapshot(s),
         Undecided(s)' => lck'[tra'[s].number] = lck[tra[s].number],
         tra'[s].at = "retain" => /\ lck'[tra'[s].new] = lck[tra[s].number]
                                  /\ tra'[s].number \in tra'[s].sub
  PROVE  LockReached(s)'
<1>1. PICK x : x = lck[tra[s].number]
  OBVIOUS
<1>2. ASSUME Undecided(s) PROVE Over(x) /\ Over(x)'
  <2>1. tra[s].number \in Numbers
    BY <1>2, AliveIs
  <2>2. x \in 0..MaxTransaction /\ Over(x)
    BY <1>1, <1>2, <2>1 DEF TransactionsFit, Typed, LockReached
  <2>3. hdr'.next \in Nat
    BY NumbersAre DEF TransactionsFit, Typed
  <2> QED
    BY <2>2, <2>3, StaysOver DEF TransactionsFit
<1>3. /\ HasSnapshot(s) => Undecided(s)
      /\ HasSnapshot(s)' => Undecided(s)'
      /\ tra'[s].at = "retain" => Undecided(s)'
  BY DEF HasSnapshot, Undecided, Reads
<1>4. HasSnapshot(s) => FitsFor(s, x)
  BY <1>1 DEF LockReached
<1>5. HasSnapshot(s)' => FitsFor(s, x)'
  BY <1>2, <1>3, <1>4, FitsStays
<1>6. /\ Undecided(s)' => lck'[tra'[s].number] = x
      /\ tra'[s].at = "retain" => lck'[tra'[s].new] = x
  BY <1>1
<1>7. Undecided(s)' => Over(lck[tra[s].number])'
  BY <1>2, <1>6 DEF Over
<1>8. HasSnapshot(s)' => FitsFor(s, lck[tra[s].number])'
  BY <1>3, <1>5, <1>6 DEF FitsFor
<1> QED
  BY <1>3, <1>6, <1>7, <1>8 DEF LockReached

\* A step of p keeps that part of the invariant.
LEMMA ReachHolds ==
  ASSUME TransactionsFit, ReachInv, TransactionsFit', Forward, NEW p \in Sessions, Steady(p),
         Stands(p)' => (Stands(p) /\ Grows(p)) \/ Fresh(p),
         hdr'.oldest_snapshot \in {hdr.oldest_snapshot, dbb[p].oldest_snapshot},
         CountersReached(p)', LockReached(p)',
         p \in overtook' => HasSnapshot(p)',
         \A s \in Sessions : s # p /\ s \in overtook' => s \in overtook \/ HasSnapshot(s),
         \A s \in Sessions : s # p => InOrder(p, s)' /\ InOrder(s, p)'
  PROVE  ReachInv'
<1>1. \A x \in 0..MaxTransaction : Reached(x) => Reached(x)'
  BY ReachedStays
<1>2. /\ hdr.oldest_snapshot \in 0..MaxTransaction
      /\ \A s \in Sessions : dbb[s].oldest_snapshot \in 0..MaxTransaction
      /\ \A s \in Sessions : tra[s] \in TraType /\ tra'[s] \in TraType
  BY DEF TransactionsFit, Typed
<1>3. Reached(hdr.oldest_snapshot)'
  <2>1. PICK x \in 0..MaxTransaction : Reached(x) /\ hdr'.oldest_snapshot = x
    BY <1>2 DEF ReachInv, CountersReached
  <2>2. Reached(x)'
    BY <1>1, <2>1
  <2> QED
    BY <2>1, <2>2 DEF Reached, Over, FitsFor
<1>4. ASSUME NEW s \in Sessions, s # p
      PROVE  CountersReached(s)' /\ LockReached(s)' /\ (s \in overtook' => HasSnapshot(s)')
  <2>1. tra'[s] = tra[s] /\ dbb'[s] = dbb[s]
    BY <1>4 DEF Steady
  <2>2. PICK x \in 0..MaxTransaction : x = dbb[s].oldest_snapshot
    BY <1>2
  <2>3. PICK y \in 0..MaxTransaction, z \in 0..MaxTransaction :
          y = tra[s].hdr_snapshot /\ z = tra[s].oldest_active
    BY <1>2 DEF TraType
  <2>4. Reached(x) /\ Reached(y) /\ (Reads(s) => Reached(z))
    BY <2>2, <2>3 DEF ReachInv, CountersReached
  <2>5. Reached(x)' /\ Reached(y)' /\ (Reads(s)' => Reached(z)')
    BY <1>1, <2>1, <2>4 DEF Reads
  <2>6. CountersReached(s)'
    BY <2>1, <2>2, <2>3, <2>5 DEF CountersReached, Reached, Over, FitsFor
  <2>7. Grows(s)
    BY <1>4, OthersSee DEF Grows
  <2>8. LockReached(s)'
    <3>1. LockReached(s)
      BY DEF ReachInv
    <3>2. Undecided(s)' <=> Undecided(s)
      BY <1>4, OthersSee
    <3>3. HasSnapshot(s)' <=> HasSnapshot(s)
      BY <1>4, OthersSee
    <3>4. Undecided(s) => lck'[tra'[s].number] = lck[tra[s].number]
      BY <1>4 DEF Steady
    <3>5. tra'[s].at = "retain" => /\ lck'[tra'[s].new] = lck[tra[s].number]
                                   /\ tra'[s].number \in tra'[s].sub
      BY <1>4, <3>1 DEF Steady, LockReached
    <3> QED
      BY <2>7, <3>1, <3>2, <3>3, <3>4, <3>5, LockStaysReached
  <2>9. s \in overtook' => HasSnapshot(s)'
    BY <1>4, OthersSee DEF ReachInv
  <2> QED
    BY <2>6, <2>8, <2>9
<1>5. ASSUME NEW t \in Sessions, NEW s \in Sessions PROVE InOrder(t, s)'
  <2>1. CASE t # p /\ s # p
    BY <2>1, OthersStayInOrder DEF ReachInv
  <2>2. CASE t = p /\ s = p
    <3>1. tra'[p].number \in Nat
      BY <1>2, FieldsAre
    <3> QED
      BY <2>2, <3>1 DEF InOrder
  <2> QED
    BY <2>1, <2>2
<1> QED
  BY <1>3, <1>4, <1>5 DEF ReachInv

LEMMA SteadyIs ==
  ASSUME TransactionsFit, NEW p \in Sessions,
         \A s \in Sessions : s # p => /\ tra'[s] = tra[s] /\ dbb'[s] = dbb[s]
                                      /\ s \in overtook => s \in overtook',
         \A n \in Numbers : lck'[n] = lck[n] \/ n \in {tra[p].number, tra[p].new} \/ n > hdr.next
  PROVE  Steady(p)
<1> SUFFICES ASSUME NEW s \in Sessions, s # p
             PROVE  /\ Undecided(s) => lck'[tra[s].number] = lck[tra[s].number]
                    /\ tra[s].at = "retain" => lck'[tra[s].new] = lck[tra[s].new]
  BY DEF Steady
<1>1. tra[s] \in TraType /\ NumberFits(s) /\ hdr.next \in Nat /\ Apart(s, p)
  BY CountersAre
<1>2. ASSUME Undecided(s) PROVE lck'[tra[s].number] = lck[tra[s].number]
  <2>1. tra[s].number \in Numbers /\ tra[s].number # 0 /\ tra[s].number <= hdr.next
    BY <1>2, AliveIs
  <2> QED
    BY <1>1, <2>1, NumbersAre DEF Apart
<1>3. ASSUME tra[s].at = "retain" PROVE lck'[tra[s].new] = lck[tra[s].new]
  <2>1. tra[s].new \in 0..MaxTransaction /\ tra[s].new # 0 /\ tra[s].new <= hdr.next
    BY <1>1, <1>3, FieldsAre DEF NumberFits
  <2>2. tra[s].new \in Numbers
    BY <2>1, NumbersAre
  <2> QED
    BY <1>1, <2>1, <2>2, NumbersAre DEF Apart
<1> QED
  BY <1>2, <1>3

LEMMA SnapshotIsSame ==
  ASSUME NEW p \in Sessions, tra'[p].number = tra[p].number, tra'[p].sub = tra[p].sub,
         tra'[p].oldest = tra[p].oldest, tra'[p].top = tra[p].top,
         tra'[p].snapshot = tra[p].snapshot
  PROVE  Grows(p) /\ \A n : State(p, n)' = State(p, n)
BY DEF Grows, State, TRA_snapshot_state

\* A step that leaves p without a snapshot.
LEMMA BareHolds ==
  ASSUME TransactionsFit, ReachInv, TransactionsFit', Forward, NEW p \in Sessions, Steady(p),
         ~HasSnapshot(p)', Undecided(p)' => Over(lck[tra[p].number])',
         hdr'.oldest_snapshot \in {hdr.oldest_snapshot, dbb[p].oldest_snapshot},
         {dbb'[p].oldest_snapshot, tra'[p].hdr_snapshot} \subseteq
           {0, hdr.oldest_snapshot, dbb[p].oldest_snapshot, tra[p].hdr_snapshot},
         overtook' \subseteq overtook, p \notin overtook'
  PROVE  ReachInv'
<1>1. ~Stands(p)' /\ ~Reads(p)' /\ tra'[p].at \notin {"oldest", "retain"}
  BY DEF Stands, HasSnapshot, Reads
<1>2. \A s \in Sessions : s # p => InOrder(p, s)' /\ InOrder(s, p)'
  BY <1>1 DEF InOrder
<1>3. LockReached(p)'
  BY <1>1 DEF LockReached
<1>4. \A x \in 0..MaxTransaction : Reached(x) => Reached(x)'
  BY <1>1, ReachedStays
<1>5. /\ Reached(0)
      /\ \A x \in {0, hdr.oldest_snapshot, dbb[p].oldest_snapshot, tra[p].hdr_snapshot} :
           x \in 0..MaxTransaction /\ Reached(x)
  <2>1. Over(0)
    BY CountersAre, NumbersAre DEF Over
  <2>2. Reached(0)
    BY <2>1, NumbersAre DEF Reached, FitsFor
  <2>3. /\ hdr.oldest_snapshot \in 0..MaxTransaction /\ dbb[p].oldest_snapshot \in 0..MaxTransaction
        /\ tra[p].hdr_snapshot \in 0..MaxTransaction
    BY DEF TransactionsFit, Typed, TraType
  <2> QED
    BY <2>2, <2>3, NumbersAre DEF ReachInv, CountersReached
<1>6. \A x \in {0, hdr.oldest_snapshot, dbb[p].oldest_snapshot, tra[p].hdr_snapshot} : Reached(x)'
  BY <1>4, <1>5
<1>7. CountersReached(p)'
  <2>1. PICK x, y : /\ x = dbb'[p].oldest_snapshot /\ y = tra'[p].hdr_snapshot
                    /\ Reached(x)' /\ Reached(y)'
    BY <1>6
  <2> QED
    BY <1>1, <2>1 DEF CountersReached, Reached, Over, FitsFor
<1> QED
  BY <1>1, <1>2, <1>3, <1>7, ReachHolds

\* A transaction goes on with its snapshot.
LEMMA OnwardHolds ==
  ASSUME TransactionsFit, ReachInv, TransactionsFit', Forward, NEW p \in Sessions, Steady(p),
         Reads(p), Reads(p)', Grows(p), dbb'[p] = dbb[p],
         tra'[p].hdr_snapshot = tra[p].hdr_snapshot, tra'[p].oldest_active = tra[p].oldest_active,
         hdr'.oldest_snapshot \in {hdr.oldest_snapshot, dbb[p].oldest_snapshot},
         lck'[tra'[p].number] = lck[tra[p].number],
         tra'[p].at = "retain" => /\ lck'[tra'[p].new] = lck[tra[p].number]
                                  /\ tra'[p].number \in tra'[p].sub,
         overtook' = overtook,
         \A t \in Sessions : t # p => InOrder(t, p)'
  PROVE  ReachInv'
<1>1. HasSnapshot(p) /\ HasSnapshot(p)' /\ Undecided(p) /\ tra'[p].at # "oldest"
  BY DEF HasSnapshot, Undecided, Reads
<1>2. Stands(p)' => Stands(p)
  BY <1>1 DEF Stands
<1>3. \A s \in Sessions : InOrder(p, s)'
  BY <1>1 DEF InOrder
<1>4. LockReached(p)'
  BY <1>1, LockStaysReached DEF ReachInv
<1>5. CountersReached(p)'
  <2>1. PICK x \in 0..MaxTransaction, y \in 0..MaxTransaction, z \in 0..MaxTransaction :
          x = dbb[p].oldest_snapshot /\ y = tra[p].hdr_snapshot /\ z = tra[p].oldest_active
    BY DEF TransactionsFit, Typed, TraType
  <2>2. Reached(x)' /\ Reached(y)' /\ Reached(z)'
    BY <1>2, <2>1, ReachedStays DEF ReachInv, CountersReached
  <2> QED
    BY <2>1, <2>2 DEF CountersReached, Reached, Over, FitsFor
<1> QED
  BY <1>1, <1>2, <1>3, <1>4, <1>5, ReachHolds

\* With the same snapshot, numbers and work.
LEMMA SameHolds ==
  ASSUME TransactionsFit, ReachInv, TransactionsFit', Forward, NEW p \in Sessions,
         Reads(p), Reads(p)', Grows(p), tra'[p].number = tra[p].number,
         tra[p].sub \subseteq tra'[p].sub,
         tra'[p].at = "retain" => /\ lck'[tra'[p].new] = lck[tra[p].number]
                                  /\ tra'[p].number \in tra'[p].sub,
         tra'[p].hdr_snapshot = tra[p].hdr_snapshot, tra'[p].oldest_active = tra[p].oldest_active,
         \A s \in Sessions : s # p => tra'[s] = tra[s],
         hdr'.oldest_snapshot \in {hdr.oldest_snapshot, dbb[p].oldest_snapshot},
         dbb' = dbb, overtook' = overtook,
         \A n \in Numbers : lck'[n] = lck[n] \/ n = tra[p].new \/ n > hdr.next
  PROVE  ReachInv'
<1>1. Undecided(p)
  BY DEF Undecided
<1>2. /\ tra[p].number \in Numbers /\ tra[p].number # 0 /\ tra[p].number <= hdr.next
      /\ tra[p].number # tra[p].new /\ hdr.next \in Nat
  BY <1>1, AliveIs, CountersAre DEF NumberFits
<1>3. lck'[tra'[p].number] = lck[tra[p].number]
  BY <1>2, NumbersAre
<1>4. Steady(p)
  BY SteadyIs
<1>5. Stands(p)' => Stands(p)
  BY DEF Stands, HasSnapshot
<1>6. \A t \in Sessions : t # p => InOrder(t, p)'
  BY <1>4, <1>5, OthersStayInOrder DEF ReachInv
<1> QED
  BY <1>3, <1>4, <1>6, OnwardHolds

-----------------------------------------------------------------------------
(* The transactions' steps. *)

LEMMA SessionIs ==
  ASSUME TransactionsFit, ReachInv, NEW p \in Sessions
  PROVE  /\ tra \in [Sessions -> TraType] /\ tra[p] \in TraType /\ tip \in [Numbers -> States]
         /\ lck \in [Numbers -> 0..MaxTransaction] /\ overtook \subseteq Sessions
         /\ p \in overtook => HasSnapshot(p)
         /\ LockReached(p) /\ CountersReached(p) /\ \A t \in Sessions : InOrder(t, p) /\ InOrder(p, t)
BY DEF TransactionsFit, Typed, ReachInv

LEMMA StartReaches ==
  ASSUME TransactionsFit, ReachInv, NEW p \in Sessions, TRA_start(p)
  PROVE  ReachInv'
<1> DEFINE n == hdr'.next
           active == Larger(hdr'.oldest_active, hdr'.oldest_transaction)
<1>1. /\ TransactionsFit' /\ Forward /\ tra[p].at = "idle" /\ tra \in [Sessions -> TraType]
      /\ lck \in [Numbers -> 0..MaxTransaction] /\ p \notin overtook
      /\ UNCHANGED <<tip, dbb, overtook>>
  BY StartKeeps, SessionIs DEF TRA_start, HasSnapshot, Reads
<1>2. /\ tra' = [tra EXCEPT ![p] = Begun(n, hdr'.oldest_transaction, active, hdr'.oldest_snapshot,
                                         n % TRA_ACTIVE_CLEANUP = 0)]
      /\ lck' = [lck EXCEPT ![n] = active]
      /\ hdr' = bump_transaction_id(p) /\ hdr.next < MaxTransaction
  BY DEF TRA_start, Begun
<1>3. n = hdr.next + 1 /\ n \in Numbers /\ hdr.next \in Nat
  BY <1>2, Bumped, CountersAre
<1>4. /\ hdr'.oldest_snapshot \in {hdr.oldest_snapshot, dbb[p].oldest_snapshot}
  BY <1>2 DEF bump_transaction_id, Larger
<1>5. /\ tra'[p].at = "inventory" /\ tra'[p].number = n /\ tra'[p].active = active
      /\ tra'[p].hdr_snapshot = hdr'.oldest_snapshot
  BY <1>1, <1>2 DEF Begun, NoTra
<1>6. /\ \A s \in Sessions : s # p => tra'[s] = tra[s]
      /\ \A m \in Numbers : lck'[m] = lck[m] \/ m > hdr.next
      /\ lck'[n] = active
  BY <1>1, <1>2, <1>3, NumbersAre
<1> HIDE DEF n, active
<1>7. Steady(p)
  BY <1>1, <1>6, SteadyIs
<1>8. Over(lck[tra[p].number])'
  <2>1. CountersFit(p)'
    BY <1>1 DEF TransactionsFit
  <2> QED
    BY <1>5, <1>6, <2>1 DEF CountersFit, Over
<1>9. ~HasSnapshot(p)'
  BY <1>5 DEF HasSnapshot, Reads
<1> QED
  BY <1>1, <1>4, <1>5, <1>7, <1>8, <1>9, BareHolds

\* A transaction is over, or its process is.
LEMMA EndReaches ==
  ASSUME TransactionsFit, ReachInv, TransactionsFit', Forward, NEW p \in Sessions,
         tra'[p].at \in {"idle", "detached", "ending"}, tra'[p].hdr_snapshot = 0, hdr' = hdr,
         \A s \in Sessions : s # p => tra'[s] = tra[s] /\ dbb'[s] = dbb[s],
         dbb'[p].oldest_snapshot \in {0, dbb[p].oldest_snapshot, hdr.oldest_snapshot},
         \/ overtook' = overtook /\ ~HasSnapshot(p)
         \/ overtook' = overtook \ {p},
         \A n \in Numbers : lck'[n] = lck[n] \/ n \in {tra[p].number, tra[p].new}
  PROVE  ReachInv'
<1>1. ~HasSnapshot(p)' /\ ~Undecided(p)'
  BY DEF HasSnapshot, Undecided, Reads
<1>2. p \notin overtook' /\ overtook' \subseteq overtook
  BY SessionIs
<1>3. Steady(p)
  BY SteadyIs
<1> QED
  BY <1>1, <1>2, <1>3, BareHolds

LEMMA ReleaseReaches ==
  ASSUME TransactionsFit, ReachInv, NEW p \in Sessions, TRA_release_transaction(p)
  PROVE  ReachInv'
<1>1. /\ TransactionsFit' /\ Forward /\ tra[p].at = "ending"
      /\ lck' = [lck EXCEPT ![tra[p].number] = 0] /\ tra' = [tra EXCEPT ![p] = NoTra]
      /\ UNCHANGED <<tip, hdr, dbb, overtook>> /\ lck \in [Numbers -> 0..MaxTransaction]
  BY ReleaseKeeps, SessionIs DEF TRA_release_transaction
<1>2. ~HasSnapshot(p)
  BY <1>1 DEF HasSnapshot, Reads
<1>3. \A n \in Numbers : lck'[n] = lck[n] \/ n \in {tra[p].number, tra[p].new}
  BY <1>1
<1>4. tra'[p] = NoTra /\ \A s \in Sessions : s # p => tra'[s] = tra[s]
  BY <1>1, SessionIs
<1> QED
  BY <1>1, <1>2, <1>3, <1>4, NoTraIs, EndReaches

LEMMA AttachReaches ==
  ASSUME TransactionsFit, ReachInv, NEW p \in Sessions, Attach(p)
  PROVE  ReachInv'
<1>1. /\ TransactionsFit' /\ Forward /\ tra[p].at = "detached" /\ tra' = [tra EXCEPT ![p] = NoTra]
      /\ dbb' = [dbb EXCEPT ![p] = [oldest_transaction |-> hdr.oldest_transaction,
                                    oldest_active      |-> hdr.oldest_active,
                                    oldest_snapshot    |-> hdr.oldest_snapshot]]
      /\ UNCHANGED <<hdr, lck, overtook>>
  BY AttachKeeps DEF Attach
<1>2. ~HasSnapshot(p)
  BY <1>1 DEF HasSnapshot, Reads
<1>3. /\ dbb'[p].oldest_snapshot = hdr.oldest_snapshot
      /\ \A s \in Sessions : s # p => dbb'[s] = dbb[s]
  BY <1>1 DEF TransactionsFit, Typed
<1>4. tra'[p] = NoTra /\ \A s \in Sessions : s # p => tra'[s] = tra[s]
  BY <1>1, SessionIs
<1> QED
  BY <1>1, <1>2, <1>3, <1>4, NoTraIs, EndReaches

LEMMA DecisionReaches ==
  ASSUME TransactionsFit, ReachInv, NEW p \in Sessions, tra[p].at \in {"active", "undo"},
         NEW state \in {"committed", "dead"}, SetState(p, state)
  PROVE  ReachInv'
<1> DEFINE t == [NoTra EXCEPT !.at = "ending", !.number = tra[p].number]
<1>1. TransactionsFit' /\ Forward
  BY DecideKeeps
<1>2. tra' = [tra EXCEPT ![p] = t] /\ overtook' = overtook \ {p} /\ UNCHANGED <<hdr, dbb, lck>>
  BY DEF SetState
<1>3. t.at = "ending" /\ t.hdr_snapshot = 0
  BY DEF NoTra
<1> HIDE DEF t
<1>4. tra'[p] = t /\ \A s \in Sessions : s # p => tra'[s] = tra[s]
  BY <1>2, SessionIs
<1> QED
  BY <1>1, <1>2, <1>3, <1>4, EndReaches

LEMMA DeathReaches ==
  ASSUME TransactionsFit, ReachInv, NEW p \in Sessions, Dies(p)
  PROVE  ReachInv'
<1> DEFINE t == [NoTra EXCEPT !.at = "detached"]
<1>1. /\ TransactionsFit' /\ Forward
      /\ tra' = [tra EXCEPT ![p] = t] /\ overtook' = overtook \ {p} /\ UNCHANGED <<tip, hdr>>
      /\ lck' = [n \in Numbers |-> IF n \in {tra[p].number, tra[p].new} THEN 0 ELSE lck[n]]
      /\ dbb' = [dbb EXCEPT ![p] = [f \in DOMAIN @ |-> 0]]
  BY DeathKeeps DEF Dies
<1>2. t.at = "detached" /\ t.hdr_snapshot = 0
  BY DEF NoTra
<1> HIDE DEF t
<1>3. /\ dbb'[p].oldest_snapshot = 0 /\ \A s \in Sessions : s # p => dbb'[s] = dbb[s]
      /\ \A n \in Numbers : lck'[n] = lck[n] \/ n \in {tra[p].number, tra[p].new}
  BY <1>1 DEF TransactionsFit, Typed
<1>4. tra'[p] = t /\ \A s \in Sessions : s # p => tra'[s] = tra[s]
  BY <1>1, SessionIs
<1> QED
  BY <1>1, <1>2, <1>3, <1>4, EndReaches

\* A new snapshot has everything that committed below its number; who is younger and has one
\* is overtaken.
LEMMA InventoryReaches ==
  ASSUME TransactionsFit, ReachInv, NEW p \in Sessions, TRA_get_inventory(p)
  PROVE  ReachInv' /\ Fresh(p)
<1> DEFINE snapshot == [n \in Numbers |-> IF n >= tra[p].oldest /\ n < tra[p].number
                                          THEN tip[n] ELSE "active"]
           u == [tra[p] EXCEPT !.at = "oldest", !.snapshot = snapshot]
<1>1. /\ TransactionsFit' /\ Forward /\ tra[p] \in TraType /\ tra \in [Sessions -> TraType]
      /\ tra[p].at = "inventory" /\ CountersFit(p)
      /\ overtook' = (overtook \ {p}) \cup Earlier(p) /\ UNCHANGED <<tip, hdr, dbb, lck>>
  BY InventoryKeeps, SessionIs, CountersAre DEF TRA_get_inventory
<1>2. tra'[p] = u /\ \A s \in Sessions : s # p => tra'[s] = tra[s]
  BY <1>1 DEF TRA_get_inventory
<1>3. /\ u.at = "oldest" /\ u.snapshot = snapshot /\ u.number = tra[p].number /\ u.top = tra[p].top
      /\ u.oldest = tra[p].oldest /\ u.sub = tra[p].sub /\ u.hdr_snapshot = tra[p].hdr_snapshot
  BY <1>1 DEF TraType
<1>4. \A n \in Numbers : n >= tra[p].oldest /\ n < tra[p].number => snapshot[n] = tip[n]
  OBVIOUS
<1> HIDE DEF snapshot, u
<1>5. Undecided(p) /\ Undecided(p)' /\ HasSnapshot(p)' /\ ~Reads(p)' /\ ~HasSnapshot(p)
  BY <1>1, <1>2, <1>3 DEF Undecided, HasSnapshot, Reads
<1>6. /\ tra[p].top = tra[p].number /\ tra[p].number \in Nat /\ tra[p].oldest \in Nat
      /\ tra[p].number \in Numbers /\ Numbers \subseteq Nat /\ 0 \notin Numbers
  BY <1>1, <1>5, FieldsAre, AliveIs, NumbersAre DEF CountersFit
<1>7. ASSUME NEW n \in Numbers, n < tra[p].number, tip[n] = "committed"
      PROVE  State(p, n)' = "committed"
  <2>1. n # 0 /\ n # tra[p].number /\ ~(n > tra[p].top)
    BY <1>6, <1>7
  <2>2. ~(n < tra[p].oldest) => snapshot[n] = "committed"
    BY <1>4, <1>6, <1>7
  <2> QED
    BY <1>2, <1>3, <2>1, <2>2 DEF State, TRA_snapshot_state
<1>8. Fresh(p)
  BY <1>1, <1>2, <1>3, <1>5, <1>7 DEF Fresh
<1>9. Steady(p)
  BY <1>1, <1>2, SteadyIs
<1>10. CountersReached(p)'
  <2>1. PICK x \in 0..MaxTransaction, y \in 0..MaxTransaction :
          x = dbb[p].oldest_snapshot /\ y = tra[p].hdr_snapshot /\ Reached(x) /\ Reached(y)
    BY <1>1, SessionIs DEF TransactionsFit, Typed, TraType, CountersReached
  <2>2. Reached(x)' /\ Reached(y)'
    BY <1>1, <1>8, <1>9, <2>1, ReachedStays
  <2> QED
    BY <1>1, <1>2, <1>3, <1>5, <2>1, <2>2 DEF CountersReached, Reached, Over, FitsFor
<1>11. LockReached(p)'
  <2>1. Over(lck[tra[p].number]) /\ lck[tra[p].number] <= tra[p].number /\ lck[tra[p].number] \in Nat
    BY <1>5, <1>6, SessionIs, NumbersAre DEF LockReached, TransactionsFit, LocksFit
  <2>2. Over(lck[tra[p].number])'
    BY <1>1, <1>2, <1>3, <2>1 DEF Over
  <2>3. \A n \in Numbers : n < lck[tra[p].number] => n < tra[p].number
    BY <1>6, <2>1
  <2>4. FitsFor(p, lck[tra[p].number])'
    BY <1>1, <1>2, <1>3, <1>7, <2>3 DEF FitsFor
  <2> QED
    BY <1>2, <1>3, <2>2, <2>4 DEF LockReached
<1>12. ASSUME NEW s \in Sessions, s # p PROVE InOrder(p, s)' /\ InOrder(s, p)'
  <2>1. Stands(s)' /\ tra'[s].number > tra'[p].number => s \in Earlier(p)
    BY <1>2, <1>3, <1>12 DEF Stands, HasSnapshot, Reads, Earlier
  <2>2. InOrder(p, s)'
    BY <1>1, <2>1 DEF InOrder, Stands
  <2> QED
    BY <1>1, <1>8, <2>2, FreshIsInOrder
<1>13. \A s \in Sessions : s # p /\ s \in overtook' => s \in overtook \/ HasSnapshot(s)
  BY <1>1 DEF Earlier, HasSnapshot
<1> QED
  BY <1>1, <1>5, <1>8, <1>9, <1>10, <1>11, <1>12, <1>13, ReachHolds

\* The correction of a snapshot: to dead, or to committed, then who is younger and has one is
\* overtaken.
LEMMA CleanupIs ==
  ASSUME TransactionsFit, NEW p \in Sessions, CleansUp(p)
  PROVE  \E n \in ActiveBelow(p), state \in {"dead", "committed"} :
           /\ n \in Numbers /\ n < tra[p].number /\ tra[p].snapshot[n] = "active"
           /\ tip[n] # "active" => state = tip[n]
           /\ tip[n] = "active" => state = "dead"
           /\ tip' = [tip EXCEPT ![n] = state]
           /\ tra'[p].at = "oldest" /\ tra[p].at = "oldest" /\ tra[p].cleanup
           /\ tra'[p].cleanup = (state # "committed")
           /\ tra'[p].number = tra[p].number /\ tra'[p].sub = tra[p].sub
           /\ tra'[p].oldest = tra[p].oldest /\ tra'[p].top = tra[p].top
           /\ tra'[p].active = tra[p].active /\ tra'[p].hdr_snapshot = tra[p].hdr_snapshot
           /\ tra'[p].snapshot = [tra[p].snapshot EXCEPT ![n] = state]
           /\ \A s \in Sessions : s # p => tra'[s] = tra[s]
           /\ overtook' = IF state = "committed" THEN overtook \cup Earlier(p) ELSE overtook
<1> DEFINE n == Min(ActiveBelow(p))
           state == IF tip[n] = "active" THEN "dead" ELSE tip[n]
           u == [tra[p] EXCEPT !.snapshot = [tra[p].snapshot EXCEPT ![n] = state],
                               !.cleanup = (state # "committed")]
<1>1. /\ tra[p].at = "oldest" /\ tra[p].cleanup /\ ActiveBelow(p) # {}
      /\ tip' = [tip EXCEPT ![n] = state] /\ tra' = [tra EXCEPT ![p] = u]
      /\ overtook' = IF state = "committed" THEN overtook \cup Earlier(p) ELSE overtook
      /\ tra \in [Sessions -> TraType] /\ tip \in [Numbers -> States]
  BY DEF CleansUp, TransactionsFit, Typed
<1>2. n \in ActiveBelow(p) /\ n \in Numbers /\ n < tra[p].number /\ tra[p].snapshot[n] = "active"
  BY <1>1, BelowIs
<1> HIDE DEF n
<1>3. tip[n] \in {"active", "dead", "committed"}
  BY <1>1, <1>2 DEF States
<1>4. state \in {"dead", "committed"} /\ (tip[n] # "active" => state = tip[n])
      /\ (tip[n] = "active" => state = "dead")
  BY <1>3
<1> HIDE DEF state
<1>5. tra'[p] = u /\ \A s \in Sessions : s # p => tra'[s] = tra[s]
  BY <1>1
<1>6. /\ u.at = tra[p].at /\ u.cleanup = (state # "committed") /\ u.number = tra[p].number
      /\ u.sub = tra[p].sub /\ u.oldest = tra[p].oldest /\ u.top = tra[p].top
      /\ u.active = tra[p].active /\ u.hdr_snapshot = tra[p].hdr_snapshot
      /\ u.snapshot = [tra[p].snapshot EXCEPT ![n] = state]
  <2>1. tra[p] \in TraType
    BY <1>1
  <2> QED
    BY <2>1 DEF TraType
<1> HIDE DEF u
<1> USE <1>2, <1>4
<1> WITNESS n \in ActiveBelow(p), state \in {"dead", "committed"}
<1> QED
  BY <1>1, <1>5, <1>6

LEMMA CleanupReaches ==
  ASSUME TransactionsFit, ReachInv, NEW p \in Sessions, CleansUp(p)
  PROVE  ReachInv'
<1>1. PICK n \in ActiveBelow(p), state \in {"dead", "committed"} :
           /\ n \in Numbers /\ n < tra[p].number /\ tra[p].snapshot[n] = "active"
           /\ tip[n] # "active" => state = tip[n]
           /\ tip' = [tip EXCEPT ![n] = state]
           /\ tra'[p].at = "oldest" /\ tra[p].at = "oldest"
           /\ tra'[p].number = tra[p].number /\ tra'[p].sub = tra[p].sub
           /\ tra'[p].oldest = tra[p].oldest /\ tra'[p].top = tra[p].top
           /\ tra'[p].active = tra[p].active /\ tra'[p].hdr_snapshot = tra[p].hdr_snapshot
           /\ tra'[p].snapshot = [tra[p].snapshot EXCEPT ![n] = state]
           /\ \A s \in Sessions : s # p => tra'[s] = tra[s]
           /\ overtook' = IF state = "committed" THEN overtook \cup Earlier(p) ELSE overtook
  BY CleanupIs
<1>2. /\ TransactionsFit' /\ Forward /\ tra[p] \in TraType /\ tip \in [Numbers -> States]
      /\ UNCHANGED <<hdr, dbb, lck>>
  BY CleanupKeeps, SessionIs DEF CleansUp
<1>3. \A m \in Numbers : m # n => tra'[p].snapshot[m] = tra[p].snapshot[m] /\ tip'[m] = tip[m]
  BY <1>1
<1>4. tra'[p].snapshot[n] = state /\ tip'[n] = state
  BY <1>1, <1>2, FieldsAre
<1>5. Undecided(p) /\ HasSnapshot(p) /\ HasSnapshot(p)' /\ ~Reads(p)'
  BY <1>1 DEF Undecided, HasSnapshot, Reads
<1>6. Grows(p)
  <2> SUFFICES ASSUME NEW m \in Numbers, State(p, m) = "committed" PROVE State(p, m)' = "committed"
    BY DEF Grows
  <2>1. CASE m # n
    BY <1>1, <1>3, <2>1 DEF State, TRA_snapshot_state
  <2>2. CASE m = n
    BY <1>1, <2>2 DEF State, TRA_snapshot_state
  <2> QED
    BY <2>1, <2>2
<1>7. \A m \in Numbers : State(p, m)' = "committed" /\ state = "dead" => State(p, m) = "committed"
  <2> SUFFICES ASSUME NEW m \in Numbers, State(p, m)' = "committed", state = "dead"
               PROVE  State(p, m) = "committed"
    OBVIOUS
  <2>1. CASE m # n
    BY <1>1, <1>3, <2>1 DEF State, TRA_snapshot_state
  <2>2. CASE m = n
    BY <1>1, <1>4, <2>2 DEF State, TRA_snapshot_state
  <2> QED
    BY <2>1, <2>2
<1>8. Steady(p)
  BY <1>1, <1>2, SteadyIs
<1>9. Stands(p)' => Stands(p)
  BY <1>1, <1>5 DEF Stands
<1>10. CountersReached(p)'
  <2>1. PICK x \in 0..MaxTransaction, y \in 0..MaxTransaction :
          x = dbb[p].oldest_snapshot /\ y = tra[p].hdr_snapshot /\ Reached(x) /\ Reached(y)
    BY <1>2, SessionIs DEF TransactionsFit, Typed, TraType, CountersReached
  <2>2. Reached(x)' /\ Reached(y)'
    BY <1>2, <1>6, <1>8, <1>9, <2>1, ReachedStays
  <2> QED
    BY <1>1, <1>2, <1>5, <2>1, <2>2 DEF CountersReached, Reached, Over, FitsFor
<1>11. LockReached(p)'
  <2>1. LockReached(p)
    BY SessionIs
  <2> QED
    BY <1>1, <1>2, <1>5, <1>6, <2>1, LockStaysReached
<1>12. ASSUME NEW s \in Sessions, s # p PROVE InOrder(p, s)'
  <2> SUFFICES ASSUME Stands(s)', tra[s].number > tra[p].number
               PROVE  (\E m \in tra[s].sub : m \in ActiveBelow(p)') \/ Within(p, s)'
    BY <1>1, <1>12 DEF InOrder
  <2>1. state = "dead"
    BY <1>1, <1>12 DEF Stands, HasSnapshot, Reads, Earlier
  <2>2. Stands(s) /\ (\A m : State(s, m)' = State(s, m))
    BY <1>8, <1>12, OthersSee
  <2>3. tip[n] # "committed"
    BY <1>1, <2>1
  <2>4. CASE Within(p, s)
    <3>1. ASSUME NEW m \in Numbers, m < tra[p].number, tip'[m] = "committed", State(p, m)' = "committed"
          PROVE  State(s, m) = "committed"
      <4>1. m # n /\ tip[m] = "committed"
        BY <1>3, <1>4, <2>1, <3>1
      <4>2. State(p, m) = "committed"
        BY <1>7, <2>1, <3>1
      <4> QED
        BY <2>4, <3>1, <4>1, <4>2 DEF Within
    <3> QED
      BY <1>1, <2>2, <3>1 DEF Within
  <2>5. ASSUME NEW m \in tra[s].sub, m \in ActiveBelow(p) PROVE m \in ActiveBelow(p)'
    <3>1. /\ tra[s] \in TraType /\ SnapshotFits(s) /\ tra[p].number \in Nat /\ tra[s].number \in Nat
      BY <1>2, CountersAre, FieldsAre
    <3>2. m \in Numbers /\ m < tra[p].number /\ tra[p].active <= m /\ tra[p].snapshot[m] = "active"
      BY <1>1, <2>5, BelowIs
    <3>3. tip[m] = "committed"
      BY <3>1, <3>2, NumbersAre DEF SnapshotFits
    <3>4. tra'[p].snapshot[m] = "active"
      BY <1>3, <2>3, <3>2, <3>3
    <3>5. m \in Nat /\ tra[p].active \in Nat
      BY <1>2, <3>2, FieldsAre, NumbersAre
    <3> QED
      BY <1>1, <3>1, <3>2, <3>4, <3>5 DEF ActiveBelow
  <2> QED
    BY <1>1, <2>2, <2>4, <2>5, SessionIs DEF InOrder
<1>13. \A s \in Sessions : s # p => InOrder(s, p)'
  <2>1. \A s \in Sessions : InOrder(s, p)
    BY SessionIs
  <2> QED
    BY <1>1, <1>2, <1>6, <1>8, <1>9, <2>1, OthersStayInOrder
<1>14. \A s \in Sessions : s # p /\ s \in overtook' => s \in overtook \/ HasSnapshot(s)
  BY <1>1 DEF Earlier, HasSnapshot
<1>15. hdr'.oldest_snapshot = hdr.oldest_snapshot
  BY <1>2
<1> QED
  BY <1>2, <1>5, <1>6, <1>8, <1>9, <1>10, <1>11, <1>12, <1>13, <1>14, <1>15, ReachHolds

\* A transaction has in its snapshot what committed below the first it found active.
LEMMA BelowFits ==
  ASSUME TransactionsFit, NEW p \in Sessions, tra[p].at = "oldest",
         NEW x \in Nat, x <= tra[p].number, \A m \in ActiveBelow(p) : x <= m
  PROVE  FitsFor(p, x)
<1> SUFFICES ASSUME NEW n \in Numbers, n < x, tip[n] = "committed"
             PROVE  State(p, n) = "committed"
  BY DEF FitsFor
<1>1. /\ tra[p] \in TraType /\ SnapshotFits(p) /\ CountersFit(p)
      /\ ActiveBelow(p) = {m \in Numbers : /\ tra[p].active <= m /\ m < tra[p].number
                                           /\ tra[p].snapshot[m] = "active"}
  BY CountersAre, BelowIs
<1>2. /\ tra[p].number \in Nat /\ tra[p].active \in Nat /\ tra[p].oldest \in Nat /\ n \in Nat /\ n # 0
      /\ tra[p].snapshot[n] \in States
  BY <1>1, FieldsAre, NumbersAre
<1>3. n # tra[p].number /\ tra[p].top = tra[p].number
  BY <1>1, <1>2 DEF CountersFit
<1>4. tra[p].snapshot[n] # "dead"
  BY <1>1 DEF SnapshotFits
<1>5. ASSUME tra[p].snapshot[n] = "active" PROVE n < tra[p].oldest
  <2>1. n < tra[p].active
    <3>1. n \notin ActiveBelow(p)
      BY <1>2
    <3> QED
      BY <1>1, <1>2, <1>5, <3>1
  <2> QED
    BY <1>1, <1>2, <1>5, <2>1 DEF SnapshotFits
<1> QED
  BY <1>2, <1>3, <1>4, <1>5 DEF State, TRA_snapshot_state, States

\* What a start takes for the oldest snapshot has been reached.
LEMMA OldestIsReached ==
  ASSUME TransactionsFit, ReachInv, NEW p \in Sessions, tra[p].at = "oldest"
  PROVE  Reached(OldestSnapshot(p))
<1>1. PICK x \in 0..MaxTransaction :
        /\ x = OldestSnapshot(p) /\ Over(x) /\ x <= tra[p].number
        /\ \A n \in Numbers : n < tra[p].oldest \/ n >= x \/ tra[p].snapshot[n] # "active"
  BY FoundIs
<1>2. /\ tra[p] \in TraType /\ CountersFit(p) /\ tra[p].number \in Nat /\ x \in Nat
      /\ tra[p].active \in Nat /\ tra[p].oldest \in Nat /\ tra[p].hdr_snapshot \in 0..MaxTransaction
      /\ lck \in [Numbers -> 0..MaxTransaction] /\ CountersReached(p)
  BY CountersAre, FieldsAre, SessionIs, NumbersAre DEF TraType
<1>3. FitsFor(p, x)
  <2>1. \A m \in ActiveBelow(p) : x <= m
    <3> SUFFICES ASSUME NEW m \in ActiveBelow(p) PROVE x <= m
      OBVIOUS
    <3>1. m \in Numbers /\ tra[p].active <= m /\ tra[p].snapshot[m] = "active"
      BY BelowIs
    <3>2. m \in Nat /\ tra[p].oldest <= tra[p].active
      BY <1>2, <3>1, NumbersAre DEF CountersFit
    <3> QED
      BY <1>1, <1>2, <3>1, <3>2
  <2> QED
    BY <1>1, <1>2, <2>1, BelowFits
<1>4. ASSUME NEW s \in Sessions, Stands(s), s # p PROVE FitsFor(s, x)
  <2>1. /\ HasSnapshot(s) /\ Undecided(s)
        /\ tra[s].number \in Numbers /\ tip[tra[s].number] = "active" /\ tra[s].number # 0
        /\ tra[s].number # tra[p].number
    <3>1. HasSnapshot(s) /\ Undecided(s)
      BY <1>4 DEF Stands, HasSnapshot, Undecided, Reads
    <3>2. tra[s].number \in Numbers /\ tip[tra[s].number] = "active" /\ tra[s].number # 0
      BY <3>1, AliveIs
    <3>3. Apart(s, p)
      BY <1>4, CountersAre
    <3> QED
      BY <3>1, <3>2, <3>3 DEF Apart
  <2>2. CASE ActiveBelow(p) = {}
    <3>1. x = tra[p].number
      BY <1>1, <2>2 DEF OldestSnapshot
    <3>2. tra[s].number > tra[p].number
      BY <1>1, <1>2, <2>1, <3>1, NumbersAre DEF Over
    <3>3. InOrder(p, s)
      BY SessionIs
    <3>4. Within(p, s)
      BY <1>4, <2>2, <3>2, <3>3 DEF InOrder
    <3> QED
      BY <1>3, <3>1, <3>4 DEF FitsFor, Within
  <2>3. CASE ActiveBelow(p) # {}
    <3> DEFINE first == Min(ActiveBelow(p))
               given == IF lck[first] = 0 THEN first ELSE lck[first]
               data == Smaller(tra[p].number, given)
               locks == {lck[n] : n \in Numbers} \ {0}
    <3>1. x = IF data = tra[p].hdr_snapshot THEN data ELSE Smaller(data, Min(locks))
      BY <1>1, <2>3 DEF OldestSnapshot
    <3>2. CASE x = tra[p].hdr_snapshot
      <4>1. Reached(tra[p].hdr_snapshot)
        BY <1>2 DEF CountersReached
      <4>2. FitsFor(s, tra[p].hdr_snapshot)
        BY <1>4, <4>1 DEF Reached
      <4> QED
        BY <3>2, <4>2
    <3>3. CASE x # tra[p].hdr_snapshot
      <4>1. x = Smaller(data, Min(locks))
        BY <3>1, <3>3
      <4>2. lck[tra[s].number] \in locks /\ locks \in SUBSET (0..MaxTransaction)
        <5>1. lck[tra[s].number] # 0
          BY <2>1, CountersAre DEF NumberFits
        <5> QED
          BY <1>2, <2>1, <5>1
      <4>3. Min(locks) \in Nat /\ Min(locks) <= lck[tra[s].number]
        <5> HIDE DEF locks
        <5>1. Min(locks) \in locks /\ Min(locks) <= lck[tra[s].number]
          BY <4>2, Least
        <5> QED
          BY <4>2, <5>1, NumbersAre
      <4>4. data \in Nat
        <5>1. first \in Numbers
          BY <2>3, BelowIs
        <5>2. given \in Nat
          BY <1>2, <5>1, NumbersAre
        <5> QED
          BY <1>2, <5>2, SmallerIs
      <4>5. x <= Min(locks)
        BY <4>1, <4>3, <4>4, SmallerIs
      <4>6. lck[tra[s].number] \in Nat /\ FitsFor(s, lck[tra[s].number])
        <5>1. lck[tra[s].number] \in Nat
          BY <1>2, <2>1
        <5>2. LockReached(s)
          BY SessionIs
        <5> QED
          BY <2>1, <5>1, <5>2 DEF LockReached
      <4> HIDE DEF locks, data
      <4>7. x <= lck[tra[s].number]
        BY <1>2, <4>3, <4>5, <4>6
      <4> QED
        BY <1>2, <4>6, <4>7, NumbersAre DEF FitsFor
    <3> QED
      BY <3>2, <3>3
  <2> QED
    BY <2>2, <2>3
<1>5. Reached(x)
  BY <1>1, <1>3, <1>4 DEF Reached
<1> QED
  BY <1>1, <1>5

LEMMA OldestReaches ==
  ASSUME TransactionsFit, ReachInv, NEW p \in Sessions, FindsOldest(p)
  PROVE  ReachInv' /\ Reads(p)' /\ \A n : State(p, n)' = State(p, n)
<1>1. PICK x \in 0..MaxTransaction, a \in 0..MaxTransaction :
        /\ x = OldestSnapshot(p) /\ Reached(x)
        /\ a = OldestActive(p) /\ Over(a) /\ a <= tra[p].number
  BY FoundIs, OldestIsReached DEF FindsOldest
<1> DEFINE at == IF /\ SweepInterval > 0
                    /\ x - tra[p].oldest > SweepInterval
                    /\ \A q \in Sessions : tra[q].at # "sweep" THEN "sweep" ELSE "active"
           u == Found(tra[p], x, FALSE, at)
<1>2. /\ TransactionsFit' /\ Forward /\ tra[p] \in TraType /\ tra[p].at = "oldest"
      /\ lck' = [lck EXCEPT ![tra[p].number] = a] /\ tra' = [tra EXCEPT ![p] = u]
      /\ dbb' = [dbb EXCEPT ![p] =
                   [oldest_transaction |-> OldestInteresting(p), oldest_active |-> a,
                    oldest_snapshot |-> Larger(@.oldest_snapshot, x)]]
      /\ UNCHANGED <<tip, hdr, overtook>>
  BY <1>1, OldestKeeps, SessionIs DEF FindsOldest, Found
<1>3. at \in {"sweep", "active"}
  OBVIOUS
<1> HIDE DEF at
<1>4. /\ u.at = at /\ u.snapshot = tra[p].snapshot /\ u.sub = tra[p].sub /\ u.number = tra[p].number
      /\ u.top = tra[p].top /\ u.oldest = tra[p].oldest /\ u.oldest_active = x /\ u.hdr_snapshot = 0
  BY <1>2 DEF Found, TraType
<1> HIDE DEF u
<1>5. /\ tra'[p] = u /\ \A s \in Sessions : s # p => tra'[s] = tra[s]
      /\ \A s \in Sessions : s # p => dbb'[s] = dbb[s]
      /\ dbb'[p].oldest_snapshot = Larger(dbb[p].oldest_snapshot, x)
  BY <1>2 DEF TransactionsFit, Typed
<1>6. Grows(p) /\ \A n : State(p, n)' = State(p, n)
  BY <1>4, <1>5, SnapshotIsSame
<1>7. Undecided(p) /\ HasSnapshot(p) /\ HasSnapshot(p)' /\ Reads(p)'
      /\ tra'[p].at \notin {"oldest", "retain"}
  BY <1>2, <1>3, <1>4, <1>5 DEF Undecided, HasSnapshot, Reads
<1>8. Stands(p)' => Stands(p)
  BY <1>2, <1>7 DEF Stands
<1>9. Steady(p)
  BY <1>2, <1>5, SteadyIs
<1>10. CountersReached(p)'
  <2>1. PICK y \in 0..MaxTransaction : y = dbb[p].oldest_snapshot /\ Reached(y)
    BY SessionIs DEF TransactionsFit, Typed, CountersReached
  <2>2. Reached(0)
    BY CountersAre, NumbersAre DEF Reached, FitsFor, Over
  <2>3. Reached(0)' /\ Reached(x)' /\ Reached(y)'
    BY <1>1, <1>2, <1>6, <1>8, <1>9, <2>1, <2>2, NumbersAre, ReachedStays
  <2>4. dbb'[p].oldest_snapshot \in {x, y}
    BY <1>5, <2>1 DEF Larger
  <2> QED
    BY <1>4, <1>5, <1>7, <2>3, <2>4 DEF CountersReached, Reached, Over, FitsFor
<1>11. LockReached(p)'
  <2>1. \A m \in ActiveBelow(p) : a <= m
    <3>1. ActiveBelow(p) \cup {tra[p].number} \in SUBSET (0..MaxTransaction)
      BY <1>2, BelowIs, FieldsAre, NumbersAre
    <3> QED
      BY <1>1, <3>1, Least DEF OldestActive
  <2>2. FitsFor(p, a)
    BY <1>1, <1>2, <2>1, BelowFits
  <2>3. FitsFor(p, a)' /\ Over(a)'
    BY <1>1, <1>2, <1>6, <2>2, FitsStays DEF Over
  <2>4. lck'[tra'[p].number] = a
    <3>1. tra[p].number \in Numbers /\ lck \in [Numbers -> 0..MaxTransaction]
      BY <1>7, AliveIs, SessionIs
    <3> QED
      BY <1>2, <1>4, <1>5, <3>1
  <2> QED
    BY <1>7, <2>3, <2>4 DEF LockReached, FitsFor, Over
<1>12. \A s \in Sessions : s # p => InOrder(p, s)' /\ InOrder(s, p)'
  <2>1. \A s \in Sessions : InOrder(s, p)
    BY SessionIs
  <2>2. \A s \in Sessions : InOrder(p, s)'
    BY <1>7 DEF InOrder
  <2> QED
    BY <1>2, <1>4, <1>5, <1>6, <1>8, <1>9, <2>1, <2>2, OthersStayInOrder
<1> QED
  BY <1>2, <1>6, <1>7, <1>8, <1>9, <1>10, <1>11, <1>12, ReachHolds

LEMMA UndoReaches ==
  ASSUME TransactionsFit, ReachInv, NEW p \in Sessions, tra[p].at = "active",
         tra' = [tra EXCEPT ![p].at = "undo"], UNCHANGED <<tip, hdr, dbb, lck, overtook>>
  PROVE  ReachInv' /\ Reads(p)' /\ \A n : State(p, n)' = State(p, n)
<1> DEFINE u == [tra[p] EXCEPT !.at = "undo"]
<1>1. TransactionsFit' /\ Forward /\ tra[p] \in TraType /\ tra' = [tra EXCEPT ![p] = u]
  BY UndoKeeps, SessionIs
<1>2. /\ u.at = "undo" /\ u.snapshot = tra[p].snapshot /\ u.sub = tra[p].sub /\ u.number = tra[p].number
      /\ u.top = tra[p].top /\ u.oldest = tra[p].oldest /\ u.oldest_active = tra[p].oldest_active
      /\ u.hdr_snapshot = tra[p].hdr_snapshot
  BY <1>1 DEF TraType
<1> HIDE DEF u
<1>3. tra'[p] = u /\ \A s \in Sessions : s # p => tra'[s] = tra[s]
  BY <1>1, SessionIs
<1>4. Grows(p) /\ \A n : State(p, n)' = State(p, n)
  BY <1>2, <1>3, SnapshotIsSame
<1>5. Reads(p) /\ Reads(p)'
  BY <1>2, <1>3 DEF Reads
<1> QED
  BY <1>1, <1>2, <1>3, <1>4, <1>5, SameHolds

LEMMA WriteReaches ==
  ASSUME TransactionsFit, ReachInv, NEW p \in Sessions, tra[p].at = "active",
         tra' = [tra EXCEPT ![p].write = TRUE], UNCHANGED <<tip, hdr, dbb, lck, overtook>>
  PROVE  ReachInv'
<1> DEFINE u == [tra[p] EXCEPT !.write = TRUE]
<1>1. TransactionsFit' /\ Forward /\ tra[p] \in TraType /\ tra' = [tra EXCEPT ![p] = u]
  BY WriteKeeps, SessionIs
<1>2. /\ u.at = "active" /\ u.snapshot = tra[p].snapshot /\ u.sub = tra[p].sub /\ u.number = tra[p].number
      /\ u.top = tra[p].top /\ u.oldest = tra[p].oldest /\ u.oldest_active = tra[p].oldest_active
      /\ u.hdr_snapshot = tra[p].hdr_snapshot
  BY <1>1 DEF TraType
<1> HIDE DEF u
<1>3. tra'[p] = u /\ \A s \in Sessions : s # p => tra'[s] = tra[s]
  BY <1>1, SessionIs
<1>4. Grows(p)
  BY <1>2, <1>3, SnapshotIsSame
<1>5. Reads(p) /\ Reads(p)'
  BY <1>2, <1>3 DEF Reads
<1> QED
  BY <1>1, <1>2, <1>3, <1>4, <1>5, SameHolds

LEMMA SweepReaches ==
  ASSUME TransactionsFit, ReachInv, NEW p \in Sessions, SweepEnds(p)
  PROVE  ReachInv' /\ Reads(p)' /\ \A n : State(p, n)' = State(p, n)
<1> DEFINE u == [tra[p] EXCEPT !.at = "active"]
<1>1. /\ TransactionsFit' /\ Forward /\ tra[p] \in TraType /\ tra' = [tra EXCEPT ![p] = u]
      /\ tra[p].at = "sweep" /\ UNCHANGED <<tip, dbb, lck, overtook>>
  BY SweepKeeps, SessionIs DEF SweepEnds
<1>2. /\ u.at = "active" /\ u.snapshot = tra[p].snapshot /\ u.sub = tra[p].sub /\ u.number = tra[p].number
      /\ u.top = tra[p].top /\ u.oldest = tra[p].oldest /\ u.oldest_active = tra[p].oldest_active
      /\ u.hdr_snapshot = tra[p].hdr_snapshot
  BY <1>1 DEF TraType
<1> HIDE DEF u
<1>3. tra'[p] = u /\ \A s \in Sessions : s # p => tra'[s] = tra[s]
  BY <1>1, SessionIs
<1>4. Grows(p) /\ \A n : State(p, n)' = State(p, n)
  BY <1>2, <1>3, SnapshotIsSame
<1>5. Reads(p) /\ Reads(p)'
  BY <1>1, <1>2, <1>3 DEF Reads
<1>6. hdr'.oldest_snapshot = hdr.oldest_snapshot
  BY DEF SweepEnds, TransactionsFit, Typed
<1> QED
  BY <1>1, <1>2, <1>3, <1>4, <1>5, <1>6, SameHolds

\* A wait corrects the snapshot to dead only, and what it has committed stays.
LEMMA WaitReaches ==
  ASSUME TransactionsFit, ReachInv, NEW p \in Sessions, tra[p].at = "active",
         NEW n \in Numbers, n <= hdr.next, TRA_wait(p, n)
  PROVE  /\ ReachInv' /\ Reads(p)'
         /\ \A m \in Numbers : /\ State(p, m)' = "us" <=> State(p, m) = "us"
                               /\ State(p, m)' = "committed" <=> State(p, m) = "committed"
<1> DEFINE u == [tra[p] EXCEPT !.snapshot[n] = WaitedState(n)]
<1>1. /\ TransactionsFit' /\ Forward /\ tra[p] \in TraType /\ SnapshotFits(p)
      /\ tra \in [Sessions -> TraType] /\ UNCHANGED <<hdr, dbb, lck, overtook>>
      /\ tra' = tra \/ (WaitedState(n) # "committed" /\ tra' = [tra EXCEPT ![p] = u])
  BY WaitKeeps, SessionIs, CountersAre DEF TRA_wait
<1>2. /\ u.at = tra[p].at /\ u.snapshot = [tra[p].snapshot EXCEPT ![n] = WaitedState(n)]
      /\ u.sub = tra[p].sub /\ u.number = tra[p].number
      /\ u.top = tra[p].top /\ u.oldest = tra[p].oldest /\ u.oldest_active = tra[p].oldest_active
      /\ u.hdr_snapshot = tra[p].hdr_snapshot
  BY <1>1 DEF TraType
<1> HIDE DEF u
<1>3. /\ tra'[p] = tra[p] \/ (WaitedState(n) # "committed" /\ tra'[p] = u)
      /\ \A s \in Sessions : s # p => tra'[s] = tra[s]
  BY <1>1
<1>4. ASSUME NEW m \in Numbers
      PROVE  /\ State(p, m)' = "us" <=> State(p, m) = "us"
             /\ State(p, m)' = "committed" <=> State(p, m) = "committed"
  <2>1. CASE tra'[p] = tra[p]
    BY <2>1 DEF State, TRA_snapshot_state
  <2>2. CASE tra'[p] = u /\ m # n
    <3>1. u.snapshot[m] = tra[p].snapshot[m]
      BY <1>1, <1>2, <2>2, FieldsAre
    <3> QED
      BY <1>2, <2>2, <3>1 DEF State, TRA_snapshot_state
  <2>3. CASE tra'[p] = u /\ m = n /\ WaitedState(n) # "committed"
    <3>1. tra[p].snapshot[n] # "committed"
      BY <1>1, <2>3 DEF SnapshotFits, WaitedState
    <3>2. u.snapshot[n] # "committed"
      BY <1>1, <1>2, <2>3, FieldsAre
    <3>3. tip[n] \in States /\ tra[p].snapshot[n] \in States /\ u.snapshot[n] \in {"active", "dead"}
      BY <1>1, <1>2, <3>2, SessionIs, FieldsAre DEF WaitedState, States
    <3> QED
      BY <1>2, <2>3, <3>1, <3>2, <3>3 DEF State, TRA_snapshot_state, States
  <2> QED
    BY <1>3, <2>1, <2>2, <2>3
<1>5. Grows(p)
  BY <1>4 DEF Grows
<1>6. Reads(p) /\ Reads(p)'
  BY <1>2, <1>3 DEF Reads
<1>7. /\ tra'[p].at = "active" /\ tra'[p].number = tra[p].number /\ tra'[p].sub = tra[p].sub
      /\ tra'[p].hdr_snapshot = tra[p].hdr_snapshot /\ tra'[p].oldest_active = tra[p].oldest_active
  BY <1>2, <1>3
<1> QED
  BY <1>1, <1>3, <1>4, <1>5, <1>6, <1>7, SameHolds

\* The number of a transaction that retains its context is among its work, and its next number
\* has a lock of the same data.
LEMMA CommitRetainingReaches ==
  ASSUME TransactionsFit, ReachInv, NEW p \in Sessions, TRA_commit_retaining(p)
  PROVE  ReachInv' /\ Reads(p)' /\ \A n : State(p, n)' = State(p, n)
<1> DEFINE u == [tra[p] EXCEPT !.at = "retain", !.new = hdr'.next, !.sub = Own(p)]
<1>1. /\ TransactionsFit' /\ Forward /\ tra[p] \in TraType /\ tra' = [tra EXCEPT ![p] = u]
      /\ tra[p].at = "active" /\ UNCHANGED <<tip, dbb, overtook>>
      /\ lck' = [lck EXCEPT ![hdr'.next] = lck[tra[p].number]] /\ lck \in [Numbers -> 0..MaxTransaction]
      /\ hdr' = bump_transaction_id(p) /\ hdr.next < MaxTransaction
  BY CommitRetainingKeeps, SessionIs DEF TRA_commit_retaining
<1>2. hdr'.next = hdr.next + 1 /\ hdr'.next \in Numbers /\ hdr.next \in Nat
  BY <1>1, Bumped, CountersAre
<1>3. /\ u.at = "retain" /\ u.snapshot = tra[p].snapshot /\ u.sub = Own(p) /\ u.number = tra[p].number
      /\ u.top = tra[p].top /\ u.oldest = tra[p].oldest /\ u.oldest_active = tra[p].oldest_active
      /\ u.hdr_snapshot = tra[p].hdr_snapshot /\ u.new = hdr'.next
  BY <1>1 DEF TraType
<1> HIDE DEF u
<1>4. tra'[p] = u /\ \A s \in Sessions : s # p => tra'[s] = tra[s]
  BY <1>1, SessionIs
<1>5. \A n : State(p, n)' = State(p, n)
  BY <1>3, <1>4 DEF State, TRA_snapshot_state, Own
<1>6. Grows(p)
  BY <1>5 DEF Grows
<1>7. Reads(p) /\ Reads(p)'
  BY <1>1, <1>3, <1>4 DEF Reads
<1>8. /\ hdr'.oldest_snapshot \in {hdr.oldest_snapshot, dbb[p].oldest_snapshot}
      /\ lck'[tra'[p].new] = lck[tra[p].number] /\ tra'[p].number \in tra'[p].sub
      /\ tra[p].sub \subseteq tra'[p].sub
      /\ \A n \in Numbers : lck'[n] = lck[n] \/ n > hdr.next
  BY <1>1, <1>2, <1>3, <1>4 DEF bump_transaction_id, Larger, Own
<1> QED
  BY <1>1, <1>3, <1>4, <1>5, <1>6, <1>7, <1>8, SameHolds

\* Who looks for the oldest active transaction found the old number active if its own is higher.
LEMMA RetainReaches ==
  ASSUME TransactionsFit, ReachInv, NEW p \in Sessions, retain_context(p)
  PROVE  /\ ReachInv' /\ Reads(p) /\ Reads(p)' /\ Grows(p) /\ tra[p].at = "retain"
         /\ \A n : State(p, n)' = IF n = tra[p].number THEN "committed"
                                  ELSE IF n = tra[p].new THEN "us" ELSE State(p, n)
<1> DEFINE u == [tra[p] EXCEPT !.at = "retained", !.number = tra[p].new, !.new = tra[p].number]
<1>0. PICK k : k = tra[p].number
  OBVIOUS
<1>1. /\ TransactionsFit' /\ Forward /\ tra[p] \in TraType /\ tra' = [tra EXCEPT ![p] = u]
      /\ tra[p].at = "retain" /\ UNCHANGED <<hdr, dbb, lck, overtook>>
      /\ tip' = [tip EXCEPT ![k] = "committed"] /\ tip \in [Numbers -> States]
      /\ NumberFits(p) /\ LockReached(p)
  BY <1>0, RetainContextKeeps, SessionIs, CountersAre DEF retain_context
<1>2. /\ u.at = "retained" /\ u.snapshot = tra[p].snapshot /\ u.sub = tra[p].sub
      /\ u.number = tra[p].new /\ u.new = tra[p].number
      /\ u.top = tra[p].top /\ u.oldest = tra[p].oldest /\ u.oldest_active = tra[p].oldest_active
      /\ u.hdr_snapshot = tra[p].hdr_snapshot
  BY <1>1 DEF TraType
<1> HIDE DEF u
<1>3. tra'[p] = u /\ \A s \in Sessions : s # p => tra'[s] = tra[s]
  BY <1>1, SessionIs
<1>4. Reads(p) /\ Reads(p)' /\ Undecided(p) /\ Undecided(p)'
  BY <1>1, <1>2, <1>3 DEF Reads, Undecided
<1>5. /\ k \in Numbers /\ tip[k] = "active" /\ k # 0 /\ k \in tra[p].sub
      /\ tra[p].new # 0 /\ tra[p].new # k /\ tip[tra[p].new] = "active"
      /\ lck[tra[p].new] = lck[k]
  BY <1>0, <1>1, <1>4, AliveIs DEF LockReached, NumberFits
<1>6. \A n : State(p, n)' = IF n = k THEN "committed"
                             ELSE IF n = tra[p].new THEN "us" ELSE State(p, n)
  BY <1>0, <1>2, <1>3, <1>5 DEF State, TRA_snapshot_state
<1>7. Grows(p)
  BY <1>5, <1>6 DEF Grows
<1>8. Steady(p)
  BY <1>1, <1>3, SteadyIs
<1>9. ASSUME NEW t \in Sessions, t # p PROVE InOrder(t, p)'
  <2> SUFFICES ASSUME tra[t].at = "oldest", Stands(p)', tra[p].new > tra[t].number
               PROVE  (\E m \in tra[p].sub : m \in ActiveBelow(t)') \/ Within(t, p)'
    BY <1>2, <1>3, <1>9 DEF InOrder
  <2>1. /\ ActiveBelow(t)' = ActiveBelow(t) /\ \A n : State(t, n)' = State(t, n)
        /\ tra'[t].number = tra[t].number
    BY <1>3, <1>8, <1>9, OthersSee DEF ActiveBelow
  <2>2. /\ tra[t] \in TraType /\ SnapshotFits(t) /\ CountersFit(t) /\ Apart(t, p)
        /\ tra[t].number \in Nat /\ tra[t].active \in Nat /\ k \in Nat /\ tra[t].number # 0
        /\ tra[t].snapshot[k] \in States
    <3>1. Undecided(t)
      BY DEF Undecided
    <3> QED
      BY <1>5, <1>9, <3>1, CountersAre, FieldsAre, AliveIs, NumbersAre
  <2>3. k # tra[t].number
    BY <1>0, <2>2 DEF Apart
  <2>4. CASE k < tra[t].number
    <3>1. tra[t].active <= k
      BY <1>5, <2>2 DEF CountersFit, Over
    <3>2. tra[t].snapshot[k] = "active"
      BY <1>5, <2>2 DEF SnapshotFits, States
    <3>3. k \in ActiveBelow(t)
      BY <1>5, <2>4, <3>1, <3>2, BelowIs
    <3> QED
      BY <1>5, <2>1, <3>3
  <2>5. CASE k > tra[t].number
    <3>1. Stands(p)
      BY <1>1, <1>4 DEF Stands, HasSnapshot
    <3>2. (\E m \in tra[p].sub : m \in ActiveBelow(t)) \/ Within(t, p)
      BY <1>0, <2>5, <3>1, SessionIs DEF InOrder
    <3>3. ASSUME Within(t, p), NEW n \in Numbers, n < tra[t].number, tip'[n] = "committed",
                 State(t, n) = "committed"
          PROVE  State(p, n)' = "committed"
      <4>1. tip[n] = "committed"
        BY <1>1, <2>2, <2>5, <3>3, NumbersAre
      <4> QED
        BY <1>7, <3>3, <4>1 DEF Within, Grows
    <3> QED
      BY <2>1, <3>2, <3>3 DEF Within
  <2> QED
    BY <2>2, <2>3, <2>4, <2>5
<1> QED
  BY <1>0, <1>1, <1>2, <1>3, <1>4, <1>5, <1>6, <1>7, <1>8, <1>9, OnwardHolds

LEMMA RetainedReaches ==
  ASSUME TransactionsFit, ReachInv, NEW p \in Sessions, retain_release(p)
  PROVE  ReachInv' /\ Reads(p) /\ Reads(p)' /\ \A n : State(p, n)' = State(p, n)
<1> DEFINE u == [tra[p] EXCEPT !.at = "active", !.new = 0, !.write = FALSE]
<1>1. /\ TransactionsFit' /\ Forward /\ tra[p] \in TraType /\ tra' = [tra EXCEPT ![p] = u]
      /\ tra[p].at = "retained" /\ UNCHANGED <<tip, hdr, dbb, overtook>>
      /\ lck' = [lck EXCEPT ![tra[p].new] = 0] /\ lck \in [Numbers -> 0..MaxTransaction]
  BY RetainReleaseKeeps, SessionIs DEF retain_release
<1>2. /\ u.at = "active" /\ u.snapshot = tra[p].snapshot /\ u.sub = tra[p].sub /\ u.number = tra[p].number
      /\ u.top = tra[p].top /\ u.oldest = tra[p].oldest /\ u.oldest_active = tra[p].oldest_active
      /\ u.hdr_snapshot = tra[p].hdr_snapshot
  BY <1>1 DEF TraType
<1> HIDE DEF u
<1>3. tra'[p] = u /\ \A s \in Sessions : s # p => tra'[s] = tra[s]
  BY <1>1, SessionIs
<1>4. Grows(p) /\ \A n : State(p, n)' = State(p, n)
  BY <1>2, <1>3, SnapshotIsSame
<1>5. Reads(p) /\ Reads(p)'
  BY <1>1, <1>2, <1>3 DEF Reads
<1> QED
  BY <1>1, <1>2, <1>3, <1>4, <1>5, SameHolds

LEMMA StutterReaches ==
  ASSUME ReachInv, UNCHANGED transactionVars PROVE ReachInv'
BY DEF ReachInv, transactionVars, Reached, CountersReached, LockReached, HasSnapshot, InOrder,
       Over, FitsFor, State, TRA_snapshot_state, Stands, Reads, Undecided, Within, ActiveBelow

-----------------------------------------------------------------------------
(* What a record is to who sees certain versions. *)

\* The first version seen tells.
LEMMA ShownIs ==
  ASSUME NEW c \in Seq(VersionType), NEW N, NEW i \in DOMAIN c, c[i].tra \in N,
         \A j \in DOMAIN c : j < i => c[j].tra \notin N
  PROVE  Shown(N, c) = IF c[i].del THEN {} ELSE {c[i]}
<1>1. DOMAIN c \subseteq Nat
  OBVIOUS
<1>2. \A k \in DOMAIN c :
        c[k].tra \in N /\ (\A j \in DOMAIN c : j < k => c[j].tra \notin N) => k = i
  BY <1>1
<1> QED
  BY <1>2 DEF Shown

LEMMA ShownNone ==
  ASSUME NEW c, NEW N, \A i \in DOMAIN c : c[i].tra \notin N
  PROVE  Shown(N, c) = {}
BY DEF Shown

LEMMA ShownHead ==
  ASSUME NEW c \in Seq(VersionType), NEW N, c # <<>>, Head(c).tra \in N
  PROVE  Shown(N, c) = IF Head(c).del THEN {} ELSE {Head(c)}
<1>1. Head(c) = c[1] /\ 1 \in DOMAIN c /\ \A j \in DOMAIN c : ~(j < 1)
  <2>1. \A j \in DOMAIN c : ~(j < 1)
    OBVIOUS
  <2> QED
    BY <2>1, TailIs
<1> QED
  BY <1>1, ShownIs

\* Only the numbers versions have matter.
LEMMA ShownSame ==
  ASSUME NEW c, NEW N, NEW M, \A i \in DOMAIN c : c[i].tra \in N <=> c[i].tra \in M
  PROVE  Shown(N, c) = Shown(M, c)
BY DEF Shown

\* A version that is not seen may be taken off or put on.
LEMMA ShownBehind ==
  ASSUME NEW c \in Seq(VersionType), NEW d \in Seq(VersionType), NEW N,
         Len(d) = Len(c) + 1, \A i \in DOMAIN c : d[i + 1] = c[i], d[1].tra \notin N
  PROVE  Shown(N, d) = Shown(N, c)
<1>1. /\ DOMAIN c = 1..Len(c) /\ DOMAIN d = 1..(Len(c) + 1) /\ Len(c) \in Nat
  OBVIOUS
<1>2. CASE \A i \in DOMAIN c : c[i].tra \notin N
  <2>1. ASSUME NEW i \in DOMAIN d PROVE d[i].tra \notin N
    <3>1. CASE i = 1
      BY <3>1
    <3>2. CASE i # 1
      <4>1. i - 1 \in DOMAIN c /\ d[(i - 1) + 1] = c[i - 1] /\ (i - 1) + 1 = i
        BY <1>1, <3>2
      <4> QED
        BY <1>2, <4>1
    <3> QED
      BY <3>1, <3>2
  <2> QED
    BY <1>2, <2>1, ShownNone
<1>3. ASSUME NEW k \in DOMAIN c, c[k].tra \in N PROVE Shown(N, d) = Shown(N, c)
  <2> DEFINE S == {i \in DOMAIN c : c[i].tra \in N}
  <2>1. S \in SUBSET (0..Len(c)) /\ S # {} /\ Len(c) \in Nat
    BY <1>1, <1>3
  <2>2. PICK i \in S : \A j \in S : i <= j
    BY <2>1, LeastOf
  <2>3. i \in DOMAIN c /\ c[i].tra \in N /\ \A j \in DOMAIN c : j < i => c[j].tra \notin N
    <3>1. \A j \in DOMAIN c : j < i => j \notin S
      BY <1>1, <2>2
    <3> QED
      BY <2>2, <3>1
  <2>4. Shown(N, c) = IF c[i].del THEN {} ELSE {c[i]}
    BY <2>3, ShownIs
  <2>5. i + 1 \in DOMAIN d /\ d[i + 1] = c[i]
    BY <1>1, <2>3
  <2>6. ASSUME NEW j \in DOMAIN d, j < i + 1 PROVE d[j].tra \notin N
    <3>1. CASE j = 1
      BY <3>1
    <3>2. CASE j # 1
      <4>1. j - 1 \in DOMAIN c /\ d[(j - 1) + 1] = c[j - 1] /\ (j - 1) + 1 = j /\ j - 1 < i
        BY <1>1, <2>3, <2>6, <3>2
      <4> QED
        BY <2>3, <4>1
    <3> QED
      BY <3>1, <3>2
  <2>7. Shown(N, d) = IF d[i + 1].del THEN {} ELSE {d[i + 1]}
    <3> DEFINE m == i + 1
    <3>1. m \in DOMAIN d /\ d[m].tra \in N /\ \A j \in DOMAIN d : j < m => d[j].tra \notin N
      BY <2>3, <2>5, <2>6
    <3> HIDE DEF m
    <3>2. Shown(N, d) = IF d[m].del THEN {} ELSE {d[m]}
      BY <3>1, ShownIs
    <3> QED
      BY <3>2 DEF m
  <2> QED
    BY <2>4, <2>5, <2>7
<1> QED
  BY <1>2, <1>3

LEMMA ShownTail ==
  ASSUME NEW c \in Seq(VersionType), NEW N, c # <<>>, Head(c).tra \notin N
  PROVE  Shown(N, Tail(c)) = Shown(N, c)
<1>1. /\ Tail(c) \in Seq(VersionType) /\ Len(c) = Len(Tail(c)) + 1
      /\ \A i \in DOMAIN Tail(c) : c[i + 1] = Tail(c)[i]
  <2>1. Len(c) = Len(Tail(c)) + 1
    OBVIOUS
  <2> QED
    BY <2>1, TailIs
<1>2. Head(c) = c[1]
  BY TailIs
<1> QED
  BY <1>1, <1>2, ShownBehind

LEMMA ShownCons ==
  ASSUME NEW c \in Seq(VersionType), NEW N, NEW v \in VersionType, v.tra \notin N
  PROVE  Shown(N, <<v>> \o c) = Shown(N, c)
<1>1. /\ <<v>> \o c \in Seq(VersionType) /\ Len(<<v>> \o c) = Len(c) + 1
      /\ \A i \in DOMAIN c : (<<v>> \o c)[i + 1] = c[i]
      /\ (<<v>> \o c)[1] = v
  OBVIOUS
<1> QED
  BY <1>1, ShownBehind

\* The number n joins those who are seen, and both have its version in front or neither has one.
OnlyInFront(c, n) == \A i \in DOMAIN c : i > 1 => c[i].tra # n
InFront(c, n) == c # <<>> /\ Head(c).tra = n
SameFront(c, d, n) == InFront(c, n) \/ InFront(d, n) => c # <<>> /\ d # <<>> /\ Head(c) = Head(d)
Joined(K, N, n) == \A x : x \in K <=> x \in N \/ x = n

LEMMA ShownJoins ==
  ASSUME NEW c \in Seq(VersionType), NEW d \in Seq(VersionType), NEW N, NEW n,
         NEW K, Joined(K, N, n), Shown(N, c) = Shown(N, d),
         OnlyInFront(c, n), OnlyInFront(d, n), SameFront(c, d, n)
  PROVE  Shown(K, c) = Shown(K, d)
<1>1. ASSUME InFront(c, n) \/ InFront(d, n) PROVE Shown(K, c) = Shown(K, d)
  <2>1. c # <<>> /\ d # <<>> /\ Head(c) = Head(d) /\ Head(c).tra = n /\ n \in K
    BY <1>1 DEF SameFront, InFront, Joined
  <2> QED
    BY <2>1, ShownHead
<1>2. ASSUME NEW e \in Seq(VersionType), OnlyInFront(e, n), ~InFront(e, n)
      PROVE  Shown(K, e) = Shown(N, e)
  <2>1. ASSUME NEW i \in DOMAIN e PROVE e[i].tra # n
    <3>1. i \in Nat /\ i # 0 /\ e # <<>>
      OBVIOUS
    <3>2. Head(e) = e[1]
      BY <3>1, TailIs
    <3> QED
      BY <1>2, <3>1, <3>2 DEF OnlyInFront, InFront
  <2>2. \A i \in DOMAIN e : e[i].tra \in K <=> e[i].tra \in N
    BY <2>1 DEF Joined
  <2> QED
    BY <2>2, ShownSame
<1> QED
  BY <1>1, <1>2

-----------------------------------------------------------------------------
(* What is seen of the pages. *)

LEMMA PageIs ==
  ASSUME BInv, NEW r \in Records, NEW c \in {chain[r], disk[r]}
  PROVE  /\ c \in Seq(VersionType)
         /\ \A i \in DOMAIN c : /\ c[i] \in VersionType /\ c[i].tra \in 0..MaxTransaction
                                /\ Known(c[i].tra) /\ (i > 1 => Committed(c[i].tra))
         /\ c # <<>> => Head(c) = c[1] /\ 1 \in DOMAIN c /\ Head(c) \in VersionType
<1>1. c \in Seq(VersionType) /\ VersionsFit(c)
  BY TypesAre DEF PagesTyped, PagesFit
<1>2. \A i \in DOMAIN c : c[i] \in VersionType
  BY <1>1
<1> QED
  BY <1>1, <1>2, VersionIs, TailIs DEF VersionsFit

LEMMA VisibleIs ==
  ASSUME TransactionsFit, NEW s \in Sessions, Undecided(s)
  PROVE  0 \in Visible(s) /\ Visible(s) \in Cuts(s)
<1>1. tra[s].number \in Numbers
  BY AliveIs
<1>2. 0 \in Visible(s)
  BY <1>1, NumbersAre DEF Visible, State, Committed
<1>3. Visible(s) \cup {0} = Visible(s)
  BY <1>2
<1> QED
  BY <1>2, <1>3 DEF Cuts

\* Nobody sees what did not commit.
LEMMA CutsAreCommitted ==
  ASSUME TransactionsFit, NEW s \in Sessions, NEW N \in Cuts(s), NEW n \in N,
         n \in 0..MaxTransaction, Known(n)
  PROVE  Committed(n)
<1>1. PICK m \in Correctable(s) \cup {0} : N = Visible(s) \cup {m}
  BY DEF Cuts
<1>2. CASE n = m
  BY <1>1, <1>2 DEF Correctable, Committed
<1>3. CASE n \in Visible(s)
  BY <1>3, StateIs DEF Visible
<1> QED
  BY <1>1, <1>2, <1>3

\* What committed below a number that has been reached is seen by all.
LEMMA AllSee ==
  ASSUME TransactionsFit, NEW x \in Nat, Reached(x), NEW n \in 0..MaxTransaction, n < x,
         Committed(n), NEW s \in Sessions, Undecided(s), s \notin overtook, NEW N \in Cuts(s)
  PROVE  n \in N
<1>1. Visible(s) \subseteq N
  BY DEF Cuts
<1>2. CASE tra[s].at = "inventory"
  <2>1. tra[s].number \in Numbers /\ tip[tra[s].number] = "active"
    BY AliveIs
  <2>2. n < tra[s].number
    BY <2>1, NumbersAre DEF Reached, Over
  <2> QED
    BY <1>1, <1>2, <2>2 DEF Visible
<1>3. CASE tra[s].at # "inventory"
  <2>1. Stands(s)
    BY <1>3 DEF Stands, HasSnapshot, Undecided, Reads
  <2>2. State(s, n) = "committed"
    BY <2>1, NumbersAre DEF Reached, FitsFor, State, Committed
  <2> QED
    BY <1>1, <1>3, <2>2 DEF Visible
<1> QED
  BY <1>2, <1>3

\* What those who were not overtaken see of the records stays, in the caches and in the file.
ShownStays ==
  \A s \in Sessions : Undecided(s) /\ s \notin overtook =>
    \A N \in Cuts(s), q \in Records : /\ Shown(N, chain'[q]) = Shown(N, chain[q])
                                      /\ Shown(N, disk'[q]) = Shown(N, chain[q])

\* What p sees of the others stays, or the version it finds newest.
StillSeen ==
  \A s \in Sessions, q \in Records : Reads(s) /\ Reads(s)' /\ s \notin overtook' =>
    Shown(Visible(s), chain[q])' = Shown(Visible(s), chain[q]) \/ Newest(s, q)' = Newest(s, q)

Lasts == ReachInv' /\ (\A s \in Sessions : Plain(s)' /\ PagesAgree(s)') /\ StillSeen

\* A transaction that sees what it saw, or might have seen by correcting its snapshot.
LEMMA AgreeStays ==
  ASSUME ShownStays, NEW s \in Sessions,
         Undecided(s)' /\ s \notin overtook' => Undecided(s) /\ s \notin overtook,
         \A N \in Cuts(s)' : N \in Cuts(s)
  PROVE  PagesAgree(s)'
BY DEF ShownStays, PagesAgree, Agrees

LEMMA SeenStays ==
  ASSUME TransactionsFit, ShownStays, NEW s \in Sessions, NEW q \in Records,
         Undecided(s), s \notin overtook, Visible(s)' = Visible(s)
  PROVE  Shown(Visible(s), chain[q])' = Shown(Visible(s), chain[q])
<1>1. PICK N : N = Visible(s)
  OBVIOUS
<1>2. N \in Cuts(s) /\ Visible(s)' = N
  BY <1>1, VisibleIs
<1>3. Shown(N, chain'[q]) = Shown(N, chain[q])
  BY <1>2 DEF ShownStays
<1> QED
  BY <1>1, <1>2, <1>3

\* Snapshots, numbers and states of the transactions are what they were.
SameSight ==
  /\ tip' = tip /\ overtook' = overtook
  /\ \A s \in Sessions :
       /\ tra'[s].at = tra[s].at /\ tra'[s].number = tra[s].number /\ tra'[s].sub = tra[s].sub
       /\ tra'[s].top = tra[s].top /\ tra'[s].oldest = tra[s].oldest
       /\ tra'[s].snapshot = tra[s].snapshot /\ tra'[s].active = tra[s].active
       /\ tra'[s].cleanup = tra[s].cleanup

LEMMA SightStays ==
  ASSUME SInv, ReachInv', SameSight, ShownStays
  PROVE  Lasts
<1>1. TransactionsFit
  BY TypesAre DEF SInv
<1>2. ASSUME NEW s \in Sessions
      PROVE  Plain(s)' /\ PagesAgree(s)'
  <2>1. /\ Visible(s)' = Visible(s) /\ Undecided(s)' = Undecided(s)
        /\ Correctable(s)' = Correctable(s) /\ Plain(s)' = Plain(s)
    BY DEF SameSight, Visible, Undecided, Reads, Correctable, Plain, State, TRA_snapshot_state,
           Committed, ActiveBelow
  <2>2. Cuts(s)' = Cuts(s)
    BY <2>1 DEF Cuts
  <2>3. overtook' = overtook
    BY DEF SameSight
  <2> QED
    BY <2>1, <2>2, <2>3, AgreeStays DEF SInv
<1>3. ASSUME NEW s \in Sessions, NEW q \in Records, Reads(s), s \notin overtook'
      PROVE  Shown(Visible(s), chain[q])' = Shown(Visible(s), chain[q])
  <2>1. Visible(s)' = Visible(s)
    BY DEF SameSight, Visible, State, TRA_snapshot_state, Committed
  <2>2. Undecided(s) /\ s \notin overtook
    BY <1>3 DEF Undecided, SameSight
  <2> QED
    BY <1>1, <2>1, <2>2, SeenStays
<1> QED
  BY <1>2, <1>3 DEF Lasts, StillSeen

\* Versions that may take the place of those of r as far as others' sight goes.
Alike(r, versions) ==
  \A s \in Sessions : Undecided(s) /\ s \notin overtook =>
    \A N \in Cuts(s) : Shown(N, versions) = Shown(N, chain[r])

LEMMA TouchedStays ==
  ASSUME SInv, NEW p \in Sessions, NEW r \in Records, NEW versions,
         Touched(p, r, versions), Alike(r, versions)
  PROVE  ShownStays
<1> SUFFICES ASSUME NEW s \in Sessions, Undecided(s), s \notin overtook, NEW N \in Cuts(s),
                    NEW q \in Records
             PROVE  /\ Shown(N, chain'[q]) = Shown(N, chain[q])
                    /\ Shown(N, disk'[q]) = Shown(N, chain[q])
  BY DEF ShownStays
<1>1. Shown(N, disk[q]) = Shown(N, chain[q])
  BY DEF SInv, PagesAgree, Agrees
<1>2. Shown(N, versions) = Shown(N, chain[r])
  BY DEF Alike
<1>3. chain \in [Records -> Seq(VersionType)]
  BY TypesAre DEF SInv, PagesTyped
<1> QED
  BY <1>1, <1>2, <1>3 DEF Touched

\* Pages are written, or what p did not write of them is lost.
LEMMA OwnPagesStay ==
  ASSUME SInv, NEW p \in Sessions, OwnPages(p)
  PROVE  ShownStays
<1> SUFFICES ASSUME NEW s \in Sessions, Undecided(s), s \notin overtook, NEW N \in Cuts(s),
                    NEW q \in Records
             PROVE  /\ Shown(N, chain'[q]) = Shown(N, chain[q])
                    /\ Shown(N, disk'[q]) = Shown(N, chain[q])
  BY DEF ShownStays
<1>1. Shown(N, disk[q]) = Shown(N, chain[q])
  BY DEF SInv, PagesAgree, Agrees
<1> QED
  BY <1>1 DEF OwnPages

LEMMA SameIsSight ==
  ASSUME UNCHANGED transactionVars
  PROVE  SameSight
BY DEF SameSight, transactionVars

LEMMA ChangeLasts ==
  ASSUME SInv, NEW p \in Sessions, NEW r \in Records, NEW versions \in Seq(VersionType),
         Change(p, r, versions), tra[p].at # "retain", Alike(r, versions),
         UNCHANGED transactionVars
  PROVE  Lasts
<1>1. PagesTyped /\ ReachInv
  BY TypesAre DEF SInv
<1>2. ShownStays
  BY <1>1, ChangeTouches, TouchedStays
<1> QED
  BY <1>1, <1>2, StutterReaches, SameIsSight, SightStays

LEMMA LookLasts ==
  ASSUME SInv, NEW p \in Sessions, NEW r \in Records, Access(p, r), UNCHANGED transactionVars
  PROVE  Lasts
<1>1. PagesTyped /\ ReachInv
  BY TypesAre DEF SInv
<1>2. PICK versions : versions = chain[r]
  OBVIOUS
<1>3. Alike(r, versions)
  BY <1>2 DEF Alike
<1>4. ShownStays
  BY <1>1, <1>2, <1>3, AccessTouches, TouchedStays
<1> QED
  BY <1>1, <1>4, StutterReaches, SameIsSight, SightStays

\* A version goes on the chain.
LEMMA WriteLasts ==
  ASSUME SInv, NEW p \in Sessions, NEW r \in Records, NEW versions \in Seq(VersionType),
         Change(p, r, versions), tra[p].at = "active", Alike(r, versions),
         tra' = [tra EXCEPT ![p].write = TRUE], UNCHANGED <<tip, hdr, dbb, lck, overtook>>
  PROVE  Lasts
<1>1. PagesTyped /\ ReachInv /\ TransactionsFit /\ tra \in [Sessions -> TraType]
  BY TypesAre DEF SInv
<1>2. ShownStays
  BY <1>1, ChangeTouches, TouchedStays
<1>3. ReachInv'
  BY <1>1, WriteReaches
<1>4. SameSight
  BY <1>1 DEF SameSight, TraType
<1> QED
  BY <1>2, <1>3, <1>4, SightStays

-----------------------------------------------------------------------------
(* The statements' steps. *)

LEMMA TailIsAlike ==
  ASSUME SInv, NEW r \in Records, chain[r] # <<>>, ~Committed(Head(chain[r]).tra)
  PROVE  Alike(r, Tail(chain[r])) /\ Tail(chain[r]) \in Seq(VersionType)
<1>1. /\ TransactionsFit /\ chain[r] \in Seq(VersionType)
      /\ Head(chain[r]).tra \in 0..MaxTransaction /\ Known(Head(chain[r]).tra)
  BY TypesAre, PageIs DEF SInv
<1>2. ASSUME NEW s \in Sessions, NEW N \in Cuts(s)
      PROVE  Shown(N, Tail(chain[r])) = Shown(N, chain[r])
  <2>1. Head(chain[r]).tra \notin N
    BY <1>1, CutsAreCommitted
  <2> QED
    BY <1>1, <2>1, ShownTail
<1> QED
  BY <1>1, <1>2, TailIs DEF Alike

LEMMA MatureIsAlike ==
  ASSUME SInv, NEW p \in Sessions, Reads(p), NEW r \in Records, chain[r] # <<>>,
         Committed(Primary(r).tra), Mature(p, r)
  PROVE  /\ ~Primary(r).del => Alike(r, <<Primary(r)>>)
         /\ Primary(r).del => Alike(r, <<>>)
         /\ <<Primary(r)>> \in Seq(VersionType) /\ <<>> \in Seq(VersionType)
<1>1. /\ TransactionsFit /\ chain[r] \in Seq(VersionType) /\ ReachInv
      /\ Primary(r) = Head(chain[r]) /\ Primary(r) \in VersionType
      /\ Primary(r).tra \in 0..MaxTransaction
  BY TypesAre, PageIs DEF SInv, Primary
<1>2. PICK x \in Nat : x = tra[p].oldest_active /\ Reached(x) /\ Primary(r).tra < x
  BY <1>1, CountersAre, FieldsAre DEF ReachInv, CountersReached, Mature
<1>3. <<Primary(r)>> \in Seq(VersionType) /\ <<Primary(r)>> # <<>> /\ Head(<<Primary(r)>>) = Primary(r)
      /\ <<>> \in Seq(VersionType) /\ DOMAIN <<>> = {}
  BY <1>1, OneIs, NoneIs
<1>4. ASSUME NEW s \in Sessions, Undecided(s), s \notin overtook, NEW N \in Cuts(s)
      PROVE  /\ Shown(N, chain[r]) = IF Primary(r).del THEN {} ELSE {Primary(r)}
             /\ Shown(N, <<Primary(r)>>) = IF Primary(r).del THEN {} ELSE {Primary(r)}
             /\ Shown(N, <<>>) = {}
  <2>1. Primary(r).tra \in N
    BY <1>1, <1>2, <1>4, AllSee
  <2>2. Shown(N, chain[r]) = IF Primary(r).del THEN {} ELSE {Primary(r)}
    BY <1>1, <2>1, ShownHead
  <2>3. Shown(N, <<Primary(r)>>) = IF Primary(r).del THEN {} ELSE {Primary(r)}
    BY <1>3, <2>1, ShownHead
  <2>4. Shown(N, <<>>) = {}
    BY <1>3, ShownNone
  <2> QED
    BY <2>2, <2>3, <2>4
<1> QED
  BY <1>3, <1>4 DEF Alike

LEMMA OwnIsAlike ==
  ASSUME SInv, NEW p \in Sessions, tra[p].at = "active", NEW r \in Records,
         NEW v \in VersionType, v.tra = tra[p].number
  PROVE  /\ <<v>> \o chain[r] \in Seq(VersionType) /\ Alike(r, <<v>> \o chain[r])
         /\ chain[r] = <<>> => <<v>> \in Seq(VersionType) /\ Alike(r, <<v>>)
<1>1. TransactionsFit /\ chain[r] \in Seq(VersionType) /\ Undecided(p)
  BY TypesAre, PageIs DEF SInv, Undecided, Reads
<1>2. v.tra \in 0..MaxTransaction /\ Known(v.tra) /\ ~Committed(v.tra)
  BY <1>1, OwnIs, AliveIs
<1>3. ASSUME NEW s \in Sessions, NEW N \in Cuts(s)
      PROVE  /\ Shown(N, <<v>> \o chain[r]) = Shown(N, chain[r])
             /\ chain[r] = <<>> => Shown(N, <<v>>) = Shown(N, chain[r])
  <2>1. v.tra \notin N
    BY <1>1, <1>2, CutsAreCommitted
  <2>2. DOMAIN <<v>> = {1} /\ <<v>>[1] = v /\ DOMAIN <<>> = {}
    BY OneIs, NoneIs
  <2>3. Shown(N, <<v>>) = {} /\ Shown(N, <<>>) = {}
    BY <2>1, <2>2, ShownNone
  <2> QED
    BY <1>1, <2>1, <2>3, ShownCons
<1>4. <<v>> \o chain[r] \in Seq(VersionType) /\ <<v>> \in Seq(VersionType)
  BY <1>1, ConsIs, OneIs
<1> QED
  BY <1>3, <1>4 DEF Alike

LEMMA BackOutLasts ==
  ASSUME SInv, NEW p \in Sessions, NEW r \in Records, ChaseBacksOut(p, r)
  PROVE  Lasts
<1>1. /\ TransactionsFit /\ PagesTyped /\ PagesFit /\ chain[r] # <<>> /\ HeadState(p, r) = "dead"
      /\ tra[p].at \in {"active", "sweep"} /\ Change(p, r, Tail(chain[r]))
      /\ UNCHANGED transactionVars
  BY TypesAre DEF SInv, ChaseBacksOut, Chases
<1>2. ~Committed(Head(chain[r]).tra)
  BY <1>1, PrimaryIs, NumbersAre DEF Committed
<1> QED
  BY <1>1, <1>2, TailIsAlike, ChangeLasts

LEMMA PurgeLasts ==
  ASSUME SInv, NEW p \in Sessions, NEW r \in Records, purge(p, r)
  PROVE  Lasts
<1>1. /\ TransactionsFit /\ PagesTyped /\ PagesFit /\ chain[r] # <<>>
      /\ HeadState(p, r) = "committed" /\ ~Primary(r).del /\ Mature(p, r)
      /\ tra[p].at \in {"active", "sweep"} /\ Change(p, r, <<Primary(r)>>)
      /\ UNCHANGED transactionVars
  BY TypesAre DEF SInv, purge, Chases
<1>2. Committed(Primary(r).tra) /\ Reads(p)
  BY <1>1, PrimaryIs DEF Reads
<1> QED
  BY <1>1, <1>2, MatureIsAlike, ChangeLasts

LEMMA UnmakeLasts ==
  ASSUME SInv, NEW p \in Sessions, NEW r \in Records, VIO_verb_cleanup(p, r)
  PROVE  Lasts
<1>1. /\ TransactionsFit /\ chain[r] # <<>> /\ Primary(r).tra = tra[p].number
      /\ tra[p].at = "undo" /\ Change(p, r, Tail(chain[r])) /\ UNCHANGED transactionVars
  BY TypesAre DEF SInv, VIO_verb_cleanup, Unmade
<1>2. ~Committed(Head(chain[r]).tra)
  BY <1>1, AliveIs DEF Undecided, Reads, Primary
<1> QED
  BY <1>1, <1>2, TailIsAlike, ChangeLasts

LEMMA ExpungeStartLasts ==
  ASSUME SInv, NEW p \in Sessions, NEW r \in Records, ChaseExpunges(p, r)
  PROVE  Lasts
BY LookLasts DEF ChaseExpunges, Chases

\* What expunge finds committed, though it does not ask.
LEMMA ExpungeLasts ==
  ASSUME SInv, NEW p \in Sessions, NEW r \in Records, expunge(p, r)
  PROVE  Lasts
<1>1. /\ rpb[p].at = "expunge" /\ rpb[p].rec = r /\ UNCHANGED transactionVars
      /\ UpdateFits(p) /\ ExpungeFits(p)
  BY TypesAre DEF SInv, expunge
<1>2. CASE Access(p, r)
  BY <1>1, <1>2, LookLasts
<1>3. CASE chain[r] # <<>> /\ Primary(r).del /\ Mature(p, r) /\ Change(p, r, <<>>)
  <2>1. tra[p].at \in {"active", "sweep"}
    BY <1>1 DEF UpdateFits
  <2>2. Committed(Primary(r).tra)
    <3>1. 1 \in DOMAIN chain[r] /\ Primary(r) = chain[r][1]
      BY <1>3, PageIs DEF SInv, Primary
    <3> QED
      BY <1>1, <1>3, <3>1 DEF ExpungeFits, CleanAt, Clean, Mature
  <2> QED
    BY <1>1, <1>3, <2>1, <2>2, MatureIsAlike, ChangeLasts DEF Reads
<1> QED
  BY <1>2, <1>3 DEF expunge

LEMMA SweepLooks ==
  ASSUME SInv, NEW p \in Sessions, NEW r \in Records, VIO_sweep(p, r)
  PROVE  Lasts
BY LookLasts DEF VIO_sweep, ChaseReturns, Chases

LEMMA GetLasts ==
  ASSUME SInv, NEW p \in Sessions, NEW r \in Records, NEW op \in Operations, VIO_get(p, r, op)
  PROVE  Lasts
BY LookLasts DEF VIO_get, ChaseReturns, Chases

LEMMA ReplaceLasts ==
  ASSUME SInv, NEW p \in Sessions, NEW r \in Records, Replaces(p, r)
  PROVE  Lasts
<1> DEFINE v == Version(tra[p].number, rpb[p].read, rpb[p].op = "erase")
<1>1. /\ Change(p, r, <<v>> \o chain[r]) /\ tra' = [tra EXCEPT ![p].write = TRUE]
      /\ UNCHANGED <<tip, hdr, dbb, lck, overtook>>
      /\ rpb[p].at = "update" /\ UpdateFits(p) /\ rpb[p] \in RpbType /\ tra[p] \in TraType
  BY TypesAre DEF SInv, Replaces, Updates
<1>2. tra[p].at = "active"
  BY <1>1 DEF UpdateFits
<1>3. v \in VersionType /\ v.tra = tra[p].number
  BY <1>1, FieldsAre DEF Version, VersionType, RpbType
<1> HIDE DEF v
<1> QED
  BY <1>1, <1>2, <1>3, OwnIsAlike, WriteLasts

LEMMA StoreLasts ==
  ASSUME SInv, NEW p \in Sessions, NEW r \in Records, VIO_store(p, r)
  PROVE  Lasts
<1> DEFINE v == Version(tra[p].number, 0, FALSE)
<1>1. /\ Change(p, r, <<v>>) /\ tra' = [tra EXCEPT ![p].write = TRUE]
      /\ UNCHANGED <<tip, hdr, dbb, lck, overtook>> /\ chain[r] = <<>>
      /\ tra[p].at = "active" /\ tra[p] \in TraType
  BY TypesAre DEF SInv, VIO_store
<1>2. v \in VersionType /\ v.tra = tra[p].number
  BY <1>1, FieldsAre, NumbersAre DEF Version, VersionType
<1> HIDE DEF v
<1> QED
  BY <1>1, <1>2, OwnIsAlike, WriteLasts

LEMMA UpdateLooks ==
  ASSUME SInv, NEW p \in Sessions, NEW r \in Records,
         CorrectsPointers(p, r) \/ NothingToUpdate(p, r) \/ UpdateBlocked(p, r)
  PROVE  Lasts
BY LookLasts DEF CorrectsPointers, NothingToUpdate, UpdateBlocked

LEMMA BackoutLasts ==
  ASSUME SInv, NEW p \in Sessions, NEW r \in Records, VIO_backout(p, r)
  PROVE  Lasts
<1>1. /\ rpb[p].at = "backout" /\ rpb[p].rec = r /\ UNCHANGED transactionVars
      /\ UpdateFits(p)
  BY TypesAre DEF SInv, VIO_backout
<1>2. CASE Access(p, r)
  BY <1>1, <1>2, LookLasts
<1>3. CASE chain[r] # <<>> /\ Primary(r).tra = rpb[p].on /\ Change(p, r, Tail(chain[r]))
  <2>1. tra[p].at = "active" /\ tip[rpb[p].on] = "dead" /\ 1 <= rpb[p].on
    BY <1>1 DEF UpdateFits
  <2>2. ~Committed(Head(chain[r]).tra)
    BY <1>3, <2>1 DEF Committed, Primary
  <2> QED
    BY <1>1, <1>3, <2>1, <2>2, TailIsAlike, ChangeLasts
<1> QED
  BY <1>2, <1>3 DEF VIO_backout

LEMMA CacheLasts ==
  ASSUME SInv, NEW r \in Records, CacheWrites(r)
  PROVE  Lasts
<1>1. /\ UNCHANGED transactionVars /\ chain' = chain /\ disk' = [disk EXCEPT ![r] = chain[r]]
      /\ ReachInv /\ disk \in [Records -> Seq(VersionType)]
  BY TypesAre DEF SInv, CacheWrites, PagesTyped
<1>2. ShownStays
  <2> SUFFICES ASSUME NEW s \in Sessions, Undecided(s), s \notin overtook, NEW N \in Cuts(s),
                      NEW q \in Records
               PROVE  /\ Shown(N, chain'[q]) = Shown(N, chain[q])
                      /\ Shown(N, disk'[q]) = Shown(N, chain[q])
    BY DEF ShownStays
  <2>1. Shown(N, disk[q]) = Shown(N, chain[q])
    BY DEF SInv, PagesAgree, Agrees
  <2> QED
    BY <1>1, <2>1
<1> QED
  BY <1>1, <1>2, StutterReaches, SameIsSight, SightStays

-----------------------------------------------------------------------------
(* The transactions' steps and the pages. *)

\* What another transaction sees, or might see, is what it was, or with the number of p besides,
\* which commits.
LEMMA OthersCuts ==
  ASSUME TransactionsFit, NEW p \in Sessions, Decides(p), Forward,
         NEW s \in Sessions, tra'[s] = tra[s], Undecided(s), NEW N \in Cuts(s)'
  PROVE  \/ N \in Cuts(s)
         \/ /\ N = Visible(s) \cup {tra[p].number}
            /\ CommittedNext(tra[p].number) /\ ~Committed(tra[p].number)
<1> DEFINE m == tra[p].number
<1>1. /\ m \in 0..MaxTransaction
      /\ \A n \in 0..MaxTransaction : CommittedNext(n) => Committed(n) \/ n = m
      /\ \A n \in 0..MaxTransaction : Committed(n) => CommittedNext(n)
      /\ \A n \in 0..MaxTransaction : Committed(n)' <=> CommittedNext(n)
  <2>1. m \in 0..MaxTransaction
    BY CountersAre, FieldsAre
  <2>2. \A n \in 0..MaxTransaction : Committed(n) => CommittedNext(n)
    BY CommittedStays DEF CommittedNext, Committed
  <2> QED
    BY <2>1, <2>2 DEF Decides, CommittedNext, Committed
<1>2. PICK k \in Correctable(s)' \cup {0} : N = Visible(s)' \cup {k}
  BY DEF Cuts
<1>3. 0 \in Visible(s) /\ Visible(s) \in Cuts(s)
  BY VisibleIs
<1>4. CASE tra[s].at = "inventory"
  <2>1. k = 0
    BY <1>2, <1>4 DEF Correctable
  <2>2. /\ Visible(s) = {n \in 0..MaxTransaction : Committed(n) /\ n < tra[s].number}
        /\ Visible(s)' = {n \in 0..MaxTransaction : CommittedNext(n) /\ n < tra[s].number}
    BY <1>1, <1>4 DEF Visible
  <2>3. N = {n \in 0..MaxTransaction : CommittedNext(n) /\ n < tra[s].number}
    <3>1. 0 \in Visible(s)'
      BY <1>1, <1>3, <2>2
    <3> QED
      BY <1>2, <2>1, <2>2, <3>1
  <2>4. CASE CommittedNext(m) /\ ~Committed(m) /\ m < tra[s].number
    <3>1. N = Visible(s) \cup {m}
      BY <1>1, <2>2, <2>3, <2>4
    <3> QED
      BY <2>4, <3>1
  <2>5. CASE ~(CommittedNext(m) /\ ~Committed(m) /\ m < tra[s].number)
    <3>1. N = Visible(s)
      BY <1>1, <2>2, <2>3, <2>5
    <3> QED
      BY <1>3, <3>1
  <2> QED
    BY <2>4, <2>5
<1>5. CASE tra[s].at # "inventory"
  <2>1. Visible(s)' = Visible(s) /\ ActiveBelow(s)' = ActiveBelow(s)
    BY <1>5 DEF Visible, State, TRA_snapshot_state, ActiveBelow
  <2>2. CASE k \in Correctable(s) \cup {0}
    BY <1>2, <2>1, <2>2 DEF Cuts
  <2>3. CASE k \notin Correctable(s) \cup {0}
    <3>1. /\ tra[s].at = "oldest" /\ k \in ActiveBelow(s) /\ tip'[k] = "committed"
          /\ tip[k] # "committed" /\ k # 0
      BY <1>2, <2>1, <2>3 DEF Correctable
    <3>2. k \in 0..MaxTransaction
      BY <3>1, BelowIs, NumbersAre
    <3>3. k = m /\ CommittedNext(m) /\ ~Committed(m)
      BY <1>1, <3>1, <3>2 DEF CommittedNext, Committed
    <3> QED
      BY <1>2, <2>1, <3>3
  <2> QED
    BY <2>2, <2>3
<1> QED
  BY <1>4, <1>5

\* The number of p commits, with all its versions in the file.
LEMMA JoinAgrees ==
  ASSUME SInv, NEW p \in Sessions, OwnPages(p), Decides(p),
         CommittedNext(tra[p].number), ~Committed(tra[p].number),
         NEW M, NEW q \in Records, Shown(M, chain'[q]) = Shown(M, disk'[q]), NEW n, n = tra[p].number,
         NEW K, K = M \cup {n}
  PROVE  Shown(K, chain'[q]) = Shown(K, disk'[q])
<1>1. n \in 0..MaxTransaction /\ BInv /\ CommittedNext(n) /\ ~Committed(n)
  BY TypesAre, FieldsAre DEF SInv
<1>2. PICK c, d : c = chain'[q] /\ d = disk'[q]
  OBVIOUS
<1>3. c \in {chain[q], disk[q]} /\ d \in {chain[q], disk[q]}
  BY <1>2 DEF OwnPages
<1>4. /\ c \in Seq(VersionType) /\ d \in Seq(VersionType)
      /\ OnlyInFront(c, n) /\ OnlyInFront(d, n)
  BY <1>1, <1>3, PageIs DEF OnlyInFront
<1>5. SameFront(c, d, n)
  BY <1>1, <1>2 DEF Decides, Even, IsOwn, SameFront, InFront
<1>6. Shown(M, c) = Shown(M, d)
  BY <1>2
<1>7. Shown(K, c) = Shown(K, d)
  <2>1. Joined(K, M, n)
    BY DEF Joined
  <2> QED
    BY <1>4, <1>5, <1>6, <2>1, ShownJoins
<1> QED
  BY <1>2, <1>7

LEMMA OthersAgree ==
  ASSUME SInv, NEW p \in Sessions, OwnPages(p), Decides(p), Forward, ShownStays,
         NEW s \in Sessions, tra'[s] = tra[s], s \in overtook => s \in overtook'
  PROVE  /\ Plain(s)' /\ PagesAgree(s)'
         /\ \A q \in Records : Reads(s) /\ s \notin overtook' =>
              Shown(Visible(s), chain[q])' = Shown(Visible(s), chain[q])
<1>1. TransactionsFit /\ Undecided(s)' = Undecided(s) /\ Plain(s)' = Plain(s) /\ Plain(s)
  BY TypesAre DEF SInv, Undecided, Reads, Plain
<1>2. ASSUME Undecided(s), s \notin overtook, NEW N \in Cuts(s)', NEW q \in Records
      PROVE  Shown(N, chain'[q]) = Shown(N, disk'[q])
  <2>1. CASE N \in Cuts(s)
    BY <1>2, <2>1 DEF ShownStays
  <2>2. CASE /\ N = Visible(s) \cup {tra[p].number}
             /\ CommittedNext(tra[p].number) /\ ~Committed(tra[p].number)
    <3>1. PICK M, n, K : M = Visible(s) /\ n = tra[p].number /\ K = M \cup {n}
      OBVIOUS
    <3>2. M \in Cuts(s)
      BY <1>1, <1>2, <3>1, VisibleIs
    <3>3. Shown(M, chain'[q]) = Shown(M, disk'[q])
      BY <1>2, <3>2 DEF ShownStays
    <3>4. Shown(K, chain'[q]) = Shown(K, disk'[q])
      BY <2>2, <3>1, <3>3, JoinAgrees
    <3> QED
      BY <2>2, <3>1, <3>4
  <2> QED
    BY <1>1, <1>2, <2>1, <2>2, OthersCuts
<1>3. PagesAgree(s)'
  BY <1>1, <1>2 DEF PagesAgree, Agrees
<1>4. ASSUME NEW q \in Records, Reads(s), s \notin overtook'
      PROVE  Shown(Visible(s), chain[q])' = Shown(Visible(s), chain[q])
  <2>1. Visible(s)' = Visible(s)
    BY <1>4 DEF Visible, State, TRA_snapshot_state, Reads
  <2>2. Undecided(s) /\ s \notin overtook
    BY <1>4 DEF Undecided
  <2> QED
    BY <1>1, <2>1, <2>2, SeenStays
<1> QED
  BY <1>1, <1>3, <1>4

\* What there is to show of a step of a transaction.
LEMMA MoveLasts ==
  ASSUME SInv, ReachInv', NEW p \in Sessions, OwnPages(p), Decides(p), Forward,
         \A s \in Sessions : s # p => tra'[s] = tra[s] /\ (s \in overtook => s \in overtook'),
         Plain(p)', PagesAgree(p)',
         \A q \in Records : Reads(p) /\ Reads(p)' /\ p \notin overtook' =>
           \/ Shown(Visible(p), chain[q])' = Shown(Visible(p), chain[q])
           \/ Newest(p, q)' = Newest(p, q)
  PROVE  Lasts
<1>1. ShownStays
  BY OwnPagesStay
<1> QED
  BY <1>1, OthersAgree DEF Lasts, StillSeen

\* A transaction that is not running afterwards.
LEMMA EndLasts ==
  ASSUME SInv, ReachInv', NEW p \in Sessions, OwnPages(p), Decides(p), Forward,
         \A s \in Sessions : s # p => tra'[s] = tra[s] /\ (s \in overtook => s \in overtook'),
         ~Undecided(p)'
  PROVE  Lasts
<1>1. Plain(p)' /\ PagesAgree(p)' /\ ~Reads(p)'
  BY DEF Plain, PagesAgree, Undecided
<1> QED
  BY <1>1, MoveLasts

\* A running one that sees no more than it might have seen.
LEMMA SameCutsLast ==
  ASSUME SInv, ReachInv', NEW p \in Sessions, OwnPages(p), Decides(p), Forward,
         \A s \in Sessions : s # p => tra'[s] = tra[s] /\ (s \in overtook => s \in overtook'),
         Undecided(p), p \in overtook => p \in overtook', tra'[p].at # "inventory",
         \A N \in Cuts(p)' : \E M \in Cuts(p) : \A n \in 0..MaxTransaction :
             Known(n) => (n \in N <=> n \in M),
         Reads(p) => Visible(p)' = Visible(p)
  PROVE  Lasts
<1>1. ShownStays /\ TransactionsFit /\ BInv
  BY OwnPagesStay, TypesAre DEF SInv
<1>2. Plain(p)'
  BY DEF Plain
<1>3. PagesAgree(p)'
  <2> SUFFICES ASSUME p \notin overtook', NEW N \in Cuts(p)', NEW q \in Records
               PROVE  Shown(N, chain'[q]) = Shown(N, disk'[q])
    BY DEF PagesAgree, Agrees
  <2>1. PICK M \in Cuts(p) : \A n \in 0..MaxTransaction : Known(n) => (n \in N <=> n \in M)
    OBVIOUS
  <2>2. Shown(M, chain'[q]) = Shown(M, disk'[q])
    BY <1>1, <2>1 DEF ShownStays
  <2>3. ASSUME NEW c \in {chain'[q], disk'[q]} PROVE Shown(N, c) = Shown(M, c)
    <3>1. c \in {chain[q], disk[q]}
      BY <2>3 DEF OwnPages
    <3>2. \A i \in DOMAIN c : c[i].tra \in N <=> c[i].tra \in M
      BY <1>1, <2>1, <3>1, PageIs
    <3> QED
      BY <3>2, ShownSame
  <2> QED
    BY <2>2, <2>3
<1>4. \A q \in Records : Reads(p) /\ Reads(p)' /\ p \notin overtook' =>
        Shown(Visible(p), chain[q])' = Shown(Visible(p), chain[q])
  BY <1>1, SeenStays
<1> QED
  BY <1>2, <1>3, <1>4, MoveLasts

\* One whose snapshot stays what it is to others' numbers.
LEMMA OnwardLasts ==
  ASSUME SInv, ReachInv', NEW p \in Sessions, OwnPages(p), Decides(p), Forward,
         \A s \in Sessions : s # p => tra'[s] = tra[s], overtook' = overtook,
         tra[p].at # "inventory", Undecided(p), Reads(p)',
         \A n \in Numbers : State(p, n)' = "committed" <=> State(p, n) = "committed"
  PROVE  Lasts
<1>1. tra'[p].at \notin {"inventory", "oldest"}
  BY DEF Reads
<1>2. TransactionsFit
  BY TypesAre DEF SInv
<1>3. Visible(p)' = Visible(p)
  <2>1. \A n \in 0..MaxTransaction : State(p, n)' = "committed" <=> State(p, n) = "committed"
    BY NumbersAre DEF State
  <2> QED
    BY <1>1, <2>1 DEF Visible
<1>4. ASSUME NEW N \in Cuts(p)' PROVE N \in Cuts(p)
  <2>1. N = Visible(p) \cup {0}
    BY <1>1, <1>3 DEF Cuts, Correctable
  <2>2. Visible(p) \cup {0} = Visible(p)
    BY <1>2, VisibleIs
  <2> QED
    BY <1>2, <2>1, <2>2, VisibleIs
<1> QED
  BY <1>1, <1>3, <1>4, SameCutsLast

-----------------------------------------------------------------------------
(* Every step of a transaction. *)

\* Who has all that committed finds the newest committed version.
LEMMA ShownTop ==
  ASSUME BInv, NEW r \in Records, NEW c \in {chain[r], disk[r]}, NEW N,
         \A i \in DOMAIN c : c[i].tra \in N <=> Committed(c[i].tra)
  PROVE  Shown(N, c) = IF Top(c).del THEN {} ELSE {Top(c)}
<1>1. c \in Seq(VersionType) /\ VersionsFit(c)
  BY TypesAre DEF PagesTyped, PagesFit
<1>2. CASE c = <<>>
  <2>1. Top(c).del /\ DOMAIN c = {}
    BY <1>2, NoneIs DEF Top, NoVersion, Version
  <2> QED
    BY <2>1, ShownNone
<1>3. CASE c # <<>> /\ Committed(Head(c).tra)
  <2>1. Head(c).tra \in N
    BY <1>1, <1>3, TailIs
  <2> QED
    BY <1>1, <1>3, <2>1, ShownHead DEF Top
<1>4. CASE c # <<>> /\ ~Committed(Head(c).tra) /\ Tail(c) = <<>>
  <2>1. DOMAIN c = {1} /\ Head(c) = c[1]
    <3>1. Len(Tail(c)) = Len(c) - 1
      BY <1>1, <1>4, HeadTailProperties
    <3>4. Len(Tail(c)) = 0
      <4>1. PICK d : d = Tail(c)
        OBVIOUS
      <4>2. d = <<>>
        BY <1>4, <4>1
      <4>3. Len(d) = 0
        BY <4>2
      <4> QED
        BY <4>1, <4>3
    <3>5. DOMAIN c = 1..Len(c) /\ Len(c) \in Nat
      BY <1>1
    <3>2. DOMAIN c = 1..1
      BY <3>1, <3>4, <3>5
    <3> QED
      BY <1>1, <1>4, <3>2, TailIs
  <2>2. Top(c).del
    BY <1>4 DEF Top, NoVersion, Version
  <2> QED
    BY <1>4, <2>1, <2>2, ShownNone
<1>5. CASE c # <<>> /\ ~Committed(Head(c).tra) /\ Tail(c) # <<>>
  <2>1. /\ Committed(c[2].tra) /\ 2 \in DOMAIN c /\ Head(c) = c[1] /\ Top(c) = c[2]
    BY <1>1, <1>5, SecondIs, TailIs DEF Top
  <2>2. \A j \in DOMAIN c : j < 2 => j = 1
    BY <1>1
  <2>3. c[2].tra \in N /\ \A j \in DOMAIN c : j < 2 => c[j].tra \notin N
    BY <1>5, <2>1, <2>2
  <2> QED
    BY <1>1, <2>1, <2>3, ShownIs
<1> QED
  BY <1>2, <1>3, <1>4, <1>5

\* A step that touches no page and commits no number.
LEMMA StillTurns ==
  ASSUME NEW p \in Sessions, UNCHANGED Pages,
         \A n \in Numbers : tip'[n] = "committed" => tip[n] = "committed"
  PROVE  OwnPages(p) /\ Decides(p) /\ chain' = chain /\ disk' = disk
<1>1. UNCHANGED <<chain, disk, dirty, mark>>
  BY DEF Pages
<1> QED
  BY <1>1, StillIsOwnPages, NothingCommits

LEMMA StartLasts ==
  ASSUME SInv, NEW p \in Sessions, TRA_start(p), UNCHANGED Pages
  PROVE  Lasts
<1>1. /\ BInv /\ TransactionsFit /\ ReachInv /\ tra \in [Sessions -> TraType]
      /\ hdr.next \in Nat /\ FileKept
  BY TypesAre, CountersAre DEF SInv, BInv
<1>2. ReachInv' /\ Forward
  BY <1>1, StartReaches, StartKeeps
<1>3. hdr'.next = hdr.next + 1
  BY DEF TRA_start, bump_transaction_id
<1>4. /\ tip' = tip /\ overtook' = overtook /\ tra[p].at = "idle"
      /\ tra'[p].at = "inventory" /\ tra'[p].number = hdr.next + 1 /\ tra'[p].sub = {}
      /\ \A s \in Sessions : s # p => tra'[s] = tra[s]
  BY <1>1, <1>3 DEF TRA_start, NoTra
<1>5. OwnPages(p) /\ Decides(p) /\ chain' = chain /\ disk' = disk
  BY <1>4, StillTurns
<1>6. PagesAgree(p)'
  <2> SUFFICES ASSUME NEW N \in Cuts(p)', NEW q \in Records
               PROVE  Shown(N, chain'[q]) = Shown(N, disk'[q])
    BY DEF PagesAgree, Agrees
  <2>1. N = {n \in 0..MaxTransaction : Committed(n) /\ n < hdr.next + 1} \cup {0}
    BY <1>4 DEF Cuts, Correctable, Visible, Committed
  <2>2. ASSUME NEW c \in {chain[q], disk[q]}
        PROVE  Shown(N, c) = IF Top(c).del THEN {} ELSE {Top(c)}
    <3>1. \A i \in DOMAIN c : c[i].tra \in N <=> Committed(c[i].tra)
      <4> SUFFICES ASSUME NEW i \in DOMAIN c PROVE c[i].tra \in N <=> Committed(c[i].tra)
        OBVIOUS
      <4>1. c[i].tra \in 0..MaxTransaction /\ c[i].tra < hdr.next + 1
        BY <1>1, PageIs DEF Known
      <4>2. Committed(0)
        BY DEF Committed
      <4> QED
        BY <2>1, <4>1, <4>2
    <3> QED
      BY <1>1, <3>1, ShownTop
  <2>3. Same(Top(chain[q]), Top(disk[q]))
    BY <1>1 DEF FileKept
  <2> QED
    BY <1>5, <2>2, <2>3 DEF Same
<1>7. Plain(p)' /\ ~Reads(p)
  BY <1>4 DEF Plain, Reads
<1> QED
  BY <1>2, <1>4, <1>5, <1>6, <1>7, MoveLasts

LEMMA InventoryLasts ==
  ASSUME SInv, NEW p \in Sessions, TRA_get_inventory(p), UNCHANGED Pages
  PROVE  Lasts
<1>1. /\ TransactionsFit /\ ReachInv /\ tra \in [Sessions -> TraType] /\ Plain(p)
      /\ p \in overtook => HasSnapshot(p)
  BY TypesAre DEF SInv, ReachInv
<1>2. ReachInv' /\ Forward
  BY <1>1, InventoryReaches, InventoryKeeps
<1>3. PICK t : t = [n \in Numbers |-> IF n >= tra[p].oldest /\ n < tra[p].number
                                      THEN tip[n] ELSE "active"]
  OBVIOUS
<1>4. /\ tra' = [tra EXCEPT ![p].at = "oldest", ![p].snapshot = t]
      /\ overtook' = (overtook \ {p}) \cup Earlier(p) /\ tip' = tip
      /\ tra[p].at = "inventory" /\ tra[p].sub = {}
  BY <1>1, <1>3 DEF TRA_get_inventory, Plain
<1>5. /\ tra'[p].at = "oldest" /\ tra'[p].snapshot = t /\ tra'[p].sub = {}
      /\ tra'[p].number = tra[p].number /\ tra'[p].oldest = tra[p].oldest
      /\ tra'[p].top = tra[p].top /\ tra'[p].active = tra[p].active
      /\ \A s \in Sessions : s # p => tra'[s] = tra[s]
  BY <1>1, <1>4 DEF TraType
<1>6. /\ p \notin overtook /\ ~Reads(p) /\ Undecided(p)
  BY <1>1, <1>4 DEF HasSnapshot, Reads, Undecided
<1>7. OwnPages(p) /\ Decides(p)
  BY <1>4, StillTurns
<1>8. /\ tra[p].number \in Nat /\ tra[p].oldest \in Nat /\ tra[p].active \in Nat
      /\ tra[p].oldest <= tra[p].active /\ tra[p].active <= tra[p].number /\ 1 <= tra[p].oldest
      /\ tra[p].top = tra[p].number /\ tra[p].oldest <= hdr.oldest_transaction
      /\ tra[p].number \in Numbers /\ hdr.oldest_transaction \in Nat
  BY <1>1, <1>4, <1>6, CountersAre, FieldsAre, AliveIs DEF CountersFit
<1>9. \A n \in 0..MaxTransaction : Known(n) => (n \in Visible(p)' <=> n \in Visible(p))
  <2> SUFFICES ASSUME NEW n \in 0..MaxTransaction, Known(n)
               PROVE  State(p, n)' = "committed" <=> Committed(n) /\ n < tra[p].number
    BY <1>4, <1>5 DEF Visible
  <2>1. CASE n = 0
    BY <1>8, <2>1, NumbersAre DEF State, Committed
  <2>2. CASE n # 0
    <3>1. n \in Numbers /\ n \in Nat
      BY <2>2, NumbersAre
    <3>2. n < tra[p].oldest => Committed(n) /\ n < tra[p].number
      BY <1>8, <3>1 DEF Known
    <3>3. State(p, n)' = IF n = tra[p].number THEN "us"
                         ELSE IF n < tra[p].oldest THEN "committed"
                         ELSE IF n > tra[p].number THEN "active" ELSE tip[n]
      BY <1>3, <1>5, <1>8, <2>2, <3>1 DEF State, TRA_snapshot_state
    <3> QED
      BY <1>8, <2>2, <3>1, <3>2, <3>3 DEF Committed
  <2> QED
    BY <2>1, <2>2
<1>10. Correctable(p)' = {}
  <2> SUFFICES ASSUME NEW n \in ActiveBelow(p)' PROVE tip'[n] # "committed"
    BY DEF Correctable
  <2>1. n \in Numbers /\ t[n] = "active" /\ n >= tra[p].oldest /\ n < tra[p].number
    BY <1>5, <1>8, NumbersAre DEF ActiveBelow
  <2> QED
    BY <1>3, <1>4, <2>1
<1>11. \A N \in Cuts(p)' : \E M \in Cuts(p) : \A n \in 0..MaxTransaction :
             Known(n) => (n \in N <=> n \in M)
  <2> SUFFICES ASSUME NEW N \in Cuts(p)'
               PROVE  \E M \in Cuts(p) : \A n \in 0..MaxTransaction :
                        Known(n) => (n \in N <=> n \in M)
    OBVIOUS
  <2>1. N = Visible(p)' \cup {0}
    BY <1>10 DEF Cuts
  <2>2. Visible(p) \in Cuts(p) /\ 0 \in Visible(p)
    BY <1>1, <1>6, VisibleIs
  <2>3. \A n \in 0..MaxTransaction : Known(n) => (n \in N <=> n \in Visible(p))
    BY <1>9, <2>1, <2>2
  <2> QED
    BY <2>2, <2>3
<1> QED
  BY <1>2, <1>4, <1>5, <1>6, <1>7, <1>11, SameCutsLast

LEMMA CleanupLasts ==
  ASSUME SInv, NEW p \in Sessions, CleansUp(p), UNCHANGED Pages
  PROVE  Lasts
<1>1. TransactionsFit /\ ReachInv /\ tra \in [Sessions -> TraType] /\ tip \in [Numbers -> States]
  BY TypesAre, SessionIs DEF SInv
<1>2. ReachInv' /\ Forward
  BY <1>1, CleanupReaches, CleanupKeeps
<1>3. PICK n \in ActiveBelow(p), state \in {"dead", "committed"} :
           /\ n \in Numbers /\ n < tra[p].number /\ tra[p].snapshot[n] = "active"
           /\ tip[n] # "active" => state = tip[n]
           /\ tip[n] = "active" => state = "dead"
           /\ tip' = [tip EXCEPT ![n] = state]
           /\ tra'[p].at = "oldest" /\ tra[p].at = "oldest" /\ tra[p].cleanup
           /\ tra'[p].cleanup = (state # "committed")
           /\ tra'[p].number = tra[p].number /\ tra'[p].sub = tra[p].sub
           /\ tra'[p].oldest = tra[p].oldest /\ tra'[p].top = tra[p].top
           /\ tra'[p].active = tra[p].active /\ tra'[p].hdr_snapshot = tra[p].hdr_snapshot
           /\ tra'[p].snapshot = [tra[p].snapshot EXCEPT ![n] = state]
           /\ \A s \in Sessions : s # p => tra'[s] = tra[s]
           /\ overtook' = IF state = "committed" THEN overtook \cup Earlier(p) ELSE overtook
  BY <1>1, CleanupIs
<1>4. \A m \in Numbers : tip'[m] = "committed" => tip[m] = "committed"
  BY <1>1, <1>3
<1>5. OwnPages(p) /\ Decides(p)
  BY <1>4, StillTurns
<1>6. Undecided(p) /\ ~Reads(p)
  BY <1>3 DEF Undecided, Reads
<1>7. tra[p].snapshot \in [Numbers -> States]
  BY <1>1, FieldsAre
<1>8. 0 \in Visible(p)
  BY <1>1, <1>6, VisibleIs
<1>9. /\ tra[p].number \in Nat /\ tra[p].oldest \in Nat /\ tra[p].active \in Nat
      /\ tra[p].oldest <= tra[p].active /\ tra[p].top = tra[p].number
      /\ tra[p].active <= n /\ n \in Nat
  BY <1>1, <1>3, CountersAre, FieldsAre, BelowIs, NumbersAre DEF CountersFit
<1>10. /\ \A m \in 0..MaxTransaction : m # n => State(p, m)' = State(p, m)
       /\ State(p, n)' = "committed" <=> State(p, n) = "committed" \/ state = "committed"
  <2>1. \A m \in 0..MaxTransaction : m = 0 \/ m \in Numbers
    BY NumbersAre
  <2>2. \A m \in 0..MaxTransaction : m # n => State(p, m)' = State(p, m)
    BY <1>3, <1>7, <2>1 DEF State, TRA_snapshot_state
  <2>3. /\ State(p, n) = IF n \in tra[p].sub THEN "committed" ELSE "active"
        /\ State(p, n)' = IF n \in tra[p].sub THEN "committed" ELSE state
    BY <1>3, <1>7, <1>9, NumbersAre DEF State, TRA_snapshot_state
  <2> QED
    BY <2>2, <2>3
<1>11. Visible(p)' = Visible(p) \cup (IF state = "committed" THEN {n} ELSE {})
  BY <1>3, <1>10, NumbersAre DEF Visible
<1>12. \A N \in Cuts(p)' : N \in Cuts(p)
  <2> SUFFICES ASSUME NEW N \in Cuts(p)' PROVE N \in Cuts(p)
    OBVIOUS
  <2>1. CASE state = "committed"
    <3>1. N = (Visible(p) \cup {n}) \cup {0}
      BY <1>3, <1>11, <2>1 DEF Cuts, Correctable
    <3>2. N = Visible(p) \cup {n}
      BY <1>8, <3>1
    <3>3. n \in Correctable(p)
      BY <1>3, <2>1 DEF Correctable
    <3> QED
      BY <3>2, <3>3 DEF Cuts
  <2>2. CASE state # "committed"
    <3>1. Visible(p)' = Visible(p)
      BY <1>11, <2>2
    <3>2. Correctable(p)' \subseteq Correctable(p)
      <4> SUFFICES ASSUME NEW m \in Correctable(p)' PROVE m \in Correctable(p)
        OBVIOUS
      <4>1. /\ m \in tra[p].active..(tra[p].number - 1) /\ tra'[p].snapshot[m] = "active"
            /\ tip'[m] = "committed"
        BY <1>3 DEF Correctable, ActiveBelow
      <4>2. m \in Numbers
        <5>1. 1 <= tra[p].oldest /\ tra[p].number \in Numbers
          BY <1>1, <1>3, <1>6, CountersAre, AliveIs DEF CountersFit
        <5> QED
          BY <1>9, <4>1, <5>1, NumbersAre
      <4>3. tra[p].snapshot[m] = "active" /\ tip[m] = "committed"
        BY <1>3, <1>4, <1>7, <4>1, <4>2
      <4> QED
        BY <1>3, <4>1, <4>3 DEF Correctable, ActiveBelow
    <3> QED
      BY <3>1, <3>2 DEF Cuts
  <2> QED
    BY <2>1, <2>2
<1> QED
  BY <1>2, <1>3, <1>5, <1>6, <1>12, SameCutsLast

\* A step of a transaction that has its snapshot and keeps it.
LEMMA KeptLasts ==
  ASSUME SInv, NEW p \in Sessions, UNCHANGED Pages, tip' = tip, overtook' = overtook,
         \A s \in Sessions : s # p => tra'[s] = tra[s],
         tra[p].at # "inventory", Undecided(p), ReachInv', Forward, Reads(p)',
         \A n : State(p, n)' = State(p, n)
  PROVE  Lasts
<1>1. OwnPages(p) /\ Decides(p)
  BY StillTurns
<1> QED
  BY <1>1, OnwardLasts

LEMMA OldestLasts ==
  ASSUME SInv, NEW p \in Sessions, FindsOldest(p), UNCHANGED Pages
  PROVE  Lasts
<1>1. TransactionsFit /\ ReachInv /\ tra \in [Sessions -> TraType]
  BY TypesAre DEF SInv
<1>2. /\ tip' = tip /\ overtook' = overtook /\ tra[p].at = "oldest"
      /\ \A s \in Sessions : s # p => tra'[s] = tra[s]
  BY <1>1 DEF FindsOldest
<1>3. ReachInv' /\ Forward /\ Reads(p)' /\ \A n : State(p, n)' = State(p, n)
  BY <1>1, OldestReaches, OldestKeeps
<1> QED
  BY <1>2, <1>3, KeptLasts DEF Undecided

LEMMA RetainedLasts ==
  ASSUME SInv, NEW p \in Sessions, retain_release(p), UNCHANGED Pages
  PROVE  Lasts
<1>1. TransactionsFit /\ ReachInv /\ tra \in [Sessions -> TraType]
  BY TypesAre DEF SInv
<1>2. /\ tip' = tip /\ overtook' = overtook /\ tra[p].at = "retained"
      /\ \A s \in Sessions : s # p => tra'[s] = tra[s]
  BY <1>1 DEF retain_release
<1>3. ReachInv' /\ Forward /\ Reads(p)' /\ \A n : State(p, n)' = State(p, n)
  BY <1>1, RetainedReaches, RetainReleaseKeeps
<1> QED
  BY <1>2, <1>3, KeptLasts DEF Undecided, Reads

\* The number commits and the next is p's own: what was its own work p has committed.
LEMMA RetainLasts ==
  ASSUME SInv, NEW p \in Sessions, retain_context(p), UNCHANGED Pages
  PROVE  Lasts
<1>1. /\ BInv /\ TransactionsFit /\ ReachInv /\ tra \in [Sessions -> TraType]
      /\ tip \in [Numbers -> States] /\ OwnMarked(p) /\ PagesAgree(p)
  BY TypesAre, SessionIs DEF SInv
<1>2. ReachInv' /\ Forward /\ Reads(p) /\ Reads(p)' /\ tra[p].at = "retain"
  BY <1>1, RetainReaches, RetainContextKeeps
<1>3. PICK k, m : k = tra[p].number /\ m = tra[p].new
  OBVIOUS
<1>4. \A n : State(p, n)' = IF n = k THEN "committed" ELSE IF n = m THEN "us" ELSE State(p, n)
  BY <1>1, <1>3, RetainReaches
<1>5. /\ tip' = [tip EXCEPT ![k] = "committed"] /\ overtook' = overtook
      /\ tra'[p].at = "retained"
      /\ \A s \in Sessions : s # p => tra'[s] = tra[s]
  BY <1>1, <1>3 DEF retain_context, TraType
<1>6. Undecided(p) /\ k \in Numbers /\ k # 0 /\ ~Committed(k)
  BY <1>1, <1>2, <1>3, AliveIs DEF Undecided
<1>7. chain' = chain /\ disk' = disk /\ OwnPages(p)
  <2>1. UNCHANGED <<chain, disk, dirty, mark>>
    BY DEF Pages
  <2> QED
    BY <2>1, StillIsOwnPages
<1>8. Decides(p) /\ CommittedNext(k)
  <2>1. \A q \in Records : IsOwn(chain[q], p) \/ IsOwn(disk[q], p) => Even(p, chain[q], disk[q])
    BY <1>1, <1>2, <1>6 DEF OwnMarked
  <2>2. \A n \in Numbers : n # k => tip'[n] = tip[n]
    BY <1>1, <1>5
  <2>3. \A n \in 0..MaxTransaction : n = 0 \/ n \in Numbers
    BY NumbersAre
  <2>4. tip'[k] = "committed"
    BY <1>1, <1>5, <1>6
  <2> QED
    BY <1>3, <1>7, <2>1, <2>2, <2>3, <2>4 DEF Decides, CommittedNext, Committed
<1>9. \A n \in 0..MaxTransaction : Known(n) => n # m
  BY <1>2, <1>3 DEF Known
<1>10. PagesAgree(p)'
  <2> SUFFICES ASSUME p \notin overtook, NEW N \in Cuts(p)', NEW q \in Records
               PROVE  Shown(N, chain'[q]) = Shown(N, disk'[q])
    BY <1>5 DEF PagesAgree, Agrees
  <2>1. PICK M, K : M = Visible(p) /\ K = M \cup {k}
    OBVIOUS
  <2>2. M \in Cuts(p) /\ 0 \in M
    BY <1>1, <1>6, <2>1, VisibleIs
  <2>3. Shown(M, chain'[q]) = Shown(M, disk'[q])
    BY <1>1, <1>6, <1>7, <2>2 DEF PagesAgree, Agrees
  <2>4. Shown(K, chain'[q]) = Shown(K, disk'[q])
    BY <1>3, <1>6, <1>7, <1>8, <2>1, <2>3, JoinAgrees
  <2>5. \A n \in 0..MaxTransaction : Known(n) => (n \in N <=> n \in K)
    <3>1. N = {n \in 0..MaxTransaction : State(p, n)' = "committed"} \cup {0}
      BY <1>5 DEF Cuts, Correctable, Visible
    <3>2. M = {n \in 0..MaxTransaction : State(p, n) = "committed"}
      BY <1>2, <2>1 DEF Visible
    <3> QED
      BY <1>4, <1>9, <2>1, <2>2, <3>1, <3>2
  <2>6. ASSUME NEW c \in {chain[q], disk[q]} PROVE Shown(N, c) = Shown(K, c)
    <3>1. \A i \in DOMAIN c : c[i].tra \in N <=> c[i].tra \in K
      BY <1>1, <2>5, PageIs
    <3> QED
      BY <3>1, ShownSame
  <2> QED
    BY <1>7, <2>4, <2>6
<1>11. ASSUME NEW q \in Records PROVE Newest(p, q)' = Newest(p, q)
  <2>1. PICK c : c = chain[q]
    OBVIOUS
  <2>2. \A i \in DOMAIN c : c[i].tra \in 0..MaxTransaction /\ c[i].tra # m
    BY <1>1, <1>9, <2>1, PageIs
  <2>3. State(p, k) = "us"
    BY <1>3, <1>6 DEF State, TRA_snapshot_state
  <2>4. Seen(p, q) = {i \in DOMAIN c : State(p, c[i].tra) \in {"us", "committed"}}
    BY <2>1 DEF Seen
  <2>5. Seen(p, q)' = {i \in DOMAIN c : State(p, c[i].tra)' \in {"us", "committed"}}
    BY <1>7, <2>1 DEF Seen
  <2>6. \A i \in DOMAIN c : State(p, c[i].tra)' \in {"us", "committed"} <=>
                            State(p, c[i].tra) \in {"us", "committed"}
    BY <1>4, <2>2, <2>3
  <2>7. Seen(p, q)' = Seen(p, q)
    BY <2>4, <2>5, <2>6
  <2> QED
    BY <1>7, <2>7 DEF Newest
<1>12. Plain(p)'
  BY <1>5 DEF Plain
<1> QED
  BY <1>2, <1>5, <1>7, <1>8, <1>10, <1>11, <1>12, MoveLasts

LEMMA ReleaseLasts ==
  ASSUME SInv, NEW p \in Sessions, TRA_release_transaction(p), UNCHANGED Pages
  PROVE  Lasts
<1>1. TransactionsFit /\ ReachInv /\ tra \in [Sessions -> TraType]
  BY TypesAre DEF SInv
<1>2. ReachInv' /\ Forward
  BY <1>1, ReleaseReaches, ReleaseKeeps
<1>3. /\ tip' = tip /\ overtook' = overtook /\ tra'[p].at = "idle"
      /\ \A s \in Sessions : s # p => tra'[s] = tra[s]
  BY <1>1, NoTraIs DEF TRA_release_transaction
<1>4. OwnPages(p) /\ Decides(p)
  BY <1>3, StillTurns
<1> QED
  BY <1>2, <1>3, <1>4, EndLasts DEF Undecided, Reads

LEMMA AttachLasts ==
  ASSUME SInv, NEW p \in Sessions, Attach(p), UNCHANGED Pages
  PROVE  Lasts
<1>1. TransactionsFit /\ ReachInv /\ tra \in [Sessions -> TraType]
  BY TypesAre DEF SInv
<1>2. ReachInv' /\ Forward
  BY <1>1, AttachReaches, AttachKeeps
<1>3. /\ overtook' = overtook /\ tra'[p].at = "idle"
      /\ \A s \in Sessions : s # p => tra'[s] = tra[s]
      /\ \A n \in Numbers : tip'[n] = "committed" => tip[n] = "committed"
  BY <1>1, NoTraIs DEF Attach, TRA_cleanup
<1>4. OwnPages(p) /\ Decides(p)
  BY <1>3, StillTurns
<1> QED
  BY <1>2, <1>3, <1>4, EndLasts DEF Undecided, Reads

LEMMA StartsLast ==
  ASSUME SInv, NEW p \in Sessions, Starts(p)
  PROVE  Lasts
BY StartLasts, InventoryLasts, CleanupLasts, OldestLasts, RetainLasts, RetainedLasts, ReleaseLasts,
   AttachLasts DEF Starts

\* A transaction is decided about.
LEMMA DecisionLasts ==
  ASSUME SInv, NEW p \in Sessions, tra[p].at \in {"active", "undo"},
         NEW state \in {"committed", "dead"}, SetState(p, state), OwnPages(p), chain' = chain,
         state = "committed" =>
           \A q \in Records : IsOwn(chain'[q], p) \/ IsOwn(disk'[q], p) =>
             Even(p, chain'[q], disk'[q])
  PROVE  Lasts
<1>1. TransactionsFit /\ ReachInv /\ tra \in [Sessions -> TraType]
  BY TypesAre DEF SInv
<1>2. ReachInv' /\ Forward
  BY <1>1, DecisionReaches, DecideKeeps
<1>3. /\ tra'[p].at = "ending" /\ overtook' = overtook \ {p}
      /\ \A s \in Sessions : s # p => tra'[s] = tra[s]
  BY <1>1 DEF SetState, NoTra
<1>4. Decides(p)
  BY <1>1, DecidesCommitted
<1> QED
  BY <1>2, <1>3, <1>4, EndLasts DEF Undecided, Reads

LEMMA CommitLasts ==
  ASSUME SInv, NEW p \in Sessions, Commits(p)
  PROVE  Lasts
<1>1. /\ BInv /\ PagesTyped /\ TransactionsFit /\ ReachInv /\ tra \in [Sessions -> TraType]
      /\ Flush(p, mark) /\ tra[p].at = "active"
  BY TypesAre DEF Commits, SInv, TRA_commit, TRA_commit_retaining
<1>2. Undecided(p) /\ mark \in SUBSET Records
  BY <1>1 DEF Undecided, Reads, PagesTyped
<1>3. OwnPages(p) /\ chain' = chain
  BY <1>1, <1>2, FlushWrites
<1>4. \A q \in Records : IsOwn(chain'[q], p) \/ IsOwn(disk'[q], p) => Even(p, chain'[q], disk'[q])
  BY <1>1, <1>2, FlushedIsEven
<1>5. CASE TRA_commit(p)
  BY <1>1, <1>3, <1>4, <1>5, DecisionLasts DEF TRA_commit
<1>6. CASE TRA_commit_retaining(p)
  <2>1. /\ tip' = tip /\ overtook' = overtook
        /\ \A s \in Sessions : s # p => tra'[s] = tra[s]
    BY <1>1, <1>6 DEF TRA_commit_retaining
  <2>2. ReachInv' /\ Forward /\ Reads(p)' /\ \A n : State(p, n)' = State(p, n)
    BY <1>1, <1>6, CommitRetainingReaches, CommitRetainingKeeps
  <2>3. Decides(p)
    BY <2>1, NothingCommits
  <2> QED
    BY <1>1, <1>2, <1>3, <2>1, <2>2, <2>3, OnwardLasts
<1> QED
  BY <1>5, <1>6 DEF Commits

LEMMA RollbackLasts ==
  ASSUME SInv, NEW p \in Sessions, RollsBack(p)
  PROVE  Lasts
<1>1. /\ BInv /\ PagesTyped /\ TransactionsFit /\ ReachInv /\ tra \in [Sessions -> TraType]
      /\ tra[p].at = "active"
  BY TypesAre DEF RollsBack, SInv, TRA_rollback
<1>2. Undecided(p) /\ mark \in SUBSET Records
  BY <1>1 DEF Undecided, Reads, PagesTyped
<1>3. CASE SetState(p, "dead")
  <2>1. tra'[p].at = "ending"
    BY <1>1, <1>3 DEF SetState, NoTra
  <2>2. Forget(p) /\ UNCHANGED <<chain, disk, dirty>>
    BY <2>1 DEF RollsBack
  <2>3. OwnPages(p)
    BY <2>2, StillIsOwnPages DEF Forget
  <2> QED
    BY <1>1, <1>3, <2>2, <2>3, DecisionLasts
<1>4. CASE tra' = [tra EXCEPT ![p].at = "undo"] /\ UNCHANGED <<tip, hdr, dbb, lck, overtook>>
  <2>1. tra'[p].at = "undo" /\ \A s \in Sessions : s # p => tra'[s] = tra[s]
    BY <1>1, <1>4 DEF TraType
  <2>2. Flush(p, mark)
    BY <2>1 DEF RollsBack
  <2>3. OwnPages(p)
    BY <1>1, <1>2, <2>2, FlushWrites
  <2>4. Decides(p)
    BY <1>4, NothingCommits
  <2>5. ReachInv' /\ Forward /\ Reads(p)' /\ \A n : State(p, n)' = State(p, n)
    BY <1>1, <1>4, UndoReaches, UndoKeeps
  <2> QED
    BY <1>1, <1>2, <1>4, <2>1, <2>3, <2>4, <2>5, OnwardLasts
<1> QED
  BY <1>3, <1>4 DEF RollsBack, TRA_rollback

LEMMA UndoneLasts ==
  ASSUME SInv, NEW p \in Sessions, UndoEnds(p) \/ UndoGivesUp(p)
  PROVE  Lasts
<1>1. tra[p].at = "undo" /\ PagesTyped /\ BInv
  BY TypesAre DEF UndoEnds, UndoGivesUp, Undone, UndoFails, SInv
<1>2. Undecided(p) /\ mark \in SUBSET Records
  BY <1>1 DEF Undecided, Reads, PagesTyped
<1>3. CASE UndoEnds(p)
  <2>1. Flush(p, mark) /\ SetState(p, "committed")
    BY <1>3 DEF UndoEnds, Undone
  <2>2. OwnPages(p) /\ chain' = chain
    BY <1>1, <1>2, <2>1, FlushWrites
  <2>3. \A q \in Records : IsOwn(chain'[q], p) \/ IsOwn(disk'[q], p) => Even(p, chain'[q], disk'[q])
    BY <1>1, <1>2, <2>1, FlushedIsEven
  <2> QED
    BY <1>1, <2>1, <2>2, <2>3, DecisionLasts
<1>4. CASE UndoGivesUp(p)
  <2>1. Forget(p) /\ UNCHANGED <<chain, disk, dirty>> /\ SetState(p, "dead")
    BY <1>4 DEF UndoGivesUp, UndoFails
  <2>2. OwnPages(p)
    BY <2>1, StillIsOwnPages DEF Forget
  <2> QED
    BY <1>1, <2>1, <2>2, DecisionLasts
<1> QED
  BY <1>3, <1>4

LEMMA SweptLasts ==
  ASSUME SInv, NEW p \in Sessions, TRA_sweep(p)
  PROVE  Lasts
<1>1. /\ SweepEnds(p) /\ Flush(p, Records)
      /\ tra[p].at = "sweep" /\ tra' = [tra EXCEPT ![p].at = "active"]
      /\ tip' = tip /\ overtook' = overtook
  BY DEF TRA_sweep, SweepEnds
<1>2. TransactionsFit /\ ReachInv /\ PagesTyped /\ tra \in [Sessions -> TraType]
  BY TypesAre DEF SInv
<1>3. Undecided(p) /\ \A s \in Sessions : s # p => tra'[s] = tra[s]
  BY <1>1, <1>2 DEF Undecided, Reads
<1>4. OwnPages(p) /\ Decides(p)
  BY <1>1, <1>2, FlushWrites, NothingCommits
<1>5. ReachInv' /\ Forward /\ Reads(p)' /\ \A n : State(p, n)' = State(p, n)
  BY <1>1, <1>2, SweepReaches, SweepKeeps
<1> QED
  BY <1>1, <1>3, <1>4, <1>5, OnwardLasts

LEMMA DeathLasts ==
  ASSUME SInv, NEW p \in Sessions, ProcessDies(p)
  PROVE  Lasts
<1>1. /\ chain' = [r \in Records |-> IF dirty[r] = p THEN disk[r] ELSE chain[r]]
      /\ dirty' = [r \in Records |-> IF dirty[r] = p THEN Nobody ELSE dirty[r]]
      /\ mark' = {r \in mark : dirty[r] # p} /\ disk' = disk
      /\ tra' = [tra EXCEPT ![p] = [NoTra EXCEPT !.at = "detached"]] /\ tip' = tip
      /\ overtook' = overtook \ {p} /\ Dies(p)
  BY DEF ProcessDies, Dies, Forget
<1>2. TransactionsFit /\ ReachInv /\ tra \in [Sessions -> TraType]
  BY TypesAre DEF SInv
<1>3. tra'[p].at = "detached" /\ \A s \in Sessions : s # p => tra'[s] = tra[s]
  BY <1>1, <1>2 DEF NoTra
<1>4. OwnPages(p) /\ Decides(p)
  BY <1>1, NothingCommits DEF OwnPages
<1>5. ReachInv' /\ Forward
  BY <1>1, <1>2, DeathReaches, DeathKeeps
<1> QED
  BY <1>1, <1>3, <1>4, <1>5, EndLasts DEF Undecided, Reads

LEMMA WaitEndLasts ==
  ASSUME SInv, NEW p \in Sessions, WaitEnds(p)
  PROVE  Lasts
<1>1. PICK n : n = rpb[p].on
  OBVIOUS
<1>2. /\ TransactionsFit /\ ReachInv /\ tra \in [Sessions -> TraType] /\ tip \in [Numbers -> States]
      /\ rpb \in [Sessions -> RpbType] /\ UpdateFits(p) /\ rpb[p].at = "wait"
      /\ TRA_wait(p, n) /\ UNCHANGED <<chain, disk, dirty, mark>>
      /\ IInv
  BY <1>1, TypesAre, SessionIs DEF SInv, WaitEnds
<1>3. tra[p].at = "active" /\ n \in Numbers /\ n <= hdr.next
  <2>1. /\ tra[p].at = "active" /\ n <= hdr.next /\ 1 <= n /\ n \in 0..MaxTransaction
    BY <1>1, <1>2, RpbIs DEF UpdateFits
  <2> QED
    BY <2>1, NumbersAre
<1>4. /\ \A m \in Numbers : tip'[m] = "committed" => tip[m] = "committed"
      /\ \A s \in Sessions : s # p => tra'[s] = tra[s]
      /\ overtook' = overtook
  BY <1>2, <1>3 DEF TRA_wait, WaitedState
<1>5. OwnPages(p) /\ Decides(p)
  BY <1>2, <1>4, StillIsOwnPages, NothingCommits
<1>6. /\ ReachInv' /\ Reads(p)' /\ Forward
      /\ \A m \in Numbers : State(p, m)' = "committed" <=> State(p, m) = "committed"
  BY <1>2, <1>3, WaitReaches, WaitKeeps
<1> QED
  BY <1>3, <1>4, <1>5, <1>6, OnwardLasts DEF Undecided, Reads

LEMMA DenialLasts ==
  ASSUME SInv, NEW p \in Sessions, WaitDenied(p)
  PROVE  Lasts
<1>1. UNCHANGED transactionVars /\ chain' = chain /\ disk' = disk /\ ReachInv
  BY DEF WaitDenied, SInv
<1>2. ShownStays
  BY <1>1 DEF ShownStays, SInv, PagesAgree, Agrees
<1> QED
  BY <1>1, <1>2, StutterReaches, SameIsSight, SightStays

-----------------------------------------------------------------------------
(* The invariant holds. *)

LEMMA InitReaches == Init => SInv
<1> SUFFICES ASSUME Init PROVE SInv
  OBVIOUS
<1>1. /\ \A p \in Sessions : /\ tra[p] = NoTra /\ dbb[p].oldest_snapshot = 0
      /\ hdr.oldest_snapshot = 0 /\ hdr.next = 0 /\ overtook = {}
  BY DEF Init, Init_tra
<1>2. \A p \in Sessions : tra[p].at = "idle" /\ tra[p].hdr_snapshot = 0
  BY <1>1, NoTraIs
<1>3. \A p \in Sessions : ~HasSnapshot(p) /\ ~Reads(p) /\ ~Undecided(p) /\ ~Stands(p)
  BY <1>2 DEF HasSnapshot, Reads, Undecided, Stands
<1>4. Reached(0)
  BY <1>1, <1>3, NumbersAre DEF Reached, Over
<1>5. ReachInv
  BY <1>1, <1>2, <1>3, <1>4 DEF ReachInv, CountersReached, LockReached, InOrder
<1>6. \A p \in Sessions : Plain(p) /\ PagesAgree(p)
  BY <1>2, <1>3 DEF Plain, PagesAgree
<1> QED
  BY <1>5, <1>6, InitHolds DEF SInv

LEMMA StutterLasts ==
  ASSUME SInv, UNCHANGED vars PROVE SInv'
<1>1. BInv' /\ UNCHANGED transactionVars /\ chain' = chain /\ disk' = disk /\ ReachInv
  BY StutterHolds DEF SInv, vars
<1>2. ShownStays
  BY <1>1 DEF ShownStays, SInv, PagesAgree, Agrees
<1>3. Lasts
  BY <1>1, <1>2, StutterReaches, SameIsSight, SightStays
<1> QED
  BY <1>1, <1>3 DEF SInv, Lasts

LEMMA NextLasts ==
  ASSUME SInv, Next PROVE SInv' /\ StillSeen
<1>1. ASSUME NEW p \in Sessions,
             \/ Starts(p) \/ Commits(p) \/ RollsBack(p) \/ UndoEnds(p) \/ UndoGivesUp(p)
             \/ TRA_sweep(p) \/ ProcessDies(p) \/ WaitEnds(p) \/ WaitDenied(p)
      PROVE  Lasts
  BY <1>1, StartsLast, CommitLasts, RollbackLasts, UndoneLasts, SweptLasts, DeathLasts,
     WaitEndLasts, DenialLasts
<1>2. ASSUME NEW p \in Sessions, NEW r \in Records, \E op \in Operations : VIO_get(p, r, op)
      PROVE  Lasts
  BY <1>2, GetLasts
<1>3. ASSUME NEW p \in Sessions, NEW r \in Records,
             \/ VIO_sweep(p, r) \/ VIO_store(p, r) \/ VIO_verb_cleanup(p, r)
             \/ ChaseBacksOut(p, r) \/ purge(p, r) \/ ChaseExpunges(p, r) \/ expunge(p, r)
      PROVE  Lasts
  BY <1>3, SweepLooks, StoreLasts, UnmakeLasts, BackOutLasts, PurgeLasts, ExpungeStartLasts,
     ExpungeLasts
<1>4. ASSUME NEW p \in Sessions, NEW r \in Records,
             \/ Replaces(p, r) \/ CorrectsPointers(p, r) \/ NothingToUpdate(p, r)
             \/ UpdateBlocked(p, r) \/ VIO_backout(p, r)
      PROVE  Lasts
  BY <1>4, ReplaceLasts, UpdateLooks, BackoutLasts
<1>5. ASSUME NEW r \in Records, CacheWrites(r) PROVE Lasts
  BY <1>5, CacheLasts
<1>6. Lasts
  BY <1>1, <1>2, <1>3, <1>4, <1>5 DEF Next
<1>7. BInv'
  BY NextHolds DEF SInv
<1> QED
  BY <1>6, <1>7 DEF SInv, Lasts

\* What a statement finds, if it is not its own work, is what its snapshot shows.
ViewShown(p, r) ==
  Reads(p) /\ Newest(p, r).tra \notin Own(p) =>
    Shown(Visible(p), chain[r]) = IF View(p, r) = NoVersion THEN {} ELSE {View(p, r)}

ViewsAreShown == \A p \in Sessions, r \in Records : ViewShown(p, r)

LEMMA ViewIsShown == BInv => ViewsAreShown
<1> SUFFICES ASSUME BInv, NEW p \in Sessions, NEW r \in Records,
                    Reads(p), Newest(p, r).tra \notin Own(p)
             PROVE  Shown(Visible(p), chain[r]) = IF View(p, r) = NoVersion THEN {} ELSE {View(p, r)}
  BY DEF ViewsAreShown, ViewShown
<1>1. PICK c, N : c = chain[r] /\ N = Visible(p)
  OBVIOUS
<1>2. /\ c \in Seq(VersionType)
      /\ \A i \in DOMAIN c : c[i].tra \in 0..MaxTransaction /\ Known(c[i].tra)
  BY <1>1, PageIs
<1>3. N = {n \in 0..MaxTransaction : State(p, n) = "committed"}
  BY <1>1 DEF Visible, Reads
<1>4. Seen(p, r) = {i \in DOMAIN c : State(p, c[i].tra) \in {"us", "committed"}}
  BY <1>1 DEF Seen
<1>5. NoVersion.del
  BY DEF NoVersion, Version
<1>6. CASE Seen(p, r) = {}
  <2>1. View(p, r) = NoVersion
    BY <1>6 DEF View, Newest
  <2>2. \A i \in DOMAIN c : c[i].tra \notin N
    BY <1>3, <1>4, <1>6
  <2> QED
    BY <1>1, <2>1, <2>2, ShownNone
<1>7. CASE Seen(p, r) # {}
  <2>1. PICK i : i = Min(Seen(p, r))
    OBVIOUS
  <2>2. i \in Seen(p, r) /\ \A j \in Seen(p, r) : i <= j
    <3>1. Len(c) \in Nat /\ DOMAIN c = 1..Len(c)
      BY <1>2
    <3>2. Seen(p, r) \in SUBSET (0..Len(c))
      BY <1>4, <3>1
    <3> QED
      BY <1>7, <2>1, <3>1, <3>2, LeastOf
  <2>3. i \in DOMAIN c /\ Newest(p, r) = c[i]
    BY <1>1, <1>4, <1>7, <2>1, <2>2 DEF Newest
  <2>4. State(p, c[i].tra) = "committed"
    <3>1. c[i].tra # tra[p].number
      BY <2>3 DEF Own
    <3>2. State(p, c[i].tra) # "us"
      BY <1>2, <2>3, <3>1, StateIs, TypesAre
    <3> QED
      BY <1>4, <2>2, <3>2
  <2>5. c[i].tra \in N /\ \A j \in DOMAIN c : j < i => c[j].tra \notin N
    <3>1. \A j \in DOMAIN c : c[j].tra \in N => i <= j
      BY <1>3, <1>4, <2>2
    <3>2. \A j \in DOMAIN c : j \in Nat
      BY <1>2
    <3> QED
      BY <1>2, <1>3, <2>3, <2>4, <3>1, <3>2
  <2>6. Shown(N, c) = IF c[i].del THEN {} ELSE {c[i]}
    BY <1>2, <2>3, <2>5, ShownIs
  <2>7. View(p, r) = IF c[i].del THEN NoVersion ELSE c[i]
    BY <2>3 DEF View
  <2> QED
    BY <1>1, <1>5, <2>6, <2>7
<1> QED
  BY <1>6, <1>7

(* The inductive invariant holds in every state: whoever was not overtaken has all that
   committed below the numbers from which versions are taken off as mature, and sees in the file
   what it sees in the caches. *)
THEOREM SnapshotInvariance == Spec => []SInv
<1>1. SInv /\ [Next]_vars => SInv'
  BY NextLasts, StutterLasts
<1> QED
  BY InitReaches, <1>1, PTL DEF Spec

(* A transaction finds the same version of a record from its start to its end, its own work apart,
   unless it is overtaken (TRA_start and VIO_chase_record_version): the data of the locks, the
   header page and the processes keep every purge, expunge and sweep from taking off a version it
   may need, whoever updates, backs out, retains its context or dies with changed pages. *)
THEOREM SnapshotsAreStable == Spec => SnapshotStable
<1>1. SInv /\ ViewsAreShown /\ ViewsAreShown' /\ [Next]_vars
      => [\A p \in Sessions, r \in Records :
            /\ Reads(p) /\ Reads(p)' /\ tra'[p].top = tra[p].top
            /\ p \notin overtook'
            /\ Newest(p, r).tra \notin Own(p) /\ Newest(p, r)'.tra \notin Own(p)'
            => View(p, r)' = View(p, r)]_vars
  <2> SUFFICES ASSUME SInv, ViewsAreShown, ViewsAreShown', Next,
                      NEW p \in Sessions, NEW r \in Records,
                      Reads(p), Reads(p)', p \notin overtook',
                      Newest(p, r).tra \notin Own(p), Newest(p, r)'.tra \notin Own(p)'
               PROVE  View(p, r)' = View(p, r)
    OBVIOUS
  <2>1. \/ Shown(Visible(p), chain[r])' = Shown(Visible(p), chain[r])
        \/ Newest(p, r)' = Newest(p, r)
    BY NextLasts DEF StillSeen
  <2>2. CASE Newest(p, r)' = Newest(p, r)
    BY <2>2 DEF View
  <2>3. CASE Shown(Visible(p), chain[r])' = Shown(Visible(p), chain[r])
    <3>1. Shown(Visible(p), chain[r]) = IF View(p, r) = NoVersion THEN {} ELSE {View(p, r)}
      BY DEF ViewsAreShown, ViewShown
    <3>2. Shown(Visible(p), chain[r])' = IF View(p, r)' = NoVersion THEN {} ELSE {View(p, r)'}
      <4>1. ViewShown(p, r)'
        BY DEF ViewsAreShown
      <4>2. NoVersion' = NoVersion
        BY DEF NoVersion, Version
      <4> QED
        BY <4>1, <4>2 DEF ViewShown
    <3> QED
      BY <2>3, <3>1, <3>2
  <2> QED
    BY <2>1, <2>2, <2>3
<1>2. SInv => ViewsAreShown
  BY ViewIsShown DEF SInv
<1> QED
  BY <1>1, <1>2, SnapshotInvariance, PTL DEF Spec, SnapshotStable

-----------------------------------------------------------------------------
(* The order of the snapshots. *)

(* A transaction's snapshot ends where its first number was taken, and it is given higher numbers
   only. *)
TopFits(p) ==
  /\ Undecided(p) => tra[p].top <= tra[p].number
  /\ tra[p].at = "retain" => tra[p].number < tra[p].new

(* What q has of the others' commits p has, if it started later and was not overtaken. *)
LaterSees(p, q) ==
  Stands(p) /\ HasSnapshot(q) /\ tra[q].top < tra[p].top => Sees(q) \ Own(q) \subseteq Sees(p)

OrderInv == \A p, q \in Sessions : TopFits(p) /\ LaterSees(p, q)

\* A step of p leaves the others' transactions alone; they may be overtaken by it.
TurnOf(p) ==
  \A s \in Sessions : s # p => tra'[s] = tra[s] /\ (s \in overtook => s \in overtook')

\* The snapshot of s has the numbers it had, and beside them only new ones of its own.
SameNumbers(s) ==
  /\ tra'[s].top = tra[s].top /\ Own(s) \subseteq Own(s)'
  /\ \A n \in Numbers :
       /\ State(s, n) \in {"us", "committed"} => State(s, n)' \in {"us", "committed"}
       /\ State(s, n)' \in {"us", "committed"} =>
            State(s, n) \in {"us", "committed"} \/ n \in Own(s)'

LEMMA SameNumbersSee ==
  ASSUME TransactionsFit, Forward, NEW s \in Sessions, SameNumbers(s)
  PROVE  Sees(s) \subseteq Sees(s)' /\ (Sees(s) \ Own(s))' \subseteq Sees(s) \ Own(s)
<1>1. ASSUME NEW n \in Numbers, Committed(n) PROVE Committed(n)'
  BY <1>1 DEF Committed, Forward
<1>2. Sees(s) \subseteq Sees(s)'
  BY <1>1 DEF Sees, SameNumbers
<1>3. ASSUME NEW n \in Numbers, n \in Sees(s)', n \notin Own(s)'
      PROVE  n \in Sees(s) \ Own(s)
  <2>1. n \notin Own(s) /\ State(s, n) \in {"us", "committed"} /\ n # 0
    BY <1>3, NumbersAre DEF Sees, SameNumbers
  <2>2. State(s, n) = "committed"
    <3>1. n # tra[s].number
      BY <2>1 DEF Own
    <3>2. tra[s].snapshot[n] \in States
      BY FieldsAre DEF TransactionsFit, Typed
    <3> QED
      BY <2>1, <3>1, <3>2 DEF State, TRA_snapshot_state, States
  <2>3. tip[n] # "active"
    BY <2>2, SnapshotIsOver
  <2>4. tip'[n] = "committed"
    BY <1>3, <2>1 DEF Sees, Committed
  <2>5. Committed(n)
    BY <2>3, <2>4 DEF Forward, Committed
  <2> QED
    BY <2>1, <2>5 DEF Sees
<1> QED
  BY <1>2, <1>3 DEF Sees

LEMMA OthersSame ==
  ASSUME NEW p \in Sessions, TurnOf(p), NEW s \in Sessions, s # p
  PROVE  /\ SameNumbers(s) /\ (TopFits(s) => TopFits(s)')
         /\ Stands(s)' => Stands(s)
         /\ HasSnapshot(s)' <=> HasSnapshot(s)
BY DEF TurnOf, SameNumbers, Own, State, TRA_snapshot_state, TopFits, Undecided, Reads, HasSnapshot,
       Stands

\* Two transactions that keep what they have stay in order.
LEMMA PairStays ==
  ASSUME TransactionsFit, Forward, NEW s \in Sessions, NEW q \in Sessions,
         SameNumbers(s), SameNumbers(q), LaterSees(s, q),
         Stands(s)' => Stands(s), HasSnapshot(q)' => HasSnapshot(q)
  PROVE  LaterSees(s, q)'
<1>1. Sees(s) \subseteq Sees(s)' /\ (Sees(q) \ Own(q))' \subseteq Sees(q) \ Own(q)
  BY SameNumbersSee
<1>2. tra'[s].top = tra[s].top /\ tra'[q].top = tra[q].top
  BY DEF SameNumbers
<1> QED
  BY <1>1, <1>2 DEF LaterSees

LEMMA OrderHolds ==
  ASSUME TransactionsFit, TransactionsFit', Forward, OrderInv, NEW p \in Sessions, TurnOf(p),
         TopFits(p)', \A s \in Sessions : s # p => LaterSees(p, s)' /\ LaterSees(s, p)'
  PROVE  OrderInv'
<1>1. \A s \in Sessions : TopFits(s)'
  BY OthersSame DEF OrderInv
<1>2. ASSUME NEW s \in Sessions, NEW q \in Sessions PROVE LaterSees(s, q)'
  <2>1. CASE s # p /\ q # p
    BY <2>1, OthersSame, PairStays DEF OrderInv
  <2>2. CASE s = p /\ q = p
    <3>1. tra'[p].top \in Nat
      BY FieldsAre DEF TransactionsFit, Typed
    <3> QED
      BY <2>2, <3>1 DEF LaterSees
  <2> QED
    BY <2>1, <2>2
<1> QED
  BY <1>1, <1>2 DEF OrderInv

\* A step that leaves p without a snapshot.
LEMMA BareIsOrdered ==
  ASSUME TransactionsFit, TransactionsFit', Forward, OrderInv, NEW p \in Sessions, TurnOf(p),
         TopFits(p)', ~HasSnapshot(p)'
  PROVE  OrderInv'
<1>1. \A s \in Sessions : LaterSees(p, s)' /\ LaterSees(s, p)'
  BY DEF LaterSees, Stands
<1> QED
  BY <1>1, OrderHolds

\* One that leaves p the snapshot it has.
LEMMA SameIsOrdered ==
  ASSUME TransactionsFit, TransactionsFit', Forward, OrderInv, NEW p \in Sessions, TurnOf(p),
         TopFits(p)', SameNumbers(p), HasSnapshot(p), Stands(p)' => Stands(p)
  PROVE  OrderInv'
<1>1. \A s \in Sessions : s # p => LaterSees(p, s)' /\ LaterSees(s, p)'
  BY OthersSame, PairStays DEF OrderInv
<1> QED
  BY <1>1, OrderHolds

\* The same states of all numbers.
LEMMA StatesAreSame ==
  ASSUME NEW p \in Sessions, tra'[p].top = tra[p].top, Own(p) \subseteq Own(p)',
         \A n \in Numbers : /\ State(p, n)' = "us" <=> State(p, n) = "us"
                            /\ State(p, n)' = "committed" <=> State(p, n) = "committed"
  PROVE  SameNumbers(p)
BY DEF SameNumbers

\* What a step that keeps the numbers of p keeps.
LEMMA TopFitsStays ==
  ASSUME NEW p \in Sessions, TopFits(p), Undecided(p), tra'[p].top = tra[p].top,
         tra'[p].number = tra[p].number, tra'[p].at # "retain"
  PROVE  TopFits(p)'
BY DEF TopFits

LEMMA StartOrders ==
  ASSUME TransactionsFit, OrderInv, NEW p \in Sessions, TRA_start(p)
  PROVE  OrderInv'
<1> DEFINE n == hdr'.next
           active == Larger(hdr'.oldest_active, hdr'.oldest_transaction)
<1>1. /\ TransactionsFit' /\ Forward /\ tra \in [Sessions -> TraType] /\ overtook' = overtook
      /\ tra' = [tra EXCEPT ![p] = Begun(n, hdr'.oldest_transaction, active, hdr'.oldest_snapshot,
                                         n % TRA_ACTIVE_CLEANUP = 0)]
  BY StartKeeps DEF TRA_start, Begun, TransactionsFit, Typed
<1>2. /\ tra'[p].at = "inventory" /\ tra'[p].number = n /\ tra'[p].top = n
      /\ \A s \in Sessions : s # p => tra'[s] = tra[s]
  BY <1>1 DEF Begun, NoTra
<1>3. n \in Nat
  BY <1>1, NumbersAre DEF TransactionsFit, Typed
<1> HIDE DEF n, active
<1>4. TopFits(p)' /\ ~HasSnapshot(p)' /\ TurnOf(p)
  BY <1>1, <1>2, <1>3 DEF TopFits, HasSnapshot, Reads, TurnOf
<1> QED
  BY <1>1, <1>4, BareIsOrdered

\* The end of a transaction or of its process.
LEMMA EndOrders ==
  ASSUME TransactionsFit, TransactionsFit', Forward, OrderInv, NEW p \in Sessions, TurnOf(p),
         tra'[p].at \in {"idle", "detached", "ending"}
  PROVE  OrderInv'
<1>1. TopFits(p)' /\ ~HasSnapshot(p)'
  BY DEF TopFits, HasSnapshot, Reads, Undecided
<1> QED
  BY <1>1, BareIsOrdered

LEMMA DecisionOrders ==
  ASSUME TransactionsFit, OrderInv, NEW p \in Sessions, tra[p].at \in {"active", "undo"},
         NEW state \in {"committed", "dead"}, SetState(p, state)
  PROVE  OrderInv'
<1>1. TransactionsFit' /\ Forward /\ tra \in [Sessions -> TraType] /\ overtook' = overtook \ {p}
  BY DecideKeeps DEF SetState, TransactionsFit, Typed
<1>2. tra'[p].at = "ending" /\ TurnOf(p)
  BY <1>1 DEF SetState, NoTra, TurnOf
<1> QED
  BY <1>1, <1>2, EndOrders

LEMMA ReleaseOrders ==
  ASSUME TransactionsFit, OrderInv, NEW p \in Sessions, TRA_release_transaction(p)
  PROVE  OrderInv'
<1>1. TransactionsFit' /\ Forward /\ tra \in [Sessions -> TraType] /\ overtook' = overtook
  BY ReleaseKeeps DEF TRA_release_transaction, TransactionsFit, Typed
<1>2. tra'[p].at = "idle" /\ TurnOf(p)
  BY <1>1, NoTraIs DEF TRA_release_transaction, TurnOf
<1> QED
  BY <1>1, <1>2, EndOrders

LEMMA AttachOrders ==
  ASSUME TransactionsFit, OrderInv, NEW p \in Sessions, Attach(p)
  PROVE  OrderInv'
<1>1. TransactionsFit' /\ Forward /\ tra \in [Sessions -> TraType] /\ overtook' = overtook
  BY AttachKeeps DEF Attach, TransactionsFit, Typed
<1>2. tra'[p].at = "idle" /\ TurnOf(p)
  BY <1>1, NoTraIs DEF Attach, TurnOf
<1> QED
  BY <1>1, <1>2, EndOrders

LEMMA DeathOrders ==
  ASSUME TransactionsFit, OrderInv, NEW p \in Sessions, Dies(p)
  PROVE  OrderInv'
<1>1. TransactionsFit' /\ Forward /\ tra \in [Sessions -> TraType] /\ overtook' = overtook \ {p}
  BY DeathKeeps DEF Dies, TransactionsFit, Typed
<1>2. tra'[p].at = "detached" /\ TurnOf(p)
  BY <1>1 DEF Dies, NoTra, TurnOf
<1> QED
  BY <1>1, <1>2, EndOrders

\* A new snapshot has all that committed below the number of its transaction: what those have
\* that started before, and who started later and has a snapshot is overtaken.
LEMMA InventoryOrders ==
  ASSUME TransactionsFit, ReachInv, OrderInv, NEW p \in Sessions, TRA_get_inventory(p)
  PROVE  OrderInv'
<1>1. /\ TransactionsFit' /\ Forward /\ Fresh(p) /\ tra[p] \in TraType
      /\ tra \in [Sessions -> TraType] /\ tra[p].at = "inventory" /\ CountersFit(p) /\ TopFits(p)
      /\ overtook' = (overtook \ {p}) \cup Earlier(p) /\ UNCHANGED <<tip, hdr, dbb, lck>>
  BY InventoryKeeps, InventoryReaches, SessionIs, CountersAre DEF TRA_get_inventory, OrderInv
<1>2. /\ tra'[p].at = "oldest" /\ tra'[p].number = tra[p].number /\ tra'[p].top = tra[p].top
      /\ \A s \in Sessions : s # p => tra'[s] = tra[s]
  BY <1>1 DEF TRA_get_inventory, TraType
<1>3. TurnOf(p) /\ Undecided(p)
  BY <1>1, <1>2 DEF TurnOf, Undecided
<1>4. /\ tra[p].top = tra[p].number /\ tra[p].number \in Numbers /\ tra[p].number \in Nat
      /\ tip[tra[p].number] = "active" /\ Numbers \subseteq Nat
  BY <1>1, <1>3, AliveIs, FieldsAre, NumbersAre DEF CountersFit
<1>5. TopFits(p)'
  BY <1>1, <1>2, <1>3, TopFitsStays
<1>6. ASSUME NEW s \in Sessions, s # p PROVE LaterSees(p, s)'
  <2> SUFFICES ASSUME HasSnapshot(s), tra[s].top < tra[p].top,
                      NEW n \in Numbers, n \in Sees(s)', n \notin Own(s)'
               PROVE  n \in Sees(p)'
    BY <1>2, <1>6, OthersSame, <1>3 DEF LaterSees, Sees
  <2>1. tra[s] \in TraType /\ CountersFit(s) /\ HeaderFits /\ hdr.oldest_transaction \in Nat
    BY CountersAre DEF TransactionsFit
  <2>2. /\ tra[s].top \in Nat /\ tra[s].oldest \in Nat /\ n \in Nat
        /\ tra[s].snapshot[n] \in States
    BY <1>4, <2>1, FieldsAre
  <2>3. State(s, n) \in {"us", "committed"} /\ n \notin Own(s) /\ tip'[n] = "committed"
    BY <1>2, <1>4, <1>6, NumbersAre DEF Sees, Committed, State, TRA_snapshot_state, Own
  <2>4. n < tra[s].oldest \/ ~(n > tra[s].top)
    BY <2>3, NumbersAre DEF State, TRA_snapshot_state, Own
  <2>5. n < tra[p].number
    <3>1. CASE n < tra[s].oldest
      <4>1. tra[s].oldest <= hdr.oldest_transaction /\ Over(hdr.oldest_transaction)
        BY <2>1 DEF CountersFit, HeaderFits
      <4>2. ~(tra[p].number < hdr.oldest_transaction)
        BY <1>4, <4>1 DEF Over
      <4> QED
        BY <1>4, <2>1, <2>2, <3>1, <4>1, <4>2
    <3>2. CASE ~(n > tra[s].top)
      BY <1>4, <2>2, <3>2
    <3> QED
      BY <2>4, <3>1, <3>2
  <2>6. State(p, n)' = "committed"
    BY <1>1, <1>2, <2>3, <2>5 DEF Fresh
  <2> QED
    BY <2>3, <2>6 DEF Sees, Committed
<1>7. ASSUME NEW s \in Sessions, s # p PROVE LaterSees(s, p)'
  <2> SUFFICES ASSUME Stands(s)', tra[p].top < tra[s].top PROVE FALSE
    BY <1>2, <1>7 DEF LaterSees
  <2>1. HasSnapshot(s) /\ s \notin Earlier(p)
    BY <1>1, <1>2, <1>7 DEF Stands, HasSnapshot, Reads
  <2>2. ~(tra[s].number > tra[p].number)
    BY <2>1 DEF Earlier, HasSnapshot
  <2>3. tra[s].top <= tra[s].number
    BY <2>1 DEF OrderInv, TopFits, HasSnapshot, Undecided
  <2>4. tra[s].top \in Nat /\ tra[s].number \in Nat
    BY <1>1, FieldsAre
  <2> QED
    BY <1>4, <2>2, <2>3, <2>4
<1> QED
  BY <1>1, <1>3, <1>5, <1>6, <1>7, OrderHolds

\* A correction to dead tells nothing, and by one to committed who started later is overtaken.
LEMMA CleanupOrders ==
  ASSUME TransactionsFit, OrderInv, NEW p \in Sessions, CleansUp(p)
  PROVE  OrderInv'
<1>1. PICK n \in ActiveBelow(p), state \in {"dead", "committed"} :
           /\ n \in Numbers /\ n < tra[p].number /\ tra[p].snapshot[n] = "active"
           /\ tip[n] # "active" => state = tip[n]
           /\ tip[n] = "active" => state = "dead"
           /\ tip' = [tip EXCEPT ![n] = state]
           /\ tra'[p].at = "oldest" /\ tra[p].at = "oldest" /\ tra[p].cleanup
           /\ tra'[p].cleanup = (state # "committed")
           /\ tra'[p].number = tra[p].number /\ tra'[p].sub = tra[p].sub
           /\ tra'[p].oldest = tra[p].oldest /\ tra'[p].top = tra[p].top
           /\ tra'[p].active = tra[p].active /\ tra'[p].hdr_snapshot = tra[p].hdr_snapshot
           /\ tra'[p].snapshot = [tra[p].snapshot EXCEPT ![n] = state]
           /\ \A s \in Sessions : s # p => tra'[s] = tra[s]
           /\ overtook' = IF state = "committed" THEN overtook \cup Earlier(p) ELSE overtook
  BY CleanupIs
<1>2. /\ TransactionsFit' /\ Forward /\ tra[p] \in TraType /\ TopFits(p) /\ CountersFit(p)
      /\ tra[p].snapshot \in [Numbers -> States] /\ tra[p].top \in Nat
      /\ tra \in [Sessions -> TraType]
  BY CleanupKeeps, CountersAre, FieldsAre DEF OrderInv, TransactionsFit, Typed
<1>3. TurnOf(p) /\ Undecided(p) /\ HasSnapshot(p)
  BY <1>1 DEF TurnOf, Undecided, HasSnapshot
<1>4. TopFits(p)'
  BY <1>1, <1>2, <1>3, TopFitsStays
<1>5. Stands(p)' => Stands(p)
  BY <1>1, <1>3 DEF Stands
<1>6. CASE state = "dead"
  <2>1. ASSUME NEW m \in Numbers
        PROVE  /\ State(p, m)' = "us" <=> State(p, m) = "us"
               /\ State(p, m)' = "committed" <=> State(p, m) = "committed"
    <3>1. CASE m # n
      <4>1. tra'[p].snapshot[m] = tra[p].snapshot[m]
        BY <1>1, <1>2, <3>1
      <4> QED
        BY <1>1, <4>1 DEF State, TRA_snapshot_state
    <3>2. CASE m = n
      <4>1. tra'[p].snapshot[m] = "dead" /\ tra[p].snapshot[m] = "active"
        BY <1>1, <1>2, <1>6, <3>2
      <4> QED
        BY <1>1, <4>1 DEF State, TRA_snapshot_state
    <3> QED
      BY <3>1, <3>2
  <2>2. SameNumbers(p)
    BY <1>1, <2>1, StatesAreSame DEF Own
  <2> QED
    BY <1>2, <1>3, <1>4, <1>5, <2>2, SameIsOrdered
<1>7. CASE state = "committed"
  <2>1. tip' = tip
    BY <1>1, <1>7 DEF TransactionsFit, Typed
  <2>2. ASSUME NEW m \in Numbers, State(p, m) \in {"us", "committed"}
        PROVE  State(p, m)' \in {"us", "committed"}
    <3>1. tra'[p].snapshot[m] = tra[p].snapshot[m] \/ tra'[p].snapshot[m] = "committed"
      BY <1>1, <1>2, <1>7
    <3> QED
      BY <1>1, <2>2, <3>1 DEF State, TRA_snapshot_state
  <2>3. Sees(p) \subseteq Sees(p)'
    BY <2>1, <2>2 DEF Sees, Committed
  <2>4. ASSUME NEW s \in Sessions, s # p PROVE LaterSees(p, s)'
    <3>1. LaterSees(p, s)
      BY DEF OrderInv
    <3>2. SameNumbers(s) /\ (HasSnapshot(s)' <=> HasSnapshot(s)) /\ tra'[s].top = tra[s].top
      BY <1>1, <1>3, <2>4, OthersSame
    <3>3. (Sees(s) \ Own(s))' \subseteq Sees(s) \ Own(s)
      BY <1>2, <3>2, SameNumbersSee
    <3> QED
      BY <1>1, <1>5, <2>3, <3>1, <3>2, <3>3 DEF LaterSees
  <2>5. ASSUME NEW s \in Sessions, s # p PROVE LaterSees(s, p)'
    <3> SUFFICES ASSUME Stands(s)', tra[p].top < tra[s].top PROVE FALSE
      BY <1>1, <2>5 DEF LaterSees
    <3>1. HasSnapshot(s) /\ s \notin Earlier(p)
      BY <1>1, <1>7, <2>5 DEF Stands, HasSnapshot, Reads
    <3>2. ~(tra[s].number > tra[p].number)
      BY <3>1 DEF Earlier, HasSnapshot
    <3>3. tra[s].top <= tra[s].number
      BY <3>1 DEF OrderInv, TopFits, HasSnapshot, Undecided
    <3>4. tra[s].top \in Nat /\ tra[s].number \in Nat /\ tra[p].number \in Nat
      BY <1>2, FieldsAre
    <3>5. tra[p].top = tra[p].number
      BY <1>1, <1>2 DEF CountersFit
    <3> QED
      BY <1>2, <3>2, <3>3, <3>4, <3>5
  <2> QED
    BY <1>2, <1>3, <1>4, <2>4, <2>5, OrderHolds
<1> QED
  BY <1>6, <1>7

\* A step in which a transaction keeps its snapshot and its numbers.
LEMMA KeepOrders ==
  ASSUME TransactionsFit, TransactionsFit', Forward, OrderInv, NEW p \in Sessions,
         \A s \in Sessions : s # p => tra'[s] = tra[s], overtook' = overtook,
         HasSnapshot(p), tra'[p].at # "retain", tra'[p].top = tra[p].top,
         tra'[p].number = tra[p].number, tra'[p].sub = tra[p].sub,
         \A n \in Numbers : /\ State(p, n)' = "us" <=> State(p, n) = "us"
                            /\ State(p, n)' = "committed" <=> State(p, n) = "committed"
  PROVE  OrderInv'
<1>1. TurnOf(p) /\ Undecided(p) /\ SameNumbers(p) /\ (Stands(p)' => Stands(p)) /\ TopFits(p)
  BY StatesAreSame DEF TurnOf, HasSnapshot, Undecided, Own, Stands, OrderInv
<1>2. TopFits(p)'
  BY <1>1, TopFitsStays
<1> QED
  BY <1>1, <1>2, SameIsOrdered

LEMMA OldestOrders ==
  ASSUME TransactionsFit, ReachInv, OrderInv, NEW p \in Sessions, FindsOldest(p)
  PROVE  OrderInv'
<1>1. /\ TransactionsFit' /\ Forward /\ Reads(p)' /\ \A n : State(p, n)' = State(p, n)
      /\ tra \in [Sessions -> TraType]
  BY OldestKeeps, OldestReaches DEF TransactionsFit, Typed
<1> DEFINE x == OldestSnapshot(p)
           at == IF /\ SweepInterval > 0
                    /\ x - tra[p].oldest > SweepInterval
                    /\ \A q \in Sessions : tra[q].at # "sweep" THEN "sweep" ELSE "active"
           u == Found(tra[p], x, FALSE, at)
<1>2. tra' = [tra EXCEPT ![p] = u] /\ at # "retain"
  BY DEF FindsOldest, Found
<1> HIDE DEF x, at
<1>3. /\ \A s \in Sessions : s # p => tra'[s] = tra[s]
      /\ tra'[p].at # "retain" /\ tra'[p].top = tra[p].top /\ tra'[p].number = tra[p].number
      /\ tra'[p].sub = tra[p].sub
  <2>1. /\ u.at = at /\ u.top = tra[p].top /\ u.number = tra[p].number /\ u.sub = tra[p].sub
    BY <1>1 DEF Found, TraType
  <2> HIDE DEF u
  <2> QED
    BY <1>1, <1>2, <2>1
<1>4. overtook' = overtook /\ HasSnapshot(p)
  BY DEF FindsOldest, HasSnapshot
<1> QED
  BY <1>1, <1>3, <1>4, KeepOrders

LEMMA SweepOrders ==
  ASSUME TransactionsFit, ReachInv, OrderInv, NEW p \in Sessions, SweepEnds(p)
  PROVE  OrderInv'
<1>1. /\ TransactionsFit' /\ Forward /\ \A n : State(p, n)' = State(p, n)
      /\ tra \in [Sessions -> TraType]
  BY SweepKeeps, SweepReaches DEF TransactionsFit, Typed
<1>2. /\ \A s \in Sessions : s # p => tra'[s] = tra[s]
      /\ tra'[p].at = "active" /\ tra'[p].top = tra[p].top /\ tra'[p].number = tra[p].number
      /\ tra'[p].sub = tra[p].sub
  BY <1>1 DEF SweepEnds, TraType
<1>3. overtook' = overtook /\ HasSnapshot(p)
  BY DEF SweepEnds, HasSnapshot, Reads
<1> QED
  BY <1>1, <1>2, <1>3, KeepOrders

LEMMA UndoOrders ==
  ASSUME TransactionsFit, ReachInv, OrderInv, NEW p \in Sessions, tra[p].at = "active",
         tra' = [tra EXCEPT ![p].at = "undo"], UNCHANGED <<tip, hdr, dbb, lck, overtook>>
  PROVE  OrderInv'
<1>1. /\ TransactionsFit' /\ Forward /\ \A n : State(p, n)' = State(p, n)
      /\ tra \in [Sessions -> TraType]
  BY UndoKeeps, UndoReaches DEF TransactionsFit, Typed
<1>2. /\ \A s \in Sessions : s # p => tra'[s] = tra[s]
      /\ tra'[p].at = "undo" /\ tra'[p].top = tra[p].top /\ tra'[p].number = tra[p].number
      /\ tra'[p].sub = tra[p].sub
  BY <1>1 DEF TraType
<1>3. HasSnapshot(p)
  BY DEF HasSnapshot, Reads
<1> QED
  BY <1>1, <1>2, <1>3, KeepOrders

LEMMA WriteOrders ==
  ASSUME TransactionsFit, OrderInv, NEW p \in Sessions, tra[p].at = "active",
         tra' = [tra EXCEPT ![p].write = TRUE], UNCHANGED <<tip, hdr, dbb, lck, overtook>>
  PROVE  OrderInv'
<1>1. TransactionsFit' /\ Forward /\ tra \in [Sessions -> TraType]
  BY WriteKeeps DEF TransactionsFit, Typed
<1>2. /\ \A s \in Sessions : s # p => tra'[s] = tra[s]
      /\ tra'[p].at = "active" /\ tra'[p].top = tra[p].top /\ tra'[p].number = tra[p].number
      /\ tra'[p].sub = tra[p].sub /\ tra'[p].oldest = tra[p].oldest
      /\ tra'[p].snapshot = tra[p].snapshot
  BY <1>1 DEF TraType
<1>3. HasSnapshot(p) /\ \A n : State(p, n)' = State(p, n)
  BY <1>2, SnapshotIsSame DEF HasSnapshot, Reads
<1> QED
  BY <1>1, <1>2, <1>3, KeepOrders

LEMMA WaitOrders ==
  ASSUME TransactionsFit, ReachInv, OrderInv, NEW p \in Sessions, tra[p].at = "active",
         NEW n \in Numbers, n <= hdr.next, TRA_wait(p, n)
  PROVE  OrderInv'
<1>1. /\ TransactionsFit' /\ Forward /\ tra \in [Sessions -> TraType]
      /\ \A m \in Numbers : /\ State(p, m)' = "us" <=> State(p, m) = "us"
                            /\ State(p, m)' = "committed" <=> State(p, m) = "committed"
  BY WaitKeeps, WaitReaches DEF TransactionsFit, Typed
<1>2. tra' = tra \/ tra' = [tra EXCEPT ![p].snapshot[n] = WaitedState(n)]
  BY DEF TRA_wait
<1>3. /\ \A s \in Sessions : s # p => tra'[s] = tra[s]
      /\ tra'[p].at = "active" /\ tra'[p].top = tra[p].top /\ tra'[p].number = tra[p].number
      /\ tra'[p].sub = tra[p].sub
  BY <1>1, <1>2 DEF TraType
<1>4. overtook' = overtook /\ HasSnapshot(p)
  BY DEF TRA_wait, HasSnapshot, Reads
<1> QED
  BY <1>1, <1>3, <1>4, KeepOrders

LEMMA RetainedOrders ==
  ASSUME TransactionsFit, ReachInv, OrderInv, NEW p \in Sessions, retain_release(p)
  PROVE  OrderInv'
<1>1. /\ TransactionsFit' /\ Forward /\ \A n : State(p, n)' = State(p, n)
      /\ tra \in [Sessions -> TraType]
  BY RetainReleaseKeeps, RetainedReaches DEF TransactionsFit, Typed
<1>2. /\ \A s \in Sessions : s # p => tra'[s] = tra[s]
      /\ tra'[p].at = "active" /\ tra'[p].top = tra[p].top /\ tra'[p].number = tra[p].number
      /\ tra'[p].sub = tra[p].sub
  BY <1>1 DEF retain_release, TraType
<1>3. overtook' = overtook /\ HasSnapshot(p)
  BY DEF retain_release, HasSnapshot, Reads
<1> QED
  BY <1>1, <1>2, <1>3, KeepOrders

\* The next number of a transaction that retains its context is the highest there is.
LEMMA CommitRetainingOrders ==
  ASSUME TransactionsFit, ReachInv, OrderInv, NEW p \in Sessions, TRA_commit_retaining(p)
  PROVE  OrderInv'
<1>1. /\ TransactionsFit' /\ Forward /\ \A n : State(p, n)' = State(p, n)
      /\ tra \in [Sessions -> TraType] /\ tra[p].at = "active"
      /\ hdr' = bump_transaction_id(p) /\ hdr.next < MaxTransaction
  BY CommitRetainingKeeps, CommitRetainingReaches DEF TransactionsFit, Typed, TRA_commit_retaining
<1>2. hdr'.next = hdr.next + 1 /\ hdr.next \in Nat
  BY <1>1, Bumped, CountersAre
<1>3. /\ \A s \in Sessions : s # p => tra'[s] = tra[s]
      /\ tra'[p].at = "retain" /\ tra'[p].top = tra[p].top /\ tra'[p].number = tra[p].number
      /\ tra'[p].sub = Own(p) /\ tra'[p].new = hdr'.next
  BY <1>1 DEF TRA_commit_retaining, TraType
<1>4. overtook' = overtook /\ HasSnapshot(p) /\ Undecided(p)
  BY <1>1 DEF TRA_commit_retaining, HasSnapshot, Reads, Undecided
<1>5. tra[p].number <= hdr.next /\ tra[p].number \in Nat /\ TopFits(p)
  BY <1>1, <1>4, AliveIs, FieldsAre DEF OrderInv
<1>6. TopFits(p)'
  BY <1>2, <1>3, <1>4, <1>5 DEF TopFits
<1>7. SameNumbers(p)
  BY <1>1, <1>3, StatesAreSame DEF Own
<1>8. TurnOf(p) /\ (Stands(p)' => Stands(p))
  BY <1>3, <1>4 DEF TurnOf, Stands
<1> QED
  BY <1>1, <1>4, <1>6, <1>7, <1>8, SameIsOrdered

\* What it committed is its own work still.
LEMMA RetainOrders ==
  ASSUME TransactionsFit, ReachInv, OrderInv, NEW p \in Sessions, retain_context(p)
  PROVE  OrderInv'
<1>1. /\ TransactionsFit' /\ Forward /\ tra[p].at = "retain" /\ tra \in [Sessions -> TraType]
      /\ \A n : State(p, n)' = IF n = tra[p].number THEN "committed"
                               ELSE IF n = tra[p].new THEN "us" ELSE State(p, n)
      /\ TopFits(p) /\ LockReached(p)
  BY RetainContextKeeps, RetainReaches, SessionIs DEF TransactionsFit, Typed, OrderInv
<1>2. /\ \A s \in Sessions : s # p => tra'[s] = tra[s]
      /\ tra'[p].at = "retained" /\ tra'[p].top = tra[p].top /\ tra'[p].number = tra[p].new
      /\ tra'[p].sub = tra[p].sub
  BY <1>1 DEF retain_context, TraType
<1>3. overtook' = overtook /\ HasSnapshot(p) /\ Undecided(p)
  BY <1>1 DEF retain_context, HasSnapshot, Reads, Undecided
<1>4. tra[p].top \in Nat /\ tra[p].number \in Nat /\ tra[p].new \in Nat
  BY <1>1, FieldsAre
<1>5. TopFits(p)'
  BY <1>1, <1>2, <1>3, <1>4 DEF TopFits
<1>6. SameNumbers(p)
  <2>1. Own(p) \subseteq Own(p)' /\ tra[p].new \in Own(p)'
    BY <1>1, <1>2 DEF Own, LockReached
  <2>2. State(p, tra[p].number) \in {"us", "committed"}
    BY DEF State, TRA_snapshot_state
  <2> QED
    BY <1>1, <1>2, <2>1, <2>2 DEF SameNumbers
<1>7. TurnOf(p) /\ (Stands(p)' => Stands(p))
  BY <1>2, <1>3 DEF TurnOf, Stands
<1> QED
  BY <1>1, <1>3, <1>5, <1>6, <1>7, SameIsOrdered

-----------------------------------------------------------------------------
(* The order holds. *)

LEMMA StillOrders ==
  ASSUME OrderInv, UNCHANGED transactionVars
  PROVE  OrderInv'
BY DEF OrderInv, transactionVars, TopFits, LaterSees, Undecided, Reads, HasSnapshot, Stands, Sees,
       Own, State, TRA_snapshot_state, Committed

LEMMA NextOrders ==
  ASSUME SInv, OrderInv, Next
  PROVE  OrderInv'
<1>1. /\ TransactionsFit /\ ReachInv
      /\ \A p \in Sessions : UpdateFits(p) /\ rpb[p] \in RpbType /\ rpb[p].on \in 0..MaxTransaction
  BY TypesAre DEF SInv, RpbType
<1>2. ASSUME NEW p \in Sessions, Starts(p) PROVE OrderInv'
  BY <1>1, <1>2, StartOrders, InventoryOrders, CleanupOrders, OldestOrders, RetainOrders,
     RetainedOrders, ReleaseOrders, AttachOrders DEF Starts
<1>3. ASSUME NEW p \in Sessions, Commits(p) PROVE OrderInv'
  BY <1>1, <1>3, DecisionOrders, CommitRetainingOrders DEF Commits, TRA_commit
<1>4. ASSUME NEW p \in Sessions, RollsBack(p) PROVE OrderInv'
  BY <1>1, <1>4, DecisionOrders, UndoOrders DEF RollsBack, TRA_rollback
<1>5. ASSUME NEW p \in Sessions, UndoEnds(p) \/ UndoGivesUp(p) PROVE OrderInv'
  BY <1>1, <1>5, DecisionOrders DEF UndoEnds, UndoGivesUp, Undone, UndoFails
<1>6. ASSUME NEW p \in Sessions, TRA_sweep(p) \/ ProcessDies(p) PROVE OrderInv'
  BY <1>1, <1>6, SweepOrders, DeathOrders DEF TRA_sweep, ProcessDies
<1>7. ASSUME NEW p \in Sessions, WaitEnds(p) PROVE OrderInv'
  <2>1. tra[p].at = "active" /\ rpb[p].on <= hdr.next /\ 1 <= rpb[p].on
    BY <1>1, <1>7 DEF WaitEnds, UpdateFits
  <2>2. rpb[p].on \in Numbers
    BY <1>1, <2>1, NumbersAre
  <2> QED
    BY <1>1, <1>7, <2>1, <2>2, WaitOrders DEF WaitEnds
<1>8. ASSUME NEW p \in Sessions, NEW r \in Records, Replaces(p, r) \/ VIO_store(p, r)
      PROVE  OrderInv'
  <2>1. tra[p].at = "active"
    BY <1>1, <1>8 DEF Replaces, Updates, VIO_store, UpdateFits
  <2> QED
    BY <1>1, <1>8, <2>1, WriteOrders DEF Replaces, VIO_store
<1>9. ASSUME NEW p \in Sessions, WaitDenied(p) PROVE OrderInv'
  BY <1>9, StillOrders DEF WaitDenied
<1>10. ASSUME NEW p \in Sessions, NEW r \in Records,
              \/ \E op \in Operations : VIO_get(p, r, op)
              \/ VIO_sweep(p, r) \/ VIO_verb_cleanup(p, r)
              \/ ChaseBacksOut(p, r) \/ purge(p, r) \/ ChaseExpunges(p, r) \/ expunge(p, r)
              \/ CorrectsPointers(p, r) \/ NothingToUpdate(p, r)
              \/ UpdateBlocked(p, r) \/ VIO_backout(p, r)
       PROVE  OrderInv'
  <2>1. UNCHANGED transactionVars
    BY <1>10 DEF VIO_get, ChaseReturns, Chases, VIO_sweep, VIO_verb_cleanup, ChaseBacksOut, purge,
                 ChaseExpunges, expunge, CorrectsPointers, NothingToUpdate, UpdateBlocked,
                 VIO_backout
  <2> QED
    BY <2>1, StillOrders
<1>11. ASSUME NEW r \in Records, CacheWrites(r) PROVE OrderInv'
  BY <1>11, StillOrders DEF CacheWrites
<1> QED
  BY <1>2, <1>3, <1>4, <1>5, <1>6, <1>7, <1>8, <1>9, <1>10, <1>11 DEF Next

(* Snapshots are in the order in which their transactions started: whoever started later and was
   not overtaken has all that committed and that a transaction which started before it has,
   though inventories are read some time after the numbers are taken and are corrected afterwards
   (TRA_start, TRA_get_inventory, TRA_wait). *)
THEOREM SnapshotsAreOrdered == Spec => []SnapshotsOrdered
<1>1. Init => OrderInv
  <2> SUFFICES ASSUME Init, NEW p \in Sessions PROVE TopFits(p) /\ ~HasSnapshot(p)
    BY DEF OrderInv, LaterSees, Stands
  <2>1. tra[p].at = "idle"
    BY NoTraIs DEF Init, Init_tra
  <2> QED
    BY <2>1 DEF TopFits, Undecided, Reads, HasSnapshot
<1>2. SInv /\ OrderInv /\ [Next]_vars => OrderInv'
  BY NextOrders, StillOrders DEF vars
<1>3. OrderInv => SnapshotsOrdered
  BY DEF OrderInv, LaterSees, SnapshotsOrdered, Stands, HasSnapshot
<1> QED
  BY <1>1, <1>2, <1>3, SnapshotInvariance, PTL DEF Spec

=============================================================================
