---------------------------- MODULE LockQueueProofs ----------------------------
(***************************************************************************)
(* Theorems about LockQueue, for any number of processes and requests: its *)
(* queues are whole whoever dies between two writes, no request is lost or *)
(* left without an owner, and the queue operations implement Queues.       *)
(*                                                                         *)
(* A process that dies within insert_tail before it writes the prior link, *)
(* with that of an earlier unfinished insertion still in the secondary     *)
(* header, leaves a pair that does not belong together (LeavesStale). The  *)
(* theorems hold of every behaviour without such a death, and so of every  *)
(* behaviour with no more than one death.                                  *)
(***************************************************************************)
EXTENDS LockQueue, SequenceTheorems, FiniteSetTheorems, FunctionTheorems, TLAPS

-----------------------------------------------------------------------------
(* Nodes and sequences. *)

\* The head of a queue is no link of a request.
LEMMA HeadsAreNoLinks == Heads \cap Links = {} /\ NoNode \notin Nodes
BY DEF Heads, Links, Nodes, NoNode, Free, Lock, Own, Lbl, OwnLink

\* Every node has its own name.
LEMMA DifferentNodes ==
  /\ Free # Lock /\ Free \in Heads /\ Lock \in Heads
  /\ \A o \in Owners : Own(o) \in Heads \ {Free, Lock}
  /\ \A o, p \in Owners : Own(o) = Own(p) => o = p
  /\ \A r \in Requests : Lbl(r) \in Links /\ OwnLink(r) \in Links
  /\ \A r, s \in Requests : /\ Lbl(r) # OwnLink(s)
                            /\ Lbl(r) = Lbl(s) => r = s
                            /\ OwnLink(r) = OwnLink(s) => r = s
BY DEF Heads, Links, Nodes, Free, Lock, Own, Lbl, OwnLink

\* There are no more links than two for each request.
LEMMA LinksAreFinite == IsFiniteSet(Links)
<1>1. IsFiniteSet({Lbl(r) : r \in Requests})
  <2> DEFINE f == [r \in Requests |-> Lbl(r)]
  <2>1. f \in Surjection(Requests, {Lbl(r) : r \in Requests})
    BY DEF Surjection
  <2> QED
    BY <2>1, ConstantAssumption, FS_Surjection
<1>2. IsFiniteSet({OwnLink(r) : r \in Requests})
  <2> DEFINE f == [r \in Requests |-> OwnLink(r)]
  <2>1. f \in Surjection(Requests, {OwnLink(r) : r \in Requests})
    BY DEF Surjection
  <2> QED
    BY <2>1, ConstantAssumption, FS_Surjection
<1> QED
  BY <1>1, <1>2, FS_Union DEF Links

\* A set of numbers has a least one.
LEMMA Least ==
  ASSUME NEW S \in SUBSET Nat, S # {}
  PROVE  \E x \in S : \A y \in S : x <= y
<1> DEFINE T == {1..y : y \in S}
           R == StrictSubsetOrdering(Nat)
<1>1. T \subseteq FiniteSubsetsOf(Nat)
  BY FS_Interval DEF FiniteSubsetsOf
<1>2. T # {}
  OBVIOUS
<1>3. PICK x \in T : \A y \in T : ~(<<y, x>> \in R)
  BY <1>1, <1>2, WFMin, FS_StrictSubsetOrderingWellFounded
<1>4. PICK m \in S : x = 1..m
  OBVIOUS
<1>5. ASSUME NEW y \in S, ~(m <= y) PROVE FALSE
  <2>1. 1..y \subseteq 1..m /\ m \in 1..m /\ m \notin 1..y
    BY <1>5
  <2>2. 1..y \in SUBSET Nat /\ 1..m \in SUBSET Nat
    OBVIOUS
  <2>3. <<1..y, 1..m>> \in StrictSubsetOrdering(Nat)
    BY <2>1, <2>2 DEF StrictSubsetOrdering
  <2>4. 1..y \in T
    OBVIOUS
  <2> QED
    BY <1>3, <1>4, <2>3, <2>4
<1> QED
  BY <1>5

\* A part of a sequence.
LEMMA SubSeqIs ==
  ASSUME NEW S, NEW s \in Seq(S), NEW m \in Nat \ {0}, NEW n \in Nat, n <= Len(s)
  PROVE  /\ SubSeq(s, m, n) \in Seq(S)
         /\ Len(SubSeq(s, m, n)) = IF m <= n THEN n - m + 1 ELSE 0
         /\ \A k \in 1..n - m + 1 : SubSeq(s, m, n)[k] = s[m + k - 1]
<1>1. \A k \in m..n : s[k] \in S
  BY ElementOfSeq, LenProperties
<1> QED
  BY <1>1, SubSeqProperties

\* A sequence without the element at i.
LEMMA RemoveAtIs ==
  ASSUME NEW S, NEW s \in Seq(S), NEW i \in 1..Len(s)
  PROVE  /\ RemoveAt(s, i) \in Seq(S) /\ Len(RemoveAt(s, i)) = Len(s) - 1
         /\ \A k \in 1..Len(s) - 1 : RemoveAt(s, i)[k] = IF k < i THEN s[k] ELSE s[k + 1]
<1>0. Len(s) \in Nat /\ i \in Nat
  BY LenProperties
<1> DEFINE h == i - 1
           j == i + 1
           L == Len(s)
           before == SubSeq(s, 1, h)
           after == SubSeq(s, j, L)
<1>1. /\ h \in Nat /\ h <= L /\ L \in Nat /\ j \in Nat \ {0} /\ 1 \in Nat \ {0}
      /\ h = i - 1 /\ j = i + 1
  BY <1>0
<1>2. RemoveAt(s, i) = before \o after
  BY DEF RemoveAt
<1> HIDE DEF h, j, L
<1>3. /\ before \in Seq(S) /\ Len(before) = (IF 1 <= h THEN h - 1 + 1 ELSE 0)
      /\ \A k \in 1..h - 1 + 1 : before[k] = s[1 + k - 1]
  BY <1>1, SubSeqIs DEF L
<1>4. /\ after \in Seq(S) /\ Len(after) = (IF j <= L THEN L - j + 1 ELSE 0)
      /\ \A k \in 1..L - j + 1 : after[k] = s[j + k - 1]
  BY <1>1, SubSeqIs DEF L
<1> HIDE DEF before, after
<1>5. Len(before) = i - 1 /\ Len(after) = L - i
  BY <1>0, <1>1, <1>3, <1>4 DEF L
<1>6. /\ before \o after \in Seq(S)
      /\ Len(before \o after) = Len(before) + Len(after)
      /\ \A k \in 1..Len(before) + Len(after) : (before \o after)[k] =
           IF k <= Len(before) THEN before[k] ELSE after[k - Len(before)]
  BY <1>3, <1>4, ConcatProperties
<1>7. Len(before) + Len(after) = L - 1
  BY <1>1, <1>5, <1>0
<1>8. ASSUME NEW k \in 1..L - 1
      PROVE  (before \o after)[k] = IF k < i THEN s[k] ELSE s[k + 1]
  <2>1. CASE k < i
    <3>1. before[k] = s[k]
      BY <1>0, <1>1, <1>3, <2>1
    <3> QED
      BY <1>0, <1>1, <1>5, <1>6, <1>7, <2>1, <3>1
  <2>2. CASE ~(k < i)
    <3>1. after[k - h] = s[k + 1]
      BY <1>0, <1>1, <1>4, <2>2
    <3> QED
      BY <1>0, <1>1, <1>5, <1>6, <1>7, <2>2, <3>1
  <2> QED
    BY <2>1, <2>2
<1> QED
  BY <1>2, <1>6, <1>7, <1>8 DEF L

-----------------------------------------------------------------------------
(* Rings: the nodes of a queue as the links lay them out. *)

NodeAt(q, s, k) == IF k \in 1..Len(s) THEN s[k] ELSE q
Linked(f, b, q, s) ==
  \A k \in 0..Len(s) :
    f[NodeAt(q, s, k)] = NodeAt(q, s, k + 1) /\ b[NodeAt(q, s, k + 1)] = NodeAt(q, s, k)
Apart(line) ==
  \A q, p \in Heads : \A i \in 1..Len(line[q]), j \in 1..Len(line[p]) :
    line[q][i] = line[p][j] => q = p /\ i = j

(* f and b are the links of the queues line. *)
Lines == [Heads -> Seq(Links)]
LaidBy(f, b, line) ==
  line \in Lines /\ Apart(line) /\ \A q \in Heads : Linked(f, b, q, line[q])

On(line, q, n) == \E i \in 1..Len(line[q]) : line[q][i] = n
Off(line, n) == \A q \in Heads : ~On(line, q, n)
Inside(line, n) == n \in Heads \/ (n \in Links /\ ~Off(line, n))

\* A queue is a sequence of links.
LEMMA LineType ==
  ASSUME NEW line \in Lines, NEW q \in Heads
  PROVE  /\ line[q] \in Seq(Links) /\ Len(line[q]) \in Nat
         /\ \A k \in 1..Len(line[q]) : line[q][k] \in Links
BY LenProperties, ElementOfSeq DEF Lines

\* The places of a queue hold nodes.
LEMMA NodeIsInside ==
  ASSUME NEW line \in Lines, NEW q \in Heads, NEW k
  PROVE  Inside(line, NodeAt(q, line[q], k)) /\ NodeAt(q, line[q], k) \in Nodes
<1>1. CASE k \in 1..Len(line[q])
  <2>1. On(line, q, NodeAt(q, line[q], k)) /\ NodeAt(q, line[q], k) \in Links
    BY <1>1, LineType DEF On, NodeAt
  <2> QED
    BY <2>1 DEF Inside, Off, Nodes
<1>2. CASE k \notin 1..Len(line[q])
  BY <1>2 DEF Inside, NodeAt, Nodes
<1> QED
  BY <1>1, <1>2

\* A node inside is at a place, and after one.
LEMMA InsideHasPlace ==
  ASSUME NEW line \in Lines, NEW n, Inside(line, n)
  PROVE  \E q \in Heads : /\ \E k \in 0..Len(line[q]) : n = NodeAt(q, line[q], k)
                          /\ \E k \in 0..Len(line[q]) : n = NodeAt(q, line[q], k + 1)
<1>1. CASE n \in Heads
  <2>1. Len(line[n]) \in Nat
    BY <1>1, LineType
  <2>2. NodeAt(n, line[n], 0) = n /\ NodeAt(n, line[n], Len(line[n]) + 1) = n
    BY <2>1 DEF NodeAt
  <2> QED
    BY <1>1, <2>1, <2>2
<1>2. CASE n \notin Heads
  <2>1. PICK q \in Heads : \E i \in 1..Len(line[q]) : line[q][i] = n
    BY <1>2 DEF Inside, Off, On
  <2>2. PICK i \in 1..Len(line[q]) : line[q][i] = n
    BY <2>1
  <2>3. Len(line[q]) \in Nat
    BY LineType
  <2>4. /\ i \in 0..Len(line[q]) /\ NodeAt(q, line[q], i) = n
        /\ i - 1 \in 0..Len(line[q]) /\ NodeAt(q, line[q], i - 1 + 1) = n
    BY <2>2, <2>3 DEF NodeAt
  <2> QED
    BY <2>4
<1> QED
  BY <1>1, <1>2

\* A node is at one place.
LEMMA OnePlace ==
  ASSUME NEW line \in Lines, Apart(line), NEW q \in Heads, NEW p \in Heads,
         NEW k \in 0..Len(line[q]), NEW j \in 0..Len(line[p]),
         NodeAt(q, line[q], k) = NodeAt(p, line[p], j)
  PROVE  q = p /\ k = j
<1>0. /\ Len(line[q]) \in Nat /\ Len(line[p]) \in Nat
      /\ \A i \in 1..Len(line[q]) : line[q][i] \in Links
      /\ \A i \in 1..Len(line[p]) : line[p][i] \in Links
  BY LineType
<1>1. CASE k = 0 /\ j = 0
  BY <1>0, <1>1 DEF NodeAt
<1>2. CASE k = 0 /\ j # 0
  BY <1>0, <1>2, HeadsAreNoLinks DEF NodeAt
<1>3. CASE k # 0 /\ j = 0
  BY <1>0, <1>3, HeadsAreNoLinks DEF NodeAt
<1>4. CASE k # 0 /\ j # 0
  <2>1. k \in 1..Len(line[q]) /\ j \in 1..Len(line[p])
    BY <1>0, <1>4
  <2>2. line[q][k] = line[p][j]
    BY <2>1 DEF NodeAt
  <2> QED
    BY <2>1, <2>2 DEF Apart
<1> QED
  BY <1>1, <1>2, <1>3, <1>4

\* The links of the nodes inside lead inside, and back.
LEMMA LinksStayInside ==
  ASSUME NEW f, NEW b, NEW line, LaidBy(f, b, line), NEW n, Inside(line, n)
  PROVE  /\ Inside(line, f[n]) /\ Inside(line, b[n])
         /\ b[f[n]] = n /\ f[b[n]] = n
<1>0. line \in Lines
  BY DEF LaidBy
<1>1. PICK q \in Heads : /\ \E k \in 0..Len(line[q]) : n = NodeAt(q, line[q], k)
                         /\ \E k \in 0..Len(line[q]) : n = NodeAt(q, line[q], k + 1)
  BY <1>0, InsideHasPlace
<1>2. PICK k \in 0..Len(line[q]) : n = NodeAt(q, line[q], k)
  BY <1>1
<1>3. PICK j \in 0..Len(line[q]) : n = NodeAt(q, line[q], j + 1)
  BY <1>1
<1>4. Linked(f, b, q, line[q])
  BY DEF LaidBy
<1>5. f[n] = NodeAt(q, line[q], k + 1) /\ b[NodeAt(q, line[q], k + 1)] = n
  BY <1>2, <1>4 DEF Linked
<1>6. b[n] = NodeAt(q, line[q], j) /\ f[NodeAt(q, line[q], j)] = n
  BY <1>3, <1>4 DEF Linked
<1>7. Inside(line, NodeAt(q, line[q], k + 1)) /\ Inside(line, NodeAt(q, line[q], j))
  BY <1>0, NodeIsInside
<1> QED
  BY <1>5, <1>6, <1>7

\* Links of nodes outside matter to no queue.
LEMMA OutsideIsFree ==
  ASSUME NEW f, NEW b, NEW line, LaidBy(f, b, line), NEW g, NEW c,
         \A n : Inside(line, n) => g[n] = f[n] /\ c[n] = b[n]
  PROVE  LaidBy(g, c, line)
<1>0. line \in Lines
  BY DEF LaidBy
<1>1. ASSUME NEW q \in Heads PROVE Linked(g, c, q, line[q])
  <2>1. Linked(f, b, q, line[q])
    BY DEF LaidBy
  <2>2. \A k : Inside(line, NodeAt(q, line[q], k))
    BY <1>0, NodeIsInside
  <2> QED
    BY <2>1, <2>2 DEF Linked
<1> QED
  BY <1>1 DEF LaidBy


\* Two queues whose lines meet nowhere else.
LEMMA LinkedElsewhere ==
  ASSUME NEW f, NEW b, NEW line, LaidBy(f, b, line), NEW q \in Heads,
         NEW g, NEW c,
         \A n : Inside(line, n) /\ (\A k \in 0..Len(line[q]) : n # NodeAt(q, line[q], k))
                => g[n] = f[n] /\ c[n] = b[n]
  PROVE  \A p \in Heads : p # q => Linked(g, c, p, line[p])
<1>0. line \in Lines /\ Apart(line)
  BY DEF LaidBy
<1> SUFFICES ASSUME NEW p \in Heads, p # q PROVE Linked(g, c, p, line[p])
  OBVIOUS
<1>1. Linked(f, b, p, line[p])
  BY DEF LaidBy
<1>2. \A j \in 0..Len(line[p]) : \A k \in 0..Len(line[q]) :
        NodeAt(p, line[p], j) # NodeAt(q, line[q], k)
  BY <1>0, OnePlace
<1>3. \A k : Inside(line, NodeAt(p, line[p], k))
  BY <1>0, NodeIsInside
<1>4. \A j \in 0..Len(line[p]) : /\ g[NodeAt(p, line[p], j)] = f[NodeAt(p, line[p], j)]
                                 /\ c[NodeAt(p, line[p], j)] = b[NodeAt(p, line[p], j)]
  BY <1>2, <1>3
<1>5. Len(line[p]) \in Nat
  BY <1>0, LineType
<1>6. \A j \in 0..Len(line[p]) :
        c[NodeAt(p, line[p], j + 1)] = b[NodeAt(p, line[p], j + 1)]
  <2> TAKE j \in 0..Len(line[p])
  <2>1. CASE j = Len(line[p])
    <3>1. NodeAt(p, line[p], j + 1) = NodeAt(p, line[p], 0) /\ 0 \in 0..Len(line[p])
      BY <1>5, <2>1 DEF NodeAt
    <3> QED
      BY <1>4, <3>1
  <2>2. CASE j # Len(line[p])
    <3>1. j + 1 \in 0..Len(line[p])
      BY <1>5, <2>2
    <3> QED
      BY <1>4, <3>1
  <2> QED
    BY <2>1, <2>2
<1> QED
  BY <1>1, <1>4, <1>6 DEF Linked

\* A node that is in no queue is linked in at the tail of q.
LEMMA LinkedIn ==
  ASSUME NEW f, NEW b, NEW line, LaidBy(f, b, line), NEW q \in Heads,
         NEW n \in Links, Off(line, n), NEW g, NEW c,
         \A m : Inside(line, m) /\ m # b[q] => g[m] = f[m],
         \A m : Inside(line, m) /\ m # q => c[m] = b[m],
         g[b[q]] = n, g[n] = q, c[q] = n, c[n] = b[q]
  PROVE  LaidBy(g, c, [line EXCEPT ![q] = Append(@, n)])
<1> DEFINE s == line[q]
           L == Len(line[q])
           new == [line EXCEPT ![q] = Append(@, n)]
<1>0. /\ line \in Lines /\ Apart(line) /\ L \in Nat /\ s \in Seq(Links)
      /\ \A p \in Heads : Len(line[p]) \in Nat /\ line[p] \in Seq(Links)
  BY LineType DEF LaidBy
<1>1. /\ Append(s, n) \in Seq(Links) /\ Len(Append(s, n)) = L + 1
      /\ \A k \in 1..L : Append(s, n)[k] = s[k]
      /\ Append(s, n)[L + 1] = n
  BY <1>0, AppendProperties
<1>2. new \in Lines /\ new[q] = Append(s, n) /\ \A p \in Heads : p # q => new[p] = line[p]
  BY <1>0, <1>1 DEF Lines
<1>3. \A p \in Heads : \A i \in 1..Len(line[p]) : line[p][i] # n
  BY DEF Off, On
<1>4. Apart(new)
  <2> SUFFICES ASSUME NEW p \in Heads, NEW r \in Heads, NEW i \in 1..Len(new[p]),
                      NEW j \in 1..Len(new[r]), new[p][i] = new[r][j]
               PROVE  p = r /\ i = j
    BY DEF Apart
  <2>1. ASSUME NEW t \in Heads, NEW h \in 1..Len(new[t])
        PROVE  \/ t = q /\ h = L + 1 /\ new[t][h] = n
               \/ h \in 1..Len(line[t]) /\ new[t][h] = line[t][h] /\ new[t][h] # n
    <3>1. CASE t = q
      <4>1. h = L + 1 \/ h \in 1..L
        BY <1>0, <1>1, <1>2, <3>1
      <4> QED
        BY <1>1, <1>2, <1>3, <3>1, <4>1
    <3>2. CASE t # q
      BY <1>2, <1>3, <3>2
    <3> QED
      BY <3>1, <3>2
  <2>2. \/ p = q /\ i = L + 1 /\ new[p][i] = n
        \/ i \in 1..Len(line[p]) /\ new[p][i] = line[p][i] /\ new[p][i] # n
    BY <2>1
  <2>3. \/ r = q /\ j = L + 1 /\ new[r][j] = n
        \/ j \in 1..Len(line[r]) /\ new[r][j] = line[r][j] /\ new[r][j] # n
    BY <2>1
  <2>4. CASE new[p][i] = n
    BY <2>2, <2>3, <2>4
  <2>5. CASE new[p][i] # n
    <3>1. line[p][i] = line[r][j] /\ i \in 1..Len(line[p]) /\ j \in 1..Len(line[r])
      BY <2>2, <2>3, <2>5
    <3> QED
      BY <1>0, <3>1 DEF Apart
  <2> QED
    BY <2>4, <2>5
<1> HIDE DEF new
<1>5. Linked(f, b, q, s)
  BY DEF LaidBy
<1>6. b[q] = NodeAt(q, s, L)
  <2>1. NodeAt(q, s, L + 1) = q /\ L \in 0..Len(s)
    BY <1>0 DEF NodeAt
  <2> QED
    BY <1>5, <2>1 DEF Linked
<1>7. \A k \in 0..L : \A j \in 0..L : NodeAt(q, s, k) = NodeAt(q, s, j) => k = j
  BY <1>0, OnePlace
<1>8. \A k : Inside(line, NodeAt(q, s, k))
  BY <1>0, NodeIsInside
<1>9. Linked(g, c, q, new[q])
  <2> DEFINE z == Append(s, n)
  <2>1. \A k \in 0..L : NodeAt(q, z, k) = NodeAt(q, s, k)
    BY <1>0, <1>1 DEF NodeAt
  <2>2. NodeAt(q, z, L + 1) = n /\ NodeAt(q, z, L + 2) = q
    BY <1>0, <1>1 DEF NodeAt
  <2>3. \A k \in 0..L : k # L => g[NodeAt(q, s, k)] = NodeAt(q, s, k + 1)
    <3> TAKE k \in 0..L
    <3> HAVE k # L
    <3>1. NodeAt(q, s, k) # NodeAt(q, s, L)
      BY <1>0, <1>7
    <3>2. g[NodeAt(q, s, k)] = f[NodeAt(q, s, k)]
      BY <1>6, <1>8, <3>1
    <3> QED
      BY <1>5, <3>2 DEF Linked
  <2>4. \A k \in 0..L : k # L => c[NodeAt(q, s, k + 1)] = NodeAt(q, s, k)
    <3> TAKE k \in 0..L
    <3> HAVE k # L
    <3>1. k + 1 \in 0..L /\ 0 \in 0..L /\ NodeAt(q, s, 0) = q /\ k + 1 # 0
      BY <1>0 DEF NodeAt
    <3>2. NodeAt(q, s, k + 1) # q
      BY <1>7, <3>1
    <3>3. c[NodeAt(q, s, k + 1)] = b[NodeAt(q, s, k + 1)]
      BY <1>8, <3>2
    <3> QED
      BY <1>5, <3>3 DEF Linked
  <2>5. ASSUME NEW k \in 0..L + 1
        PROVE  g[NodeAt(q, z, k)] = NodeAt(q, z, k + 1) /\ c[NodeAt(q, z, k + 1)] = NodeAt(q, z, k)
    <3>1. CASE k = L + 1
      <4>1. L + 1 + 1 = L + 2
        BY <1>0
      <4> QED
        BY <2>2, <3>1, <4>1
    <3>2. CASE k = L
      <4>1. L \in 0..L
        BY <1>0
      <4> QED
        BY <1>6, <2>1, <2>2, <3>2, <4>1
    <3>3. CASE k \notin {L, L + 1}
      <4>1. k \in 0..L /\ k + 1 \in 0..L /\ k # L
        BY <1>0, <3>3
      <4> QED
        BY <2>1, <2>3, <2>4, <4>1
    <3> QED
      BY <3>1, <3>2, <3>3
  <2> QED
    BY <1>1, <1>2, <2>5 DEF Linked
<1>10. \A p \in Heads : p # q => Linked(g, c, p, line[p])
  <2>1. \A m : Inside(line, m) /\ (\A k \in 0..L : m # NodeAt(q, s, k))
               => g[m] = f[m] /\ c[m] = b[m]
    <3>1. L \in 0..L /\ 0 \in 0..L /\ NodeAt(q, s, 0) = q
      BY <1>0 DEF NodeAt
    <3> QED
      BY <1>6, <3>1
  <2> QED
    BY <2>1, LinkedElsewhere
<1> QED
  BY <1>2, <1>4, <1>9, <1>10 DEF LaidBy, new

\* The node at place i of q is linked out.
LEMMA LinkedOut ==
  ASSUME NEW f, NEW b, NEW line, LaidBy(f, b, line), NEW q \in Heads,
         NEW i \in 1..Len(line[q]), NEW n, n = line[q][i], NEW g, NEW c,
         \A m : Inside(line, m) => /\ g[m] = IF m = b[n] THEN f[n] ELSE f[m]
                                   /\ c[m] = IF m = f[n] THEN b[n] ELSE b[m]
  PROVE  LaidBy(g, c, [line EXCEPT ![q] = RemoveAt(@, i)])
<1> DEFINE s == line[q]
           L == Len(line[q])
           z == RemoveAt(s, i)
           new == [line EXCEPT ![q] = RemoveAt(@, i)]
<1>0. /\ line \in Lines /\ Apart(line) /\ L \in Nat /\ s \in Seq(Links)
      /\ \A p \in Heads : Len(line[p]) \in Nat /\ line[p] \in Seq(Links)
  BY LineType DEF LaidBy
<1>1. /\ z \in Seq(Links) /\ Len(z) = L - 1
      /\ \A k \in 1..L - 1 : z[k] = IF k < i THEN s[k] ELSE s[k + 1]
  BY <1>0, RemoveAtIs
<1>2. new \in Lines /\ new[q] = z /\ \A p \in Heads : p # q => new[p] = line[p]
  BY <1>0, <1>1 DEF Lines
<1> HIDE DEF new, z
<1>4. Apart(new)
  <2> SUFFICES ASSUME NEW p \in Heads, NEW r \in Heads, NEW h \in 1..Len(new[p]),
                      NEW j \in 1..Len(new[r]), new[p][h] = new[r][j]
               PROVE  p = r /\ h = j
    BY DEF Apart
  <2> DEFINE Old(t, k) == IF t = q /\ ~(k < i) THEN k + 1 ELSE k
  <2>1. ASSUME NEW t \in Heads, NEW k \in 1..Len(new[t])
        PROVE  Old(t, k) \in 1..Len(line[t]) /\ new[t][k] = line[t][Old(t, k)]
    <3>1. CASE t = q
      BY <1>0, <1>1, <1>2, <3>1
    <3>2. CASE t # q
      BY <1>2, <3>2
    <3> QED
      BY <3>1, <3>2
  <2>2. Old(p, h) \in 1..Len(line[p]) /\ new[p][h] = line[p][Old(p, h)]
    BY <2>1
  <2>3. Old(r, j) \in 1..Len(line[r]) /\ new[r][j] = line[r][Old(r, j)]
    BY <2>1
  <2>4. p = r /\ Old(p, h) = Old(r, j)
    <3> HIDE DEF Old
    <3>1. line[p][Old(p, h)] = line[r][Old(r, j)]
      BY <2>2, <2>3
    <3> QED
      BY <1>0, <2>2, <2>3, <3>1 DEF Apart
  <2>5. h \in Nat /\ j \in Nat /\ i \in Nat
    BY <1>0, <1>1, <1>2
  <2> QED
    BY <2>4, <2>5
<1>5. Linked(f, b, q, s)
  BY DEF LaidBy
<1>6. f[n] = NodeAt(q, s, i + 1) /\ b[n] = NodeAt(q, s, i - 1)
  <2>1. i \in 0..L /\ i - 1 \in 0..L /\ NodeAt(q, s, i) = n /\ i - 1 + 1 = i
    BY <1>0 DEF NodeAt
  <2> QED
    BY <1>5, <2>1 DEF Linked
<1>7. \A k \in 0..L : \A j \in 0..L : NodeAt(q, s, k) = NodeAt(q, s, j) => k = j
  BY <1>0, OnePlace
<1>8. \A k : Inside(line, NodeAt(q, s, k))
  BY <1>0, NodeIsInside
<1>9. Linked(g, c, q, new[q])
  <2>1. \A k \in 0..L : NodeAt(q, z, k) = IF k < i THEN NodeAt(q, s, k) ELSE NodeAt(q, s, k + 1)
    BY <1>0, <1>1 DEF NodeAt
  <2>2. NodeAt(q, s, L + 1) = NodeAt(q, s, 0)
    BY <1>0 DEF NodeAt
  <2>3. \A k \in 0..L : k # i - 1 => g[NodeAt(q, s, k)] = NodeAt(q, s, k + 1)
    <3> TAKE k \in 0..L
    <3> HAVE k # i - 1
    <3>1. i - 1 \in 0..L
      BY <1>0
    <3>2. NodeAt(q, s, k) # b[n]
      BY <1>6, <1>7, <3>1
    <3>3. g[NodeAt(q, s, k)] = f[NodeAt(q, s, k)]
      BY <1>8, <3>2
    <3> QED
      BY <1>5, <3>3 DEF Linked
  <2>4. \A k \in 0..L : k # i => c[NodeAt(q, s, k + 1)] = NodeAt(q, s, k)
    <3> TAKE k \in 0..L
    <3> HAVE k # i
    <3> DEFINE Place(x) == IF x = L + 1 THEN 0 ELSE x
    <3>1. /\ Place(k + 1) \in 0..L /\ Place(i + 1) \in 0..L /\ Place(k + 1) # Place(i + 1)
          /\ NodeAt(q, s, Place(k + 1)) = NodeAt(q, s, k + 1)
          /\ NodeAt(q, s, Place(i + 1)) = NodeAt(q, s, i + 1)
      BY <1>0, <2>2
    <3>2. NodeAt(q, s, k + 1) # f[n]
      BY <1>6, <1>7, <3>1
    <3>3. c[NodeAt(q, s, k + 1)] = b[NodeAt(q, s, k + 1)]
      BY <1>8, <3>2
    <3> QED
      BY <1>5, <3>3 DEF Linked
  <2>5. g[NodeAt(q, s, i - 1)] = NodeAt(q, s, i + 1) /\ c[NodeAt(q, s, i + 1)] = NodeAt(q, s, i - 1)
    BY <1>6, <1>8
  <2>6. ASSUME NEW k \in 0..L - 1
        PROVE  g[NodeAt(q, z, k)] = NodeAt(q, z, k + 1) /\ c[NodeAt(q, z, k + 1)] = NodeAt(q, z, k)
    <3>0. k \in 0..L /\ k + 1 \in 0..L /\ k \in Nat /\ i \in Nat
      BY <1>0
    <3>1. CASE k < i - 1
      <4>1. NodeAt(q, z, k) = NodeAt(q, s, k) /\ NodeAt(q, z, k + 1) = NodeAt(q, s, k + 1)
        BY <2>1, <3>0, <3>1
      <4> QED
        BY <2>3, <2>4, <3>0, <3>1, <4>1
    <3>2. CASE k = i - 1
      <4>1. NodeAt(q, z, k) = NodeAt(q, s, i - 1) /\ NodeAt(q, z, k + 1) = NodeAt(q, s, i + 1)
        BY <2>1, <3>0, <3>2
      <4> QED
        BY <2>5, <4>1
    <3>3. CASE k > i - 1
      <4>1. NodeAt(q, z, k) = NodeAt(q, s, k + 1) /\ NodeAt(q, z, k + 1) = NodeAt(q, s, k + 1 + 1)
        BY <2>1, <3>0, <3>3
      <4>2. k + 1 # i - 1 /\ k + 1 # i
        BY <3>0, <3>3
      <4> QED
        BY <2>3, <2>4, <3>0, <4>1, <4>2
    <3> QED
      BY <3>0, <3>1, <3>2, <3>3
  <2> QED
    BY <1>0, <1>1, <1>2, <2>6 DEF Linked
<1>10. \A p \in Heads : p # q => Linked(g, c, p, line[p])
  <2>1. \A m : Inside(line, m) /\ (\A k \in 0..L : m # NodeAt(q, s, k))
               => g[m] = f[m] /\ c[m] = b[m]
    <3>1. /\ i - 1 \in 0..L
          /\ \E k \in 0..L : f[n] = NodeAt(q, s, k)
      <4>1. CASE i = L
        <5>1. 0 \in 0..L /\ f[n] = NodeAt(q, s, 0)
          BY <1>0, <1>6, <4>1 DEF NodeAt
        <5> QED
          BY <1>0, <5>1
      <4>2. CASE i # L
        <5>1. i + 1 \in 0..L
          BY <1>0, <4>2
        <5> QED
          BY <1>0, <1>6, <5>1
      <4> QED
        BY <4>1, <4>2
    <3> QED
      BY <1>6, <3>1
  <2> QED
    BY <2>1, LinkedElsewhere
<1> QED
  BY <1>2, <1>4, <1>9, <1>10 DEF LaidBy, new


\* The list that List follows along the links f.
ListBy(f, q) ==
  LET node[k \in 0..Cardinality(Links)] ==
        IF k = 0 THEN f[q] ELSE IF node[k - 1] = q THEN q ELSE f[node[k - 1]]
      length == Cardinality({k \in DOMAIN node : node[k] # q})
  IN [k \in 1..length |-> node[k - 1]]

\* No queue is longer than there are links, since none is in it twice.
LEMMA LineFits ==
  ASSUME NEW line \in Lines, Apart(line), NEW q \in Heads
  PROVE  Cardinality(Links) \in Nat /\ Len(line[q]) <= Cardinality(Links)
<1>0. /\ line[q] \in Seq(Links) /\ Len(line[q]) \in Nat
      /\ \A k \in 1..Len(line[q]) : line[q][k] \in Links
  BY LineType
<1>1. line[q] \in [1..Len(line[q]) -> Links]
  BY <1>0, LenProperties
<1>2. \A i, j \in 1..Len(line[q]) : line[q][i] = line[q][j] => i = j
  BY DEF Apart
<1>3. line[q] \in Injection(1..Len(line[q]), Links)
  BY <1>1, <1>2, Fun_IsInj
<1>4. Cardinality(1..Len(line[q])) <= Cardinality(Links)
  BY <1>3, LinksAreFinite, FS_Injection
<1>5. Cardinality(1..Len(line[q])) = Len(line[q])
  BY <1>0, FS_Interval
<1> QED
  BY <1>4, <1>5, LinksAreFinite, FS_CardinalityType

\* Walking from the head along the links gives the queue they lay out (List, without
\* induction over the steps of the walk: the least place where it differs is none).
LEMMA ListIsLine ==
  ASSUME NEW f, NEW b, NEW line, LaidBy(f, b, line), NEW q \in Heads
  PROVE  ListBy(f, q) = line[q]
<1> DEFINE s == line[q]
           L == Len(line[q])
           C == Cardinality(Links)
           Walk(g) == [k \in 0..C |->
                         IF k = 0 THEN f[q] ELSE IF g[k - 1] = q THEN q ELSE f[g[k - 1]]]
           node == CHOOSE g : g = Walk(g)
           Far == {k \in DOMAIN node : node[k] # q}
<1>0. /\ line \in Lines /\ Apart(line) /\ L \in Nat /\ s \in Seq(Links)
      /\ \A k \in 1..L : s[k] \in Links /\ s[k] # q
      /\ C \in Nat /\ L <= C /\ Linked(f, b, q, s)
  BY LineType, LineFits, HeadsAreNoLinks DEF LaidBy
<1>1. ListBy(f, q) = [k \in 1..Cardinality(Far) |-> node[k - 1]]
  BY DEF ListBy
<1> HIDE DEF C
<1>2. \A k \in 0..C : /\ k <= L => f[NodeAt(q, s, k)] = NodeAt(q, s, k + 1)
                      /\ NodeAt(q, s, k) = q <=> k = 0 \/ k > L
  BY <1>0 DEF Linked, NodeAt
<1>3. \E g : g = Walk(g)
  <2> DEFINE g == [k \in 0..C |-> NodeAt(q, s, k + 1)]
  <2>1. ASSUME NEW k \in 0..C
        PROVE  g[k] = IF k = 0 THEN f[q] ELSE IF g[k - 1] = q THEN q ELSE f[g[k - 1]]
    <3>1. CASE k = 0
      <4>1. NodeAt(q, s, 0) = q /\ f[NodeAt(q, s, 0)] = NodeAt(q, s, 0 + 1)
        BY <1>0, <1>2, <3>1
      <4> QED
        BY <3>1, <4>1
    <3>2. CASE k # 0
      <4>1. k - 1 \in 0..C /\ k - 1 + 1 = k
        BY <1>0, <3>2
      <4>2. g[k - 1] = NodeAt(q, s, k)
        BY <4>1
      <4>3. CASE k > L
        <5>1. NodeAt(q, s, k) = q /\ NodeAt(q, s, k + 1) = q
          BY <1>0, <4>3 DEF NodeAt
        <5> QED
          BY <3>2, <4>2, <5>1
      <4>4. CASE ~(k > L)
        <5>1. NodeAt(q, s, k) # q /\ f[NodeAt(q, s, k)] = NodeAt(q, s, k + 1)
          BY <1>0, <1>2, <3>2, <4>4
        <5> QED
          BY <3>2, <4>2, <5>1
      <4> QED
        BY <4>3, <4>4
    <3> QED
      BY <3>1, <3>2
  <2>2. g = Walk(g)
    BY <2>1
  <2> QED
    BY <2>2
<1>4. node = Walk(node)
  BY <1>3
<1> HIDE DEF node
<1>5. \A k \in 0..C : node[k] = NodeAt(q, s, k + 1)
  <2> DEFINE Bad == {k \in 0..C : node[k] # NodeAt(q, s, k + 1)}
  <2>1. ASSUME Bad # {} PROVE FALSE
    <3>1. PICK k \in Bad : \A y \in Bad : k <= y
      <4> HIDE DEF Bad
      <4>1. Bad \subseteq Nat
        BY DEF Bad
      <4> QED
        BY <2>1, <4>1, Least
    <3>2. node[k] = IF k = 0 THEN f[q] ELSE IF node[k - 1] = q THEN q ELSE f[node[k - 1]]
      BY <1>4, <3>1
    <3>3. CASE k = 0
      <4>1. NodeAt(q, s, 0) = q /\ f[NodeAt(q, s, 0)] = NodeAt(q, s, 0 + 1)
        BY <1>0, <1>2
      <4> QED
        BY <3>1, <3>2, <3>3, <4>1
    <3>4. CASE k # 0
      <4>1. k - 1 \in 0..C /\ k - 1 + 1 = k /\ k - 1 \notin Bad
        BY <1>0, <3>1, <3>4
      <4>2. node[k - 1] = NodeAt(q, s, k)
        BY <4>1
      <4>3. CASE k > L
        <5>1. NodeAt(q, s, k) = q /\ NodeAt(q, s, k + 1) = q
          BY <1>0, <3>1, <4>3 DEF NodeAt
        <5> QED
          BY <3>1, <3>2, <3>4, <4>2, <5>1
      <4>4. CASE ~(k > L)
        <5>1. NodeAt(q, s, k) # q /\ f[NodeAt(q, s, k)] = NodeAt(q, s, k + 1)
          BY <1>0, <1>2, <3>1, <3>4, <4>4
        <5> QED
          BY <3>1, <3>2, <3>4, <4>2, <5>1
      <4> QED
        BY <4>3, <4>4
    <3> QED
      BY <3>3, <3>4
  <2> QED
    BY <2>1
<1>6. Cardinality(Far) = L
  <2>1. DOMAIN node = 0..C
    BY <1>4
  <2>2. Far = 0..L - 1
    <3>1. \A k \in 0..C : node[k] # q <=> k < L
      BY <1>0, <1>5 DEF NodeAt
    <3> QED
      BY <1>0, <2>1, <3>1
  <2> HIDE DEF Far
  <2>3. PICK h : h = L - 1
    OBVIOUS
  <2>4. Far = 0..h /\ h \in Int /\ 0 \in Int
    BY <1>0, <2>2, <2>3
  <2> QED
    BY <1>0, <2>3, <2>4, FS_Interval
<1>7. \A k \in 1..L : node[k - 1] = s[k]
  BY <1>0, <1>5 DEF NodeAt
<1>8. ListBy(f, q) = [k \in 1..L |-> s[k]]
  BY <1>1, <1>6, <1>7
<1> QED
  BY <1>0, <1>8, LenProperties


-----------------------------------------------------------------------------
(* Types: the operations name nodes that exist, and an insertion is undone only *)
(* where the secondary header has both of its nodes.                           *)

Both == shb.insert_que # NoNode /\ shb.insert_prior # NoNode

Fits(w) ==
  \/ \E q \in Heads, n \in Links : w = Inserting(q, n)
  \/ \E n \in Links : w = Removing(n)
  \/ w = Undoing

TInv ==
  /\ TypeOK
  /\ shb.remove_node \in Links \cup {NoNode} /\ shb.insert_que \in Heads \cup {NoNode}
  /\ \A i \in 1..Len(work) : Fits(work[i]) /\ (i > 1 => work[i].op # "undo")
  /\ work # <<>> /\ Head(work).op = "undo" /\ at <= 2 => Both
  /\ bug => work = <<>>

\* An operation that fits is one.
LEMMA FitsIsOperation ==
  ASSUME NEW w, Fits(w)
  PROVE  w \in Operations
BY DEF Fits, Operations, Inserting, Removing, Undoing, Nodes

\* The operation under way, and those after it, are operations that fit.
LEMMA HeadFitsType ==
  ASSUME TInv, work # <<>>
  PROVE  /\ Fits(Head(work)) /\ Head(work) \in Operations
         /\ Tail(work) \in Seq(Operations)
         /\ \A i \in 1..Len(Tail(work)) :
                                                Fits(Tail(work)[i]) /\ Tail(work)[i].op # "undo"
         /\ Head(work).op = "insert" =>
              /\ Head(work).que \in Heads /\ Head(work).node \in Links
              /\ Head(work) = Inserting(Head(work).que, Head(work).node)
         /\ Head(work).op = "remove" => 
              Head(work).node \in Links /\ Head(work) = Removing(Head(work).node)
         /\ Head(work).op = "undo" => Head(work) = Undoing
<1>1. work \in Seq(Operations)
  BY DEF TInv, TypeOK
<1>2. /\ Tail(work) \in Seq(Operations) /\ Len(Tail(work)) = Len(work) - 1
      /\ \A i \in 1..Len(Tail(work)) : Tail(work)[i] = work[i + 1]
      /\ Len(work) \in Nat /\ Len(work) > 0 /\ Head(work) = work[1]
  BY <1>1, HeadTailProperties, EmptySeq
<1>3. Fits(Head(work))
  BY <1>2 DEF TInv
<1>4. \A i \in 1..Len(Tail(work)) : Fits(Tail(work)[i]) /\ Tail(work)[i].op # "undo"
  <2> TAKE i \in 1..Len(Tail(work))
  <2>1. i + 1 \in 1..Len(work) /\ i + 1 > 1 /\ Tail(work)[i] = work[i + 1]
    BY <1>2
  <2> QED
    BY <2>1 DEF TInv
<1>5. Head(work) \in Operations
  BY <1>3, FitsIsOperation
<1>6. ASSUME NEW w, Fits(w)
      PROVE  /\ w.op = "insert" => /\ w.que \in Heads /\ w.node \in Links
                                   /\ w = Inserting(w.que, w.node)
             /\ w.op = "remove" => w.node \in Links /\ w = Removing(w.node)
             /\ w.op = "undo" => w = Undoing
  <2>1. CASE \E q \in Heads, n \in Links : w = Inserting(q, n)
    BY <2>1 DEF Inserting
  <2>2. CASE \E n \in Links : w = Removing(n)
    BY <2>2 DEF Removing
  <2>3. CASE w = Undoing
    BY <2>3 DEF Undoing
  <2> QED
    BY <1>6, <2>1, <2>2, <2>3 DEF Fits
<1> QED
  BY <1>2, <1>3, <1>4, <1>5, <1>6

\* Three operations and their rests.
LEMMA ThreeOperations ==
  ASSUME NEW x, NEW y, NEW z
  PROVE  /\ Len(<<x, y, z>>) = 3 /\ Len(<<y, z>>) = 2 /\ Len(<<z>>) = 1
         /\ Head(<<x, y, z>>) = x /\ Tail(<<x, y, z>>) = <<y, z>>
         /\ Head(<<y, z>>) = y /\ Tail(<<y, z>>) = <<z>>
         /\ Head(<<z>>) = z /\ Tail(<<z>>) = <<>>
         /\ <<x, y, z>> # <<>> /\ <<y, z>> # <<>> /\ <<z>> # <<>>
OBVIOUS

\* The operations of a call fit, and none begins with a repair.
LEMMA CallsFit ==
  /\ \A o \in Owners, r \in Requests : \A i \in 1..Len(EnqOperations(o, r)) :
       /\ Fits(EnqOperations(o, r)[i])
       /\ EnqOperations(o, r)[i].op # "undo"
  /\ \A o \in Owners, r \in Requests : EnqOperations(o, r) \in Seq(Operations)
  /\ \A o, r : EnqOperations(o, r) # <<>> /\ Head(EnqOperations(o, r)).op = "remove"
  /\ \A r \in Requests : \A i \in 1..Len(ReleaseOperations(r)) :
                           Fits(ReleaseOperations(r)[i]) /\ ReleaseOperations(r)[i].op # "undo"
  /\ \A r \in Requests : ReleaseOperations(r) \in Seq(Operations)
  /\ \A r : ReleaseOperations(r) # <<>> /\ Head(ReleaseOperations(r)).op = "remove"
<1>1. ASSUME NEW o \in Owners, NEW r \in Requests
      PROVE  /\ \A i \in 1..Len(EnqOperations(o, r)) :
                  Fits(EnqOperations(o, r)[i]) /\ EnqOperations(o, r)[i].op # "undo"
             /\ EnqOperations(o, r) \in Seq(Operations)
  <2>1. /\ Fits(Removing(Lbl(r)))
        /\ Fits(Inserting(Own(o), OwnLink(r))) /\ Fits(Inserting(Lock, Lbl(r)))
    BY DifferentNodes DEF Fits
  <2> QED
    BY <2>1, FitsIsOperation DEF EnqOperations, Inserting, Removing
<1>2. ASSUME NEW r \in Requests
      PROVE  /\ \A i \in 1..Len(ReleaseOperations(r)) :
                  Fits(ReleaseOperations(r)[i]) /\ ReleaseOperations(r)[i].op # "undo"
             /\ ReleaseOperations(r) \in Seq(Operations)
  <2>1. Fits(Removing(Lbl(r))) /\ Fits(Removing(OwnLink(r))) /\ Fits(Inserting(Free, Lbl(r)))
    BY DifferentNodes DEF Fits
  <2> QED
    BY <2>1, FitsIsOperation DEF ReleaseOperations, Inserting, Removing
<1> QED
  <2>1. ASSUME NEW o, NEW r
        PROVE  /\ EnqOperations(o, r) # <<>> /\ Head(EnqOperations(o, r)).op = "remove"
               /\ ReleaseOperations(r) # <<>> /\ Head(ReleaseOperations(r)).op = "remove"
    BY ThreeOperations DEF EnqOperations, ReleaseOperations, Removing
  <2> QED
    BY <1>1, <1>2, <2>1

-----------------------------------------------------------------------------
(* The start. *)

FreeLinks == {Lbl(r) : r \in Requests}
FreeOrder == SetToSeq(FreeLinks)

\* The free queue at the start: every request once.
LEMMA InitialOrderIs ==
  /\ FreeOrder \in Seq(Links) /\ Len(FreeOrder) \in Nat
  /\ \A i \in 1..Len(FreeOrder) : FreeOrder[i] \in FreeLinks
  /\ \A i, j \in 1..Len(FreeOrder) : FreeOrder[i] = FreeOrder[j] => i = j
  /\ Len(InitialOrder) = Len(FreeOrder) + 1 /\ DOMAIN InitialOrder = 1..Len(FreeOrder) + 1
  /\ InitialOrder[1] = Free /\ \A i \in 1..Len(FreeOrder) : InitialOrder[i + 1] = FreeOrder[i]
<1> DEFINE s == FreeOrder
           C == Cardinality(FreeLinks)
<1>1. IsFiniteSet(FreeLinks) /\ FreeLinks \subseteq Links
  BY LinksAreFinite, FS_Subset DEF Links, FreeLinks
<1>2. C \in Nat /\ \E f \in [1..C -> FreeLinks] : IsInjective(f)
  BY <1>1, FS_CardinalityType DEF ExistsBijection, Bijection, Injection
<1>3. s \in [1..C -> FreeLinks] /\ IsInjective(s)
  BY <1>2 DEF SetToSeq, FreeOrder
<1> HIDE DEF s, C
<1>4. s \in Seq(Links) /\ Len(s) = C /\ DOMAIN s = 1..C
  <2>1. s \in [1..C -> Links]
    BY <1>1, <1>3
  <2> QED
    BY <1>2, <2>1, SeqDef, LenProperties
<1>5. InitialOrder = <<Free>> \o s
  BY DEF InitialOrder, FreeLinks, s, FreeOrder
<1>6. <<Free>> \in Seq(Nodes) /\ Len(<<Free>>) = 1 /\ <<Free>>[1] = Free /\ s \in Seq(Nodes)
  BY <1>4, DifferentNodes, SeqMonotonic DEF Nodes
<1>7. /\ <<Free>> \o s \in Seq(Nodes) /\ Len(<<Free>> \o s) = 1 + C
      /\ \A i \in 1..1 + C : (<<Free>> \o s)[i] = IF i <= 1 THEN <<Free>>[i] ELSE s[i - 1]
  BY <1>4, <1>6, ConcatProperties
<1>8. DOMAIN InitialOrder = 1..C + 1
  BY <1>2, <1>5, <1>7, LenProperties
<1>9. \A i \in 1..C : InitialOrder[i + 1] = s[i]
  <2> TAKE i \in 1..C
  <2>1. i + 1 \in 1..1 + C /\ ~(i + 1 <= 1) /\ i + 1 - 1 = i
    BY <1>2
  <2> QED
    BY <1>5, <1>7, <2>1
<1> QED
  <2>1. s \in Seq(Links) /\ Len(s) \in Nat /\ \A i \in 1..Len(s) : s[i] \in FreeLinks
    BY <1>2, <1>3, <1>4
  <2>2. \A i, j \in 1..Len(s) : s[i] = s[j] => i = j
    BY <1>3, <1>4 DEF IsInjective
  <2>3. 1 \in 1..1 + C
    BY <1>2
  <2>4. Len(InitialOrder) = Len(s) + 1 /\ InitialOrder[1] = Free
    BY <1>2, <1>4, <1>5, <1>6, <1>7, <2>3
  <2> QED
    BY <1>4, <1>8, <1>9, <2>1, <2>2, <2>4 DEF s

\* The remainders that close a ring.
LEMMA Modulo ==
  /\ \A a, b \in Nat : a < b => a % b = a
  /\ \A b \in Nat : b > 0 => b % b = 0
  /\ \A a, b \in Nat : a < b => (a + b) % b = a
OBVIOUS

\* The neighbours in the ring of the start.
LEMMA CyclicIs ==
  ASSUME NEW k \in DOMAIN InitialOrder
  PROVE  /\ InitialOrder[k] \in Nodes
         /\ Cyclic(InitialOrder[k], 1) = InitialOrder[IF k = Len(InitialOrder) THEN 1 ELSE k + 1]
         /\ Cyclic(InitialOrder[k], Len(InitialOrder) - 1)
              = InitialOrder[IF k = 1 THEN Len(InitialOrder) ELSE k - 1]
         /\ Len(InitialOrder) \in Nat /\ DOMAIN InitialOrder = 1..Len(InitialOrder)
<1> DEFINE s == FreeOrder
           L == Len(InitialOrder)
<1>1. /\ Len(s) \in Nat /\ \A i \in 1..Len(s) : s[i] \in FreeLinks /\ s[i] \in Links /\ s[i] # Free
      /\ \A i, j \in 1..Len(s) : s[i] = s[j] => i = j
      /\ L = Len(s) + 1 /\ DOMAIN InitialOrder = 1..L
      /\ InitialOrder[1] = Free /\ \A i \in 1..Len(s) : InitialOrder[i + 1] = s[i]
  BY InitialOrderIs, DifferentNodes, HeadsAreNoLinks DEF FreeLinks
<1> HIDE DEF s, L
<1>2. \A i \in 1..L : InitialOrder[i] = IF i = 1 THEN Free ELSE s[i - 1]
  BY <1>1
<1>3. \A i, j \in 1..L : InitialOrder[i] = InitialOrder[j] => i = j
  <2> SUFFICES ASSUME NEW i \in 1..L, NEW j \in 1..L, InitialOrder[i] = InitialOrder[j] PROVE i = j
    OBVIOUS
  <2>1. /\ i # 1 => i - 1 \in 1..Len(s) /\ InitialOrder[i] = s[i - 1]
        /\ j # 1 => j - 1 \in 1..Len(s) /\ InitialOrder[j] = s[j - 1]
    BY <1>1, <1>2
  <2>2. i \in Nat /\ j \in Nat
    BY <1>1
  <2> QED
    BY <1>1, <2>1, <2>2
<1>4. (CHOOSE j \in DOMAIN InitialOrder : InitialOrder[j] = InitialOrder[k]) = k
  BY <1>1, <1>3
<1>5. \A step : Cyclic(InitialOrder[k], step) = InitialOrder[((k - 1 + step) % L) + 1]
  BY <1>4 DEF Cyclic, L
<1>6. k \in Nat /\ L \in Nat /\ k >= 1 /\ k <= L /\ k \in 1..L
  BY <1>1
<1>7. ((k - 1 + 1) % L) + 1 = IF k = L THEN 1 ELSE k + 1
  BY <1>6, Modulo
<1>8. ((k - 1 + (L - 1)) % L) + 1 = IF k = 1 THEN L ELSE k - 1
  <2>1. CASE k = 1
    <3>1. k - 1 + (L - 1) = L - 1 /\ L - 1 \in Nat /\ L - 1 < L
      BY <1>6, <2>1
    <3> QED
      BY <1>6, <2>1, <3>1, Modulo
  <2>2. CASE k # 1
    <3>1. PICK h : h = k - 2
      OBVIOUS
    <3>2. k - 1 + (L - 1) = h + L /\ h \in Nat /\ h < L
      BY <1>6, <2>2, <3>1
    <3>3. (h + L) % L = h
      BY <1>6, <3>2, Modulo
    <3> QED
      BY <1>6, <2>2, <3>1, <3>2, <3>3
  <2> QED
    BY <2>1, <2>2
<1>9. InitialOrder[k] \in Nodes
  BY <1>1, <1>2, <1>6, DifferentNodes DEF Nodes
<1> QED
  BY <1>1, <1>5, <1>6, <1>7, <1>8, <1>9 DEF L

InitialLine == [q \in Heads |-> IF q = Free THEN FreeOrder ELSE <<>>]

\* The links of the start lay out the free queue and empty ones.
LEMMA InitialLinks ==
  ASSUME Init
  PROVE  fwd \in [Nodes -> Nodes] /\ bwd \in [Nodes -> Nodes] /\ LaidBy(fwd, bwd, InitialLine)
<1> DEFINE s == FreeOrder
           L == Len(InitialOrder)
<1>1. /\ s \in Seq(Links)
      /\ Len(s) \in Nat /\ \A i \in 1..Len(s) : s[i] \in Links /\ s[i] # Free
      /\ \A i, j \in 1..Len(s) : s[i] = s[j] => i = j
      /\ L = Len(s) + 1 /\ DOMAIN InitialOrder = 1..L
      /\ InitialOrder[1] = Free /\ \A i \in 1..Len(s) : InitialOrder[i + 1] = s[i]
  BY InitialOrderIs, DifferentNodes, HeadsAreNoLinks DEF FreeLinks, Links
<1> HIDE DEF s, L
<1>2. /\ fwd = [n \in Nodes |-> IF n \in Range(InitialOrder) THEN Cyclic(n, 1) ELSE n]
      /\ bwd = [n \in Nodes |-> IF n \in Range(InitialOrder) THEN Cyclic(n, L - 1) ELSE n]
  BY DEF Init, L
<1>3. \A k \in 1..L : /\ InitialOrder[k] \in Nodes /\ InitialOrder[k] \in Range(InitialOrder)
                      /\ Cyclic(InitialOrder[k], 1) = InitialOrder[IF k = L THEN 1 ELSE k + 1]
                      /\ Cyclic(InitialOrder[k], L - 1) = InitialOrder[IF k = 1 THEN L ELSE k - 1]
  <2> TAKE k \in 1..L
  <2>1. k \in DOMAIN InitialOrder
    BY <1>1
  <2> QED
    BY <2>1, CyclicIs DEF L, Range
<1>4. \A n \in Range(InitialOrder) : \E k \in 1..L : n = InitialOrder[k]
  BY <1>1 DEF Range
<1>5. /\ \A k \in 1..L : (IF k = L THEN 1 ELSE k + 1) \in 1..L
      /\ \A k \in 1..L : (IF k = 1 THEN L ELSE k - 1) \in 1..L
  BY <1>1
<1>6. \A n \in Range(InitialOrder) :
        n \in Nodes /\ Cyclic(n, 1) \in Nodes /\ Cyclic(n, L - 1) \in Nodes
  BY <1>3, <1>4, <1>5
<1>7. fwd \in [Nodes -> Nodes] /\ bwd \in [Nodes -> Nodes]
  BY <1>2, <1>6
<1>8. /\ InitialLine \in Lines /\ InitialLine[Free] = s
      /\ \A q \in Heads : q # Free => InitialLine[q] = <<>>
  BY <1>1, DifferentNodes, EmptySeq DEF InitialLine, Lines, s
<1>9. Apart(InitialLine)
  <2>1. \A q \in Heads : \A i \in 1..Len(InitialLine[q]) : q = Free
    BY <1>8, EmptySeq
  <2> QED
    BY <1>1, <1>8, <2>1 DEF Apart
<1>10. Linked(fwd, bwd, Free, s)
  <2> SUFFICES ASSUME NEW k \in 0..Len(s)
               PROVE  /\ fwd[NodeAt(Free, s, k)] = NodeAt(Free, s, k + 1)
                      /\ bwd[NodeAt(Free, s, k + 1)] = NodeAt(Free, s, k)
    BY DEF Linked
  <2>1. \A j \in 0..Len(s) : NodeAt(Free, s, j) = InitialOrder[j + 1]
    BY <1>1 DEF NodeAt
  <2>2. NodeAt(Free, s, k + 1) = InitialOrder[IF k + 1 = L THEN 1 ELSE k + 2]
    <3>1. CASE k = Len(s)
      BY <1>1, <3>1 DEF NodeAt
    <3>2. CASE k # Len(s)
      <4>1. k + 1 \in 0..Len(s) /\ k + 1 + 1 = k + 2 /\ k + 1 # L
        BY <1>1, <3>2
      <4> QED
        BY <2>1, <4>1
    <3> QED
      BY <3>1, <3>2
  <2>3. k + 1 \in 1..L /\ k + 1 + 1 = k + 2
    BY <1>1
  <2>4. fwd[InitialOrder[k + 1]] = InitialOrder[IF k + 1 = L THEN 1 ELSE k + 2]
    BY <1>2, <1>3, <2>3
  <2>5. bwd[NodeAt(Free, s, k + 1)] = InitialOrder[k + 1]
    <3>1. CASE k + 1 = L
      <4>1. 1 \in 1..L
        BY <1>1
      <4>2. bwd[InitialOrder[1]] = InitialOrder[L]
        BY <1>2, <1>3, <4>1
      <4> QED
        BY <2>2, <3>1, <4>2
    <3>2. CASE k + 1 # L
      <4>1. k + 2 \in 1..L /\ k + 2 # 1 /\ k + 2 - 1 = k + 1
        BY <1>1, <3>2
      <4>2. bwd[InitialOrder[k + 2]] = InitialOrder[k + 1]
        BY <1>2, <1>3, <4>1
      <4> QED
        BY <2>2, <3>2, <4>2
    <3> QED
      BY <3>1, <3>2
  <2> QED
    BY <2>1, <2>2, <2>4, <2>5
<1>11. \A q \in Heads : q # Free => Linked(fwd, bwd, q, <<>>)
  <2> SUFFICES ASSUME NEW q \in Heads, q # Free PROVE Linked(fwd, bwd, q, <<>>)
    OBVIOUS
  <2>1. \A i \in 1..L : InitialOrder[i] # q
    <3> TAKE i \in 1..L
    <3>1. CASE i = 1
      BY <1>1, <3>1
    <3>2. CASE i # 1
      <4>1. i - 1 \in 1..Len(s) /\ i - 1 + 1 = i
        BY <1>1, <3>2
      <4> QED
        BY <1>1, <4>1, HeadsAreNoLinks
    <3> QED
      BY <3>1, <3>2
  <2>2. q \notin Range(InitialOrder) /\ q \in Nodes
    BY <1>4, <2>1 DEF Nodes
  <2> QED
    BY <1>2, <2>2 DEF Linked, NodeAt
<1> QED
  BY <1>7, <1>8, <1>9, <1>10, <1>11 DEF LaidBy


-----------------------------------------------------------------------------
(* The types stay. *)

\* A write of a queue operation keeps the types if its links and header do.
LEMMA WriteType ==
  ASSUME TInv, work # <<>>, (Wrote /\ at < 8) \/ Done,
         fwd' \in [Nodes -> Nodes], bwd' \in [Nodes -> Nodes],
         shb' \in SHB, shb'.remove_node \in Links \cup {NoNode},
         shb'.insert_que \in Heads \cup {NoNode},
         Head(work).op = "undo" /\ at = 1 => shb' = shb
  PROVE  TInv'
<1>1. work \in Seq(Operations) /\ at \in 1..8 /\ bug = FALSE
  BY DEF TInv, TypeOK
<1>2. /\ active' \in Owners \cup {NoOwner} /\ holder' \in Owners \cup {NoOwner}
      /\ stage' \in {"repair", "call", "purge"} /\ held' \in [Owners -> SUBSET Requests]
      /\ dead' \subseteq Owners /\ deaths' \in 0..Deaths /\ bug' = FALSE
  BY <1>1 DEF Wrote, Done, Other, TInv, TypeOK
<1>3. /\ work' \in Seq(Operations) /\ at' \in 1..8
      /\ \A i \in 1..Len(work') : Fits(work'[i]) /\ (i > 1 => work'[i].op # "undo")
      /\ work' # <<>> /\ Head(work').op = "undo" /\ at' <= 2 => Both'
  <2>1. CASE Wrote /\ at < 8
    <3>1. at \in 1..8 /\ at' = at + 1 /\ work' = work
      BY <2>1 DEF Wrote, TInv, TypeOK
    <3> QED
      BY <1>1, <2>1, <3>1 DEF TInv, Both
  <2>2. CASE Done
    <3>1. at' = 1 /\ work' = Tail(work)
      BY <2>2 DEF Done
    <3>2. /\ Tail(work) \in Seq(Operations)
          /\ \A i \in 1..Len(Tail(work)) : Fits(Tail(work)[i]) /\ Tail(work)[i].op # "undo"
      BY HeadFitsType
    <3>3. PICK t : t = work'
      OBVIOUS
    <3>4. t \in Seq(Operations) /\ \A i \in 1..Len(t) : Fits(t[i]) /\ t[i].op # "undo"
      BY <3>1, <3>2, <3>3
    <3>5. t # <<>> => Head(t) = t[1] /\ 1 \in 1..Len(t)
      BY <3>4, EmptySeq
    <3>6. t # <<>> => Head(t).op # "undo"
      BY <3>4, <3>5
    <3> QED
      BY <3>1, <3>3, <3>4, <3>6
  <2> QED
    BY <2>1, <2>2
<1>4. TypeOK'
  BY <1>2, <1>3 DEF TypeOK
<1> QED
  BY <1>2, <1>3, <1>4 DEF TInv

\* insert_tail keeps the types.
LEMMA InsertType ==
  ASSUME TInv, insert_tail
  PROVE  TInv'
<1> DEFINE q == Head(work).que
           n == Head(work).node
<1>1. work # <<>> /\ Head(work).op = "insert"
  BY DEF insert_tail, Doing
<1>2. /\ q \in Heads /\ n \in Links /\ q \in Nodes /\ n \in Nodes
      /\ fwd \in [Nodes -> Nodes] /\ bwd \in [Nodes -> Nodes] /\ shb \in SHB
      /\ bwd[q] \in Nodes
      /\ shb.remove_node \in Links \cup {NoNode} /\ shb.insert_que \in Heads \cup {NoNode}
  BY <1>1, HeadFitsType DEF TInv, TypeOK, Nodes
<1>3. (Wrote /\ at < 8) \/ Done
  BY DEF insert_tail, Doing
<1>4. fwd' \in [Nodes -> Nodes] /\ bwd' \in [Nodes -> Nodes]
  BY <1>2 DEF insert_tail, links
<1>5. /\ shb' \in SHB /\ shb'.remove_node \in Links \cup {NoNode}
      /\ shb'.insert_que \in Heads \cup {NoNode}
  BY <1>2 DEF insert_tail, SHB
<1> QED
  BY <1>1, <1>3, <1>4, <1>5, WriteType

\* remove_que keeps the types.
LEMMA RemoveType ==
  ASSUME TInv, remove_que
  PROVE  TInv'
<1> DEFINE n == Head(work).node
<1>1. work # <<>> /\ Head(work).op = "remove"
  BY DEF remove_que, Doing
<1>2. /\ n \in Links /\ n \in Nodes
      /\ fwd \in [Nodes -> Nodes] /\ bwd \in [Nodes -> Nodes] /\ shb \in SHB
      /\ bwd[n] \in Nodes /\ fwd[n] \in Nodes
      /\ shb.remove_node \in Links \cup {NoNode} /\ shb.insert_que \in Heads \cup {NoNode}
  BY <1>1, HeadFitsType DEF TInv, TypeOK, Nodes
<1>3. (Wrote /\ at < 8) \/ Done
  BY DEF remove_que, Doing
<1>4. fwd' \in [Nodes -> Nodes] /\ bwd' \in [Nodes -> Nodes]
  BY <1>2 DEF remove_que, links
<1>5. /\ shb' \in SHB /\ shb'.remove_node \in Links \cup {NoNode}
      /\ shb'.insert_que \in Heads \cup {NoNode}
  BY <1>2 DEF remove_que, SHB
<1> QED
  BY <1>1, <1>3, <1>4, <1>5, WriteType

\* The repair of an insertion has both of its nodes.
LEMMA UndoType ==
  ASSUME TInv, undo_insert
  PROVE  TInv'
<1> DEFINE que == shb.insert_que
           prior == shb.insert_prior
<1>1. work # <<>> /\ Head(work).op = "undo"
  BY DEF undo_insert, Doing
<1>2. /\ fwd \in [Nodes -> Nodes] /\ bwd \in [Nodes -> Nodes] /\ shb \in SHB
      /\ shb.remove_node \in Links \cup {NoNode} /\ shb.insert_que \in Heads \cup {NoNode}
      /\ at <= 2 => que \in Nodes /\ prior \in Nodes
  BY <1>1 DEF TInv, TypeOK, Both, SHB
<1>3. (Wrote /\ at < 8) \/ Done
  BY DEF undo_insert, Doing
<1>4. fwd' \in [Nodes -> Nodes] /\ bwd' \in [Nodes -> Nodes]
  BY <1>2 DEF undo_insert, links, Doing
<1>5. /\ shb' \in SHB /\ shb'.remove_node \in Links \cup {NoNode}
      /\ shb'.insert_que \in Heads \cup {NoNode}
      /\ at = 1 => shb' = shb
  BY <1>2 DEF undo_insert, SHB, Doing
<1> QED
  BY <1>1, <1>3, <1>4, <1>5, WriteType

\* A failed CHECK keeps the types.
LEMMA CheckFailsType ==
  ASSUME TInv, CheckFails
  PROVE  TInv'
BY EmptySeq DEF TInv, TypeOK, CheckFails, links, Both

\* A step that may change all but the links and the secondary header.
LEMMA CallType ==
  ASSUME TInv, UNCHANGED <<links, shb>>, at' \in 1..8,
         active' \in Owners \cup {NoOwner}, holder' \in Owners \cup {NoOwner},
         stage' \in {"repair", "call", "purge"}, held' \in [Owners -> SUBSET Requests],
         dead' \subseteq Owners, deaths' \in 0..Deaths, bug' \in BOOLEAN,
         work' \in Seq(Operations),
         \A i \in 1..Len(work') : Fits(work'[i]) /\ (i > 1 => work'[i].op # "undo"),
         work' # <<>> => bug' = FALSE,
         work' # <<>> /\ Head(work').op = "undo" /\ at' <= 2 => Both
  PROVE  TInv'
BY DEF TInv, TypeOK, links, Both

\* What acquire finds to repair is complete.
LEMMA AcquireType ==
  ASSUME TInv, NEW o \in Owners, acquire(o)
  PROVE  TInv'
<1>1. /\ holder' = o /\ active' = o /\ at' = 1 /\ stage' = "repair" /\ bug' = bug /\ bug = FALSE
      /\ UNCHANGED <<links, shb, held, dead, deaths>> /\ work' = Repair
  BY DEF acquire, TInv, TypeOK
<1>2. \/ work' = <<>>
      \/ work' = <<Removing(shb.remove_node)>> /\ shb.remove_node \in Links
      \/ work' = <<Undoing>> /\ Both
  BY <1>1 DEF Repair, Both, TInv
<1>3. /\ work' \in Seq(Operations) 
      /\ \A i \in 1..Len(work') : Fits(work'[i]) /\ (i > 1 => work'[i].op # "undo")
      /\ work' # <<>> /\ Head(work').op = "undo" => Both
  <2>1. CASE work' = <<>>
    BY <2>1, EmptySeq
  <2>2. CASE work' = <<Removing(shb.remove_node)>> /\ shb.remove_node \in Links
    <3>1. Fits(Removing(shb.remove_node)) /\ Removing(shb.remove_node).op = "remove"
      BY <2>2 DEF Fits, Removing
    <3> QED
      BY <2>2, <3>1, FitsIsOperation
  <2>3. CASE work' = <<Undoing>> /\ Both
    <3>1. Fits(Undoing)
      BY DEF Fits
    <3> QED
      BY <2>3, <3>1, FitsIsOperation
  <2> QED
    BY <1>2, <2>1, <2>2, <2>3
<1> QED
  <2>1. /\ active' \in Owners \cup {NoOwner} /\ holder' \in Owners \cup {NoOwner}
        /\ held' \in [Owners -> SUBSET Requests] /\ dead' \subseteq Owners
        /\ deaths' \in 0..Deaths /\ bug' = FALSE /\ at' \in 1..8
        /\ stage' \in {"repair", "call", "purge"}
    BY <1>1 DEF TInv, TypeOK
  <2> QED
    BY <1>1, <1>3, <2>1, CallType

\* The calls keep the types.
LEMMA LockType ==
  ASSUME TInv, NEW o \in Owners, LOCK_enq(o) \/ LOCK_deq(o) \/ purge_owner(o)
  PROVE  TInv'
<1>1. /\ UNCHANGED <<links, shb, active, holder, at, dead, deaths, bug>> /\ bug = FALSE
      /\ stage' \in {"repair", "call", "purge"} /\ held' \in [Owners -> SUBSET Requests]
      /\ \/ \E r \in Requests : work' = EnqOperations(o, r)
         \/ \E r \in Requests : work' = ReleaseOperations(r)
  BY DEF LOCK_enq, LOCK_deq, purge_owner, Ready, TInv, TypeOK
<1>2. /\ work' \in Seq(Operations)
      /\ \A i \in 1..Len(work') : Fits(work'[i]) /\ (i > 1 => work'[i].op # "undo")
      /\ Head(work').op # "undo"
  BY <1>1, CallsFit
<1> QED
  BY <1>1, <1>2, CallType DEF TInv, TypeOK

\* Leaving the table, and dying, keep the types.
LEMMA RestType ==
  ASSUME TInv, NEW o \in Owners, release(o) \/ Restart(o) \/ Die(o)
  PROVE  TInv'
<1>1. CASE release(o)
  BY <1>1, EmptySeq DEF release, TInv, TypeOK, links, Both
<1>2. CASE Restart(o)
  BY <1>2 DEF Restart, TInv, TypeOK, links, Both
<1>3. CASE Die(o)
  <2>1. deaths' \in 0..Deaths /\ held' \in [Owners -> SUBSET Requests] /\ dead' \subseteq Owners
    BY <1>3, ConstantAssumption DEF Die, TInv, TypeOK
  <2>2. CASE holder = o
    BY <1>3, <2>1, <2>2, EmptySeq, CallType DEF Die, TInv, TypeOK
  <2>3. CASE holder # o
    BY <1>3, <2>1, <2>3, CallType DEF Die, TInv, TypeOK
  <2> QED
    BY <2>2, <2>3
<1> QED
  BY <1>1, <1>2, <1>3

\* The secondary header names nodes of the table, and what a process finds there to repair
\* is complete (acquire), for any number of deaths.
LEMMA TypesStay == Spec => []TInv
<1>1. Init => TInv
  <2> SUFFICES ASSUME Init PROVE TInv
    OBVIOUS
  <2>1. fwd \in [Nodes -> Nodes] /\ bwd \in [Nodes -> Nodes]
    BY InitialLinks
  <2>2. shb \in SHB
    BY DEF Init, SHB
  <2>3. work \in Seq(Operations)
    BY EmptySeq DEF Init
  <2>6. work = <<>> /\ Len(work) = 0
    BY EmptySeq DEF Init
  <2>4. /\ active = NoOwner /\ holder = NoOwner /\ at = 1 /\ stage = "repair"
        /\ held \in [Owners -> SUBSET Requests] /\ dead = {} /\ deaths \in 0..Deaths /\ bug = FALSE
        /\ shb.remove_node = NoNode /\ shb.insert_que = NoNode
    BY ConstantAssumption DEF Init
  <2>7. /\ active \in Owners \cup {NoOwner} /\ holder \in Owners \cup {NoOwner}
        /\ at \in 1..8 /\ stage \in {"repair", "call", "purge"}
        /\ dead \subseteq Owners
    BY <2>4
  <2>8. bug \in BOOLEAN
    BY <2>4
  <2>5. TypeOK
    BY <2>1, <2>2, <2>3, <2>4, <2>7, <2>8 DEF TypeOK
  <2> QED
    BY <2>4, <2>5, <2>6 DEF TInv
<1>2. TInv /\ [Next]_vars => TInv'
  <2>1. ASSUME TInv, Next PROVE TInv'
    BY <2>1, InsertType, RemoveType, UndoType, CheckFailsType, AcquireType, LockType, RestType
       DEF Next
  <2>2. ASSUME TInv, UNCHANGED vars PROVE TInv'
    BY <2>2 DEF TInv, TypeOK, vars, links, Both
  <2> QED
    BY <2>1, <2>2
<1> QED
  BY <1>1, <1>2, PTL DEF Spec

\* The state of the lock table has its types, whoever dies and however often: no
\* operation names a node the table does not have.
THEOREM QueueTypes == Spec => []TypeOK
<1>1. TInv => TypeOK
  BY DEF TInv
<1> QED
  BY <1>1, TypesStay, PTL


-----------------------------------------------------------------------------
(* The inductive invariant: there are queues line that the links lay out, once they are *)
(* repaired, and what is under way fits them.                                          *)

Laid(line) == LaidBy(Forward, Backward, line)

Clear == shb.remove_node = NoNode /\ ~Both

InsertFits(line, q, n) ==
  /\ shb.remove_node = NoNode
  /\ at = 1 => ~Both
  /\ at \in 2..7 => shb.insert_que = q
  /\ at \in 3..7 => shb.insert_prior \in Nodes
  /\ at \in 3..5 => bwd[q] = shb.insert_prior
  /\ at \in 4..7 => fwd[n] = q
  /\ at \in 5..7 => bwd[n] = shb.insert_prior
  /\ at \in 6..7 => fwd[shb.insert_prior] = n
  /\ at = 7 => bwd[q] = n
  /\ at = 8 => shb.insert_que = NoNode /\ On(line, q, n)
  /\ at < 8 => Off(line, n)
RemoveFits(line, n) ==
  /\ ~Both /\ at <= 6
  /\ at = 1 => shb.remove_node \in {NoNode, n}
  /\ at \in 2..4 => shb.remove_node = n
  /\ at \in 5..6 => shb.remove_node = NoNode
  /\ at \in 3..4 => bwd[fwd[n]] = bwd[n]
  /\ at = 4 => fwd[bwd[n]] = fwd[n]
  /\ at > 1 => Off(line, n)
UndoFits ==
  /\ shb.remove_node = NoNode /\ at <= 4
  /\ at <= 3 => Both
  /\ at \in 2..3 => bwd[shb.insert_que] = shb.insert_prior
  /\ at = 3 => fwd[shb.insert_prior] = shb.insert_que
  /\ at = 4 => shb.insert_que = NoNode
HeadFits(line) ==
  work # <<>> =>
    /\ Head(work).op = "insert" => InsertFits(line, Head(work).que, Head(work).node)
    /\ Head(work).op = "remove" => RemoveFits(line, Head(work).node)
    /\ Head(work).op = "undo" => UndoFits

(* Nothing is left to repair but by the next process. *)
Idle == work = <<>> /\ (holder # NoOwner \/ active = NoOwner) => Clear
RemovedIsOff(line) ==
  shb.remove_node # NoNode => shb.remove_node \in Links /\ Off(line, shb.remove_node) /\ ~Both
HeaderFits(line) == HeadFits(line) /\ Idle /\ RemovedIsOff(line)

HolderFits ==
  /\ work # <<>> => holder # NoOwner
  /\ work = <<>> => at = 1
  /\ holder # NoOwner => active = holder /\ holder \notin dead
  /\ \A o \in dead : held[o] = {}

EnqFits(line, o, r) ==
  /\ holder = o
  /\ \/ /\ work = EnqOperations(o, r) /\ Off(line, OwnLink(r))
        /\ at = 1 => On(line, Free, Lbl(r))
     \/ /\ work = <<Inserting(Own(o), OwnLink(r)), Inserting(Lock, Lbl(r))>>
        /\ Off(line, Lbl(r))
     \/ work = <<Inserting(Lock, Lbl(r))>> /\ On(line, Own(o), OwnLink(r))
ReleaseFits(line, r) ==
  /\ \A o \in Owners : r \notin held[o]
  /\ \/ work = ReleaseOperations(r)
     \/ work = <<Removing(OwnLink(r)), Inserting(Free, Lbl(r))>> /\ Off(line, Lbl(r))
     \/ work = <<Inserting(Free, Lbl(r))>> /\ Off(line, OwnLink(r))
RepairFits(line) ==
  \/ \E n \in Links : work = <<Removing(n)>> /\ Off(line, n)
  \/ work = <<Undoing>>
CallFits(line) ==
  \/ work = <<>>
  \/ \E o \in Owners, r \in Requests : EnqFits(line, o, r)
  \/ \E r \in Requests : ReleaseFits(line, r)
  \/ RepairFits(line)

OwnersOnly(line) ==
  \A q \in Heads, r \in Requests : On(line, q, OwnLink(r)) => \E o \in Owners : q = Own(o)
OwnedIn(line, r) == \E o \in Owners : On(line, Own(o), OwnLink(r))
LocksOwned(line) ==
  \A r \in Requests : /\ On(line, Lock, Lbl(r)) => OwnedIn(line, r)
                      /\ On(line, Free, Lbl(r)) => ~OwnedIn(line, r)
Queued(line, o, r) == On(line, Lock, Lbl(r)) /\ On(line, Own(o), OwnLink(r))
Kept(line) ==
  \A o \in Owners, r \in Requests : r \in held[o] => Queued(line, o, r) \/ EnqFits(line, o, r)
QueuesFit(line) == CallFits(line) /\ OwnersOnly(line) /\ LocksOwned(line) /\ Kept(line)

JInv(line) == Laid(line) /\ HeaderFits(line) /\ HolderFits /\ QueuesFit(line)

-----------------------------------------------------------------------------
(* The calls and the queues. *)

\* Who is in a queue after an insertion.
LEMMA AppendOn ==
  ASSUME NEW line \in Lines, NEW q \in Heads, NEW n \in Links,
         NEW new, new = [line EXCEPT ![q] = Append(@, n)]
  PROVE  \A p \in Heads : \A m : On(new, p, m) <=> On(line, p, m) \/ (p = q /\ m = n)
<1>0. line[q] \in Seq(Links) /\ Len(line[q]) \in Nat
  BY LineType
<1>1. /\ Append(line[q], n) \in Seq(Links) /\ Len(Append(line[q], n)) = Len(line[q]) + 1
      /\ \A k \in 1..Len(line[q]) : Append(line[q], n)[k] = line[q][k]
      /\ Append(line[q], n)[Len(line[q]) + 1] = n
  BY <1>0, AppendProperties
<1>2. new[q] = Append(line[q], n) /\ \A p \in Heads : p # q => new[p] = line[p]
  BY DEF Lines
<1>3. \A m : On(new, q, m) <=> On(line, q, m) \/ m = n
  <2> SUFFICES ASSUME NEW m PROVE On(new, q, m) <=> On(line, q, m) \/ m = n
    OBVIOUS
  <2>1. ASSUME On(new, q, m) PROVE On(line, q, m) \/ m = n
    <3>1. PICK i \in 1..Len(line[q]) + 1 : Append(line[q], n)[i] = m
      BY <1>1, <1>2, <2>1 DEF On
    <3>2. i = Len(line[q]) + 1 \/ i \in 1..Len(line[q])
      BY <1>0
    <3> QED
      BY <1>1, <3>1, <3>2 DEF On
  <2>2. ASSUME On(line, q, m) PROVE On(new, q, m)
    <3>1. PICK i \in 1..Len(line[q]) : line[q][i] = m
      BY <2>2 DEF On
    <3>2. i \in 1..Len(line[q]) + 1
      BY <1>0
    <3> QED
      BY <1>1, <1>2, <3>1, <3>2 DEF On
  <2>3. ASSUME m = n PROVE On(new, q, m)
    <3>1. Len(line[q]) + 1 \in 1..Len(line[q]) + 1
      BY <1>0
    <3> QED
      BY <1>1, <1>2, <2>3, <3>1 DEF On
  <2> QED
    BY <2>1, <2>2, <2>3
<1>4. \A p \in Heads : \A m : p # q => (On(new, p, m) <=> On(line, p, m))
  BY <1>2 DEF On
<1> QED
  BY <1>3, <1>4

\* Who is in a queue after a removal.
LEMMA RemoveOn ==
  ASSUME NEW line \in Lines, Apart(line), NEW q \in Heads, NEW i \in 1..Len(line[q]),
         NEW new, new = [line EXCEPT ![q] = RemoveAt(@, i)]
  PROVE  \A p \in Heads : \A m : On(new, p, m) <=> On(line, p, m) /\ m # line[q][i]
<1> DEFINE s == line[q]
           L == Len(line[q])
<1>0. s \in Seq(Links) /\ L \in Nat
  BY LineType
<1>1. /\ Len(RemoveAt(s, i)) = L - 1
      /\ \A k \in 1..L - 1 : RemoveAt(s, i)[k] = IF k < i THEN s[k] ELSE s[k + 1]
  BY <1>0, RemoveAtIs
<1>2. new[q] = RemoveAt(s, i) /\ \A p \in Heads : p # q => new[p] = line[p]
  BY DEF Lines
<1>3. \A k \in 1..L : s[k] = s[i] => k = i
  BY DEF Apart
<1>4. \A m : On(new, q, m) <=> On(line, q, m) /\ m # s[i]
  <2> SUFFICES ASSUME NEW m PROVE On(new, q, m) <=> On(line, q, m) /\ m # s[i]
    OBVIOUS
  <2>1. ASSUME On(new, q, m) PROVE On(line, q, m) /\ m # s[i]
    <3>1. PICK k \in 1..L - 1 : RemoveAt(s, i)[k] = m
      BY <1>1, <1>2, <2>1 DEF On
    <3>2. PICK j \in {k, k + 1} : j \in 1..L /\ j # i /\ s[j] = m
      <4>1. CASE k < i
        BY <1>0, <1>1, <3>1, <4>1
      <4>2. CASE ~(k < i)
        BY <1>0, <1>1, <3>1, <4>2
      <4> QED
        BY <4>1, <4>2
    <3> QED
      BY <1>3, <3>2 DEF On
  <2>2. ASSUME On(line, q, m), m # s[i] PROVE On(new, q, m)
    <3>1. PICK j \in 1..L : s[j] = m
      BY <2>2 DEF On
    <3>2. j # i
      BY <2>2, <3>1
    <3>3. PICK k \in {j, j - 1} : k \in 1..L - 1 /\ RemoveAt(s, i)[k] = m
      <4>1. CASE j < i
        BY <1>0, <1>1, <3>1, <4>1
      <4>2. CASE ~(j < i)
        <5>1. j - 1 \in 1..L - 1 /\ ~(j - 1 < i) /\ j - 1 + 1 = j
          BY <1>0, <3>2, <4>2
        <5> QED
          BY <1>1, <3>1, <5>1
      <4> QED
        BY <4>1, <4>2
    <3> QED
      BY <1>1, <1>2, <3>3 DEF On
  <2> QED
    BY <2>1, <2>2
<1>5. \A p \in Heads : \A m : p # q => (On(new, p, m) <=> On(line, p, m))
  BY <1>2 DEF On
<1>6. \A p \in Heads : p # q => ~On(line, p, s[i])
  BY DEF On, Apart
<1> QED
  BY <1>4, <1>5, <1>6


\* What is done next, and then.
EnqFirst(o, r) == /\ work = EnqOperations(o, r) /\ Head(work) = Removing(Lbl(r))
                  /\ Tail(work) = <<Inserting(Own(o), OwnLink(r)), Inserting(Lock, Lbl(r))>>
EnqSecond(o, r) == /\ work = <<Inserting(Own(o), OwnLink(r)), Inserting(Lock, Lbl(r))>>
                   /\ Head(work) = Inserting(Own(o), OwnLink(r))
                   /\ Tail(work) = <<Inserting(Lock, Lbl(r))>>
EnqThird(o, r) == /\ work = <<Inserting(Lock, Lbl(r))>> /\ Head(work) = Inserting(Lock, Lbl(r))
                  /\ Tail(work) = <<>>
ReleaseFirst(r) == /\ work = ReleaseOperations(r) /\ Head(work) = Removing(Lbl(r))
                   /\ Tail(work) = <<Removing(OwnLink(r)), Inserting(Free, Lbl(r))>>
ReleaseSecond(r) == /\ work = <<Removing(OwnLink(r)), Inserting(Free, Lbl(r))>>
                    /\ Head(work) = Removing(OwnLink(r)) /\ Tail(work) = <<Inserting(Free, Lbl(r))>>
ReleaseThird(r) == /\ work = <<Inserting(Free, Lbl(r))>> /\ Head(work) = Inserting(Free, Lbl(r))
                   /\ Tail(work) = <<>>

\* The three places within LOCK_enq.
LEMMA EnqSteps ==
  ASSUME NEW line, NEW o, NEW r, EnqFits(line, o, r)
  PROVE  /\ work # <<>>
         /\ \/ EnqFirst(o, r) /\ Off(line, OwnLink(r)) /\ (at = 1 => On(line, Free, Lbl(r)))
            \/ EnqSecond(o, r) /\ Off(line, Lbl(r))
            \/ EnqThird(o, r) /\ On(line, Own(o), OwnLink(r))
<1>1. CASE /\ work = EnqOperations(o, r) /\ Off(line, OwnLink(r))
           /\ at = 1 => On(line, Free, Lbl(r))
  BY <1>1, ThreeOperations DEF EnqFirst, EnqOperations
<1>2. CASE /\ work = <<Inserting(Own(o), OwnLink(r)), Inserting(Lock, Lbl(r))>>
           /\ Off(line, Lbl(r))
  BY <1>2, ThreeOperations DEF EnqSecond
<1>3. CASE work = <<Inserting(Lock, Lbl(r))>> /\ On(line, Own(o), OwnLink(r))
  BY <1>3, ThreeOperations DEF EnqThird
<1> QED
  BY <1>1, <1>2, <1>3 DEF EnqFits

\* The three places within a release.
LEMMA ReleaseSteps ==
  ASSUME NEW line, NEW r, ReleaseFits(line, r)
  PROVE  /\ work # <<>>
         /\ \/ ReleaseFirst(r)
            \/ ReleaseSecond(r) /\ Off(line, Lbl(r))
            \/ ReleaseThird(r) /\ Off(line, OwnLink(r))
<1>1. CASE work = ReleaseOperations(r)
  BY <1>1, ThreeOperations DEF ReleaseFirst, ReleaseOperations
<1>2. CASE work = <<Removing(OwnLink(r)), Inserting(Free, Lbl(r))>> /\ Off(line, Lbl(r))
  BY <1>2, ThreeOperations DEF ReleaseSecond
<1>3. CASE work = <<Inserting(Free, Lbl(r))>> /\ Off(line, OwnLink(r))
  BY <1>3, ThreeOperations DEF ReleaseThird
<1> QED
  BY <1>1, <1>2, <1>3 DEF ReleaseFits

\* A repair is one operation.
LEMMA RepairSteps ==
  ASSUME NEW line, RepairFits(line)
  PROVE  /\ work # <<>> /\ Tail(work) = <<>>
         /\ \/ Head(work) = Undoing
            \/ \E n \in Links : Head(work) = Removing(n) /\ Off(line, n)
BY ThreeOperations DEF RepairFits

\* Operations differ in what they do and on what.
LEMMA DifferentOperations ==
  /\ \A q, n, m : Inserting(q, n) # Removing(m) /\ Inserting(q, n) # Undoing
  /\ \A m : Removing(m) # Undoing
  /\ \A q, n, p, m : Inserting(q, n) = Inserting(p, m) => q = p /\ n = m
  /\ \A n, m : Removing(n) = Removing(m) => n = m
BY DEF Inserting, Removing, Undoing

\* Within an operation that changes no queue.
LEMMA CallGoesOn ==
  ASSUME NEW line, QueuesFit(line), UNCHANGED <<work, holder, held>>, at' # 1 \/ at' = at
  PROVE  QueuesFit(line)'
<1>1. \A o, r : EnqFits(line, o, r) => EnqFits(line, o, r)'
  BY DEF EnqFits
<1>2. \A r : ReleaseFits(line, r) => ReleaseFits(line, r)'
  BY DEF ReleaseFits
<1>3. CallFits(line)'
  BY <1>1, <1>2 DEF QueuesFit, CallFits, RepairFits
<1>4. Kept(line)'
  BY <1>1 DEF QueuesFit, Kept, Queued
<1> QED
  BY <1>3, <1>4 DEF QueuesFit, OwnersOnly, LocksOwned, OwnedIn

\* A node enters a queue (insert_tail).
LEMMA CallInserts ==
  ASSUME NEW line, NEW new, QueuesFit(line), UNCHANGED <<work, holder, held>>, at' # 1,
         NEW q \in Heads, NEW n \in Links, work # <<>>, Head(work) = Inserting(q, n), Off(line, n),
         \A p \in Heads : \A m : On(new, p, m) <=> On(line, p, m) \/ (p = q /\ m = n)
  PROVE  QueuesFit(new)'
<1>0. /\ \A m : Off(line, m) /\ m # n => Off(new, m)
      /\ \A o \in Owners : Own(o) \in Heads
      /\ Lock \in Heads /\ Free \in Heads
  BY DifferentNodes DEF Off
<1>1. ASSUME NEW o \in Owners, NEW r \in Requests, EnqFits(line, o, r)
      PROVE  /\ EnqFits(new, o, r)'
             /\ \/ q = Own(o) /\ n = OwnLink(r) /\ Off(line, Lbl(r))
                \/ q = Lock /\ n = Lbl(r) /\ On(line, Own(o), OwnLink(r))
  <2>1. ~EnqFirst(o, r)
    BY DifferentOperations DEF EnqFirst
  <2>2. CASE EnqSecond(o, r) /\ Off(line, Lbl(r))
    <3>1. q = Own(o) /\ n = OwnLink(r)
      BY <2>2, DifferentOperations DEF EnqSecond
    <3>2. Off(new, Lbl(r))
      BY <1>0, <2>2, <3>1, DifferentNodes
    <3> QED
      BY <1>1, <2>2, <3>1, <3>2 DEF EnqFits, EnqSecond
  <2>3. CASE EnqThird(o, r) /\ On(line, Own(o), OwnLink(r))
    <3>1. q = Lock /\ n = Lbl(r)
      BY <2>3, DifferentOperations DEF EnqThird
    <3>2. On(new, Own(o), OwnLink(r))
      BY <1>0, <2>3
    <3> QED
      BY <1>1, <2>3, <3>1, <3>2 DEF EnqFits, EnqThird
  <2> QED
    BY <1>1, <2>1, <2>2, <2>3, EnqSteps
<1>2. ASSUME NEW r \in Requests, ReleaseFits(line, r)
      PROVE  ReleaseFits(new, r)' /\ q = Free /\ n = Lbl(r) /\ Off(line, OwnLink(r))
  <2>1. ReleaseThird(r) /\ Off(line, OwnLink(r))
    BY <1>2, ReleaseSteps, DifferentOperations DEF ReleaseFirst, ReleaseSecond
  <2>2. q = Free /\ n = Lbl(r)
    BY <2>1, DifferentOperations DEF ReleaseThird
  <2>3. Off(new, OwnLink(r))
    BY <1>0, <2>1, <2>2, DifferentNodes
  <2> QED
    BY <1>2, <2>1, <2>2, <2>3 DEF ReleaseFits, ReleaseThird
<1>3. ~RepairFits(line)
  BY RepairSteps, DifferentOperations
<1>4. \/ \E o \in Owners, r \in Requests : EnqFits(line, o, r)
      \/ \E r \in Requests : ReleaseFits(line, r)
  BY <1>3 DEF QueuesFit, CallFits
<1>5. CallFits(new)'
  BY <1>1, <1>2, <1>4 DEF CallFits
<1>6. Kept(new)'
  <2> SUFFICES ASSUME NEW o \in Owners, NEW r \in Requests, r \in held[o]
               PROVE  Queued(new, o, r) \/ EnqFits(new, o, r)'
    BY DEF Kept, Queued
  <2>1. Queued(line, o, r) \/ EnqFits(line, o, r)
    BY DEF QueuesFit, Kept
  <2> QED
    BY <1>0, <1>1, <2>1 DEF Queued
<1>7. /\ n \in {Lbl(r) : r \in Requests} => q \in {Free, Lock}
      /\ n \in {OwnLink(r) : r \in Requests} => \E o \in Owners : q = Own(o)
  BY <1>1, <1>2, <1>4, DifferentNodes
<1>8. OwnersOnly(new)
  BY <1>7 DEF QueuesFit, OwnersOnly
<1>9. LocksOwned(new)
  <2> SUFFICES ASSUME NEW r \in Requests
               PROVE  /\ On(new, Lock, Lbl(r)) => OwnedIn(new, r)
                      /\ On(new, Free, Lbl(r)) => ~OwnedIn(new, r)
    BY DEF LocksOwned
  <2>1. /\ On(line, Lock, Lbl(r)) => OwnedIn(line, r)
        /\ On(line, Free, Lbl(r)) => ~OwnedIn(line, r)
    BY DEF QueuesFit, LocksOwned
  <2>2. OwnedIn(line, r) => OwnedIn(new, r)
    BY <1>0 DEF OwnedIn
  <2>3. CASE n = Lbl(r)
    <3>1. OwnedIn(new, r) <=> OwnedIn(line, r)
      BY <1>0, <2>3, DifferentNodes DEF OwnedIn
    <3>2. \/ q = Lock /\ OwnedIn(line, r)
          \/ q = Free /\ ~OwnedIn(line, r)
      BY <1>0, <1>1, <1>2, <1>4, <2>3, DifferentNodes DEF OwnedIn, Off
    <3> QED
      BY <1>0, <2>1, <2>3, <3>1, <3>2, DifferentNodes
  <2>4. CASE n = OwnLink(r)
    <3>1. Off(line, Lbl(r))
      BY <1>1, <1>2, <1>4, <2>4, DifferentNodes
    <3>2. Off(new, Lbl(r))
      BY <1>0, <2>4, <3>1, DifferentNodes
    <3> QED
      BY <1>0, <3>2 DEF Off
  <2>5. CASE n \notin {Lbl(r), OwnLink(r)}
    BY <1>0, <2>1, <2>5 DEF OwnedIn
  <2> QED
    BY <2>3, <2>4, <2>5
<1> QED
  BY <1>5, <1>6, <1>8, <1>9 DEF QueuesFit, OwnersOnly, LocksOwned, OwnedIn

\* A node leaves its queue, if it is in one (remove_que).
LEMMA CallRemoves ==
  ASSUME NEW line, NEW new, QueuesFit(line), UNCHANGED <<work, holder, held>>, at = 1, at' # 1,
         NEW n \in Links, work # <<>>, Head(work) = Removing(n),
         \A p \in Heads : \A m : On(new, p, m) <=> On(line, p, m) /\ m # n
  PROVE  QueuesFit(new)'
<1>0. /\ \A m : Off(line, m) => Off(new, m)
      /\ \A o \in Owners : Own(o) \in Heads
      /\ Lock \in Heads /\ Free \in Heads
  BY DifferentNodes DEF Off
<1>1. ASSUME NEW o \in Owners, NEW r \in Requests, EnqFits(line, o, r)
      PROVE  EnqFits(new, o, r)' /\ n = Lbl(r) /\ On(line, Free, Lbl(r))
  <2>1. EnqFirst(o, r) /\ Off(line, OwnLink(r)) /\ (at = 1 => On(line, Free, Lbl(r)))
    BY <1>1, EnqSteps, DifferentOperations DEF EnqSecond, EnqThird
  <2> QED
    BY <1>0, <1>1, <2>1, DifferentOperations DEF EnqFits, EnqFirst
<1>2. ASSUME NEW r \in Requests, ReleaseFits(line, r)
      PROVE  /\ ReleaseFits(new, r)' /\ \A o \in Owners : r \notin held[o]
             /\ n = Lbl(r) \/ (n = OwnLink(r) /\ Off(line, Lbl(r)))
  <2>1. ReleaseFirst(r) \/ (ReleaseSecond(r) /\ Off(line, Lbl(r)))
    BY <1>2, ReleaseSteps, DifferentOperations DEF ReleaseThird
  <2>2. n = Lbl(r) \/ (n = OwnLink(r) /\ Off(line, Lbl(r)))
    BY <2>1, DifferentOperations DEF ReleaseFirst, ReleaseSecond
  <2> QED
    BY <1>0, <1>2, <2>1, <2>2 DEF ReleaseFits, ReleaseFirst, ReleaseSecond
<1>3. RepairFits(line) => RepairFits(new)' /\ Off(line, n)
  <2> SUFFICES ASSUME RepairFits(line) PROVE RepairFits(new)' /\ Off(line, n)
    OBVIOUS
  <2>1. Off(line, n)
    BY RepairSteps, DifferentOperations
  <2>2. Off(new, n)
    BY <1>0, <2>1
  <2>3. work = <<Undoing>> \/ \E m \in Links : work = <<Removing(m)>>
    BY DEF RepairFits
  <2>4. work = <<Removing(n)>>
    BY <2>3, ThreeOperations, DifferentOperations
  <2> QED
    BY <2>1, <2>2, <2>4 DEF RepairFits
<1>4. \/ \E o \in Owners, r \in Requests : EnqFits(line, o, r)
      \/ \E r \in Requests : ReleaseFits(line, r)
      \/ RepairFits(line)
  BY DEF QueuesFit, CallFits
<1>5. CallFits(new)'
  BY <1>1, <1>2, <1>3, <1>4 DEF CallFits
<1>6. ASSUME NEW o \in Owners, NEW r \in Requests, r \in held[o], Queued(line, o, r)
      PROVE  Queued(new, o, r)
  <2>1. n # Lbl(r) /\ n # OwnLink(r)
    <3>1. CASE \E p \in Owners, s \in Requests : EnqFits(line, p, s)
      <4>1. PICK p \in Owners, s \in Requests : EnqFits(line, p, s)
        BY <3>1
      <4>2. n = Lbl(s) /\ On(line, Free, Lbl(s))
        BY <1>1, <4>1
      <4>3. ~OwnedIn(line, s) /\ OwnedIn(line, r)
        BY <1>6, <4>2 DEF QueuesFit, LocksOwned, Queued, OwnedIn
      <4> QED
        BY <4>2, <4>3, DifferentNodes
    <3>2. CASE \E s \in Requests : ReleaseFits(line, s)
      BY <1>2, <1>6, <3>2, DifferentNodes
    <3>3. CASE RepairFits(line)
      BY <1>0, <1>3, <1>6, <3>3 DEF Off, Queued
    <3> QED
      BY <1>4, <3>1, <3>2, <3>3
  <2> QED
    BY <1>0, <1>6, <2>1 DEF Queued
<1>7. Kept(new)'
  <2> SUFFICES ASSUME NEW o \in Owners, NEW r \in Requests, r \in held[o]
               PROVE  Queued(new, o, r) \/ EnqFits(new, o, r)'
    BY DEF Kept, Queued
  <2>1. Queued(line, o, r) \/ EnqFits(line, o, r)
    BY DEF QueuesFit, Kept
  <2> QED
    BY <1>1, <1>6, <2>1
<1>8. OwnersOnly(new)
  BY DEF QueuesFit, OwnersOnly
<1>9. LocksOwned(new)
  <2> SUFFICES ASSUME NEW r \in Requests
               PROVE  /\ On(new, Lock, Lbl(r)) => OwnedIn(new, r)
                      /\ On(new, Free, Lbl(r)) => ~OwnedIn(new, r)
    BY DEF LocksOwned
  <2>1. /\ On(line, Lock, Lbl(r)) => OwnedIn(line, r)
        /\ On(line, Free, Lbl(r)) => ~OwnedIn(line, r)
    BY DEF QueuesFit, LocksOwned
  <2>2. OwnedIn(new, r) => OwnedIn(line, r)
    BY <1>0 DEF OwnedIn
  <2>3. ASSUME On(new, Lock, Lbl(r)) PROVE OwnedIn(new, r)
    <3>1. n # OwnLink(r)
      <4>1. ~Off(line, Lbl(r)) /\ OwnedIn(line, r) /\ ~Off(line, OwnLink(r))
        BY <1>0, <2>1, <2>3 DEF Off, OwnedIn
      <4> QED
        BY <1>1, <1>2, <1>3, <1>4, <4>1, DifferentNodes
    <3> QED
      BY <1>0, <2>1, <2>3, <3>1 DEF OwnedIn
  <2> QED
    BY <1>0, <2>1, <2>2, <2>3
<1> QED
  BY <1>5, <1>7, <1>8, <1>9 DEF QueuesFit, OwnersOnly, LocksOwned, OwnedIn

\* An operation is done, the next one of the call begins.
LEMMA CallProceeds ==
  ASSUME NEW line, QueuesFit(line), UNCHANGED <<holder, held>>, at # 1, at' = 1,
         work # <<>>, work' = Tail(work),
         \A q, n : Head(work) = Inserting(q, n) => On(line, q, n),
         \A n : Head(work) = Removing(n) => Off(line, n)
  PROVE  QueuesFit(line)'
<1>1. ASSUME NEW o, NEW r, EnqFits(line, o, r)
      PROVE  EnqFits(line, o, r)' \/ (work' = <<>> /\ Queued(line, o, r))
  <2>1. CASE EnqFirst(o, r)
    <3>1. Off(line, Lbl(r))
      BY <2>1 DEF EnqFirst
    <3> QED
      BY <1>1, <2>1, <3>1 DEF EnqFits, EnqFirst
  <2>2. CASE EnqSecond(o, r)
    <3>1. On(line, Own(o), OwnLink(r))
      BY <2>2 DEF EnqSecond
    <3> QED
      BY <1>1, <2>2, <3>1 DEF EnqFits, EnqSecond
  <2>3. CASE EnqThird(o, r) /\ On(line, Own(o), OwnLink(r))
    <3>1. On(line, Lock, Lbl(r))
      BY <2>3 DEF EnqThird
    <3> QED
      BY <2>3, <3>1 DEF Queued, EnqThird
  <2> QED
    BY <1>1, <2>1, <2>2, <2>3, EnqSteps
<1>2. ASSUME NEW r, ReleaseFits(line, r)
      PROVE  ReleaseFits(line, r)' \/ work' = <<>>
  <2>1. CASE ReleaseFirst(r)
    <3>1. Off(line, Lbl(r))
      BY <2>1 DEF ReleaseFirst
    <3> QED
      BY <1>2, <2>1, <3>1 DEF ReleaseFits, ReleaseFirst
  <2>2. CASE ReleaseSecond(r)
    <3>1. Off(line, OwnLink(r))
      BY <2>2 DEF ReleaseSecond
    <3> QED
      BY <1>2, <2>2, <3>1 DEF ReleaseFits, ReleaseSecond
  <2>3. CASE ReleaseThird(r)
    BY <2>3 DEF ReleaseThird
  <2> QED
    BY <1>2, <2>1, <2>2, <2>3, ReleaseSteps
<1>3. RepairFits(line) => work' = <<>>
  BY RepairSteps
<1>4. CallFits(line)'
  BY <1>1, <1>2, <1>3 DEF QueuesFit, CallFits
<1>5. Kept(line)'
  BY <1>1 DEF QueuesFit, Kept, Queued
<1> QED
  BY <1>4, <1>5 DEF QueuesFit, OwnersOnly, LocksOwned, OwnedIn


-----------------------------------------------------------------------------
(* What the links show. *)

\* Without an unfinished operation the links are as they are.
LEMMA PlainLinks ==
  ASSUME shb.remove_node = NoNode, ~Both \/ Doing("insert", 2)
  PROVE  Forward = fwd /\ Backward = bwd
BY DEF Forward, Backward, Redone, Undone, Both

\* With an unfinished insertion they are as undo_insert leaves them.
LEMMA UndoneLinks ==
  ASSUME shb.remove_node = NoNode, Both, ~Doing("insert", 2)
  PROVE  /\ Forward = [fwd EXCEPT ![shb.insert_prior] = shb.insert_que]
         /\ Backward = [bwd EXCEPT ![shb.insert_que] = shb.insert_prior]
BY DEF Forward, Backward, Redone, Undone, Both

\* The links show the same queues if they are the same inside.
LEMMA StillLaid ==
  ASSUME NEW line, Laid(line),
         \A m : Inside(line, m) => Forward'[m] = Forward[m] /\ Backward'[m] = Backward[m]
  PROVE  Laid(line)'
BY OutsideIsFree DEF Laid

\* What is in a queue is a node.
LEMMA InsideIsNode ==
  ASSUME NEW line, NEW m, Inside(line, m)
  PROVE  m \in Nodes
BY DEF Inside, Nodes

-----------------------------------------------------------------------------
(* insert_tail. *)

\* Within an insertion the header is what the writes so far made it.
LEMMA InsertHeader ==
  ASSUME NEW line, work # <<>>, work' = work, Head(work).op = "insert",
         NEW q, NEW n, q = Head(work).que, n = Head(work).node,
         InsertFits(line, q, n)'
  PROVE  HeaderFits(line)'
<1>1. HeadFits(line)'
  BY DEF HeadFits, InsertFits, Both, NoNode
<1>2. shb'.remove_node = NoNode
  BY DEF InsertFits, NoNode
<1> QED
  BY <1>1, <1>2 DEF HeaderFits, Idle, RemovedIsOff, NoNode

\* What is known at every write of an insertion.
LEMMA InsertFacts ==
  ASSUME TInv, NEW line, HeaderFits(line), insert_tail
  PROVE  LET q == Head(work).que
             n == Head(work).node
         IN /\ work # <<>> /\ Head(work).op = "insert" /\ Head(work) = Inserting(q, n)
            /\ q \in Heads /\ n \in Links /\ q \in Nodes /\ n \in Nodes /\ q # n
            /\ InsertFits(line, q, n) /\ at \in 1..8
            /\ fwd \in [Nodes -> Nodes] /\ bwd \in [Nodes -> Nodes] /\ shb \in SHB
            /\ NoNode \notin Nodes
            /\ Other
<1>1. work # <<>> /\ Head(work).op = "insert"
  BY DEF insert_tail, Doing
<1>2. /\ Head(work).que \in Heads /\ Head(work).node \in Links
      /\ Head(work) = Inserting(Head(work).que, Head(work).node)
  BY <1>1, HeadFitsType
<1>3. Other
  BY DEF insert_tail, Wrote, Done
<1> QED
  BY <1>1, <1>2, <1>3, HeadsAreNoLinks DEF HeaderFits, HeadFits, TInv, TypeOK, Nodes

\* The first six writes of an insertion show the queues as they were: undone, they are.
LEMMA InsertKeeps ==
  ASSUME TInv, NEW line, Laid(line), HeaderFits(line), insert_tail, at < 7
  PROVE  Laid(line)' /\ HeaderFits(line)'
<1>0. PICK q, n, prior : q = Head(work).que /\ n = Head(work).node /\ prior = shb.insert_prior
  OBVIOUS
<1>1. /\ work # <<>> /\ Head(work).op = "insert"
      /\ q \in Heads /\ n \in Links /\ q \in Nodes /\ n \in Nodes /\ q # n
      /\ InsertFits(line, q, n) /\ at \in 1..6
      /\ fwd \in [Nodes -> Nodes] /\ bwd \in [Nodes -> Nodes] /\ shb \in SHB
      /\ NoNode \notin Nodes /\ deaths' = deaths /\ bwd[q] \in Nodes
      /\ work' = work /\ at' = at + 1
  BY <1>0, InsertFacts DEF Other, insert_tail, Wrote, Doing
<1>2. /\ Inside(line, q) /\ ~Inside(line, n)
      /\ \A m : Inside(line, m) => m \in Nodes
      /\ LaidBy(Forward, Backward, line)
  BY <1>1, InsideIsNode, HeadsAreNoLinks DEF Inside, InsertFits, Laid
<1>3. Inside(line, Forward[q]) /\ Inside(line, Backward[q]) /\ Forward[Backward[q]] = q
  BY <1>2, LinksStayInside
<1>4. CASE at = 1
  <2>1. /\ at' = 2 /\ fwd' = fwd /\ bwd' = bwd /\ shb'.insert_que = q
        /\ shb'.remove_node = shb.remove_node /\ shb'.insert_prior = prior
    BY <1>1, <1>4, <1>0 DEF insert_tail, Doing, links, SHB
  <2>2. Forward = fwd /\ Backward = bwd
    BY <1>1, <1>4, PlainLinks DEF InsertFits
  <2>3. Forward' = fwd /\ Backward' = bwd
    BY <1>1, <1>4, <2>1 DEF Forward, Backward, Redone, Undone, Doing, InsertFits, NoNode
  <2>4. Laid(line)'
    BY <2>2, <2>3, StillLaid
  <2>5. InsertFits(line, q, n)'
    BY <1>1, <1>4, <2>1 DEF InsertFits, NoNode
  <2> QED
    BY <1>1, <2>1, <2>4, <2>5, <1>0, InsertHeader
<1>5. CASE at = 2
  <2>1. /\ at' = 3 /\ fwd' = fwd /\ bwd' = bwd /\ shb'.insert_que = q /\ shb.insert_que = q
        /\ shb'.remove_node = shb.remove_node /\ shb'.insert_prior = bwd[q]
    BY <1>1, <1>5, <1>0 DEF insert_tail, Doing, links, SHB, InsertFits
  <2>2. Forward = fwd /\ Backward = bwd
    BY <1>1, <1>5, PlainLinks DEF InsertFits, Doing
  <2>3. Forward' = [fwd EXCEPT ![bwd[q]] = q] /\ Backward' = [bwd EXCEPT ![q] = bwd[q]]
    BY <1>1, <1>5, <2>1 DEF Forward, Backward, Redone, Undone, Doing, InsertFits, NoNode
  <2>4. Laid(line)'
    <3>1. fwd[bwd[q]] = q
      BY <1>3, <2>2
    <3>2. Forward' = fwd /\ Backward' = bwd
      BY <1>1, <2>3, <3>1
    <3> QED
      BY <2>2, <3>2, StillLaid
  <2>5. InsertFits(line, q, n)'
    BY <1>1, <1>5, <2>1 DEF InsertFits, NoNode
  <2> QED
    BY <1>1, <2>1, <2>4, <2>5, <1>0, InsertHeader
<1>6. CASE at \in 3..6
  <2>1. /\ shb' = shb /\ shb.insert_que = q /\ shb.remove_node = NoNode /\ prior \in Nodes
        /\ Both /\ q # NoNode /\ prior # NoNode /\ at' \in 4..7
    BY <1>1, <1>6, <1>0 DEF insert_tail, Doing, links, InsertFits, Both
  <2>2. Forward = [fwd EXCEPT ![prior] = q] /\ Backward = [bwd EXCEPT ![q] = prior]
    BY <1>6, <2>1, UndoneLinks, <1>0 DEF Doing
  <2>3. Forward' = [fwd' EXCEPT ![prior] = q] /\ Backward' = [bwd' EXCEPT ![q] = prior]
    BY <1>1, <1>6, <2>1, <1>0 DEF Forward, Backward, Redone, Undone, Doing, NoNode
  <2>4. prior # n
    BY <1>1, <1>2, <1>3, <2>2
  <2>5. /\ at = 3 => fwd' = [fwd EXCEPT ![n] = q] /\ bwd' = bwd
        /\ at = 4 => fwd' = fwd /\ bwd' = [bwd EXCEPT ![n] = bwd[q]]
        /\ at = 5 => fwd' = [fwd EXCEPT ![bwd[q]] = n] /\ bwd' = bwd
        /\ at = 6 => fwd' = fwd /\ bwd' = [bwd EXCEPT ![q] = n]
    BY <1>1, <1>6, <1>0 DEF insert_tail, Doing
  <2>6. at \in 3..5 => bwd[q] = prior
    BY <1>1, <1>0 DEF InsertFits
  <2>7. \A m : Inside(line, m) => Forward'[m] = Forward[m] /\ Backward'[m] = Backward[m]
    <3> SUFFICES ASSUME NEW m, Inside(line, m), m \in Nodes, m # n
                 PROVE  Forward'[m] = Forward[m] /\ Backward'[m] = Backward[m]
      BY <1>2
    <3>1. CASE at = 3
      BY <1>1, <2>1, <2>2, <2>3, <2>5, <3>1
    <3>2. CASE at = 4
      BY <1>1, <2>1, <2>2, <2>3, <2>5, <3>2
    <3>3. CASE at = 5
      BY <1>1, <2>1, <2>2, <2>3, <2>5, <2>6, <3>3
    <3>4. CASE at = 6
      BY <1>1, <2>1, <2>2, <2>3, <2>5, <3>4
    <3> QED
      BY <1>6, <3>1, <3>2, <3>3, <3>4
  <2>8. Laid(line)'
    BY <2>7, StillLaid
  <2>9. InsertFits(line, q, n)'
    <3>0. /\ fwd'[n] \in {fwd[n], q} /\ Off(line, n)
          /\ at \in 3..5 => bwd[q] = prior
          /\ at \in 4..7 => fwd[n] = q
          /\ at \in 5..7 => bwd[n] = prior
          /\ at \in 6..7 => fwd[prior] = n
      BY <1>1, <1>6, <2>4, <2>5, <2>6, <1>0 DEF InsertFits
    <3>1. CASE at = 3
      <4>1. at' = 4 /\ fwd'[n] = q /\ bwd'[q] = prior
        BY <1>1, <2>5, <3>0, <3>1
      <4> QED
        BY <2>1, <3>0, <4>1, <1>0 DEF InsertFits, NoNode
    <3>2. CASE at = 4
      <4>1. at' = 5 /\ fwd'[n] = q /\ bwd'[q] = prior /\ bwd'[n] = prior
        BY <1>1, <2>5, <3>0, <3>2
      <4> QED
        BY <2>1, <3>0, <4>1, <1>0 DEF InsertFits, NoNode
    <3>3. CASE at = 5
      <4>1. at' = 6 /\ fwd'[n] = q /\ bwd'[n] = prior /\ fwd'[prior] = n
        BY <1>1, <2>1, <2>4, <2>5, <3>0, <3>3
      <4> QED
        BY <2>1, <3>0, <4>1, <1>0 DEF InsertFits, NoNode
    <3>4. CASE at = 6
      <4>1. at' = 7 /\ fwd'[n] = q /\ bwd'[n] = prior /\ fwd'[prior] = n /\ bwd'[q] = n
        BY <1>1, <2>5, <3>0, <3>4
      <4> QED
        BY <2>1, <3>0, <4>1, <1>0 DEF InsertFits, NoNode
    <3> QED
      BY <1>6, <3>1, <3>2, <3>3, <3>4
  <2> QED
    BY <1>1, <2>1, <2>8, <2>9, <1>0, InsertHeader
<1> QED
  BY <1>1, <1>4, <1>5, <1>6


\* What a step makes of the queues.
Moved(line, new) ==
  \/ new = line
  \/ \E q \in Heads, n \in Links : new = [line EXCEPT ![q] = Append(@, n)] /\ Off(line, n)
  \/ \E q \in Heads : \E i \in 1..Len(line[q]) : new = [line EXCEPT ![q] = RemoveAt(@, i)]

\* A node that enters a queue next is in none.
LEMMA NextIsOff ==
  ASSUME NEW line, QueuesFit(line), work # <<>>, Tail(work) # <<>>,
         Head(Tail(work)).op = "insert"
  PROVE  Off(line, Head(Tail(work)).node)
<1>1. ASSUME NEW o \in Owners, NEW r \in Requests, EnqFits(line, o, r)
      PROVE  Off(line, Head(Tail(work)).node)
  <2>1. CASE EnqFirst(o, r) /\ Off(line, OwnLink(r))
    <3>0. PICK x, y : x = Inserting(Own(o), OwnLink(r)) /\ Tail(work) = <<x, y>>
      BY <2>1 DEF EnqFirst
    <3>1. Head(Tail(work)) = Inserting(Own(o), OwnLink(r))
      <4>1. Head(<<x, y>>) = x
        OBVIOUS
      <4> QED
        BY <3>0, <4>1
    <3> QED
      BY <2>1, <3>1 DEF Inserting
  <2>2. CASE EnqSecond(o, r) /\ Off(line, Lbl(r))
    BY <2>2, ThreeOperations DEF EnqSecond, Inserting
  <2>3. CASE EnqThird(o, r)
    BY <2>3 DEF EnqThird
  <2> QED
    BY <1>1, <2>1, <2>2, <2>3, EnqSteps
<1>2. ASSUME NEW r \in Requests, ReleaseFits(line, r)
      PROVE  Off(line, Head(Tail(work)).node)
  <2>1. CASE ReleaseFirst(r)
    <3>0. PICK x, y : x = Removing(OwnLink(r)) /\ Tail(work) = <<x, y>>
      BY <2>1 DEF ReleaseFirst
    <3>1. Head(Tail(work)) = Removing(OwnLink(r))
      <4>1. Head(<<x, y>>) = x
        OBVIOUS
      <4> QED
        BY <3>0, <4>1
    <3> QED
      BY <3>1 DEF Removing
  <2>2. CASE ReleaseSecond(r) /\ Off(line, Lbl(r))
    BY <2>2, ThreeOperations DEF ReleaseSecond, Inserting
  <2>3. CASE ReleaseThird(r)
    BY <2>3 DEF ReleaseThird
  <2> QED
    BY <1>2, <2>1, <2>2, <2>3, ReleaseSteps
<1> QED
  BY <1>1, <1>2, RepairSteps DEF QueuesFit, CallFits

\* The header when an operation is done.
LEMMA HeaderProceeds ==
  ASSUME TInv, NEW line, QueuesFit(line), work # <<>>, work' = Tail(work), at' = 1,
         shb'.remove_node = NoNode, ~Both'
  PROVE  HeaderFits(line)'
<1>1. ASSUME work' # <<>>
      PROVE  /\ Fits(Head(work')) /\ Head(work').op # "undo"
             /\ Head(work').op = "insert" => Off(line, Head(work').node)
  <2>1. /\ Tail(work) \in Seq(Operations)
        /\ \A i \in 1..Len(Tail(work)) : Fits(Tail(work)[i]) /\ Tail(work)[i].op # "undo"
    BY HeadFitsType
  <2>2. 1 \in 1..Len(Tail(work)) /\ Head(Tail(work)) = Tail(work)[1]
    BY <1>1, <2>1
  <2> QED
    BY <1>1, <2>1, <2>2, NextIsOff
<1>2. HeadFits(line)'
  BY <1>1 DEF HeadFits, InsertFits, RemoveFits, Both, NoNode
<1> QED
  BY <1>1, <1>2 DEF HeaderFits, Idle, Clear, RemovedIsOff, Both, NoNode

\* The process inside the table stays there.
LEMMA HolderGoesOn ==
  ASSUME HolderFits, Other, work # <<>>, work' # <<>> \/ at' = 1
  PROVE  HolderFits'
BY DEF HolderFits, Other

\* insert_tail: at its seventh write the node is in, at none other a queue changes.
LEMMA InsertStep ==
  ASSUME TInv, NEW line, JInv(line), insert_tail
  PROVE  \E new : JInv(new)' /\ Moved(line, new)
<1>0. PICK q, n, prior : q = Head(work).que /\ n = Head(work).node /\ prior = shb.insert_prior
  OBVIOUS
<1>1. /\ work # <<>> /\ Head(work).op = "insert" /\ Head(work) = Inserting(q, n)
      /\ q \in Heads /\ n \in Links /\ q \in Nodes /\ n \in Nodes /\ q # n
      /\ InsertFits(line, q, n) /\ at \in 1..8
      /\ fwd \in [Nodes -> Nodes] /\ bwd \in [Nodes -> Nodes] /\ shb \in SHB
      /\ NoNode \notin Nodes /\ Other
  BY <1>0, InsertFacts DEF JInv
<1>2. /\ Laid(line) /\ HeaderFits(line) /\ HolderFits /\ QueuesFit(line)
      /\ UNCHANGED <<holder, held, deaths>>
  BY <1>1 DEF JInv, Other
<1>3. CASE at < 7
  <2>1. Laid(line)' /\ HeaderFits(line)'
    BY <1>2, <1>3, InsertKeeps
  <2>2. work' = work /\ at' # 1
    BY <1>1, <1>3 DEF insert_tail, Doing, Wrote
  <2>3. QueuesFit(line)'
    BY <1>2, <2>2, CallGoesOn
  <2>4. HolderFits'
    BY <1>1, <1>2, <2>2, HolderGoesOn
  <2> QED
    BY <2>1, <2>3, <2>4 DEF JInv, Moved
<1>4. CASE at = 7
  <2> DEFINE new == [line EXCEPT ![q] = Append(@, n)]
  <2>1. /\ work' = work /\ at' = 8 /\ fwd' = fwd /\ bwd' = bwd /\ shb'.insert_que = NoNode
        /\ shb'.remove_node = NoNode /\ shb'.insert_prior = prior
    BY <1>0, <1>1, <1>4 DEF insert_tail, Doing, Wrote, links, SHB, InsertFits
  <2>2. /\ shb.insert_que = q /\ shb.remove_node = NoNode /\ prior \in Nodes /\ Off(line, n)
        /\ fwd[n] = q /\ bwd[n] = prior /\ fwd[prior] = n /\ bwd[q] = n
        /\ Both
    BY <1>0, <1>1, <1>4 DEF InsertFits, Both
  <2>3. Forward = [fwd EXCEPT ![prior] = q] /\ Backward = [bwd EXCEPT ![q] = prior]
    BY <1>0, <1>4, <2>2, UndoneLinks DEF Doing
  <2>4. Forward' = fwd /\ Backward' = bwd
    BY <2>1 DEF Forward, Backward, Redone, Undone, NoNode
  <2>5. LaidBy(Forward, Backward, line) /\ line \in Lines
    BY <1>2 DEF Laid, LaidBy
  <2>6. Backward[q] = prior
    BY <1>1, <2>3
  <2>7. /\ \A m : Inside(line, m) /\ m # Backward[q] => fwd[m] = Forward[m]
        /\ \A m : Inside(line, m) /\ m # q => bwd[m] = Backward[m]
    BY <1>1, <2>3, <2>6, InsideIsNode
  <2>8. LaidBy(fwd, bwd, new)
    <3>0. PICK f, b, g, c : f = Forward /\ b = Backward /\ g = fwd /\ c = bwd
      OBVIOUS
    <3>1. g[b[q]] = n /\ g[n] = q /\ c[q] = n /\ c[n] = b[q]
      BY <2>2, <2>6, <3>0
    <3>2. LaidBy(f, b, line)
      BY <2>5, <3>0
    <3>3. \A m : Inside(line, m) /\ m # b[q] => g[m] = f[m]
      BY <2>7, <3>0
    <3>4. \A m : Inside(line, m) /\ m # q => c[m] = b[m]
      BY <2>7, <3>0
    <3>5. q \in Heads /\ n \in Links /\ Off(line, n)
      BY <1>1, <2>2
    <3>6. LaidBy(g, c, [line EXCEPT ![q] = Append(@, n)])
      BY <3>1, <3>2, <3>3, <3>4, <3>5, LinkedIn
    <3> QED
      BY <3>0, <3>6
  <2>9. Laid(new)'
    BY <2>4, <2>8 DEF Laid
  <2>10. \A p \in Heads : \A m : On(new, p, m) <=> On(line, p, m) \/ (p = q /\ m = n)
    BY <1>1, <2>5, AppendOn
  <2> HIDE DEF new
  <2>11. QueuesFit(new)'
    BY <1>1, <1>2, <2>1, <2>2, <2>10, CallInserts
  <2>12. InsertFits(new, q, n)'
    BY <1>1, <2>1, <2>10 DEF InsertFits, NoNode
  <2>13. HeaderFits(new)'
    BY <1>0, <1>1, <1>2, <2>1, <2>12, InsertHeader
  <2>14. HolderFits'
    BY <1>1, <1>2, <2>1, HolderGoesOn
  <2>15. Moved(line, new)
    BY <1>1, <2>2 DEF Moved, new
  <2> QED
    BY <2>9, <2>11, <2>13, <2>14, <2>15 DEF JInv
<1>5. CASE at = 8
  <2>1. /\ work' = Tail(work) /\ at' = 1 /\ fwd' = fwd /\ bwd' = bwd /\ shb.insert_que = NoNode
        /\ shb'.insert_que = NoNode /\ shb'.remove_node = NoNode /\ shb.remove_node = NoNode
        /\ shb'.insert_prior = NoNode /\ On(line, q, n)
    BY <1>1, <1>5 DEF insert_tail, Doing, Done, links, SHB, InsertFits
  <2>2. Forward = fwd /\ Backward = bwd /\ Forward' = fwd /\ Backward' = bwd
    BY <2>1 DEF Forward, Backward, Redone, Undone, NoNode
  <2>3. Laid(line)'
    BY <1>2, <2>2, StillLaid
  <2>4. ~Both'
    BY <2>1 DEF Both, NoNode
  <2>5. HeaderFits(line)'
    BY <1>1, <1>2, <2>1, <2>4, HeaderProceeds
  <2>6. QueuesFit(line)'
    BY <1>1, <1>2, <1>5, <2>1, CallProceeds, DifferentOperations
  <2>7. HolderFits'
    BY <1>1, <1>2, <2>1, HolderGoesOn
  <2> QED
    BY <2>3, <2>5, <2>6, <2>7 DEF JInv, Moved
<1> QED
  BY <1>1, <1>3, <1>4, <1>5


-----------------------------------------------------------------------------
(* undo_insert. *)

\* undo_insert shows what was shown before it.
LEMMA UndoStep ==
  ASSUME TInv, NEW line, JInv(line), undo_insert
  PROVE  JInv(line)'
<1>0. PICK q, prior : q = shb.insert_que /\ prior = shb.insert_prior
  OBVIOUS
<1>1. /\ work # <<>> /\ Head(work).op = "undo" /\ Head(work) = Undoing
      /\ UndoFits /\ at \in 1..4 /\ shb.remove_node = NoNode
      /\ fwd \in [Nodes -> Nodes] /\ bwd \in [Nodes -> Nodes] /\ shb \in SHB
      /\ NoNode \notin Nodes /\ Other
  <2>1. work # <<>> /\ Head(work).op = "undo" /\ Other /\ at \in 1..4
    BY DEF undo_insert, Doing, Wrote, Done
  <2> QED
    BY <2>1, HeadFitsType, HeadsAreNoLinks
    DEF JInv, HeaderFits, HeadFits, TInv, TypeOK, UndoFits
<1>2. /\ Laid(line) /\ HeaderFits(line) /\ HolderFits /\ QueuesFit(line)
      /\ UNCHANGED <<holder, held, deaths>>
  BY <1>1 DEF JInv, Other
<1>3. ASSUME at \in 1..3
      PROVE  /\ q \in Nodes /\ prior \in Nodes /\ Both
             /\ Forward = [fwd EXCEPT ![prior] = q] /\ Backward = [bwd EXCEPT ![q] = prior]
  <2>1. Both
    BY <1>1, <1>3 DEF UndoFits
  <2>2. ~Doing("insert", 2)
    BY <1>1 DEF Doing
  <2> QED
    BY <1>0, <1>1, <2>1, <2>2, UndoneLinks DEF Both, SHB
<1>4. CASE at \in 1..3
  <2>1. work' = work /\ at' = at + 1 /\ shb'.remove_node = NoNode
    BY <1>1, <1>4 DEF undo_insert, Doing, Wrote, SHB
  <2>2. UndoFits' /\ Forward' = Forward /\ Backward' = Backward
    <3>1. CASE at = 1
      <4>1. fwd' = fwd /\ bwd' = [bwd EXCEPT ![q] = prior] /\ shb' = shb
        BY <1>0, <1>1, <3>1 DEF undo_insert, Doing
      <4>2. bwd'[q] = prior
        BY <1>1, <1>3, <3>1, <4>1
      <4>3. Forward' = [fwd' EXCEPT ![prior] = q] /\ Backward' = [bwd' EXCEPT ![q] = prior]
        BY <1>0, <1>1, <1>3, <2>1, <3>1, <4>1
           DEF Forward, Backward, Redone, Undone, Doing, Both, NoNode
      <4>4. Forward' = Forward /\ Backward' = Backward
        BY <1>1, <1>3, <3>1, <4>1, <4>3
      <4> QED
        BY <1>0, <1>1, <1>3, <2>1, <3>1, <4>1, <4>2, <4>4 DEF UndoFits, Both, NoNode
    <3>2. CASE at = 2
      <4>1. fwd' = [fwd EXCEPT ![prior] = q] /\ bwd' = bwd /\ shb' = shb /\ bwd[q] = prior
        BY <1>0, <1>1, <3>2 DEF undo_insert, Doing, UndoFits
      <4>2. fwd'[prior] = q
        BY <1>1, <1>3, <3>2, <4>1
      <4>3. Forward' = [fwd' EXCEPT ![prior] = q] /\ Backward' = [bwd' EXCEPT ![q] = prior]
        BY <1>0, <1>1, <1>3, <2>1, <3>2, <4>1
           DEF Forward, Backward, Redone, Undone, Doing, Both, NoNode
      <4>4. Forward' = Forward /\ Backward' = Backward
        BY <1>1, <1>3, <3>2, <4>1, <4>3
      <4> QED
        BY <1>0, <1>1, <1>3, <2>1, <3>2, <4>1, <4>2, <4>4 DEF UndoFits, Both, NoNode
    <3>3. CASE at = 3
      <4>1. /\ fwd' = fwd /\ bwd' = bwd /\ bwd[q] = prior /\ fwd[prior] = q
            /\ shb'.insert_que = NoNode
        BY <1>0, <1>1, <3>3 DEF undo_insert, Doing, UndoFits, links, SHB
      <4>2. Forward' = fwd /\ Backward' = bwd
        BY <2>1, <4>1 DEF Forward, Backward, Redone, Undone, NoNode
      <4>3. Forward = fwd /\ Backward = bwd
        <5>1. /\ q \in Nodes /\ prior \in Nodes
              /\ Forward = [fwd EXCEPT ![prior] = q] /\ Backward = [bwd EXCEPT ![q] = prior]
          BY <1>3, <3>3
        <5>2. [fwd EXCEPT ![prior] = q] = fwd
          BY <1>1, <4>1, <5>1
        <5>3. [bwd EXCEPT ![q] = prior] = bwd
          BY <1>1, <4>1, <5>1
        <5> QED
          BY <5>1, <5>2, <5>3
      <4> QED
        BY <2>1, <3>3, <4>1, <4>2, <4>3 DEF UndoFits, NoNode
    <3> QED
      BY <1>4, <3>1, <3>2, <3>3
  <2>3. Laid(line)'
    BY <1>2, <2>2, StillLaid
  <2>4. HeaderFits(line)'
    <3>1. HeadFits(line)'
      BY <1>1, <2>1, <2>2 DEF HeadFits
    <3> QED
      BY <1>1, <1>2, <2>1, <3>1 DEF HeaderFits, Idle, RemovedIsOff, NoNode
  <2>5. QueuesFit(line)'
    BY <1>2, <1>4, <2>1, CallGoesOn
  <2>6. HolderFits'
    BY <1>1, <1>2, <2>1, HolderGoesOn
  <2> QED
    BY <2>3, <2>4, <2>5, <2>6 DEF JInv
<1>5. CASE at = 4
  <2>1. /\ work' = Tail(work) /\ at' = 1 /\ fwd' = fwd /\ bwd' = bwd /\ shb.insert_que = NoNode
        /\ shb'.insert_que = NoNode /\ shb'.remove_node = NoNode
    BY <1>1, <1>5 DEF undo_insert, Doing, Done, links, SHB, UndoFits
  <2>2. Forward = fwd /\ Backward = bwd /\ Forward' = fwd /\ Backward' = bwd
    BY <1>1, <2>1 DEF Forward, Backward, Redone, Undone, NoNode
  <2>3. Laid(line)'
    BY <1>2, <2>2, StillLaid
  <2>4. ~Both'
    BY <2>1 DEF Both, NoNode
  <2>5. HeaderFits(line)'
    BY <1>1, <1>2, <2>1, <2>4, HeaderProceeds
  <2>6. QueuesFit(line)'
    BY <1>1, <1>2, <1>5, <2>1, CallProceeds, DifferentOperations
  <2>7. HolderFits'
    BY <1>1, <1>2, <2>1, HolderGoesOn
  <2> QED
    BY <2>3, <2>5, <2>6, <2>7 DEF JInv
<1> QED
  BY <1>1, <1>4, <1>5


-----------------------------------------------------------------------------
(* remove_que. *)

\* The links with the removed node n, as the next process would redo it.
Checked(n) == CHECK_next(n) /\ CHECK_prior(n)

\* With an unfinished removal the links are as the next process leaves them.
LEMMA RedoneLinks ==
  ASSUME NEW n, n # NoNode, shb.remove_node = n, ~Both
  PROVE  /\ Redone <=> Checked(n)
         /\ Checked(n) => /\ Forward = [fwd EXCEPT ![bwd[n]] = fwd[n]]
                          /\ Backward = [bwd EXCEPT ![fwd[n]] = bwd[n]]
         /\ ~Checked(n) => Forward = fwd /\ Backward = bwd
BY DEF Redone, Checked, Forward, Backward, Undone, Both

\* Within a removal the header is what the writes so far made it.
LEMMA RemoveHeader ==
  ASSUME NEW line, work # <<>>, work' = work, Head(work).op = "remove",
         NEW n \in Links, n = Head(work).node, RemoveFits(line, n)', at' > 1, at' \in Nat
  PROVE  HeaderFits(line)'
<1>1. HeadFits(line)'
  BY DEF HeadFits, RemoveFits, Both, NoNode
<1>2. Off(line, n) /\ ~Both' /\ shb'.remove_node \in {NoNode, n}
  BY DEF RemoveFits, Both, NoNode
<1> QED
  BY <1>1, <1>2 DEF HeaderFits, Idle, RemovedIsOff, Both, NoNode

\* What is known at every write of a removal.
LEMMA RemoveFacts ==
  ASSUME TInv, NEW line, JInv(line), remove_que
  PROVE  LET n == Head(work).node
         IN /\ work # <<>> /\ Head(work).op = "remove" /\ Head(work) = Removing(n)
            /\ n \in Links /\ n \in Nodes /\ n # NoNode
            /\ RemoveFits(line, n) /\ at \in 1..6 /\ ~Both /\ ~Both'
            /\ fwd \in [Nodes -> Nodes] /\ bwd \in [Nodes -> Nodes] /\ shb \in SHB
            /\ NoNode \notin Nodes /\ Other
            /\ Laid(line) /\ HeaderFits(line) /\ HolderFits /\ QueuesFit(line)
            /\ UNCHANGED <<holder, held, deaths>>
            /\ Off(line, n) => ~Inside(line, n)
<1>1. work # <<>> /\ Head(work).op = "remove" /\ Other /\ at \in 1..6
  BY DEF remove_que, Doing, Wrote, Done
<1>2. Head(work).node \in Links /\ Head(work) = Removing(Head(work).node)
  BY <1>1, HeadFitsType
<1>3. fwd \in [Nodes -> Nodes] /\ bwd \in [Nodes -> Nodes] /\ shb \in SHB
  BY DEF TInv, TypeOK
<1>4. /\ Laid(line) /\ HeaderFits(line) /\ HolderFits /\ QueuesFit(line)
      /\ UNCHANGED <<holder, held, deaths>>
  BY <1>1 DEF JInv, Other
<1>5. RemoveFits(line, Head(work).node) /\ ~Both
  BY <1>1, <1>4 DEF HeaderFits, HeadFits, RemoveFits
<1>6. shb'.insert_que = shb.insert_que /\ shb'.insert_prior = shb.insert_prior
  BY <1>3 DEF remove_que, links, SHB
<1>7. ~Both'
  BY <1>5, <1>6 DEF Both, NoNode
<1>8. Off(line, Head(work).node) => ~Inside(line, Head(work).node)
  BY <1>2, HeadsAreNoLinks DEF Inside
<1> QED
  BY <1>1, <1>2, <1>3, <1>4, <1>5, <1>7, <1>8, HeadsAreNoLinks DEF Nodes


\* The node that is removed is gone at the first write.
LEMMA RemoveBegins ==
  ASSUME TInv, NEW line, JInv(line), remove_que, at = 1
  PROVE  \E new : JInv(new)' /\ Moved(line, new)
<1>0. PICK n : n = Head(work).node
  OBVIOUS
<1>1. /\ work # <<>> /\ Head(work).op = "remove" /\ Head(work) = Removing(n)
      /\ n \in Links /\ n \in Nodes /\ n # NoNode
      /\ RemoveFits(line, n) /\ ~Both /\ ~Both'
      /\ fwd \in [Nodes -> Nodes] /\ bwd \in [Nodes -> Nodes] /\ shb \in SHB
      /\ NoNode \notin Nodes /\ Other
      /\ Laid(line) /\ HeaderFits(line) /\ HolderFits /\ QueuesFit(line)
      /\ UNCHANGED <<holder, held, deaths>>
      /\ Off(line, n) => ~Inside(line, n)
  BY <1>0, RemoveFacts
<1>2. /\ work' = work /\ at' = 2 /\ fwd' = fwd /\ bwd' = bwd
      /\ shb' = [shb EXCEPT !.remove_node = n] /\ shb'.remove_node = n
  BY <1>0, <1>1 DEF remove_que, Doing, Wrote, links, SHB
<1>3. HolderFits'
  BY <1>1, <1>2, HolderGoesOn
<1>4. /\ Checked(n) => /\ Forward' = [fwd EXCEPT ![bwd[n]] = fwd[n]]
                       /\ Backward' = [bwd EXCEPT ![fwd[n]] = bwd[n]]
      /\ ~Checked(n) => Forward' = fwd /\ Backward' = bwd
  BY <1>1, <1>2
     DEF Redone, Checked, Forward, Backward, Undone, Both, CHECK_next, CHECK_prior, NoNode
<1>5. ASSUME NEW new, Off(new, n) PROVE HeaderFits(new)'
  <2>1. RemoveFits(new, n)'
    BY <1>1, <1>2, <1>5 DEF RemoveFits, Both, NoNode
  <2> QED
    BY <1>0, <1>1, <1>2, <2>1, RemoveHeader
<1>6. LaidBy(Forward, Backward, line) /\ line \in Lines /\ Apart(line)
  BY <1>1 DEF Laid, LaidBy
<1>7. CASE Off(line, n)
  <2>1. \A m : Inside(line, m) => Forward'[m] = Forward[m] /\ Backward'[m] = Backward[m]
    <3>1. CASE shb.remove_node = n
      <4>1. /\ Checked(n) => /\ Forward = [fwd EXCEPT ![bwd[n]] = fwd[n]]
                             /\ Backward = [bwd EXCEPT ![fwd[n]] = bwd[n]]
            /\ ~Checked(n) => Forward = fwd /\ Backward = bwd
        BY <1>1, <3>1, RedoneLinks
      <4> QED
        BY <1>4, <4>1
    <3>2. CASE shb.remove_node # n
      <4>1. shb.remove_node = NoNode
        BY <1>1, <3>2 DEF RemoveFits
      <4>2. Forward = fwd /\ Backward = bwd
        BY <1>1, <4>1, PlainLinks
      <4>3. CASE Checked(n)
        <5> SUFFICES ASSUME NEW m, Inside(line, m), m \in Nodes
                     PROVE  Forward'[m] = fwd[m] /\ Backward'[m] = bwd[m]
          BY <4>2, InsideIsNode
        <5>1. Inside(line, fwd[m]) /\ Inside(line, bwd[m])
          BY <1>6, <4>2, LinksStayInside
        <5>2. fwd[m] # n /\ bwd[m] # n
          BY <1>1, <1>7, <5>1
        <5>3. m = bwd[n] => fwd[m] = fwd[n]
          BY <4>3, <5>2 DEF Checked, CHECK_prior
        <5>4. m = fwd[n] => bwd[m] = bwd[n]
          BY <4>3, <5>2 DEF Checked, CHECK_next
        <5> QED
          BY <1>1, <1>4, <4>3, <5>3, <5>4
      <4>4. CASE ~Checked(n)
        BY <1>4, <4>2, <4>4
      <4> QED
        BY <4>3, <4>4
    <3> QED
      BY <3>1, <3>2
  <2>2. Laid(line)'
    BY <1>1, <2>1, StillLaid
  <2>3. HeaderFits(line)'
    BY <1>5, <1>7
  <2>4. QueuesFit(line)'
    BY <1>1, <1>2, CallGoesOn
  <2> QED
    BY <1>3, <2>2, <2>3, <2>4 DEF JInv, Moved
<1>8. CASE ~Off(line, n)
  <2>1. PICK q \in Heads : On(line, q, n)
    BY <1>8 DEF Off
  <2>2. PICK i \in 1..Len(line[q]) : line[q][i] = n
    BY <2>1 DEF On
  <2> DEFINE new == [line EXCEPT ![q] = RemoveAt(@, i)]
  <2>3. Inside(line, n)
    BY <1>1, <1>8 DEF Inside
  <2>4. shb.remove_node = NoNode
    BY <1>1, <1>8 DEF HeaderFits, RemovedIsOff, RemoveFits
  <2>5. Forward = fwd /\ Backward = bwd
    BY <1>1, <2>4, PlainLinks
  <2>6. bwd[fwd[n]] = n /\ fwd[bwd[n]] = n
    BY <1>6, <2>3, <2>5, LinksStayInside
  <2>7. /\ Forward' = [fwd EXCEPT ![bwd[n]] = fwd[n]]
        /\ Backward' = [bwd EXCEPT ![fwd[n]] = bwd[n]]
    BY <1>4, <2>6 DEF Checked, CHECK_next, CHECK_prior
  <2>8. Laid(new)'
    <3>1. PICK f, b, g, c : f = fwd /\ b = bwd /\ g = Forward' /\ c = Backward'
      OBVIOUS
    <3>2. LaidBy(f, b, line)
      BY <1>6, <2>5, <3>1
    <3>3. \A m : Inside(line, m) => /\ g[m] = IF m = b[n] THEN f[n] ELSE f[m]
                                    /\ c[m] = IF m = f[n] THEN b[n] ELSE b[m]
      BY <1>1, <2>7, <3>1, InsideIsNode
    <3>4. LaidBy(g, c, [line EXCEPT ![q] = RemoveAt(@, i)])
      BY <2>2, <3>2, <3>3, LinkedOut
    <3>5. LaidBy(Forward', Backward', new)
      BY <3>1, <3>4
    <3> QED
      BY <3>5 DEF Laid
  <2>9. \A p \in Heads : \A m : On(new, p, m) <=> On(line, p, m) /\ m # n
    BY <1>6, <2>2, RemoveOn
  <2>10. Moved(line, new)
    BY DEF Moved
  <2> HIDE DEF new
  <2>11. HeaderFits(new)'
    <3>1. Off(new, n)
      BY <2>9 DEF Off
    <3> QED
      BY <1>5, <3>1
  <2>12. QueuesFit(new)'
    BY <1>1, <1>2, <2>9, CallRemoves
  <2> QED
    BY <1>3, <2>8, <2>10, <2>11, <2>12 DEF JInv
<1> QED
  BY <1>7, <1>8


\* Its neighbours are linked to each other, then its own links are reset.
LEMMA RemoveKeeps ==
  ASSUME TInv, NEW line, JInv(line), remove_que, at \in 2..6
  PROVE  JInv(line)'
<1>0. PICK n : n = Head(work).node
  OBVIOUS
<1>1. /\ work # <<>> /\ Head(work).op = "remove" /\ Head(work) = Removing(n)
      /\ n \in Links /\ n \in Nodes /\ n # NoNode
      /\ RemoveFits(line, n) /\ ~Both /\ ~Both'
      /\ fwd \in [Nodes -> Nodes] /\ bwd \in [Nodes -> Nodes] /\ shb \in SHB
      /\ NoNode \notin Nodes /\ Other
      /\ Laid(line) /\ HeaderFits(line) /\ HolderFits /\ QueuesFit(line)
      /\ UNCHANGED <<holder, held, deaths>>
      /\ Off(line, n) => ~Inside(line, n)
  BY <1>0, RemoveFacts
<1>2. Off(line, n) /\ ~Inside(line, n) /\ (at \in 2..4 => shb.remove_node = n)
  BY <1>1 DEF RemoveFits
<1>3. LaidBy(Forward, Backward, line)
  BY <1>1 DEF Laid
<1>4. ASSUME work' = work, at' \in 3..6, RemoveFits(line, n)', 
             \A m : Inside(line, m) => Forward'[m] = Forward[m] /\ Backward'[m] = Backward[m]
      PROVE  JInv(line)'
  <2>1. HeaderFits(line)'
    BY <1>0, <1>1, <1>4, RemoveHeader
  <2>2. Laid(line)'
    BY <1>1, <1>4, StillLaid
  <2>3. QueuesFit(line)'
    BY <1>1, <1>4, CallGoesOn
  <2>4. HolderFits'
    BY <1>1, <1>4, HolderGoesOn
  <2> QED
    BY <2>1, <2>2, <2>3, <2>4 DEF JInv
<1>5. at \in 2..4 => /\ Checked(n) => /\ Forward = [fwd EXCEPT ![bwd[n]] = fwd[n]]
                                      /\ Backward = [bwd EXCEPT ![fwd[n]] = bwd[n]]
                     /\ ~Checked(n) => Forward = fwd /\ Backward = bwd
  BY <1>1, <1>2, RedoneLinks
<1>6. ASSUME at \in 2..3, shb' = shb
      PROVE  /\ Checked(n)' => /\ Forward' = [fwd' EXCEPT ![bwd'[n]] = fwd'[n]]
                               /\ Backward' = [bwd' EXCEPT ![fwd'[n]] = bwd'[n]]
             /\ ~Checked(n)' => Forward' = fwd' /\ Backward' = bwd'
  <2>1. shb'.remove_node = n /\ n # NoNode
    BY <1>1, <1>2, <1>6
  <2>2. Redone' <=> Checked(n)'
    BY <2>1 DEF Redone, Checked, CHECK_next, CHECK_prior, NoNode
  <2>3. ~Undone'
    BY <1>1 DEF Undone, Both, NoNode
  <2> QED
    BY <2>1, <2>2, <2>3 DEF Forward, Backward
<1>7. CASE at = 2
  <2>1. /\ work' = work /\ at' = 3 /\ fwd' = fwd /\ shb' = shb
        /\ bwd' = [bwd EXCEPT ![fwd[n]] = bwd[n]] /\ CHECK_next(n)
    BY <1>0, <1>1, <1>7 DEF remove_que, Doing, Wrote
  <2>2. fwd[n] \in Nodes /\ bwd[n] \in Nodes
    BY <1>1
  <2>3. bwd'[fwd[n]] = bwd[n] /\ bwd'[n] = bwd[n]
    BY <1>1, <2>1, <2>2
  <2>4. RemoveFits(line, n)'
    BY <1>1, <1>2, <1>7, <2>1, <2>3 DEF RemoveFits, Both, NoNode
  <2>5. Checked(n)' <=> Checked(n)
    BY <2>1, <2>3 DEF Checked, CHECK_next, CHECK_prior
  <2>6. \A m : Inside(line, m) => Forward'[m] = Forward[m] /\ Backward'[m] = Backward[m]
    <3>1. CASE Checked(n)
      <4>1. Backward' = [bwd' EXCEPT ![fwd[n]] = bwd[n]] /\ Forward' = Forward
        <5>1. Forward = [fwd EXCEPT ![bwd[n]] = fwd[n]]
          BY <1>5, <1>7, <3>1
        <5>2. /\ Forward' = [fwd' EXCEPT ![bwd'[n]] = fwd'[n]]
              /\ Backward' = [bwd' EXCEPT ![fwd'[n]] = bwd'[n]]
          BY <1>6, <1>7, <2>1, <2>5, <3>1
        <5> QED
          BY <2>1, <2>3, <5>1, <5>2
      <4>2. Backward' = Backward
        BY <1>1, <1>5, <1>7, <2>1, <2>2, <3>1, <4>1
      <4> QED
        BY <4>1, <4>2
    <3>2. CASE ~Checked(n)
      <4>1. Forward = fwd /\ Backward = bwd /\ Forward' = fwd /\ Backward' = bwd'
        BY <1>5, <1>6, <1>7, <2>1, <2>5, <3>2
      <4> SUFFICES ASSUME NEW m, Inside(line, m), m \in Nodes PROVE bwd'[m] = bwd[m]
        BY <4>1, InsideIsNode
      <4>2. bwd[m] # n
        BY <1>2, <1>3, <4>1, LinksStayInside
      <4>3. m = fwd[n] => bwd[m] = bwd[n]
        BY <2>1, <4>2 DEF CHECK_next
      <4> QED
        BY <1>1, <2>1, <2>2, <4>3
    <3> QED
      BY <3>1, <3>2
  <2> QED
    BY <1>4, <2>1, <2>4, <2>6
<1>8. CASE at = 3
  <2>1. /\ work' = work /\ at' = 4 /\ bwd' = bwd /\ shb' = shb
        /\ fwd' = [fwd EXCEPT ![bwd[n]] = fwd[n]] /\ CHECK_prior(n) /\ bwd[fwd[n]] = bwd[n]
    BY <1>0, <1>1, <1>8 DEF remove_que, Doing, Wrote, RemoveFits
  <2>2. fwd[n] \in Nodes /\ bwd[n] \in Nodes
    BY <1>1
  <2>3. fwd'[bwd[n]] = fwd[n] /\ fwd'[n] = fwd[n]
    BY <1>1, <2>1, <2>2
  <2>4. RemoveFits(line, n)'
    BY <1>1, <1>2, <1>8, <2>1, <2>3 DEF RemoveFits, Both, NoNode
  <2>5. Checked(n)' /\ Checked(n)
    BY <2>1, <2>3 DEF Checked, CHECK_next, CHECK_prior
  <2>6. Forward' = [fwd' EXCEPT ![bwd[n]] = fwd[n]] /\ Backward' = Backward
    <3>1. Backward = [bwd EXCEPT ![fwd[n]] = bwd[n]]
      BY <1>5, <1>8, <2>5
    <3>2. /\ Forward' = [fwd' EXCEPT ![bwd'[n]] = fwd'[n]]
          /\ Backward' = [bwd' EXCEPT ![fwd'[n]] = bwd'[n]]
      BY <1>6, <1>8, <2>1, <2>5
    <3> QED
      BY <2>1, <2>3, <3>1, <3>2
  <2>7. Forward' = Forward
    BY <1>1, <1>5, <1>8, <2>1, <2>2, <2>5, <2>6
  <2>8. \A m : Inside(line, m) => Forward'[m] = Forward[m] /\ Backward'[m] = Backward[m]
    BY <2>6, <2>7
  <2>9. at' \in 3..6 /\ work' = work
    BY <2>1
  <2> QED
    BY <1>4, <2>4, <2>8, <2>9
<1>9. CASE at = 4
  <2>1. /\ work' = work /\ at' = 5 /\ bwd' = bwd /\ fwd' = fwd /\ shb'.remove_node = NoNode
        /\ bwd[fwd[n]] = bwd[n] /\ fwd[bwd[n]] = fwd[n]
    BY <1>0, <1>1, <1>9 DEF remove_que, Doing, Wrote, RemoveFits, links, SHB
  <2>2. fwd[n] \in Nodes /\ bwd[n] \in Nodes
    BY <1>1
  <2>3. RemoveFits(line, n)'
    BY <1>1, <1>2, <1>9, <2>1 DEF RemoveFits, Both, NoNode
  <2>4. Checked(n)
    BY <2>1 DEF Checked, CHECK_next, CHECK_prior
  <2>5. Forward = [fwd EXCEPT ![bwd[n]] = fwd[n]] /\ Backward = [bwd EXCEPT ![fwd[n]] = bwd[n]]
    BY <1>5, <1>9, <2>4
  <2>6. Forward = fwd /\ Backward = bwd
    BY <1>1, <2>1, <2>2, <2>5
  <2>7. Forward' = fwd /\ Backward' = bwd
    BY <1>1, <2>1 DEF Forward, Backward, Redone, Undone, Both, NoNode
  <2> QED
    BY <1>4, <2>1, <2>3, <2>6, <2>7
<1>10. ASSUME at \in 5..6
       PROVE  /\ shb' = shb /\ Forward = fwd /\ Backward = bwd
              /\ Forward' = fwd' /\ Backward' = bwd'
              /\ fwd' = [fwd EXCEPT ![n] = fwd'[n]] /\ bwd' = [bwd EXCEPT ![n] = bwd'[n]]
  <2>1. shb' = shb /\ shb.remove_node = NoNode
    BY <1>1, <1>10 DEF remove_que, Doing, RemoveFits
  <2>2. Forward = fwd /\ Backward = bwd
    BY <1>1, <2>1, PlainLinks
  <2>3. Forward' = fwd' /\ Backward' = bwd'
    BY <1>1, <2>1 DEF Forward, Backward, Redone, Undone, Both, NoNode
  <2>4. CASE at = 5
    <3>1. bwd' = [bwd EXCEPT ![n] = n] /\ fwd' = fwd
      BY <1>0, <1>1, <2>4 DEF remove_que, Doing
    <3> QED
      BY <1>1, <2>1, <2>2, <2>3, <3>1
  <2>5. CASE at = 6
    <3>1. fwd' = [fwd EXCEPT ![n] = n] /\ bwd' = bwd
      BY <1>0, <1>1, <2>5 DEF remove_que, Doing
    <3> QED
      BY <1>1, <2>1, <2>2, <2>3, <3>1
  <2> QED
    BY <1>10, <2>4, <2>5
<1>11. at \in 5..6 =>
         \A m : Inside(line, m) => Forward'[m] = Forward[m] /\ Backward'[m] = Backward[m]
  <2> SUFFICES ASSUME at \in 5..6, NEW m, Inside(line, m), m \in Nodes, m # n
               PROVE  Forward'[m] = Forward[m] /\ Backward'[m] = Backward[m]
    BY <1>2, InsideIsNode
  <2> QED
    BY <1>1, <1>10
<1>12. CASE at = 5
  <2>1. work' = work /\ at' = 6 /\ shb' = shb
    BY <1>1, <1>10, <1>12 DEF remove_que, Doing, Wrote
  <2>2. RemoveFits(line, n)'
    BY <1>1, <1>2, <1>12, <2>1 DEF RemoveFits, Both, NoNode
  <2> QED
    BY <1>4, <1>11, <1>12, <2>1, <2>2
<1>13. CASE at = 6
  <2>1. work' = Tail(work) /\ at' = 1 /\ shb' = shb /\ shb.remove_node = NoNode
    BY <1>1, <1>10, <1>13 DEF remove_que, Doing, Done, RemoveFits
  <2>2. Laid(line)'
    BY <1>1, <1>11, <1>13, StillLaid
  <2>3. HeaderFits(line)'
    BY <1>1, <2>1, HeaderProceeds
  <2>4. QueuesFit(line)'
    BY <1>1, <1>2, <1>13, <2>1, CallProceeds, DifferentOperations
  <2>5. HolderFits'
    BY <1>1, <2>1, HolderGoesOn
  <2> QED
    BY <2>2, <2>3, <2>4, <2>5 DEF JInv
<1> QED
  BY <1>7, <1>8, <1>9, <1>12, <1>13

\* remove_que: at its first write the node is out, at none other a queue changes.
LEMMA RemoveStep ==
  ASSUME TInv, NEW line, JInv(line), remove_que
  PROVE  \E new : JInv(new)' /\ Moved(line, new)
<1>1. at = 1 \/ at \in 2..6
  BY DEF remove_que, Doing
<1> QED
  BY <1>1, RemoveBegins, RemoveKeeps DEF Moved


-----------------------------------------------------------------------------
(* The lock manager around the queue operations. *)

\* Between calls every request that was given is queued, and each to one owner.
LEMMA IdleCall ==
  ASSUME TInv, NEW line, JInv(line), work = <<>>
  PROVE  /\ at = 1 /\ \A o \in Owners, r \in Requests : r \in held[o] => Queued(line, o, r)
         /\ \A o, p \in Owners, r \in Requests :
              On(line, Own(o), OwnLink(r)) /\ r \in held[p] => o = p
         /\ held \in [Owners -> SUBSET Requests]
         /\ Laid(line) /\ line \in Lines /\ Apart(line)
         /\ HeaderFits(line) /\ HolderFits /\ QueuesFit(line)
<1>1. Laid(line) /\ HeaderFits(line) /\ HolderFits /\ QueuesFit(line)
  BY DEF JInv
<1>2. line \in Lines /\ Apart(line)
  BY <1>1 DEF Laid, LaidBy
<1>3. \A o \in Owners, r \in Requests : r \in held[o] => Queued(line, o, r)
  BY <1>1, EnqSteps DEF QueuesFit, Kept
<1>4. ASSUME NEW o \in Owners, NEW p \in Owners, NEW r \in Requests,
             On(line, Own(o), OwnLink(r)), r \in held[p]
      PROVE  o = p
  <2>1. On(line, Own(p), OwnLink(r))
    BY <1>3, <1>4 DEF Queued
  <2>2. Own(o) \in Heads /\ Own(p) \in Heads
    BY DifferentNodes
  <2>3. Own(o) = Own(p)
    BY <1>2, <1>4, <2>1, <2>2 DEF On, Apart
  <2> QED
    BY <2>3, DifferentNodes
<1> QED
  BY <1>1, <1>2, <1>3, <1>4 DEF HolderFits, TInv, TypeOK

\* A process that has the table and does nothing sees it whole.
LEMMA IdleLinks ==
  ASSUME TInv, NEW line, JInv(line), work = <<>>, holder # NoOwner
  PROVE  /\ Clear /\ Forward = fwd /\ Backward = bwd
         /\ \A q \in Heads, n \in Links : n = fwd[q] => On(line, q, n)
<1>1. Clear
  BY DEF JInv, HeaderFits, Idle
<1>2. Forward = fwd /\ Backward = bwd
  BY <1>1, PlainLinks DEF Clear
<1>3. ASSUME NEW q \in Heads, NEW n \in Links, n = fwd[q] PROVE On(line, q, n)
  <2>1. Linked(fwd, bwd, q, line[q]) /\ line \in Lines
    BY <1>2 DEF JInv, Laid, LaidBy
  <2>2. Len(line[q]) \in Nat
    BY <2>1, LineType
  <2>3. 0 \in 0..Len(line[q]) /\ NodeAt(q, line[q], 0) = q
    BY <2>2 DEF NodeAt
  <2>4. n = NodeAt(q, line[q], 1)
    <3>1. fwd[NodeAt(q, line[q], 0)] = NodeAt(q, line[q], 0 + 1)
      BY <2>1, <2>3 DEF Linked
    <3> QED
      BY <1>3, <2>3, <3>1
  <2>5. n # q
    BY HeadsAreNoLinks
  <2> QED
    BY <2>4, <2>5 DEF NodeAt, On
<1> QED
  BY <1>1, <1>2, <1>3

\* No write: the links show what they showed.
LEMMA SameLinks ==
  ASSUME UNCHANGED <<fwd, bwd, shb>>, Doing("insert", 2)' <=> Doing("insert", 2)
  PROVE  Forward' = Forward /\ Backward' = Backward
<1>1. Redone' <=> Redone
  BY DEF Redone, CHECK_next, CHECK_prior, NoNode
<1>2. Undone' <=> Undone
  BY <1>1 DEF Undone, NoNode
<1> QED
  BY <1>1, <1>2 DEF Forward, Backward

\* A call begins: its first operation is a removal.
LEMMA CallBegins ==
  ASSUME TInv, NEW line, JInv(line), work = <<>>, holder # NoOwner,
         NEW n \in Links, work' # <<>>, Head(work') = Removing(n), at' = at,
         UNCHANGED <<fwd, bwd, shb, holder, active, dead, deaths>>,
         \A o \in dead : held'[o] = {}
  PROVE  Laid(line)' /\ HeaderFits(line)' /\ HolderFits'
<1>1. Clear /\ at = 1 /\ Laid(line) /\ HeaderFits(line) /\ HolderFits
  BY IdleCall, IdleLinks
<1>2. Forward' = Forward /\ Backward' = Backward
  BY <1>1, SameLinks DEF Doing
<1>3. Laid(line)'
  BY <1>1, <1>2, StillLaid
<1>4. HeadFits(line)'
  BY <1>1 DEF HeadFits, RemoveFits, Removing, Clear, Both, NoNode
<1>5. HeaderFits(line)'
  BY <1>1, <1>4 DEF HeaderFits, Idle, RemovedIsOff, Clear, Both, NoNode, Removing
<1>6. HolderFits'
  BY <1>1 DEF HolderFits
<1> QED
  BY <1>3, <1>5, <1>6

\* LOCK_enq begins with a free request.
LEMMA EnqStep ==
  ASSUME TInv, NEW line, JInv(line), NEW o \in Owners, LOCK_enq(o)
  PROVE  JInv(line)'
<1>1. /\ work = <<>> /\ holder = o /\ holder # NoOwner
      /\ UNCHANGED <<fwd, bwd, shb, holder, active, dead, deaths, at>>
  BY ConstantAssumption DEF LOCK_enq, Ready, links
<1>2. PICK r \in Requests : /\ Lbl(r) = fwd[Free] /\ work' = EnqOperations(o, r)
                            /\ held' = [held EXCEPT ![o] = @ \cup {r}]
  BY DEF LOCK_enq
<1>3. /\ at = 1 /\ \A p \in Owners, s \in Requests : s \in held[p] => Queued(line, p, s)
      /\ held \in [Owners -> SUBSET Requests]
      /\ HolderFits /\ QueuesFit(line)
  BY <1>1, IdleCall
<1>4. On(line, Free, Lbl(r))
  BY <1>1, <1>2, IdleLinks, DifferentNodes
<1>5. Off(line, OwnLink(r))
  BY <1>3, <1>4 DEF QueuesFit, OwnersOnly, LocksOwned, OwnedIn, Off
<1>6. EnqFits(line, o, r)'
  BY <1>1, <1>2, <1>3, <1>4, <1>5 DEF EnqFits
<1>7. work' # <<>> /\ Head(work') = Removing(Lbl(r)) /\ Lbl(r) \in Links
  BY <1>2, ThreeOperations, DifferentNodes DEF EnqOperations
<1>8. \A p \in dead : held'[p] = {}
  BY <1>1, <1>2, <1>3 DEF HolderFits, TInv, TypeOK
<1>9. Laid(line)' /\ HeaderFits(line)' /\ HolderFits'
  BY <1>1, <1>7, <1>8, CallBegins
<1>10. Kept(line)'
  <2> SUFFICES ASSUME NEW p \in Owners, NEW s \in Requests, s \in held'[p]
               PROVE  Queued(line, p, s) \/ EnqFits(line, p, s)'
    BY DEF Kept, Queued
  <2>1. s \in held[p] \/ (p = o /\ s = r)
    BY <1>2, <1>3
  <2> QED
    BY <1>3, <1>6, <2>1
<1>11. QueuesFit(line)'
  BY <1>3, <1>6, <1>10 DEF QueuesFit, CallFits, OwnersOnly, LocksOwned, OwnedIn
<1> QED
  BY <1>9, <1>11 DEF JInv

\* A request is released that no process counts on.
LEMMA ReleaseBegins ==
  ASSUME TInv, NEW line, JInv(line), work = <<>>, holder # NoOwner, NEW r \in Requests,
         work' = ReleaseOperations(r), at' = at,
         UNCHANGED <<fwd, bwd, shb, holder, active, dead, deaths>>,
         \A o \in Owners : held'[o] \subseteq held[o] /\ r \notin held'[o]
  PROVE  JInv(line)'
<1>1. /\ \A p \in Owners, s \in Requests : s \in held[p] => Queued(line, p, s)
      /\ HolderFits /\ QueuesFit(line)
  BY IdleCall
<1>2. work' # <<>> /\ Head(work') = Removing(Lbl(r)) /\ Lbl(r) \in Links
  BY ThreeOperations, DifferentNodes DEF ReleaseOperations
<1>3. \A p \in dead : held'[p] = {}
  BY <1>1 DEF HolderFits, TInv, TypeOK
<1>4. Laid(line)' /\ HeaderFits(line)' /\ HolderFits'
  BY <1>2, <1>3, CallBegins
<1>5. ReleaseFits(line, r)'
  BY DEF ReleaseFits
<1>6. Kept(line)'
  BY <1>1 DEF Kept, Queued
<1>7. QueuesFit(line)'
  BY <1>1, <1>5, <1>6 DEF QueuesFit, CallFits, OwnersOnly, LocksOwned, OwnedIn
<1> QED
  BY <1>4, <1>7 DEF JInv

\* LOCK_deq begins with a request of the process.
LEMMA DeqStep ==
  ASSUME TInv, NEW line, JInv(line), NEW o \in Owners, LOCK_deq(o)
  PROVE  JInv(line)'
<1>1. /\ work = <<>> /\ holder = o /\ holder # NoOwner /\ at' = at
      /\ UNCHANGED <<fwd, bwd, shb, holder, active, dead, deaths>>
  BY ConstantAssumption DEF LOCK_deq, Ready, links
<1>2. PICK r \in held[o] : /\ work' = ReleaseOperations(r)
                           /\ held' = [held EXCEPT ![o] = @ \ {r}]
  BY DEF LOCK_deq
<1>3. /\ held \in [Owners -> SUBSET Requests]
      /\ \A p \in Owners, s \in Requests : s \in held[p] => Queued(line, p, s)
      /\ \A p, x \in Owners, s \in Requests :
           On(line, Own(p), OwnLink(s)) /\ s \in held[x] => p = x
  BY <1>1, IdleCall
<1>4. r \in Requests
  BY <1>3
<1>5. \A p \in Owners : r \in held[p] => p = o
  BY <1>3, <1>4 DEF Queued
<1>6. \A p \in Owners : held'[p] \subseteq held[p] /\ r \notin held'[p]
  BY <1>2, <1>3, <1>5
<1> QED
  BY <1>1, <1>2, <1>4, <1>6, ReleaseBegins

\* purge_owner begins with a request of a dead owner, which nobody else has.
LEMMA PurgeStep ==
  ASSUME TInv, NEW line, JInv(line), NEW p \in Owners, purge_owner(p)
  PROVE  JInv(line)'
<1>1. /\ work = <<>> /\ holder = p /\ holder # NoOwner /\ at' = at
      /\ UNCHANGED <<fwd, bwd, shb, holder, active, held, dead, deaths>>
  BY ConstantAssumption DEF purge_owner, Ready, links
<1>2. PICK o \in dead, r \in Requests : OwnLink(r) = fwd[Own(o)] /\ work' = ReleaseOperations(r)
  BY DEF purge_owner
<1>3. /\ \A q, x \in Owners, s \in Requests :
           On(line, Own(q), OwnLink(s)) /\ s \in held[x] => q = x
      /\ HolderFits /\ o \in Owners
  BY <1>1, IdleCall DEF TInv, TypeOK
<1>4. On(line, Own(o), OwnLink(r))
  BY <1>1, <1>2, <1>3, IdleLinks, DifferentNodes
<1>5. \A x \in Owners : r \notin held[x]
  BY <1>3, <1>4 DEF HolderFits
<1> QED
  BY <1>1, <1>2, <1>5, ReleaseBegins


\* What the next process has to repair.
LEMMA RepairIs ==
  ASSUME TInv, NEW line, JInv(line), work = <<>>
  PROVE  \/ Repair = <<>> /\ Clear
         \/ /\ Repair = <<Removing(shb.remove_node)>> /\ shb.remove_node \in Links
            /\ Off(line, shb.remove_node) /\ ~Both /\ NoNode \notin Links
         \/ Repair = <<Undoing>> /\ shb.remove_node = NoNode /\ Both
<1>1. HeaderFits(line)
  BY DEF JInv
<1>2. NoNode \notin Links
  BY HeadsAreNoLinks DEF Nodes
<1>3. CASE active = NoOwner
  BY <1>1, <1>3 DEF Repair, HeaderFits, Idle
<1>4. CASE active # NoOwner /\ shb.remove_node # NoNode
  BY <1>1, <1>2, <1>4 DEF Repair, HeaderFits, RemovedIsOff
<1>5. CASE active # NoOwner /\ shb.remove_node = NoNode /\ Both
  BY <1>1, <1>5 DEF Repair, HeaderFits, Both
<1>6. CASE active # NoOwner /\ shb.remove_node = NoNode /\ ~Both
  BY <1>6 DEF Repair, Clear, Both
<1> QED
  BY <1>3, <1>4, <1>5, <1>6

\* acquire begins the repair of what is unfinished, if anything is.
LEMMA AcquireStep ==
  ASSUME TInv, NEW line, JInv(line), NEW o \in Owners, acquire(o)
  PROVE  JInv(line)'
<1>1. /\ holder = NoOwner /\ holder' = o /\ active' = o /\ o # NoOwner /\ o \notin dead
      /\ work' = Repair /\ at' = 1 /\ UNCHANGED <<fwd, bwd, shb, held, dead, deaths>>
  BY ConstantAssumption DEF acquire, links
<1>2. work = <<>>
  BY <1>1 DEF JInv, HolderFits
<1>3. /\ at = 1 /\ Laid(line) /\ HeaderFits(line) /\ HolderFits /\ QueuesFit(line)
      /\ \A p \in Owners, s \in Requests : s \in held[p] => Queued(line, p, s)
  BY <1>2, IdleCall
<1>4. Laid(line)'
  <2>1. Forward' = Forward /\ Backward' = Backward
    BY <1>1, <1>2, SameLinks DEF Doing
  <2> QED
    BY <1>3, <2>1, StillLaid
<1>5. HolderFits'
  BY <1>1, <1>3 DEF HolderFits
<1>7. RemovedIsOff(line)'
  BY <1>1, <1>3 DEF HeaderFits, RemovedIsOff, Both, NoNode
<1>8. Kept(line)'
  BY <1>1, <1>3 DEF Kept, Queued
<1>9. OwnersOnly(line) /\ LocksOwned(line)
  BY <1>3 DEF QueuesFit
<1>10. CASE Repair = <<>> /\ Clear
  <2>1. HeaderFits(line)'
    BY <1>1, <1>7, <1>10 DEF HeaderFits, HeadFits, Idle, Clear, Both, NoNode
  <2>2. CallFits(line)'
    BY <1>1, <1>10 DEF CallFits
  <2> QED
    BY <1>4, <1>5, <1>8, <1>9, <2>1, <2>2 DEF JInv, QueuesFit, OwnersOnly, LocksOwned, OwnedIn
<1>11. CASE /\ Repair = <<Removing(shb.remove_node)>> /\ shb.remove_node \in Links
            /\ Off(line, shb.remove_node) /\ ~Both /\ NoNode \notin Links
  <2>0. PICK n \in Links : n = shb.remove_node
    BY <1>11
  <2>1. work' = <<Removing(n)>> /\ work' # <<>> /\ Head(work') = Removing(n) /\ Off(line, n)
    BY <1>1, <1>11, <2>0, ThreeOperations
  <2>2. HeadFits(line)'
    BY <1>1, <1>11, <2>0, <2>1 DEF HeadFits, RemoveFits, Removing, Both, NoNode
  <2>3. HeaderFits(line)'
    BY <1>1, <1>7, <2>1, <2>2 DEF HeaderFits, Idle, Removing, NoNode
  <2>4. CallFits(line)'
    BY <2>1 DEF CallFits, RepairFits
  <2> QED
    BY <1>4, <1>5, <1>8, <1>9, <2>3, <2>4 DEF JInv, QueuesFit, OwnersOnly, LocksOwned, OwnedIn
<1>12. CASE Repair = <<Undoing>> /\ shb.remove_node = NoNode /\ Both
  <2>1. work' = <<Undoing>> /\ work' # <<>> /\ Head(work') = Undoing
    BY <1>1, <1>12, ThreeOperations
  <2>2. HeadFits(line)'
    BY <1>1, <1>12, <2>1 DEF HeadFits, UndoFits, Undoing, Both, NoNode
  <2>3. HeaderFits(line)'
    BY <1>1, <1>7, <1>12, <2>1, <2>2 DEF HeaderFits, Idle
  <2>4. CallFits(line)'
    BY <2>1 DEF CallFits, RepairFits
  <2> QED
    BY <1>4, <1>5, <1>8, <1>9, <2>3, <2>4 DEF JInv, QueuesFit, OwnersOnly, LocksOwned, OwnedIn
<1> QED
  BY <1>2, <1>10, <1>11, <1>12, RepairIs

\* A process leaves the table with nothing unfinished.
LEMMA LeaveStep ==
  ASSUME TInv, NEW line, JInv(line), NEW o \in Owners, release(o) \/ Restart(o)
  PROVE  JInv(line)'
<1>1. /\ UNCHANGED <<fwd, bwd, shb, work, at, held, deaths>> /\ work = <<>>
      /\ holder' = NoOwner /\ active' = NoOwner /\ (holder = NoOwner => active = NoOwner)
      /\ dead' \subseteq dead
  <2>1. CASE release(o)
    BY <2>1, ConstantAssumption DEF release, links
  <2>2. CASE Restart(o)
    <3>1. holder = NoOwner /\ holder' = NoOwner /\ active = NoOwner /\ active' = NoOwner
      BY <2>2 DEF Restart
    <3>2. work = <<>>
      BY <3>1 DEF JInv, HolderFits
    <3> QED
      BY <2>2, <3>1, <3>2 DEF Restart, links
  <2> QED
    BY <2>1, <2>2
<1>2. /\ at = 1 /\ Laid(line) /\ HeaderFits(line) /\ HolderFits /\ QueuesFit(line)
      /\ \A p \in Owners, s \in Requests : s \in held[p] => Queued(line, p, s)
  BY <1>1, IdleCall
<1>3. Laid(line)'
  <2>1. Forward' = Forward /\ Backward' = Backward
    BY <1>1, SameLinks DEF Doing
  <2> QED
    BY <1>2, <2>1, StillLaid
<1>4. Clear
  BY <1>1, <1>2 DEF HeaderFits, Idle
<1>5. HeaderFits(line)'
  BY <1>1, <1>2, <1>4
  DEF HeaderFits, HeadFits, Idle, RemovedIsOff, Clear, Both, NoNode
<1>6. HolderFits'
  BY <1>1, <1>2 DEF HolderFits
<1>7. QueuesFit(line)'
  BY <1>1, <1>2 DEF QueuesFit, CallFits, Kept, Queued, OwnersOnly, LocksOwned, OwnedIn
<1> QED
  BY <1>3, <1>5, <1>6, <1>7 DEF JInv

(* A process dies after the first write of an insertion, and the secondary header still *)
(* has the prior link of an earlier insertion that was not completed.                   *)
LeavesStale(o) ==
  Die(o) /\ holder = o /\ Doing("insert", 2) /\ shb.insert_prior # NoNode
NotStale == \A o \in Owners : ~LeavesStale(o)
NoStaleDeath == [][NotStale]_vars

\* A process dies at any other place: what it leaves is repaired.
LEMMA DieStep ==
  ASSUME TInv, NEW line, JInv(line), NEW o \in Owners, Die(o), ~LeavesStale(o)
  PROVE  JInv(line)'
<1>1. /\ o \notin dead /\ deaths < Deaths /\ dead' = dead \cup {o}
      /\ held' = [held EXCEPT ![o] = {}] /\ UNCHANGED <<fwd, bwd, shb, active>>
  BY DEF Die, links
<1>3. /\ Laid(line) /\ HeaderFits(line) /\ HolderFits /\ QueuesFit(line)
      /\ held \in [Owners -> SUBSET Requests]
      /\ o # NoOwner
  BY ConstantAssumption DEF JInv, TInv, TypeOK
<1>4. \A p \in Owners : held'[p] \subseteq held[p] /\ (p = o => held'[p] = {})
  BY <1>1, <1>3
<1>5. CASE holder = o
  <2>1. holder' = NoOwner /\ work' = <<>> /\ at' = 1 /\ active = o
    BY <1>3, <1>5 DEF Die, HolderFits
  <2>2. Laid(line)'
    <3>1. CASE Doing("insert", 2)
      <4>1. shb.insert_prior = NoNode /\ shb.remove_node = NoNode
        BY <1>3, <1>5, <3>1 DEF LeavesStale, Doing, HeaderFits, HeadFits, InsertFits
      <4>2. Forward' = fwd /\ Backward' = bwd
        BY <1>1, <4>1 DEF Forward, Backward, Redone, Undone, NoNode
      <4>3. Forward = fwd /\ Backward = bwd
        BY <3>1, <4>1, PlainLinks
      <4> QED
        BY <1>3, <4>2, <4>3, StillLaid
    <3>2. CASE ~Doing("insert", 2)
      <4>1. Forward' = Forward /\ Backward' = Backward
        BY <1>1, <2>1, <3>2, SameLinks DEF Doing
      <4> QED
        BY <1>3, <4>1, StillLaid
    <3> QED
      BY <3>1, <3>2
  <2>3. HeaderFits(line)'
    BY <1>1, <1>3, <2>1 DEF HeaderFits, HeadFits, Idle, RemovedIsOff, Both, NoNode
  <2>4. HolderFits'
    BY <1>1, <1>3, <1>4, <2>1 DEF HolderFits, TInv, TypeOK
  <2>5. Kept(line)'
    <3> SUFFICES ASSUME NEW p \in Owners, NEW r \in Requests, r \in held'[p]
                 PROVE  Queued(line, p, r)
      BY DEF Kept, Queued
    <3>1. p # o /\ r \in held[p]
      BY <1>4
    <3>2. ~EnqFits(line, p, r)
      BY <1>5, <3>1 DEF EnqFits
    <3> QED
      BY <1>3, <3>1, <3>2 DEF QueuesFit, Kept
  <2>6. QueuesFit(line)'
    BY <1>3, <2>1, <2>5 DEF QueuesFit, CallFits, OwnersOnly, LocksOwned, OwnedIn
  <2> QED
    BY <2>2, <2>3, <2>4, <2>6 DEF JInv
<1>6. CASE holder # o
  <2>1. UNCHANGED <<holder, work, at>>
    BY <1>6 DEF Die
  <2>2. Laid(line)'
    <3>1. Forward' = Forward /\ Backward' = Backward
      BY <1>1, <2>1, SameLinks DEF Doing
    <3> QED
      BY <1>3, <3>1, StillLaid
  <2>3. HeaderFits(line)'
    <3>1. HeadFits(line)'
      BY <1>1, <1>3, <2>1
      DEF HeaderFits, HeadFits, InsertFits, RemoveFits, UndoFits, Both, NoNode
    <3> QED
      BY <1>1, <1>3, <2>1, <3>1 DEF HeaderFits, Idle, RemovedIsOff, Clear, Both, NoNode
  <2>4. HolderFits'
    BY <1>1, <1>3, <1>4, <1>6, <2>1 DEF HolderFits, TInv, TypeOK
  <2>5. \A p, r : EnqFits(line, p, r) => EnqFits(line, p, r)'
    BY <2>1 DEF EnqFits
  <2>6. \A r : ReleaseFits(line, r) => ReleaseFits(line, r)'
    BY <1>4, <2>1 DEF ReleaseFits
  <2>7. CallFits(line)'
    BY <1>3, <2>1, <2>5, <2>6 DEF QueuesFit, CallFits, RepairFits
  <2>8. Kept(line)'
    BY <1>3, <1>4, <2>5 DEF QueuesFit, Kept, Queued
  <2>9. QueuesFit(line)'
    BY <1>3, <2>7, <2>8 DEF QueuesFit, OwnersOnly, LocksOwned, OwnedIn
  <2> QED
    BY <2>2, <2>3, <2>4, <2>9 DEF JInv
<1> QED
  BY <1>5, <1>6


-----------------------------------------------------------------------------
(* The lists are the queues that the links lay out. *)

\* The lists are the queues that the links lay out.
LEMMA ListsAreLines == \A line : Laid(line) => Lists = line
<1> SUFFICES ASSUME NEW line, Laid(line) PROVE Lists = line
  OBVIOUS
<1>1. ASSUME NEW q \in Heads PROVE List(q) = line[q]
  <2>1. List(q) = ListBy(Forward, q)
    BY DEF List, ListBy
  <2>2. PICK f, b : f = Forward /\ b = Backward
    OBVIOUS
  <2>3. ListBy(f, q) = line[q]
    BY <2>2, ListIsLine DEF Laid
  <2> QED
    BY <2>1, <2>2, <2>3
<1>2. line = [q \in Heads |-> line[q]]
  BY DEF Laid, LaidBy, Lines
<1> QED
  BY <1>1, <1>2 DEF Lists

\* They are after every step.
LEMMA NextListsAreLines == (\A line : Laid(line) => Lists = line)'
BY ListsAreLines, PTL

\* And what is in a list is in the queue.
LEMMA ListIs ==
  ASSUME NEW line, Laid(line)
  PROVE  /\ \A q \in Heads : List(q) = line[q]
         /\ \A q \in Heads : \A n : In(q, n) <=> On(line, q, n)
<1>1. Lists = line
  BY ListsAreLines
<1>2. \A q \in Heads : List(q) = line[q]
  BY <1>1 DEF Lists
<1> QED
  BY <1>2 DEF In, On, Contains

-----------------------------------------------------------------------------
(* The invariant. *)

QInv == TInv /\ (~bug => \E line : JInv(line))

\* At the start the invariant holds of the free queue.
LEMMA BeginsLaid == ASSUME Init PROVE JInv(InitialLine)
<1>1. /\ shb.remove_node = NoNode /\ shb.insert_que = NoNode /\ shb.insert_prior = NoNode
      /\ work = <<>> /\ holder = NoOwner /\ active = NoOwner /\ at = 1
      /\ held = [o \in Owners |-> {}] /\ dead = {}
  BY DEF Init
<1>2. Forward = fwd /\ Backward = bwd
  BY <1>1, PlainLinks DEF Both
<1>3. Laid(InitialLine)
  BY <1>2, InitialLinks DEF Laid
<1>4. HeaderFits(InitialLine)
  BY <1>1 DEF HeaderFits, HeadFits, Idle, RemovedIsOff, Clear, Both
<1>5. HolderFits
  BY <1>1 DEF HolderFits
<1>6. \A q \in Heads : \A n : On(InitialLine, q, n) => q = Free /\ n \in FreeLinks
  <2>1. /\ InitialLine[Free] = FreeOrder /\ \A q \in Heads : q # Free => InitialLine[q] = <<>>
        /\ \A i \in 1..Len(FreeOrder) : FreeOrder[i] \in FreeLinks
    BY InitialOrderIs, DifferentNodes DEF InitialLine
  <2>2. Len(<<>>) = 0 /\ 1..0 = {}
    BY EmptySeq
  <2> QED
    BY <2>1, <2>2 DEF On
<1>7. OwnersOnly(InitialLine)
  BY <1>6, DifferentNodes DEF OwnersOnly, FreeLinks
<1>8. LocksOwned(InitialLine)
  BY <1>6, DifferentNodes DEF LocksOwned, OwnedIn
<1>9. QueuesFit(InitialLine)
  BY <1>1, <1>7, <1>8 DEF QueuesFit, CallFits, Kept
<1> QED
  BY <1>3, <1>4, <1>5, <1>9 DEF JInv

\* A stuttering step keeps it.
LEMMA StaysLaid ==
  ASSUME NEW line, JInv(line), UNCHANGED vars
  PROVE  JInv(line)'
<1>1. UNCHANGED <<fwd, bwd, shb, active, holder, work, at, held, dead, deaths>>
  BY DEF vars, links
<1>2. Laid(line) /\ HeaderFits(line) /\ HolderFits /\ QueuesFit(line)
  BY DEF JInv
<1>3. Laid(line)'
  <2>1. Forward' = Forward /\ Backward' = Backward
    BY <1>1, SameLinks DEF Doing
  <2> QED
    BY <1>2, <2>1, StillLaid
<1>4. HeaderFits(line)'
  <2>1. HeadFits(line)'
    BY <1>1, <1>2 DEF HeaderFits, HeadFits, InsertFits, RemoveFits, UndoFits, Both, NoNode
  <2> QED
    BY <1>1, <1>2, <2>1 DEF HeaderFits, Idle, RemovedIsOff, Clear, Both, NoNode
<1>5. HolderFits'
  BY <1>1, <1>2 DEF HolderFits
<1>6. QueuesFit(line)'
  BY <1>1, <1>2, CallGoesOn
<1> QED
  BY <1>3, <1>4, <1>5, <1>6 DEF JInv

\* Every step keeps it, for the same queues or with one link moved.
LEMMA QueuesStep ==
  ASSUME TInv, ~bug, NEW line, JInv(line), [Next]_vars, ~bug', [NotStale]_vars
  PROVE  \E new : JInv(new)' /\ Moved(line, new)
<1>1. CASE insert_tail
  BY <1>1, InsertStep
<1>2. CASE remove_que
  BY <1>2, RemoveStep
<1>3. CASE undo_insert
  BY <1>3, UndoStep DEF Moved
<1>4. CASE CheckFails
  BY <1>4 DEF CheckFails
<1>5. CASE \E o \in Owners : \/ acquire(o) \/ LOCK_enq(o) \/ LOCK_deq(o) \/ purge_owner(o)
                             \/ release(o) \/ Restart(o) \/ Die(o)
  <2>1. PICK o \in Owners : \/ acquire(o) \/ LOCK_enq(o) \/ LOCK_deq(o) \/ purge_owner(o)
                            \/ release(o) \/ Restart(o) \/ Die(o)
    BY <1>5
  <2>2. CASE acquire(o) \/ LOCK_enq(o) \/ LOCK_deq(o) \/ purge_owner(o) \/ release(o) \/ Restart(o)
    <3>1. JInv(line)'
      BY <2>2, AcquireStep, EnqStep, DeqStep, PurgeStep, LeaveStep
    <3> QED
      BY <3>1 DEF Moved
  <2>3. CASE Die(o)
    <3>1. deaths' = deaths + 1 /\ deaths \in Nat
      BY <2>3, ConstantAssumption DEF Die, TInv, TypeOK
    <3>2. ~LeavesStale(o)
      BY <3>1 DEF NotStale, vars
    <3>3. JInv(line)'
      BY <2>3, <3>2, DieStep
    <3> QED
      BY <3>3 DEF Moved
  <2> QED
    BY <2>1, <2>2, <2>3
<1>6. CASE UNCHANGED vars
  BY <1>6, StaysLaid DEF Moved
<1> QED
  BY <1>1, <1>2, <1>3, <1>4, <1>5, <1>6 DEF Next

\* After a failed CHECK nothing is written any more.
LEMMA FailedStays ==
  ASSUME TInv, [Next]_vars, bug \/ bug'
  PROVE  bug' /\ Lists' = Lists
<1>1. CASE bug
  <2>1. work = <<>>
    BY <1>1 DEF TInv
  <2>2. UNCHANGED <<fwd, bwd, shb, work, bug>>
    BY <1>1, <2>1 DEF Next, vars, links, insert_tail, remove_que, undo_insert, CheckFails,
         Doing, acquire, LOCK_enq, LOCK_deq, purge_owner, release, Restart, Die, Ready
  <2>3. Forward' = Forward
    BY <2>1, <2>2, SameLinks DEF Doing
  <2> QED
    BY <1>1, <2>2, <2>3 DEF Lists, List
<1>2. CASE ~bug
  <2>1. CheckFails
    BY <1>2 DEF Next, vars, insert_tail, remove_que, undo_insert, Wrote, Done, acquire,
         LOCK_enq, LOCK_deq, purge_owner, release, Restart, Die
  <2>2. UNCHANGED <<fwd, bwd, shb>> /\ work' = <<>> /\ Head(work).op = "remove" /\ bug'
    BY <2>1 DEF CheckFails, Doing, links
  <2>3. Forward' = Forward
    BY <2>2, SameLinks DEF Doing
  <2> QED
    BY <2>2, <2>3 DEF Lists, List
<1> QED
  BY <1>1, <1>2

\* The invariant, however many processes die, where none leaves a stale prior link.
LEMMA QueuesStay == Spec /\ NoStaleDeath => []QInv
<1>1. Init /\ TInv => QInv
  BY BeginsLaid DEF QInv
<1>2. QInv /\ TInv' /\ [Next]_vars /\ [NotStale]_vars => QInv'
  <2> SUFFICES ASSUME QInv, TInv', [Next]_vars, [NotStale]_vars, ~bug' PROVE \E line : JInv(line)'
    BY DEF QInv
  <2>1. ~bug
    BY FailedStays DEF QInv
  <2>2. PICK line : JInv(line)
    BY <2>1 DEF QInv
  <2> QED
    BY <2>1, <2>2, QueuesStep DEF QInv
<1> QED
  BY <1>1, <1>2, TypesStay, PTL DEF Spec, NoStaleDeath

-----------------------------------------------------------------------------
(* What the queues keep. *)

\* However many processes die, and wherever but at the stale place, the queues are whole
\* once the table is repaired as acquire repairs it.
THEOREM QueuesAreWhole == Spec /\ NoStaleDeath => []Whole
<1>1. QInv => Whole
  <2> SUFFICES ASSUME QInv, ~bug
               PROVE  /\ \A q \in Heads : \A n \in {q} \cup Range(List(q)) :
                           Backward[Forward[n]] = n
                      /\ \A q, p \in Heads : q # p => Range(List(q)) \cap Range(List(p)) = {}
    BY DEF Whole
  <2>1. PICK line : JInv(line)
    BY DEF QInv
  <2>2. Laid(line) /\ LaidBy(Forward, Backward, line) /\ line \in Lines /\ Apart(line)
    BY <2>1 DEF JInv, Laid, LaidBy
  <2>3. \A q \in Heads : List(q) = line[q]
    BY <2>2, ListIs
  <2>4. \A q \in Heads : Range(List(q)) = {line[q][i] : i \in 1..Len(line[q])}
    <3> SUFFICES ASSUME NEW q \in Heads PROVE Range(line[q]) = {line[q][i] : i \in 1..Len(line[q])}
      BY <2>3
    <3>1. line[q] \in Seq(Links) /\ DOMAIN line[q] = 1..Len(line[q])
      BY <2>2, LineType
    <3> QED
      BY <3>1 DEF Range
  <2>5. ASSUME NEW q \in Heads, NEW n \in {q} \cup Range(List(q))
        PROVE  Backward[Forward[n]] = n
    <3>1. Inside(line, n)
      <4>1. CASE n = q
        BY <4>1 DEF Inside
      <4>2. CASE n # q
        <5>1. PICK i \in 1..Len(line[q]) : n = line[q][i]
          BY <2>4, <4>2
        <5>2. n \in Links
          BY <2>2, <5>1, LineType
        <5> QED
          BY <5>1, <5>2 DEF Inside, Off, On
      <4> QED
        BY <4>1, <4>2
    <3> QED
      BY <2>2, <3>1, LinksStayInside
  <2>6. ASSUME NEW q \in Heads, NEW p \in Heads, q # p
        PROVE  Range(List(q)) \cap Range(List(p)) = {}
    BY <2>2, <2>4, <2>6 DEF Apart
  <2> QED
    BY <2>5, <2>6
<1> QED
  BY <1>1, QueuesStay, PTL

\* A request on a lock is always on an owner too, from whom LOCK_deq or purge_owner
\* takes it, and a free one is on none: no crash leaves a request that nobody releases.
THEOREM RequestsAreOwned == Spec /\ NoStaleDeath => []AlwaysOwned
<1>1. QInv => AlwaysOwned
  <2> SUFFICES ASSUME QInv, ~bug, NEW r \in Requests
               PROVE  LET Owned == \E o \in Owners : In(Own(o), OwnLink(r))
                      IN /\ In(Lock, Lbl(r)) => Owned
                         /\ In(Free, Lbl(r)) => ~Owned
    BY DEF AlwaysOwned
  <2>1. PICK line : JInv(line)
    BY DEF QInv
  <2>2. \A q \in Heads : \A n : In(q, n) <=> On(line, q, n)
    BY <2>1, ListIs DEF JInv
  <2>3. LocksOwned(line)
    BY <2>1 DEF JInv, QueuesFit
  <2> QED
    BY <2>2, <2>3, DifferentNodes DEF LocksOwned, OwnedIn
<1> QED
  BY <1>1, QueuesStay, PTL

\* No process loses a request LOCK_enq gave it, whatever acquire repairs and whoever
\* purge_owner purges.
THEOREM GivenIsQueued == Spec /\ NoStaleDeath => []StillQueued
<1>1. QInv => StillQueued
  <2> SUFFICES ASSUME QInv, ~bug, NEW o \in Owners, NEW r \in Requests, r \in held[o], holder # o
               PROVE  In(Lock, Lbl(r)) /\ In(Own(o), OwnLink(r))
    BY DEF StillQueued
  <2>1. PICK line : JInv(line)
    BY DEF QInv
  <2>2. \A q \in Heads : \A n : In(q, n) <=> On(line, q, n)
    BY <2>1, ListIs DEF JInv
  <2>3. Queued(line, o, r)
    BY <2>1 DEF JInv, QueuesFit, Kept, EnqFits
  <2> QED
    BY <2>2, <2>3, DifferentNodes DEF Queued
<1> QED
  BY <1>1, QueuesStay, PTL

\* A step that moves one link is a step of Queues.
LEMMA MovesOneLink ==
  ASSUME NEW line, Laid(line), NEW new, Laid(new)', Moved(line, new)
  PROVE  Abstract!Next \/ Lists' = Lists
<1>1. /\ Lists = line /\ line \in Lines /\ Apart(line) /\ new \in Lines /\ Lists' = new
  BY ListsAreLines, NextListsAreLines DEF Laid, LaidBy
<1>2. ASSUME NEW q \in Heads, NEW n \in Links, new[q] # line[q],
             \A p \in Heads : p # q => new[p] = line[p],
             \/ Off(line, n) /\ new[q] = Append(line[q], n)
             \/ \E i \in 1..Len(line[q]) : line[q][i] = n /\ new[q] = RemoveAt(line[q], i)
      PROVE  Abstract!Next
  <2>1. DOMAIN Lists' = Heads /\ \A p \in Heads \ {q} : Lists'[p] = Lists[p]
    BY <1>1, <1>2 DEF Lines
  <2>2. DOMAIN line[q] = 1..Len(line[q])
    BY <1>1, LineType
  <2>3. Off(line, n) => ~Abstract!InSome(Lists, n)
    BY <1>1 DEF Abstract!InSome, Abstract!Contains, Off, On
  <2>4. \/ ~Abstract!InSome(Lists, n) /\ Abstract!Enters(Lists[q], Lists'[q], n)
        \/ Abstract!Leaves(Lists[q], Lists'[q], n)
    BY <1>1, <1>2, <2>2, <2>3 DEF Abstract!Enters, Abstract!Leaves, Abstract!RemoveAt, RemoveAt
  <2>5. Lists'[q] # Lists[q]
    BY <1>1, <1>2
  <2> QED
    BY <2>1, <2>4, <2>5 DEF Abstract!Next
<1>3. CASE new = line
  BY <1>1, <1>3
<1>4. CASE \E q \in Heads, n \in Links : new = [line EXCEPT ![q] = Append(@, n)] /\ Off(line, n)
  <2>1. PICK q \in Heads, n \in Links : new = [line EXCEPT ![q] = Append(@, n)] /\ Off(line, n)
    BY <1>4
  <2>2. new[q] = Append(line[q], n) /\ \A p \in Heads : p # q => new[p] = line[p]
    BY <1>1, <2>1 DEF Lines
  <2>3. new[q] # line[q]
    <3>1. line[q] \in Seq(Links)
      BY <1>1, LineType
    <3>2. Len(Append(line[q], n)) = Len(line[q]) + 1 /\ Len(line[q]) \in Nat
      BY <3>1, AppendProperties
    <3> QED
      BY <2>2, <3>2
  <2> QED
    BY <1>2, <2>1, <2>2, <2>3
<1>5. CASE \E q \in Heads : \E i \in 1..Len(line[q]) : new = [line EXCEPT ![q] = RemoveAt(@, i)]
  <2>0. PICK q \in Heads : \E i \in 1..Len(line[q]) : new = [line EXCEPT ![q] = RemoveAt(@, i)]
    BY <1>5
  <2>1. PICK i \in 1..Len(line[q]) : new = [line EXCEPT ![q] = RemoveAt(@, i)]
    BY <2>0
  <2>2. new[q] = RemoveAt(line[q], i) /\ \A p \in Heads : p # q => new[p] = line[p]
    BY <1>1, <2>1 DEF Lines
  <2>3. line[q] \in Seq(Links) /\ Len(line[q]) \in Nat
    BY <1>1, LineType
  <2>4. new[q] # line[q]
    <3>1. Len(RemoveAt(line[q], i)) = Len(line[q]) - 1
      BY <2>3, RemoveAtIs
    <3> QED
      BY <2>2, <2>3, <3>1
  <2>5. PICK n \in Links : n = line[q][i]
    BY <1>1, LineType
  <2> QED
    BY <1>2, <2>2, <2>4, <2>5
<1> QED
  BY <1>3, <1>4, <1>5 DEF Moved

\* insert_tail and remove_que are one step each, all or nothing, however many processes
\* die within them: the lists of the repaired table move one link at a time (Queues).
THEOREM QueuesImplement == Spec /\ NoStaleDeath => Implements
<1>1. QInv /\ [Next]_vars /\ [NotStale]_vars => [Abstract!Next]_Lists
  <2> SUFFICES ASSUME QInv, [Next]_vars, [NotStale]_vars PROVE Abstract!Next \/ Lists' = Lists
    OBVIOUS
  <2>1. CASE bug \/ bug'
    BY <2>1, FailedStays DEF QInv
  <2>2. CASE ~bug /\ ~bug'
    <3>1. PICK line : JInv(line)
      BY <2>2 DEF QInv
    <3>2. PICK new : JInv(new)' /\ Moved(line, new)
      BY <2>2, <3>1, QueuesStep DEF QInv
    <3> QED
      BY <3>1, <3>2, MovesOneLink DEF JInv
  <2> QED
    BY <2>1, <2>2
<1>2. Init => Abstract!Init
  <2> SUFFICES ASSUME Init PROVE Abstract!Init
    OBVIOUS
  <2>1. JInv(InitialLine)
    BY BeginsLaid
  <2>2. Lists = InitialLine /\ InitialLine \in Lines /\ Apart(InitialLine)
    BY <2>1, ListsAreLines DEF JInv, Laid, LaidBy
  <2>3. DOMAIN InitialLine = Heads
    BY <2>2 DEF Lines
  <2>4. \A q \in Heads : DOMAIN InitialLine[q] = 1..Len(InitialLine[q])
    BY <2>2, LineType
  <2> QED
    BY <2>2, <2>3, <2>4 DEF Abstract!Init, Apart
<1> QED
  BY <1>1, <1>2, QueuesStay, PTL DEF Spec, NoStaleDeath, Implements, Abstract!Spec

-----------------------------------------------------------------------------
(* One death. *)

OneInv ==
  deaths < Deaths =>
    /\ holder = NoOwner => work = <<>>
    /\ work # <<>> => Head(work).op # "undo"
    /\ shb.insert_prior # NoNode => work # <<>> /\ Head(work).op = "insert" /\ at >= 3

\* A write of a queue operation before the death.
LEMMA OneWrite ==
  ASSUME TInv, TInv', OneInv, insert_tail \/ remove_que \/ undo_insert \/ CheckFails
  PROVE  OneInv'
<1> SUFFICES ASSUME deaths' < Deaths PROVE OneInv'
  BY DEF OneInv
<1>1. /\ UNCHANGED <<holder, deaths>> /\ work # <<>>
      /\ \/ at' = at + 1 /\ work' = work
         \/ work' = Tail(work)
         \/ work' = <<>>
  BY DEF insert_tail, remove_que, undo_insert, CheckFails, Wrote, Done, Other, Doing
<1>2. /\ holder # NoOwner /\ Head(work).op # "undo" /\ at \in Nat
      /\ shb.insert_prior # NoNode => Head(work).op = "insert" /\ at >= 3
  BY <1>1 DEF OneInv, TInv, TypeOK
<1>3. work' # <<>> => Head(work').op # "undo"
  <2>1. \A i \in 1..Len(work) : i > 1 => work[i].op # "undo"
    BY DEF TInv
  <2>2. work \in Seq(Operations)
    BY DEF TInv, TypeOK
  <2>3. Tail(work) # <<>> => 2 \in 1..Len(work) /\ Head(Tail(work)) = work[2]
    BY <1>1, <2>2
  <2> QED
    BY <1>1, <1>2, <2>1, <2>3
<1>4. shb'.insert_prior # NoNode => work' # <<>> /\ Head(work').op = "insert" /\ at' >= 3
  <2>1. CASE insert_tail
    <3>1. shb \in SHB
      BY DEF TInv, TypeOK
    <3> QED
      BY <1>1, <1>2, <2>1, <3>1 DEF insert_tail, Doing, Wrote, SHB, NoNode
  <2>2. CASE remove_que
    <3>1. Head(work).op = "remove" /\ shb \in SHB
      BY <2>2 DEF remove_que, Doing, TInv, TypeOK
    <3>2. shb.insert_prior = NoNode
      BY <1>2, <3>1
    <3> QED
      BY <2>2, <3>1, <3>2 DEF remove_que, SHB, NoNode
  <2>3. CASE undo_insert
    BY <1>2, <2>3 DEF undo_insert, Doing
  <2>4. CASE CheckFails
    BY <1>2, <2>4 DEF CheckFails, Doing, NoNode
  <2> QED
    BY <2>1, <2>2, <2>3, <2>4
<1> QED
  BY <1>1, <1>2, <1>3, <1>4 DEF OneInv, NoNode

\* A call before the death, and the death.
LEMMA OneCall ==
  ASSUME TInv, OneInv, NEW o \in Owners, Deaths <= 1,
         \/ acquire(o) \/ LOCK_enq(o) \/ LOCK_deq(o) \/ purge_owner(o)
         \/ release(o) \/ Restart(o) \/ Die(o)
  PROVE  OneInv'
<1> SUFFICES ASSUME deaths' < Deaths PROVE OneInv'
  BY DEF OneInv
<1>1. CASE acquire(o)
  <2>1. /\ holder = NoOwner /\ holder' = o /\ o # NoOwner /\ work' = Repair
        /\ UNCHANGED <<shb, deaths>>
    BY <1>1, ConstantAssumption DEF acquire, links
  <2>2. work = <<>> /\ shb.insert_prior = NoNode
    BY <2>1 DEF OneInv
  <2>3. Repair = <<>> \/ Repair = <<Removing(shb.remove_node)>>
    BY <2>2 DEF Repair
  <2>4. Removing(shb.remove_node).op # "undo"
    BY DEF Removing
  <2>5. work' # <<>> => Head(work').op # "undo"
    BY <2>1, <2>3, <2>4
  <2> QED
    BY <2>1, <2>2, <2>5 DEF OneInv, NoNode
<1>2. CASE LOCK_enq(o) \/ LOCK_deq(o) \/ purge_owner(o)
  <2>1. /\ holder = o /\ o # NoOwner /\ work = <<>> /\ UNCHANGED <<shb, holder, deaths>>
        /\ \/ \E r \in Requests : work' = EnqOperations(o, r)
           \/ \E r \in Requests : work' = ReleaseOperations(r)
    BY <1>2, ConstantAssumption
       DEF LOCK_enq, LOCK_deq, purge_owner, Ready, links, TInv, TypeOK
  <2>2. Head(work').op # "undo"
    BY <2>1, CallsFit
  <2> QED
    BY <2>1, <2>2 DEF OneInv, NoNode
<1>3. CASE release(o) \/ Restart(o)
  <2>1. work = <<>> /\ UNCHANGED <<shb, work, deaths>>
    BY <1>3 DEF OneInv, release, Restart, links
  <2> QED
    BY <2>1 DEF OneInv, NoNode
<1>4. CASE Die(o)
  BY <1>4, ConstantAssumption DEF Die, TInv, TypeOK
<1> QED
  BY <1>1, <1>2, <1>3, <1>4

\* With no more than one death NoStaleDeath is no assumption: the prior link of an
\* insertion that insert_tail completes is reset, and one that is not is the death's own.
THEOREM OneDeathIsNotStale == ASSUME Deaths <= 1 PROVE Spec => NoStaleDeath
<1>1. Init => OneInv
  BY DEF Init, OneInv
<1>2. OneInv /\ TInv /\ TInv' /\ [Next]_vars => OneInv'
  <2> SUFFICES ASSUME OneInv, TInv, TInv', [Next]_vars PROVE OneInv'
    OBVIOUS
  <2>1. CASE UNCHANGED vars
    BY <2>1 DEF OneInv, vars, NoNode
  <2>2. CASE Next
    BY <2>2, OneWrite, OneCall DEF Next
  <2> QED
    BY <2>1, <2>2
<1>3. OneInv /\ [Next]_vars => [NotStale]_vars
  BY DEF OneInv, NotStale, LeavesStale, Die, Doing
<1> QED
  BY <1>1, <1>2, <1>3, TypesStay, PTL DEF Spec, NoStaleDeath

=============================================================================
