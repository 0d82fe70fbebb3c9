-------------------------- MODULE WriteOrderProofs --------------------------
(***************************************************************************)
(* Proofs that the page caches write pages in the order of what they refer *)
(* to (WriteOrder) and implement CarefulWrite, for any processes and pages *)
(* and any number of updates, as long as check_precedence overlooks no     *)
(* page that it takes for one of higher precedence (NoOverlooked).         *)
(***************************************************************************)
EXTENDS PageCacheProofs

-----------------------------------------------------------------------------
(* The hypothesis.                                                         *)

\* There is a way from hi down to low over precedence that is not cleared, and it leaves
\* dirty pages only: whoever writes low now writes hi first.
DirtyOver(p, hi, low) ==
  \A S \in SUBSET Pages :
    hi \in S /\ (\A e \in pre[p] : ~e.cleared /\ e.hi \in S /\ Dirty(p, e.hi) => e.low \in S)
      => low \in S

\* check_precedence takes a page that it is to be written after for one of higher
\* precedence (related finds a way) only where the way holds.
Heeds(p, x) == Dirty(p, x) /\ Over(p, x, main[p].page) => DirtyOver(p, x, main[p].page)
Heeding == \A p \in Procs, x \in Pages : CCH_precedence(p, x) => Heeds(p, x)
NoOverlooked == [][Heeding]_vars

\* check_precedence does not enter a precedence under a page that was written while it
\* broke a cycle.
Entering == \A p \in Procs : CycleBroken(p) => Dirty(p, main[p].hi)
NoStaleInsert == [][Entering]_vars

-----------------------------------------------------------------------------
(* The inductive invariant.                                                *)

Settled == Durable \cup lost
HasOf(p, S) == UNION {bdb[p][h].img.has : h \in S}
Invalids(p) == {g \in Pages : Has(p, g, "not_valid")}

\* The pages whose images count: the dirty ones, and the one in the window.
Counted(p) == {g \in Pages : Dirty(p, g) \/ (InWindow(p) /\ main[p].page = g)}

\* The pages that calls of down_grade go on to give up: those that wait for a page in
\* bad, through a call that has come to them or is to come.
Condemned(calls, bad) ==
  UNION {calls[j].todo : j \in {j \in DOMAIN calls :
           /\ calls[j].at = "lower" /\ calls[j].page \in bad
           /\ \A i \in 1..(j - 1) : calls[i].invalid}}
Doomed(p, k) ==
  \/ Has(p, k, "not_valid")
  \/ At(p, "higher") /\ Call(p).invalid /\ Call(p).page = k
  \/ k \in Condemned(ast[p], Invalids(p))

\* S has with each page those to be written before it, and none of it will be given up.
Sound(p, S) ==
  /\ S \subseteq Counted(p)
  /\ \A e \in pre[p] : ~e.cleared /\ e.low \in S /\ Dirty(p, e.hi) => e.hi \in S
  /\ \A k \in S : ~Doomed(p, k)

\* The page that check_precedence waits for, before it enters the precedence or
\* without entering any.
Awaited(p) ==
  IF main[p].pc = "insert" \/ main[p].back = "insert" THEN {main[p].hi}
  ELSE IF main[p].back = "held" THEN {Latest(main[p].stack)} ELSE {}

\* All that pages refer to is in the file, lost, or in pages to be written before them.
Ordered(p) ==
  \A S \in SUBSET Pages : Sound(p, S) =>
    /\ \A k \in S : Dirty(p, k) => bdb[p][k].img.needs \subseteq Settled \cup HasOf(p, S)
    /\ InWindow(p) /\ main[p].page \in S =>
         main[p].needs \subseteq Settled \cup HasOf(p, S \cup Awaited(p))
NeedsFit(p) == main[p].needs # {} => InWindow(p)

\* What a call of down_grade has left out on its way: a page to be written before its
\* own is still to be tried, or was found in use.
Tried(p, g, E) ==
  \A e \in pre[p] : ~e.cleared /\ e.low = g /\ Dirty(p, e.hi) => e.hi \in E
FrameFits(p, f) ==
  /\ f.at = "higher" /\ ~f.invalid /\ ~f.in_use => Tried(p, f.page, f.todo)
  /\ f.at = "called" => ~f.invalid /\ (~f.in_use => Tried(p, f.page, f.todo \cup {f.cur}))
  /\ f.invalid => ~f.in_use
  /\ f.at = "lower" => ~Dirty(p, f.page) /\ (f.invalid => Has(p, f.page, "not_valid"))
FramesFit(p) == \A i \in DOMAIN ast[p] : FrameFits(p, ast[p][i])

\* There is no precedence below a page that is allocated anew.
FakeFits(p) ==
  main[p].pc = "fake" \/ (main[p].pc \in {"lock", "waiting"} /\ Has(p, main[p].page, "faked"))
    => Below(p, main[p].page) = {}

Order(p) == Ordered(p) /\ NeedsFit(p) /\ FramesFit(p) /\ FakeFits(p)
OInv == WriteOrder /\ \A p \in Procs : Order(p)

-----------------------------------------------------------------------------
(* Calls.                                                                  *)

LEMMA CallsOf ==
  ASSUME NEW t \in Seq(Frame), NEW f \in Frame
  PROVE  /\ <<f>> \o t \in Seq(Frame) /\ <<f>> \o t # <<>> /\ Head(<<f>> \o t) = f
         /\ DOMAIN (<<f>> \o t) = 1..(Len(t) + 1) /\ DOMAIN t = 1..Len(t) /\ Len(t) \in Nat
         /\ (<<f>> \o t)[1] = f /\ \A i \in 1..Len(t) : (<<f>> \o t)[i + 1] = t[i]
<1> DEFINE c == <<f>> \o t
<1>1. <<f>> \in Seq(Frame) /\ Len(<<f>>) = 1 /\ <<f>>[1] = f
  OBVIOUS
<1>2. /\ c \in Seq(Frame) /\ Len(c) = Len(<<f>>) + Len(t)
      /\ \A i \in 1..Len(<<f>>) + Len(t) :
           c[i] = IF i <= Len(<<f>>) THEN <<f>>[i] ELSE t[i - Len(<<f>>)]
  BY <1>1, ConcatProperties
<1>3. Len(t) \in Nat /\ DOMAIN t = 1..Len(t) /\ DOMAIN c = 1..Len(c)
  BY <1>2, LenProperties
<1>4. Len(c) = Len(t) + 1 /\ c[1] = f /\ \A i \in 1..Len(t) : c[i + 1] = t[i]
  BY <1>1, <1>2, <1>3
<1> HIDE DEF c
<1>5. c # <<>> /\ Head(c) = f
  BY <1>2, <1>3, <1>4, EmptySeq
<1> QED BY <1>2, <1>3, <1>4, <1>5 DEF c

\* What is pushed on calls condemns the pages it has to come to, and lets the calls below
\* it condemn theirs if it is itself for an invalid page.
LEMMA CondemnedPushed ==
  ASSUME NEW t \in Seq(Frame), NEW f \in Frame, NEW bad
  PROVE  /\ f.invalid => Condemned(t, bad) \subseteq Condemned(<<f>> \o t, bad)
         /\ f.at = "lower" /\ f.page \in bad => f.todo \subseteq Condemned(<<f>> \o t, bad)
<1> DEFINE c == <<f>> \o t
<1>1. /\ DOMAIN c = 1..(Len(t) + 1) /\ DOMAIN t = 1..Len(t) /\ Len(t) \in Nat
      /\ c[1] = f /\ \A i \in 1..Len(t) : c[i + 1] = t[i]
  BY CallsOf
<1> HIDE DEF c
<1>2. ASSUME f.invalid, NEW k \in Condemned(t, bad)
      PROVE  k \in Condemned(c, bad)
  <2>1. PICK j \in DOMAIN t : /\ t[j].at = "lower" /\ t[j].page \in bad /\ k \in t[j].todo
                              /\ \A i \in 1..(j - 1) : t[i].invalid
    BY <1>2 DEF Condemned
  <2>2. j + 1 \in DOMAIN c /\ c[j + 1] = t[j] /\ (j + 1) - 1 = j
    BY <1>1, <2>1
  <2>3. ASSUME NEW i \in 1..j
        PROVE  c[i].invalid
    <3>1. CASE i = 1
      BY <1>1, <1>2, <3>1
    <3>2. CASE i # 1
      <4>1. i - 1 \in 1..(j - 1) /\ i - 1 \in 1..Len(t) /\ (i - 1) + 1 = i
        BY <1>1, <2>1, <3>2
      <4>2. c[(i - 1) + 1] = t[i - 1]
        BY <1>1, <4>1
      <4> QED BY <2>1, <4>1, <4>2
    <3> QED BY <3>1, <3>2
  <2>4. \A i \in 1..((j + 1) - 1) : c[i].invalid
    BY <2>2, <2>3
  <2> QED BY <2>1, <2>2, <2>4 DEF Condemned
<1>3. ASSUME f.at = "lower", f.page \in bad
      PROVE  f.todo \subseteq Condemned(c, bad)
  <2>1. 1 \in DOMAIN c /\ \A i \in 1..(1 - 1) : c[i].invalid
    BY <1>1
  <2> QED BY <1>1, <1>3, <2>1 DEF Condemned
<1> QED BY <1>2, <1>3 DEF c

LEMMA CondemnedPopped ==
  ASSUME NEW s \in Seq(Frame), s # <<>>, NEW bad, NEW k \in Condemned(s, bad)
  PROVE  \/ Head(s).at = "lower" /\ Head(s).page \in bad /\ k \in Head(s).todo
         \/ Head(s).invalid /\ k \in Condemned(Tail(s), bad)
<1> DEFINE t == Tail(s)
<1>1. /\ t \in Seq(Frame) /\ Len(t) = Len(s) - 1 /\ Head(s) = s[1]
      /\ \A i \in 1..Len(t) : t[i] = s[i + 1]
  BY Popped
<1>2. /\ Len(s) \in Nat \ {0} /\ DOMAIN s = 1..Len(s) /\ DOMAIN t = 1..Len(t)
  BY <1>1, EmptySeq, LenProperties
<1> HIDE DEF t
<1>3. PICK j \in DOMAIN s : /\ s[j].at = "lower" /\ s[j].page \in bad /\ k \in s[j].todo
                            /\ \A i \in 1..(j - 1) : s[i].invalid
  BY DEF Condemned
<1>4. CASE j = 1
  BY <1>1, <1>3, <1>4
<1>5. CASE j # 1
  <2>1. j - 1 \in DOMAIN t /\ (j - 1) + 1 = j /\ 1 \in 1..(j - 1)
    BY <1>1, <1>2, <1>5
  <2>2. t[j - 1] = s[j]
    <3>1. t[j - 1] = s[(j - 1) + 1]
      BY <1>1, <1>2, <2>1
    <3> QED BY <2>1, <3>1
  <2>3. ASSUME NEW i \in 1..((j - 1) - 1)
        PROVE  t[i].invalid
    <3>1. i \in 1..Len(t) /\ i + 1 \in 1..(j - 1)
      BY <1>1, <1>2
    <3> QED BY <1>1, <1>3, <3>1
  <2>4. Head(s).invalid
    BY <1>1, <1>3, <2>1
  <2> QED BY <1>3, <2>1, <2>2, <2>3, <2>4 DEF Condemned, t
<1> QED BY <1>4, <1>5

\* More invalid pages condemn no less.
LEMMA CondemnedMore ==
  ASSUME NEW s \in Seq(Frame), NEW bad, NEW more, bad \cap PagesOf(s) \subseteq more
  PROVE  Condemned(s, bad) \subseteq Condemned(s, more)
<1> SUFFICES ASSUME NEW k \in Condemned(s, bad)
             PROVE  k \in Condemned(s, more)
  OBVIOUS
<1>1. PICK j \in DOMAIN s : /\ s[j].at = "lower" /\ s[j].page \in bad /\ k \in s[j].todo
                            /\ \A i \in 1..(j - 1) : s[i].invalid
  BY DEF Condemned
<1>2. s[j].page \in more
  BY <1>1 DEF PagesOf
<1> QED BY <1>1, <1>2 DEF Condemned

LEMMA NobodyCondemned == \A bad : Condemned(<<>>, bad) = {}
<1>1. DOMAIN <<>> = {}
  OBVIOUS
<1> QED BY <1>1 DEF Condemned

\* Without a call, only invalid pages are given up.
LEMMA DoomedAlone ==
  ASSUME NEW p \in Procs, ast[p] = <<>>
  PROVE  \A k : Doomed(p, k) <=> Has(p, k, "not_valid")
BY NobodyCondemned DEF Doomed, At

LEMMA DoomedAlonePrimed ==
  ASSUME NEW p \in Procs, ast'[p] = <<>>
  PROVE  \A k : Doomed(p, k)' <=> Has(p, k, "not_valid")'
BY NobodyCondemned DEF Doomed, At

LEMMA FramesFitAlone ==
  ASSUME NEW p \in Procs, ast'[p] = <<>>
  PROVE  FramesFit(p)'
<1>1. DOMAIN <<>> = {}
  OBVIOUS
<1> QED BY <1>1 DEF FramesFit

-----------------------------------------------------------------------------
(* Steps of one process, and what they leave of the order.                 *)

\* What the order of the pages of other processes depends on.
Leaves(p) ==
  \A q \in Procs \ {p} :
    bdb'[q] = bdb[q] /\ pre'[q] = pre[q] /\ main'[q] = main[q] /\ ast'[q] = ast[q]

LEMMA SettledGrows ==
  ASSUME \A g \in Pages : disk[g].has \subseteq disk'[g].has, lost \subseteq lost'
  PROVE  Settled \subseteq Settled' /\ Durable \subseteq Durable'
BY DEF Settled, Durable

LEMMA SameOrder ==
  ASSUME NEW q \in Procs, Order(q), Settled \subseteq Settled', bdb'[q] = bdb[q],
         pre'[q] = pre[q], main'[q] = main[q], ast'[q] = ast[q]
  PROVE  Order(q)'
<1>1. bdb'[q] = bdb[q] /\ pre'[q] = pre[q] /\ main'[q] = main[q] /\ ast'[q] = ast[q]
  OBVIOUS
<1>2. \A k : (Dirty(q, k)' <=> Dirty(q, k)) /\ \A f : Has(q, k, f)' <=> Has(q, k, f)
  BY <1>1 DEF Dirty, Has
<1>3. (InWindow(q)' <=> InWindow(q)) /\ Awaited(q)' = Awaited(q) /\ Counted(q)' = Counted(q)
  BY <1>1, <1>2 DEF InWindow, Awaited, Counted
<1>4. Invalids(q)' = Invalids(q) /\ \A S : HasOf(q, S)' = HasOf(q, S)
  BY <1>1, <1>2 DEF Invalids, HasOf
<1>5. \A k : Doomed(q, k)' <=> Doomed(q, k)
  BY <1>1, <1>2, <1>4 DEF Doomed, At, Call, Condemned
<1>6. \A S : Sound(q, S)' <=> Sound(q, S)
  BY <1>1, <1>2, <1>3, <1>5 DEF Sound
<1>7. Ordered(q)'
  <2> SUFFICES ASSUME NEW S \in SUBSET Pages, Sound(q, S)'
               PROVE  /\ \A k \in S : Dirty(q, k)' =>
                           bdb'[q][k].img.needs \subseteq Settled' \cup HasOf(q, S)'
                      /\ InWindow(q)' /\ main'[q].page \in S =>
                           main'[q].needs \subseteq Settled' \cup HasOf(q, S \cup Awaited(q))'
    BY DEF Ordered
  <2>1. /\ \A k \in S : Dirty(q, k) =>
             bdb[q][k].img.needs \subseteq Settled \cup HasOf(q, S)
        /\ InWindow(q) /\ main[q].page \in S =>
             main[q].needs \subseteq Settled \cup HasOf(q, S \cup Awaited(q))
    BY <1>6 DEF Order, Ordered
  <2>2. HasOf(q, S \cup Awaited(q))' = HasOf(q, S \cup Awaited(q))
    BY <1>1, <1>3 DEF HasOf
  <2> QED BY <1>1, <1>2, <1>3, <1>4, <2>1, <2>2
<1>8. NeedsFit(q)'
  BY <1>1, <1>3 DEF Order, NeedsFit
<1>9. FramesFit(q)'
  BY <1>1, <1>2 DEF Order, FramesFit, FrameFits, Tried
<1>10. FakeFits(q)'
  BY <1>1, <1>2 DEF Order, FakeFits, Below
<1> QED BY <1>7, <1>8, <1>9, <1>10 DEF Order

\* The images of a set that is sound after the step rest on those of one that was before.
Rests(p, S, T) ==
  /\ Sound(p, T) /\ HasOf(p, T) \subseteq Settled' \cup HasOf(p, S)'
  /\ \A k \in S : Dirty(p, k)' =>
       \/ bdb'[p][k].img.needs \subseteq Settled' \cup HasOf(p, S)'
       \/ k \in T /\ Dirty(p, k) /\ bdb'[p][k].img.needs = bdb[p][k].img.needs
  /\ InWindow(p)' /\ main'[p].page \in S =>
       \/ main'[p].needs \subseteq Settled' \cup HasOf(p, S \cup Awaited(p))'
       \/ /\ InWindow(p) /\ main[p].page \in T /\ main'[p].needs = main[p].needs
          /\ HasOf(p, T \cup Awaited(p)) \subseteq Settled' \cup HasOf(p, S \cup Awaited(p))'

LEMMA OrderedFrom ==
  ASSUME NEW p \in Procs, Ordered(p), Settled \subseteq Settled',
         \A S \in SUBSET Pages : Sound(p, S)' => \E T \in SUBSET Pages : Rests(p, S, T)
  PROVE  Ordered(p)'
<1> SUFFICES ASSUME NEW S \in SUBSET Pages, Sound(p, S)'
             PROVE  /\ \A k \in S : Dirty(p, k)' =>
                         bdb'[p][k].img.needs \subseteq Settled' \cup HasOf(p, S)'
                    /\ InWindow(p)' /\ main'[p].page \in S =>
                         main'[p].needs \subseteq Settled' \cup HasOf(p, S \cup Awaited(p))'
  BY DEF Ordered
<1>1. PICK T \in SUBSET Pages : Rests(p, S, T)
  OBVIOUS
<1>2. /\ \A k \in T : Dirty(p, k) => bdb[p][k].img.needs \subseteq Settled \cup HasOf(p, T)
      /\ InWindow(p) /\ main[p].page \in T =>
           main[p].needs \subseteq Settled \cup HasOf(p, T \cup Awaited(p))
  BY <1>1 DEF Ordered, Rests
<1>3. ASSUME NEW k \in S, Dirty(p, k)'
      PROVE  bdb'[p][k].img.needs \subseteq Settled' \cup HasOf(p, S)'
  BY <1>1, <1>2, <1>3 DEF Rests
<1>4. ASSUME InWindow(p)', main'[p].page \in S
      PROVE  main'[p].needs \subseteq Settled' \cup HasOf(p, S \cup Awaited(p))'
  BY <1>1, <1>2, <1>4 DEF Rests
<1> QED BY <1>3, <1>4

\* The needs of the window: given up, or what they were, with all that was awaited.
NeedsKept(p) ==
  \/ main'[p].needs = {}
  \/ /\ main'[p].needs = main[p].needs /\ main'[p].page = main[p].page /\ InWindow(p)'
     /\ \A k \in Awaited(p) : k \in Awaited(p)' \/ bdb[p][k].img.has \subseteq Settled'

\* No image becomes dirty, and no more sets are sound.
LEMMA OrderedStays ==
  ASSUME NEW p \in Procs, Ordered(p), NeedsFit(p), Settled \subseteq Settled', NeedsKept(p),
         Counted(p)' \subseteq Counted(p), Awaited(p) \subseteq Pages,
         \A k \in Pages : Dirty(p, k)' => Dirty(p, k) /\ bdb'[p][k].img = bdb[p][k].img,
         \A k \in Pages : bdb[p][k].img.has \subseteq bdb'[p][k].img.has \cup Settled',
         \A k \in Counted(p)' : Doomed(p, k) => Doomed(p, k)',
         \A e \in pre[p] : ~e.cleared /\ Dirty(p, e.hi) /\ e.low \in Counted(p)'
             /\ ~Doomed(p, e.low)' => e \in pre'[p] /\ Dirty(p, e.hi)'
  PROVE  Ordered(p)'
<1> SUFFICES ASSUME NEW S \in SUBSET Pages, Sound(p, S)'
             PROVE  Rests(p, S, S)
  BY OrderedFrom
<1>1. Sound(p, S)
  BY DEF Sound
<1>2. HasOf(p, S) \subseteq Settled' \cup HasOf(p, S)'
  BY DEF HasOf
<1>3. ASSUME InWindow(p)', main'[p].page \in S, main'[p].needs # {}
      PROVE  /\ InWindow(p) /\ main[p].page \in S /\ main'[p].needs = main[p].needs
             /\ HasOf(p, S \cup Awaited(p)) \subseteq Settled' \cup HasOf(p, S \cup Awaited(p))'
  <2>1. /\ main'[p].needs = main[p].needs /\ main'[p].page = main[p].page
        /\ \A k \in Awaited(p) : k \in Awaited(p)' \/ bdb[p][k].img.has \subseteq Settled'
    BY <1>3 DEF NeedsKept
  <2>2. InWindow(p) /\ main[p].page \in S
    BY <1>3, <2>1 DEF NeedsFit
  <2>3. HasOf(p, S \cup Awaited(p)) \subseteq Settled' \cup HasOf(p, S \cup Awaited(p))'
    BY <2>1 DEF HasOf
  <2> QED BY <2>1, <2>2, <2>3
<1>4. InWindow(p)' /\ main'[p].page \in S =>
        \/ main'[p].needs = {}
        \/ /\ InWindow(p) /\ main[p].page \in S /\ main'[p].needs = main[p].needs
           /\ HasOf(p, S \cup Awaited(p)) \subseteq Settled' \cup HasOf(p, S \cup Awaited(p))'
  BY <1>3
<1> QED BY <1>1, <1>2, <1>4 DEF Rests

\* A clean image is that of the file, or none.
LEMMA CleanImages ==
  ASSUME IInv, WriteOrder, NEW p \in Procs, NEW k \in Pages, ~Dirty(p, k)
  PROVE  bdb[p][k].img.has \subseteq Durable /\ bdb[p][k].img.needs \subseteq Settled
<1>1. bdb[p][k].img = Blank \/ bdb[p][k].img = disk[k]
  BY DEF IInv, Caching, ImagesFit
<1>2. disk[k].has \subseteq Durable /\ disk[k].needs \subseteq Settled
  BY DEF WriteOrder, Durable, Settled
<1> QED BY <1>1, <1>2 DEF Blank

LEMMA AwaitedPages ==
  ASSUME IInv, NEW p \in Procs
  PROVE  Awaited(p) \subseteq Pages
<1>1. main[p] \in MainLine /\ MainOf(p)
  BY Parts
<1>2. main[p].pc = "insert" \/ main[p].back = "insert" => main[p].hi \in Pages
  BY <1>1 DEF MainOf, MainLine
<1>3. ASSUME main[p].back = "held"
      PROVE  Latest(main[p].stack) \in Pages
  <2>1. main[p].stack \in Seq(Pages) /\ main[p].stack # <<>>
    BY <1>1, <1>3 DEF MainOf, MainLine
  <2>2. Len(main[p].stack) \in DOMAIN main[p].stack
    BY <2>1, EmptySeq, LenProperties
  <2> QED BY <2>1, <2>2, ElementOfSeq, LenProperties DEF Latest
<1> QED BY <1>2, <1>3 DEF Awaited

LEMMA Combined ==
  ASSUME OInv, NEW p \in Procs, Leaves(p), Settled \subseteq Settled', WriteOrder', Order(p)'
  PROVE  OInv'
<1>1. ASSUME NEW q \in Procs, q # p
      PROVE  Order(q)'
  BY <1>1, SameOrder DEF OInv, Leaves
<1>2. \A q \in Procs : Order(q)'
  BY <1>1
<1> QED BY <1>2 DEF OInv

\* A step of the main line that writes nothing and makes no page dirty. It keeps the
\* pages that count, what is to be written before them, and which are given up.
Calm(p) ==
  /\ Leaves(p) /\ ast[p] = <<>> /\ ast'[p] = <<>> /\ UNCHANGED <<disk, lost>>
  /\ \A k \in Pages : /\ Dirty(p, k)' <=> Dirty(p, k)
                      /\ Dirty(p, k) => bdb'[p][k].img = bdb[p][k].img
  /\ \A k \in Counted(p)' : Has(p, k, "not_valid") => Has(p, k, "not_valid")'
  /\ InWindow(p)' => InWindow(p) /\ main'[p].page = main[p].page
  /\ \A e \in pre'[p] : ~e.cleared => e \in pre[p]
  /\ \A e \in pre[p] :
       ~e.cleared /\ Dirty(p, e.hi) /\ e.low \in Counted(p)' => e \in pre'[p]
  /\ NeedsKept(p)

LEMMA CalmKeeps ==
  ASSUME IInv, OInv, NEW p \in Procs, Calm(p), FakeFits(p)'
  PROVE  OInv'
<1>1. Settled' = Settled /\ Durable' = Durable /\ WriteOrder'
  BY DEF Calm, Settled, Durable, OInv, WriteOrder
<1>2. Ordered(p) /\ NeedsFit(p) /\ Awaited(p) \subseteq Pages
  BY AwaitedPages DEF OInv, Order
<1>3. Counted(p)' \subseteq Counted(p)
  BY DEF Calm, Counted
<1>4. \A k \in Pages : bdb[p][k].img.has \subseteq bdb'[p][k].img.has \cup Settled'
  <2> SUFFICES ASSUME NEW k \in Pages
               PROVE  bdb[p][k].img.has \subseteq bdb'[p][k].img.has \cup Settled'
    OBVIOUS
  <2>1. CASE Dirty(p, k)
    BY <2>1 DEF Calm
  <2>2. CASE ~Dirty(p, k)
    BY <1>1, <2>2, CleanImages DEF OInv, Settled
  <2> QED BY <2>1, <2>2
<1>6. \A k \in Counted(p)' : Doomed(p, k) => Doomed(p, k)'
  BY DoomedAlone, DoomedAlonePrimed DEF Calm
<1>7. \A e \in pre[p] : ~e.cleared /\ Dirty(p, e.hi) /\ e.low \in Counted(p)' =>
        e \in pre'[p] /\ Dirty(p, e.hi)'
  <2>1. pre[p] \in SUBSET Precedence
    BY Parts
  <2> QED BY <2>1 DEF Calm, Precedence
<1>8. \A k \in Pages : Dirty(p, k)' => Dirty(p, k) /\ bdb'[p][k].img = bdb[p][k].img
  BY DEF Calm
<1>9. Ordered(p)'
  BY <1>1, <1>2, <1>3, <1>4, <1>6, <1>7, <1>8, OrderedStays DEF Calm
<1>10. NeedsFit(p)' /\ FramesFit(p)'
  BY FramesFitAlone DEF Calm, NeedsKept, NeedsFit
<1> QED BY <1>1, <1>9, <1>10, Combined DEF Calm, Order

-----------------------------------------------------------------------------
(* Steps of the main line that write nothing and make no page dirty.       *)

\* Outside a window the main line needs nothing.
LEMMA NoNeeds ==
  ASSUME OInv, NEW p \in Procs, ~InWindow(p)
  PROVE  main[p].needs = {}
BY DEF OInv, Order, NeedsFit

LEMMA CalmFetch ==
  ASSUME IInv, OInv, NEW p \in Procs, NEW g \in Pages, NEW write \in BOOLEAN,
         CCH_fetch(p, g, write)
  PROVE  Calm(p) /\ FakeFits(p)'
<1> DEFINE F == IF write THEN {"writer"} ELSE {}
           b == With(Without(Latched(bdb[p][g]), {"faked"}), F)
<1>1. main[p].page = NoPage /\ main[p].back = "idle" /\ \A h \in Pages : bdb[p][h].use = 0
  BY IdleLatches DEF CCH_fetch
<1>2. b \in Buffer /\ b.img = bdb[p][g].img /\ b.flags = (bdb[p][g].flags \ {"faked"}) \cup F
  <2>1. bdb[p][g] \in Buffer /\ Latched(bdb[p][g]) \in Buffer
    BY <1>1, Parts, LatchOps
  <2> QED BY <1>1, <2>1, LatchOps, BufferOps DEF Flags
<1>3. /\ bdb' = [bdb EXCEPT ![p][g] = b]
      /\ main' = [main EXCEPT ![p].pc = "lock", ![p].page = g]
  BY DEF CCH_fetch
<1> HIDE DEF b
<1>4. /\ \A q \in Procs \ {p} : bdb'[q] = bdb[q] /\ main'[q] = main[q]
      /\ main'[p].pc = "lock" /\ main'[p].page = g /\ main'[p].back = "idle"
      /\ main'[p].needs = main[p].needs
      /\ \A h \in Pages : bdb'[p][h] = IF h = g THEN b ELSE bdb[p][h]
  BY <1>1, <1>3, Parts DEF TypeOK, MainLine
<1>5. ~InWindow(p) /\ ~InWindow(p)' /\ main[p].needs = {}
  <2>1. ~InWindow(p) /\ ~InWindow(p)'
    BY <1>1, <1>4 DEF InWindow
  <2> QED BY <2>1, NoNeeds
<1>6. Leaves(p)
  BY <1>4 DEF Leaves, CCH_fetch
<1>7. Calm(p)
  <2>1. \A k \in Pages : /\ Dirty(p, k)' <=> Dirty(p, k)
                         /\ bdb'[p][k].img = bdb[p][k].img
                         /\ Has(p, k, "not_valid") => Has(p, k, "not_valid")'
    BY <1>2, <1>4 DEF Dirty, Has, F
  <2> QED BY <1>4, <1>5, <1>6, <2>1 DEF Calm, CCH_fetch, Runs, NeedsKept, Counted
<1>8. FakeFits(p)'
  BY <1>2, <1>4 DEF FakeFits, Has, F
<1> QED BY <1>7, <1>8

LEMMA CalmFakeWritten ==
  ASSUME IInv, OInv, NEW p \in Procs, FakeWritten(p)
  PROVE  Calm(p) /\ FakeFits(p)'
<1> DEFINE g == main[p].page
           b == Faking(bdb[p][g])
<1>1. g \in Pages /\ main[p].back = "idle" /\ ~Dirty(p, g) /\ Below(p, g) = {}
  BY Parts DEF FakeWritten, Runs, MainOf, CleanOf, MainLine, OInv, Order, FakeFits
<1>2. /\ b.img = bdb[p][g].img
      /\ b.flags = {"writer", "faked"} \cup (bdb[p][g].flags \cap {"blocking"})
  BY <1>1, Parts DEF Faking, Buffer, Flags
<1>3. bdb' = [bdb EXCEPT ![p][g] = b] /\ main' = [main EXCEPT ![p].pc = "lock"]
  BY DEF FakeWritten
<1> HIDE DEF b
<1>4. /\ \A q \in Procs \ {p} : bdb'[q] = bdb[q] /\ main'[q] = main[q]
      /\ main'[p].pc = "lock" /\ main'[p].page = main[p].page /\ main'[p].back = "idle"
      /\ main'[p].needs = main[p].needs
      /\ \A h \in Pages : bdb'[p][h] = IF h = g THEN b ELSE bdb[p][h]
  BY <1>1, <1>3, Parts DEF TypeOK, MainLine
<1>5. ~InWindow(p) /\ ~InWindow(p)' /\ main[p].needs = {}
  <2>1. ~InWindow(p) /\ ~InWindow(p)'
    BY <1>1, <1>4 DEF InWindow, FakeWritten, Runs
  <2> QED BY <2>1, NoNeeds
<1>6. Leaves(p)
  BY <1>4 DEF Leaves, FakeWritten
<1>7. Calm(p)
  BY <1>1, <1>2, <1>4, <1>5, <1>6
     DEF Calm, FakeWritten, Runs, Dirty, Has, NeedsKept, Counted
<1>8. FakeFits(p)'
  BY <1>1, <1>4 DEF FakeFits, Below, FakeWritten
<1> QED BY <1>7, <1>8

LEMMA CalmNotice ==
  ASSUME IInv, OInv, NEW p \in Procs, NoticeRepeated(p)
  PROVE  OInv'
<1>1. Leaves(p) /\ Settled' = Settled /\ WriteOrder'
  BY DEF Leaves, NoticeRepeated, Settled, Durable, WriteOrder, OInv
<1>2. Order(p)'
  BY <1>1, SameOrder DEF NoticeRepeated, OInv
<1> QED BY <1>1, <1>2, Combined

\* Where the main line is when write_buffer is done with a page, and what is left of the
\* precedence.
LEMMA Returned ==
  ASSUME IInv, NEW p \in Procs, Runs(p, "write"), NEW flags, WriteReturns(p, flags)
  PROVE  /\ \A q \in Procs \ {p} : bdb'[q] = bdb[q] /\ main'[q] = main[q] /\ pre'[q] = pre[q]
         /\ pre'[p] = pre[p] \ Below(p, Top(p))
         /\ \A h \in Pages :
              /\ bdb'[p][h].img = bdb[p][h].img
              /\ bdb'[p][h].flags = IF h = Top(p) THEN flags ELSE bdb[p][h].flags
         /\ main'[p].page = main[p].page /\ main'[p].needs = main[p].needs
         /\ main'[p].hi = main[p].hi
         /\ InWindow(p)' <=> InWindow(p)
         /\ \A k \in Awaited(p) : k \in Awaited(p)' \/ k = Top(p)
         /\ FakeFits(p)'
<1> DEFINE s == main[p].stack
           b == Top(p)
           below == Tail(s)
           left == [Released(bdb[p][b]) EXCEPT !.flags = flags]
           B == [g \in Pages |-> IF g = b THEN left
                                 ELSE IF below # <<>> /\ g = Head(below) THEN Latched(bdb[p][g])
                                 ELSE bdb[p][g]]
           pc == IF below = <<>> THEN main[p].back ELSE "write"
           back == IF below = <<>> THEN "idle" ELSE main[p].back
<1>1. /\ s \in Seq(Pages) /\ s # <<>> /\ b \in Pages /\ main[p].back # "idle"
      /\ main[p].pc = "write"
  BY WritingLatches DEF Runs
<1>2. /\ b = Head(s) /\ (below # <<>> => Latest(below) = Latest(s))
      /\ (below = <<>> => Latest(s) = b)
  BY <1>1, Popped DEF Top
<1>3. /\ main' = [main EXCEPT ![p].stack = below, ![p].pc = pc, ![p].back =
                    IF below = <<>> THEN "idle" ELSE @]
      /\ bdb' = [bdb EXCEPT ![p] = B] /\ pre' = [pre EXCEPT ![p] = @ \ Below(p, b)]
  BY DEF WriteReturns
<1> HIDE DEF below, pc, back, B
<1>4. /\ \A q \in Procs \ {p} : bdb'[q] = bdb[q] /\ main'[q] = main[q] /\ pre'[q] = pre[q]
      /\ pre'[p] = pre[p] \ Below(p, b) /\ bdb'[p] = B
  BY <1>3, Parts DEF TypeOK
<1>5. /\ main'[p].page = main[p].page /\ main'[p].needs = main[p].needs
      /\ main'[p].hi = main[p].hi
      /\ main'[p].stack = below /\ main'[p].pc = pc /\ main'[p].back = back
  BY <1>3, Parts DEF TypeOK, MainLine, back
<1>6. \A h \in Pages : /\ B[h].img = bdb[p][h].img
                       /\ B[h].flags = IF h = b THEN flags ELSE bdb[p][h].flags
  <2> SUFFICES ASSUME NEW h \in Pages
               PROVE  /\ B[h].img = bdb[p][h].img
                      /\ B[h].flags = IF h = b THEN flags ELSE bdb[p][h].flags
    OBVIOUS
  <2>1. bdb[p][h] \in Buffer /\ bdb[p][b] \in Buffer
    BY <1>1, Parts
  <2>2. B[h] = IF h = b THEN left
               ELSE IF below # <<>> /\ h = Head(below) THEN Latched(bdb[p][h]) ELSE bdb[p][h]
    BY DEF B
  <2>3. left.img = bdb[p][b].img /\ left.flags = flags
    BY <2>1 DEF Released, Buffer
  <2>4. Latched(bdb[p][h]).img = bdb[p][h].img /\ Latched(bdb[p][h]).flags = bdb[p][h].flags
    BY <2>1, LatchOps
  <2> HIDE DEF left, b
  <2> QED BY <2>2, <2>3, <2>4
<1>7. main[p].back \in {"held", "insert", "flush", "fake", "reuse"}
  BY <1>1, Parts DEF MainLine
<1>8. InWindow(p)' <=> InWindow(p)
  BY <1>1, <1>5, <1>7 DEF InWindow, pc, back
<1>9. \A k \in Awaited(p) : k \in Awaited(p)' \/ k = b
  BY <1>1, <1>2, <1>5, <1>7 DEF Awaited, pc, back
<1>10. FakeFits(p)'
  <2> SUFFICES ASSUME \/ main'[p].pc = "fake"
                      \/ main'[p].pc \in {"lock", "waiting"}
               PROVE  Below(p, main[p].page)' = {}
    BY <1>5 DEF FakeFits, Below
  <2>1. below = <<>> /\ main[p].back = "fake"
    BY <1>5, <1>7 DEF pc
  <2>2. main[p].page = b
    BY <1>2, <2>1, Parts DEF MainOf
  <2> QED BY <1>4, <1>5, <2>2 DEF Below
<1> QED BY <1>4, <1>5, <1>6, <1>8, <1>9, <1>10

LEMMA CalmFindsClean ==
  ASSUME IInv, OInv, NEW p \in Procs, WriteFindsClean(p)
  PROVE  Calm(p) /\ FakeFits(p)'
<1> DEFINE b == Top(p)
<1>1. /\ Runs(p, "write") /\ ~Dirty(p, b) /\ b \in Pages
      /\ WriteReturns(p, bdb[p][b].flags)
  BY WritingLatches DEF WriteFindsClean
<1> HIDE DEF b
<1>2. /\ \A q \in Procs \ {p} : bdb'[q] = bdb[q] /\ main'[q] = main[q] /\ pre'[q] = pre[q]
      /\ pre'[p] = pre[p] \ Below(p, b)
      /\ \A h \in Pages : /\ bdb'[p][h].img = bdb[p][h].img
                          /\ bdb'[p][h].flags = bdb[p][h].flags
      /\ main'[p].page = main[p].page /\ main'[p].needs = main[p].needs
      /\ InWindow(p)' <=> InWindow(p)
      /\ \A k \in Awaited(p) : k \in Awaited(p)' \/ k = b
      /\ FakeFits(p)'
  BY <1>1, Returned DEF b
<1>3. Leaves(p) /\ ast[p] = <<>> /\ ast'[p] = <<>> /\ UNCHANGED <<disk, lost>>
  BY <1>1, <1>2 DEF Leaves, WriteFindsClean, Runs
<1>4. NeedsKept(p)
  <2>1. bdb[p][b].img.has \subseteq Durable /\ Durable' = Durable
    BY <1>1, <1>3, CleanImages DEF OInv, Durable
  <2>2. main[p].needs # {} => InWindow(p)
    BY DEF OInv, Order, NeedsFit
  <2> QED BY <1>2, <2>1, <2>2 DEF NeedsKept, Settled
<1>5. Calm(p)
  <2>1. \A k \in Pages : /\ Dirty(p, k)' <=> Dirty(p, k)
                         /\ Has(p, k, "not_valid") => Has(p, k, "not_valid")'
    BY <1>2 DEF Dirty, Has
  <2>2. \A e \in pre[p] : Dirty(p, e.hi) => e \in pre'[p]
    BY <1>1, <1>2 DEF Below
  <2> QED BY <1>2, <1>3, <1>4, <2>1, <2>2 DEF Calm, Counted
<1> QED BY <1>2, <1>5

LEMMA CalmDropped ==
  ASSUME IInv, OInv, NEW p \in Procs, PrecedenceDropped(p)
  PROVE  Calm(p) /\ FakeFits(p)'
<1>1. PICK e \in Above(p, Top(p)) : e.cleared /\ pre' = [pre EXCEPT ![p] = @ \ {e}]
  BY DEF PrecedenceDropped
<1>2. /\ pre'[p] = pre[p] \ {e} /\ \A q \in Procs \ {p} : pre'[q] = pre[q]
      /\ UNCHANGED <<bdb, main, ast, disk, lost>> /\ ast[p] = <<>> /\ main[p].pc = "write"
  BY <1>1, Parts DEF TypeOK, PrecedenceDropped, Runs
<1>3. (InWindow(p)' <=> InWindow(p)) /\ Awaited(p)' = Awaited(p)
  BY <1>2 DEF InWindow, Awaited
<1>4. NeedsKept(p)
  BY <1>2, <1>3 DEF NeedsKept, OInv, Order, NeedsFit
<1>5. Calm(p)
  BY <1>1, <1>2, <1>3, <1>4 DEF Calm, Leaves, Dirty, Has
<1>6. FakeFits(p)'
  BY <1>2 DEF FakeFits
<1> QED BY <1>5, <1>6

LEMMA CalmHigher ==
  ASSUME IInv, OInv, NEW p \in Procs, WritesHigher(p)
  PROVE  Calm(p) /\ FakeFits(p)'
<1>1. PICK e \in Above(p, Top(p)) :
        /\ ~e.cleared
        /\ bdb' = [bdb EXCEPT ![p][Top(p)] = Released(@), ![p][e.hi] = Latched(@)]
        /\ main' = [main EXCEPT ![p].stack = <<e.hi>> \o @]
  BY DEF WritesHigher
<1>2. PICK t, x, s : t = Top(p) /\ x = e.hi /\ s = main[p].stack
  OBVIOUS
<1>3. /\ s \in Seq(Pages) /\ s # <<>> /\ t \in Pages /\ x \in Pages
      /\ ast[p] = <<>> /\ main[p].pc = "write"
  BY <1>1, <1>2, WritingLatches, Parts DEF WritesHigher, Runs, Above, Precedence
<1>4. Latest(<<x>> \o s) = Latest(s)
  BY <1>3, Pushed
<1>5. /\ \A q \in Procs \ {p} : bdb'[q] = bdb[q] /\ main'[q] = main[q]
      /\ main'[p].page = main[p].page /\ main'[p].needs = main[p].needs
      /\ main'[p].hi = main[p].hi /\ main'[p].pc = main[p].pc /\ main'[p].back = main[p].back
      /\ main'[p].stack = <<x>> \o s
  BY <1>1, <1>2, Parts DEF TypeOK, MainLine
<1>6. \A h \in Pages : bdb'[p][h].img = bdb[p][h].img /\ bdb'[p][h].flags = bdb[p][h].flags
  <2>1. bdb[p][t] \in Buffer /\ bdb[p][x] \in Buffer
    BY <1>3, Parts
  <2>2. \A h \in Pages : \/ bdb'[p][h] = bdb[p][h]
                         \/ h = t /\ bdb'[p][h] = Released(bdb[p][t])
                         \/ h = x /\ bdb'[p][h] = Latched(bdb[p][x])
                         \/ h = t /\ h = x /\ bdb'[p][h] = Latched(Released(bdb[p][t]))
    BY <1>1, <1>2, <1>3, Parts DEF TypeOK
  <2>3. /\ Released(bdb[p][t]).img = bdb[p][t].img
        /\ Released(bdb[p][t]).flags = bdb[p][t].flags
        /\ Latched(bdb[p][x]).img = bdb[p][x].img
        /\ Latched(bdb[p][x]).flags = bdb[p][x].flags
        /\ Latched(Released(bdb[p][t])).img = bdb[p][t].img
        /\ Latched(Released(bdb[p][t])).flags = bdb[p][t].flags
    BY <2>1 DEF Released, Latched, Buffer
  <2> QED BY <2>2, <2>3
<1>7. (InWindow(p)' <=> InWindow(p)) /\ Awaited(p)' = Awaited(p)
  BY <1>2, <1>3, <1>4, <1>5 DEF InWindow, Awaited
<1>8. NeedsKept(p)
  BY <1>5, <1>7 DEF NeedsKept, OInv, Order, NeedsFit
<1>9. /\ Leaves(p) /\ UNCHANGED <<disk, lost, pre, ast>>
  BY <1>5 DEF Leaves, WritesHigher
<1>10. Calm(p)
  <2>1. \A k \in Pages : /\ Dirty(p, k)' <=> Dirty(p, k)
                         /\ Has(p, k, "not_valid") => Has(p, k, "not_valid")'
    BY <1>6 DEF Dirty, Has
  <2> QED BY <1>3, <1>5, <1>6, <1>7, <1>8, <1>9, <2>1 DEF Calm, Counted
<1>11. FakeFits(p)'
  BY <1>3, <1>5 DEF FakeFits
<1> QED BY <1>10, <1>11

LEMMA CalmRelease ==
  ASSUME IInv, OInv, NEW p \in Procs, CCH_release(p)
  PROVE  Calm(p) /\ FakeFits(p)'
<1> DEFINE g == main[p].page
           b == Released(Without(bdb[p][g], {"writer", "marked", "faked"}))
<1>1. g \in Pages /\ ast[p] = <<>>
  BY Parts DEF CCH_release, Runs, MainOf, MainLine
<1>2. b.img = bdb[p][g].img /\ b.flags = bdb[p][g].flags \ {"writer", "marked", "faked"}
  BY <1>1, Parts DEF Released, Without, Buffer
<1>3. bdb' = [bdb EXCEPT ![p][g] = b] /\ main' = [main EXCEPT ![p] = Idle]
  BY DEF CCH_release
<1> HIDE DEF b, g
<1>4. /\ \A q \in Procs \ {p} : bdb'[q] = bdb[q] /\ main'[q] = main[q]
      /\ main'[p] = Idle
      /\ \A h \in Pages : bdb'[p][h] = IF h = g THEN b ELSE bdb[p][h]
  BY <1>1, <1>3, Parts DEF TypeOK
<1>5. \A k \in Pages : /\ Dirty(p, k)' <=> Dirty(p, k)
                       /\ bdb'[p][k].img = bdb[p][k].img
                       /\ Has(p, k, "not_valid") => Has(p, k, "not_valid")'
  BY <1>2, <1>4 DEF Dirty, Has
<1>6. ~InWindow(p)' /\ main'[p].needs = {} /\ FakeFits(p)'
  BY <1>4 DEF InWindow, Idle, FakeFits
<1>7. Leaves(p)
  BY <1>4 DEF Leaves, CCH_release
<1>8. Calm(p)
  BY <1>1, <1>5, <1>6, <1>7 DEF Calm, Counted, NeedsKept, CCH_release
<1> QED BY <1>6, <1>8

LEMMA CalmUnwind ==
  ASSUME IInv, OInv, NEW p \in Procs, ast[p] = <<>>, CCH_unwind(p)
  PROVE  Calm(p) /\ FakeFits(p)'
<1> DEFINE B == [g \in Pages |-> IF InUse(p, g)
                   THEN [Without(bdb[p][g], {"writer"}) EXCEPT !.use = 0] ELSE bdb[p][g]]
<1>1. bdb' = [bdb EXCEPT ![p] = B] /\ main' = [main EXCEPT ![p] = Idle]
  <2>1. B = [g \in Pages |-> IF g \in {h \in Pages : InUse(p, h)}
               THEN [Without(bdb[p][g], {"writer"}) EXCEPT !.use = 0] ELSE bdb[p][g]]
    OBVIOUS
  <2> QED BY <2>1 DEF CCH_unwind
<1>2. \A h \in Pages : /\ B[h].img = bdb[p][h].img
                       /\ \/ B[h].flags = bdb[p][h].flags
                          \/ B[h].flags = bdb[p][h].flags \ {"writer"}
  BY Parts DEF Without, Buffer
<1> HIDE DEF B
<1>3. /\ \A q \in Procs \ {p} : bdb'[q] = bdb[q] /\ main'[q] = main[q]
      /\ main'[p] = Idle /\ bdb'[p] = B
  BY <1>1, Parts DEF TypeOK
<1>4. \A k \in Pages : /\ Dirty(p, k)' <=> Dirty(p, k)
                       /\ bdb'[p][k].img = bdb[p][k].img
                       /\ Has(p, k, "not_valid") => Has(p, k, "not_valid")'
  BY <1>2, <1>3 DEF Dirty, Has
<1>5. ~InWindow(p)' /\ main'[p].needs = {} /\ FakeFits(p)'
  BY <1>3 DEF InWindow, Idle, FakeFits
<1>6. Leaves(p)
  BY <1>3 DEF Leaves, CCH_unwind
<1>7. Calm(p)
  BY <1>4, <1>5, <1>6 DEF Calm, Counted, NeedsKept, CCH_unwind
<1> QED BY <1>5, <1>7

\* The buffer of a clean page that is not in the window is taken for another page.
LEMMA ReusesCalm ==
  ASSUME IInv, OInv, NEW p \in Procs, NEW g \in Pages, Reuses(p, g), ~Dirty(p, g),
         main[p].page # g, \A q \in Procs \ {p} : main'[q] = main[q], NeedsKept(p),
         ast[p] = <<>>, UNCHANGED <<disk, ast, lost>>, FakeFits(p)',
         main'[p].page = main[p].page, InWindow(p)' <=> InWindow(p)
  PROVE  Calm(p) /\ FakeFits(p)'
<1>1. /\ pre' = [pre EXCEPT ![p] = @ \ (Above(p, g) \cup Below(p, g))]
      /\ bdb' = [bdb EXCEPT ![p][g] = NewBuffer]
  BY DEF Reuses
<1>2. /\ \A q \in Procs \ {p} : bdb'[q] = bdb[q] /\ pre'[q] = pre[q]
      /\ pre'[p] = pre[p] \ (Above(p, g) \cup Below(p, g))
      /\ \A h \in Pages : bdb'[p][h] = IF h = g THEN NewBuffer ELSE bdb[p][h]
  BY <1>1, Parts DEF TypeOK
<1>3. \A k \in Pages :
        /\ Dirty(p, k)' <=> Dirty(p, k)
        /\ Dirty(p, k) => bdb'[p][k].img = bdb[p][k].img
        /\ k # g /\ Has(p, k, "not_valid") => Has(p, k, "not_valid")'
  BY <1>2 DEF Dirty, Has, NewBuffer
<1>4. g \notin Counted(p)'
  BY <1>3 DEF Counted
<1>5. Leaves(p)
  BY <1>2 DEF Leaves
<1>6. \A e \in pre[p] :
        ~e.cleared /\ Dirty(p, e.hi) /\ e.low \in Counted(p)' => e \in pre'[p]
  BY <1>2, <1>4 DEF Above, Below
<1>7. \A k \in Counted(p)' : Has(p, k, "not_valid") => Has(p, k, "not_valid")'
  BY <1>3, <1>4 DEF Counted
<1>8. ast'[p] = <<>> /\ \A e \in pre'[p] : e \in pre[p]
  BY <1>2
<1>9. Calm(p)
  BY <1>3, <1>5, <1>6, <1>7, <1>8 DEF Calm
<1> QED BY <1>9

LEMMA CalmTaken ==
  ASSUME IInv, OInv, NEW p \in Procs, NEW g \in Pages, get_buffer(p, g)
  PROVE  Calm(p) /\ FakeFits(p)'
<1>1. /\ ast[p] = <<>> /\ main[p].pc \in {"idle", "held"} /\ bdb[p][g].use = 0
      /\ UNCHANGED <<disk, ast, lost>>
  BY Parts DEF get_buffer, Runs, InUse, Buffer
<1>2. main[p].page # g
  BY <1>1, Parts, LatchBounds
<1>3. main[p].back = "idle" /\ (main[p].pc = "idle" <=> main[p].page = NoPage)
  BY <1>1, Parts, PlainLine DEF MainOf
<1>4. Awaited(p) = {}
  BY <1>1, <1>3 DEF Awaited
<1>5. main[p].needs # {} => InWindow(p)
  BY DEF OInv, Order, NeedsFit
<1>6. CASE Dirty(p, g)
  <2>1. /\ bdb' = [bdb EXCEPT ![p][g] = Latched(Latched(@))] /\ UNCHANGED pre
        /\ main' = [main EXCEPT ![p].pc = "write", ![p].stack = <<g>>,
                      ![p].back = "reuse", ![p].hi = g]
    BY <1>6 DEF get_buffer
  <2>2. /\ \A q \in Procs \ {p} : bdb'[q] = bdb[q] /\ main'[q] = main[q]
        /\ main'[p].pc = "write" /\ main'[p].back = "reuse"
        /\ main'[p].page = main[p].page /\ main'[p].needs = main[p].needs
        /\ \A h \in Pages : bdb'[p][h] =
             IF h = g THEN Latched(Latched(bdb[p][g])) ELSE bdb[p][h]
    BY <2>1, Parts DEF TypeOK, MainLine
  <2>3. InWindow(p)' <=> InWindow(p)
    BY <1>1, <1>3, <2>2 DEF InWindow
  <2>4. \A h \in Pages : bdb'[p][h].img = bdb[p][h].img /\ bdb'[p][h].flags = bdb[p][h].flags
    <3>1. bdb[p][g] \in Buffer
      BY Parts
    <3>2. /\ Latched(Latched(bdb[p][g])).img = bdb[p][g].img
          /\ Latched(Latched(bdb[p][g])).flags = bdb[p][g].flags
      BY <3>1 DEF Latched, Buffer
    <3> QED BY <2>2, <3>2
  <2>5. \A k \in Pages : /\ Dirty(p, k)' <=> Dirty(p, k)
                         /\ Has(p, k, "not_valid") => Has(p, k, "not_valid")'
    BY <2>4 DEF Dirty, Has
  <2>6. Leaves(p) /\ NeedsKept(p) /\ FakeFits(p)'
    BY <1>1, <1>4, <1>5, <2>1, <2>2, <2>3 DEF Leaves, NeedsKept, FakeFits
  <2>7. Calm(p)
    BY <1>1, <2>1, <2>2, <2>3, <2>4, <2>5, <2>6 DEF Calm, Counted
  <2> QED BY <2>6, <2>7
<1>7. CASE ~Dirty(p, g)
  <2>1. Reuses(p, g) /\ UNCHANGED main
    BY <1>7 DEF get_buffer
  <2>2. (InWindow(p)' <=> InWindow(p)) /\ NeedsKept(p) /\ FakeFits(p)'
    <3>1. InWindow(p)' <=> InWindow(p)
      BY <2>1 DEF InWindow
    <3> QED BY <1>1, <1>4, <1>5, <2>1, <3>1 DEF NeedsKept, FakeFits
  <2> QED BY <1>1, <1>2, <1>7, <2>1, <2>2, ReusesCalm
<1> QED BY <1>6, <1>7

LEMMA CalmReused ==
  ASSUME IInv, OInv, NEW p \in Procs, BufferReused(p)
  PROVE  Calm(p) /\ FakeFits(p)'
<1>1. PICK g : g = main[p].hi
  OBVIOUS
<1>2. /\ ast[p] = <<>> /\ main[p].pc = "reuse" /\ main[p].back = "idle"
      /\ g \in Pages /\ g # main[p].page /\ ~Dirty(p, g) /\ Reuses(p, g)
      /\ UNCHANGED <<disk, ast, lost>>
  BY <1>1, Parts DEF BufferReused, Runs, MainOf, CleanOf, MainLine
<1>3. /\ \A q \in Procs \ {p} : main'[q] = main[q]
      /\ main'[p].page = main[p].page /\ main'[p].needs = main[p].needs
      /\ main'[p].back = "idle"
      /\ main'[p].pc = IF main[p].page = NoPage THEN "idle" ELSE "held"
  BY <1>2, Parts DEF BufferReused, TypeOK, MainLine
<1>4. (InWindow(p)' <=> InWindow(p)) /\ Awaited(p) = {} /\ FakeFits(p)'
  BY <1>2, <1>3 DEF InWindow, Awaited, FakeFits
<1>5. NeedsKept(p)
  BY <1>3, <1>4 DEF NeedsKept, OInv, Order, NeedsFit
<1> QED BY <1>2, <1>3, <1>4, <1>5, ReusesCalm

\* Between its calls, the main line has no window.
LEMMA CalmCommit ==
  ASSUME IInv, OInv, NEW p \in Procs, TRA_commit(p) \/ Committed(p)
  PROVE  Calm(p) /\ FakeFits(p)'
<1>1. /\ main[p].page = NoPage /\ main[p].back = "idle" /\ ast[p] = <<>>
      /\ UNCHANGED <<disk, bdb, pre, ast, lost>>
  BY IdleLatches DEF TRA_commit, Committed, Runs
<1>2. /\ \A q \in Procs \ {p} : main'[q] = main[q]
      /\ main'[p].page = NoPage /\ main'[p].back = "idle" /\ main'[p].needs = {}
      /\ main'[p].pc \in {"idle", "flush"}
  <2>1. main[p].needs = {}
    BY <1>1, NoNeeds DEF InWindow
  <2>2. CASE TRA_commit(p)
    BY <1>1, <2>1, <2>2, Parts DEF TRA_commit, TypeOK, MainLine
  <2>3. CASE Committed(p)
    BY <1>1, <2>3, Parts DEF Committed, TypeOK, MainLine, Idle
  <2> QED BY <2>2, <2>3
<1>3. ~InWindow(p)' /\ FakeFits(p)'
  BY <1>2 DEF InWindow, FakeFits
<1>4. \A k \in Pages : /\ Dirty(p, k)' <=> Dirty(p, k)
                       /\ Has(p, k, "not_valid") => Has(p, k, "not_valid")'
  BY <1>1 DEF Dirty, Has
<1>5. Calm(p)
  BY <1>1, <1>2, <1>3, <1>4 DEF Calm, Leaves, Counted, NeedsKept
<1> QED BY <1>3, <1>5

LEMMA CalmFlush ==
  ASSUME IInv, OInv, NEW p \in Procs, btc_flush(p)
  PROVE  Calm(p) /\ FakeFits(p)'
<1>1. PICK g \in Pages : WriteStarts(p, g, "flush", bdb[p])
  BY DEF btc_flush, ToFlush
<1>2. /\ main[p].page = NoPage /\ main[p].back = "idle" /\ ast[p] = <<>>
      /\ UNCHANGED <<disk, pre, ast, lost>>
  BY IdleLatches DEF btc_flush, Runs
<1>3. main[p].needs = {}
  BY <1>2, NoNeeds DEF InWindow
<1>4. /\ \A q \in Procs \ {p} : main'[q] = main[q] /\ bdb'[q] = bdb[q]
      /\ main'[p].page = NoPage /\ main'[p].pc = "write" /\ main'[p].needs = {}
      /\ \A h \in Pages : bdb'[p][h] = IF h = g THEN Latched(bdb[p][g]) ELSE bdb[p][h]
  BY <1>1, <1>2, <1>3, Parts DEF WriteStarts, TypeOK, MainLine
<1>5. ~InWindow(p)' /\ FakeFits(p)'
  BY <1>4 DEF InWindow, FakeFits
<1>6. \A h \in Pages : bdb'[p][h].img = bdb[p][h].img /\ bdb'[p][h].flags = bdb[p][h].flags
  BY <1>4, Parts DEF Latched, Buffer
<1>7. \A k \in Pages : /\ Dirty(p, k)' <=> Dirty(p, k)
                       /\ Has(p, k, "not_valid") => Has(p, k, "not_valid")'
  BY <1>6 DEF Dirty, Has
<1>8. Calm(p)
  BY <1>2, <1>4, <1>5, <1>6, <1>7 DEF Calm, Leaves, Counted, NeedsKept
<1> QED BY <1>5, <1>8

LEMMA CalmRollback ==
  ASSUME IInv, OInv, NEW p \in Procs, TRA_rollback(p)
  PROVE  Calm(p) /\ FakeFits(p)'
<1>1. /\ main[p].page = NoPage /\ main[p].pc = "idle" /\ ast[p] = <<>>
      /\ UNCHANGED <<disk, pre, ast, main, lost>>
  BY IdleLatches DEF TRA_rollback, Runs
<1>2. main[p].needs = {} /\ ~InWindow(p)' /\ FakeFits(p)'
  BY <1>1, NoNeeds DEF InWindow, FakeFits
<1>3. /\ \A q \in Procs \ {p} : bdb'[q] = bdb[q]
      /\ \A h \in Pages : bdb'[p][h] = Without(bdb[p][h], {"changed"})
  BY Parts DEF TRA_rollback, TypeOK
<1>4. \A h \in Pages : /\ bdb'[p][h].img = bdb[p][h].img
                       /\ bdb'[p][h].flags = bdb[p][h].flags \ {"changed"}
  <2>1. \A b \in Buffer : /\ Without(b, {"changed"}).img = b.img
                          /\ Without(b, {"changed"}).flags = b.flags \ {"changed"}
    BY DEF Without, Buffer
  <2> QED BY <1>3, <2>1, Parts
<1>5. \A k \in Pages : /\ Dirty(p, k)' <=> Dirty(p, k)
                       /\ Has(p, k, "not_valid") => Has(p, k, "not_valid")'
  BY <1>4 DEF Dirty, Has
<1>6. Calm(p)
  BY <1>1, <1>2, <1>3, <1>4, <1>5 DEF Calm, Leaves, Counted, NeedsKept
<1> QED BY <1>2, <1>6

LEMMA CalmFake ==
  ASSUME IInv, OInv, NEW p \in Procs, NEW g \in Pages, CCH_fake(p, g)
  PROVE  Calm(p) /\ FakeFits(p)'
<1> DEFINE at == [main[p] EXCEPT !.page = g, !.number = clock']
<1>1. /\ main[p].page = NoPage /\ main[p].back = "idle" /\ ast[p] = <<>>
      /\ UNCHANGED <<disk, ast, lost>>
  BY IdleLatches DEF CCH_fake, Runs
<1>2. main[p].needs = {}
  BY <1>1, NoNeeds DEF InWindow
<1>3. at.needs = {} /\ at.page = g /\ at.back = "idle"
  BY <1>1, <1>2, Parts DEF MainLine
<1>4. CASE Dirty(p, g)
  <2>1. /\ bdb' = [bdb EXCEPT ![p][g] = Latched(Latched(@))] /\ UNCHANGED pre
        /\ main' = [main EXCEPT ![p] =
                      [at EXCEPT !.pc = "write", !.stack = <<g>>, !.back = "fake"]]
    BY <1>4 DEF CCH_fake
  <2>2. /\ \A q \in Procs \ {p} : bdb'[q] = bdb[q] /\ main'[q] = main[q]
        /\ main'[p].pc = "write" /\ main'[p].back = "fake" /\ main'[p].needs = {}
        /\ \A h \in Pages : bdb'[p][h] =
             IF h = g THEN Latched(Latched(bdb[p][g])) ELSE bdb[p][h]
    BY <1>3, <2>1, Parts DEF TypeOK, MainLine
  <2>3. \A h \in Pages : bdb'[p][h].img = bdb[p][h].img /\ bdb'[p][h].flags = bdb[p][h].flags
    <3>1. bdb[p][g] \in Buffer
      BY Parts
    <3>2. /\ Latched(Latched(bdb[p][g])).img = bdb[p][g].img
          /\ Latched(Latched(bdb[p][g])).flags = bdb[p][g].flags
      BY <3>1 DEF Latched, Buffer
    <3> QED BY <2>2, <3>2
  <2>4. \A k \in Pages : /\ Dirty(p, k)' <=> Dirty(p, k)
                         /\ Has(p, k, "not_valid") => Has(p, k, "not_valid")'
    BY <2>3 DEF Dirty, Has
  <2>5. ~InWindow(p)' /\ FakeFits(p)' /\ Leaves(p)
    BY <1>1, <2>1, <2>2 DEF InWindow, FakeFits, Leaves
  <2>6. Calm(p)
    BY <1>1, <2>1, <2>2, <2>3, <2>4, <2>5 DEF Calm, Counted, NeedsKept
  <2> QED BY <2>5, <2>6
<1>5. CASE ~Dirty(p, g)
  <2> DEFINE b == Faking(Latched(bdb[p][g]))
  <2>1. /\ bdb' = [bdb EXCEPT ![p][g] = b]
        /\ main' = [main EXCEPT ![p] = [at EXCEPT !.pc = "lock"]]
        /\ pre' = [pre EXCEPT ![p] = @ \ Below(p, g)]
    BY <1>5 DEF CCH_fake
  <2>2. b.flags = {"writer", "faked"} \cup (bdb[p][g].flags \cap {"blocking"})
    BY Parts DEF Faking, Latched, Buffer
  <2> HIDE DEF b
  <2>3. /\ \A q \in Procs \ {p} : bdb'[q] = bdb[q] /\ main'[q] = main[q] /\ pre'[q] = pre[q]
        /\ main'[p].pc = "lock" /\ main'[p].back = "idle" /\ main'[p].needs = {}
        /\ main'[p].page = g /\ pre'[p] = pre[p] \ Below(p, g)
        /\ \A h \in Pages : bdb'[p][h] = IF h = g THEN b ELSE bdb[p][h]
    BY <1>3, <2>1, Parts DEF TypeOK, MainLine
  <2>4. \A k \in Pages :
          /\ Dirty(p, k)' <=> Dirty(p, k)
          /\ Dirty(p, k) => bdb'[p][k].img = bdb[p][k].img
          /\ k # g /\ Has(p, k, "not_valid") => Has(p, k, "not_valid")'
    BY <1>5, <2>2, <2>3 DEF Dirty, Has
  <2>5. ~InWindow(p)' /\ FakeFits(p)' /\ Leaves(p)
    BY <1>1, <2>3 DEF InWindow, FakeFits, Leaves, Below
  <2>6. \A k \in Counted(p)' : k \in Pages \ {g}
    BY <1>5, <2>4, <2>5 DEF Counted
  <2>7. \A e \in pre[p] : Dirty(p, e.hi) => e \in pre'[p]
    BY <1>5, <2>3 DEF Below
  <2>8. Calm(p)
    BY <1>1, <2>3, <2>4, <2>5, <2>6, <2>7 DEF Calm, NeedsKept
  <2> QED BY <2>5, <2>8
<1> QED BY <1>4, <1>5

\* lock_buffer gives the lock up and waits.
Waits(p) ==
  LET g == main[p].page
      level == LevelNeeded(p, g) IN
  /\ lck[p][g] < level
  /\ lck[p][g] = LCK_read => Others(p, g, LCK_write) # {}
  /\ lck' = [lck EXCEPT ![p][g] = LCK_none]
  /\ bdb' = [bdb EXCEPT ![p][g].img = Blank]
  /\ main' = [main EXCEPT ![p].pc = "waiting", ![p].want = level]
  /\ posted' = [BlockersPosted(p, g, level) EXCEPT ![p] = @ \ {g}]
  /\ UNCHANGED tra
LEMMA CalmWaits ==
  ASSUME IInv, OInv, NEW p \in Procs, Runs(p, "lock"), Waits(p),
         UNCHANGED <<disk, pre, ast, committed, lost, clock>>
  PROVE  Calm(p) /\ FakeFits(p)'
<1>1. PICK g : g = main[p].page
  OBVIOUS
<1>2. /\ g \in Pages /\ main[p].back = "idle" /\ ast[p] = <<>> /\ main[p].pc = "lock"
      /\ lck[p][g] \in Levels
  BY <1>1, Parts DEF Runs, MainOf, MainLine
<1>3. ~Dirty(p, g)
  <2>1. lck[p][g] < LevelNeeded(p, g) /\ LevelNeeded(p, g) \in Levels
    BY <1>1 DEF Waits, LevelNeeded, Levels, LCK_none, LCK_read, LCK_write
  <2>2. Dirty(p, g) => lck[p][g] = LCK_write
    BY <1>2, Parts DEF Caching, ImagesFit
  <2> QED BY <1>2, <2>1, <2>2 DEF Levels, LCK_none, LCK_read, LCK_write
<1>4. /\ \A q \in Procs \ {p} : bdb'[q] = bdb[q] /\ main'[q] = main[q]
      /\ main'[p].pc = "waiting" /\ main'[p].page = g /\ main'[p].back = "idle"
      /\ main'[p].needs = main[p].needs
      /\ \A h \in Pages : bdb'[p][h] = IF h = g THEN [bdb[p][g] EXCEPT !.img = Blank]
                                       ELSE bdb[p][h]
  BY <1>1, <1>2, Parts DEF Waits, TypeOK, MainLine
<1>5. \A h \in Pages : /\ bdb'[p][h].flags = bdb[p][h].flags
                       /\ h # g => bdb'[p][h].img = bdb[p][h].img
  BY <1>4, Parts DEF Buffer
<1>6. \A k \in Pages : /\ Dirty(p, k)' <=> Dirty(p, k)
                       /\ Dirty(p, k) => bdb'[p][k].img = bdb[p][k].img
                       /\ \A f : Has(p, k, f)' <=> Has(p, k, f)
  BY <1>3, <1>5 DEF Dirty, Has
<1>7. ~InWindow(p)' /\ main'[p].needs = {} /\ Leaves(p)
  <2>1. ~InWindow(p)' /\ ~InWindow(p)
    BY <1>2, <1>4 DEF InWindow
  <2> QED BY <1>4, <2>1, NoNeeds DEF Leaves
<1>8. FakeFits(p)'
  BY <1>1, <1>2, <1>4, <1>6 DEF FakeFits, Below, OInv, Order
<1>9. Calm(p)
  BY <1>2, <1>6, <1>7 DEF Calm, Counted, NeedsKept
<1> QED BY <1>8, <1>9

-----------------------------------------------------------------------------
(* A process is gone; a page is locked and read, or allocated anew.        *)

LEMMA GoneOrder ==
  ASSUME IInv, OInv, NEW p \in Procs, Gone(p)
  PROVE  OInv'
<1>1. /\ \A q \in Procs \ {p} : /\ bdb'[q] = bdb[q] /\ pre'[q] = pre[q]
                                /\ main'[q] = main[q] /\ ast'[q] = ast[q]
      /\ main'[p] = Idle /\ ast'[p] = <<>> /\ \A h \in Pages : bdb'[p][h] = NewBuffer
      /\ UNCHANGED <<disk, lost>>
  BY Parts DEF Gone, TypeOK
<1>2. Settled' = Settled /\ WriteOrder' /\ Leaves(p)
  BY <1>1 DEF Settled, Durable, WriteOrder, OInv, Leaves
<1>3. ~InWindow(p)' /\ Counted(p)' = {} /\ main'[p].needs = {} /\ main'[p].pc = "idle"
  BY <1>1 DEF InWindow, Counted, Idle, Dirty, Has, NewBuffer
<1>4. Ordered(p)'
  BY <1>3 DEF Ordered, Sound
<1>5. NeedsFit(p)' /\ FakeFits(p)' /\ FramesFit(p)'
  BY <1>1, <1>3, FramesFitAlone DEF NeedsFit, FakeFits
<1> QED BY <1>2, <1>4, <1>5, Combined DEF Order

\* The window opens on page g, with its image read anew or as it is.
Opens(p, g, read) ==
  /\ g = main[p].page /\ main[p].pc \in {"lock", "waiting"} /\ Entered(p, read)
  /\ (read => ~Dirty(p, g)) /\ UNCHANGED <<disk, pre, ast, lost>>

\* It leaves the window without what the page refers to, and the page dirty if it is
\* allocated anew or was dirty before.
Opened(p, g, read) ==
  /\ main[p].back = "idle" /\ ~InWindow(p) /\ main[p].needs = {}
  /\ g = main[p].page /\ g \notin PagesOf(ast[p])
  /\ \A q \in Procs \ {p} : bdb'[q] = bdb[q] /\ main'[q] = main[q]
  /\ main'[p].pc = "held" /\ main'[p].page = g /\ main'[p].back = "idle"
  /\ main'[p].needs = {}
  /\ \A h \in Pages \ {g} : bdb'[p][h] = bdb[p][h]
  /\ Has(p, g, "faked") =>
       /\ ~Dirty(p, g) /\ Below(p, g) = {}
       /\ bdb'[p][g].flags = bdb[p][g].flags \cup MarkFlags
       /\ bdb'[p][g].img = [has |-> disk[g].has \cup {main[p].number}, needs |-> {}]
  /\ ~Has(p, g, "faked") =>
       \/ read /\ bdb'[p][g].flags = bdb[p][g].flags \ {"not_valid"}
       \/ bdb'[p][g] = bdb[p][g]

LEMMA OpensDoes ==
  ASSUME IInv, OInv, NEW p \in Procs, NEW g \in Pages, NEW read \in BOOLEAN, Opens(p, g, read)
  PROVE  Opened(p, g, read)
<1>0. g = main[p].page /\ main[p].pc \in {"lock", "waiting"} /\ Entered(p, read)
  BY DEF Opens
<1> DEFINE fake == Has(p, g, "faked")
           new == [has |-> disk[g].has \cup {main[p].number}, needs |-> {}]
           b == IF fake THEN [With(bdb[p][g], MarkFlags) EXCEPT !.img = new]
                ELSE IF read THEN [Without(bdb[p][g], {"not_valid"}) EXCEPT !.img = disk[g]]
                ELSE bdb[p][g]
<1>1. main[p].back = "idle" /\ ~InWindow(p) /\ main[p].needs = {} /\ g \notin PagesOf(ast[p])
  <2>1. main[p].back = "idle"
    BY <1>0, PlainLine
  <2> QED BY <1>0, <2>1, Parts, LatchBounds, NoNeeds DEF InWindow
<1>2. /\ fake => b.flags = bdb[p][g].flags \cup MarkFlags /\ b.img = new
      /\ ~fake /\ read => b.flags = bdb[p][g].flags \ {"not_valid"}
      /\ ~fake /\ ~read => b = bdb[p][g]
  <2>1. bdb[p][g] \in Buffer
    BY Parts
  <2> QED BY <2>1 DEF With, Without, Buffer
<1>3. fake => ~Dirty(p, g) /\ Below(p, g) = {}
  BY <1>0, Parts DEF CleanOf, OInv, Order, FakeFits
<1>4. /\ bdb' = [bdb EXCEPT ![p][g] = b]
      /\ main' = [main EXCEPT ![p].pc = "held", ![p].want = LCK_none, ![p].number = 0]
  BY <1>0 DEF Entered
<1> HIDE DEF b, new, fake
<1>5. /\ \A q \in Procs \ {p} : bdb'[q] = bdb[q] /\ main'[q] = main[q]
      /\ main'[p].pc = "held" /\ main'[p].page = g /\ main'[p].back = "idle"
      /\ main'[p].needs = {}
      /\ \A h \in Pages : bdb'[p][h] = IF h = g THEN b ELSE bdb[p][h]
  BY <1>0, <1>1, <1>4, Parts DEF TypeOK, MainLine
<1> QED BY <1>0, <1>1, <1>2, <1>3, <1>5 DEF Opened, fake, new

LEMMA OpensOrder ==
  ASSUME IInv, OInv, NEW p \in Procs, NEW g \in Pages, NEW read \in BOOLEAN, Opens(p, g, read)
  PROVE  OInv'
<1> DEFINE fake == Has(p, g, "faked")
           b == bdb'[p][g]
<1>0. Opened(p, g, read)
  BY OpensDoes
<1> SUFFICES ASSUME UNCHANGED <<disk, pre, ast, lost>>, read => ~Dirty(p, g)
             PROVE  OInv'
  BY DEF Opens
<1>1. main[p].back = "idle" /\ ~InWindow(p) /\ main[p].needs = {} /\ g \notin PagesOf(ast[p])
  BY <1>0 DEF Opened
<1>2. /\ fake => b.flags = bdb[p][g].flags \cup MarkFlags /\ b.img.needs = {}
      /\ ~fake /\ read => b.flags = bdb[p][g].flags \ {"not_valid"} \/ b = bdb[p][g]
      /\ ~fake /\ ~read => b = bdb[p][g]
  BY <1>0 DEF Opened
<1>3. fake => ~Dirty(p, g) /\ Below(p, g) = {}
  BY <1>0 DEF Opened
<1>5. /\ \A q \in Procs \ {p} : bdb'[q] = bdb[q] /\ main'[q] = main[q]
      /\ main'[p].pc = "held" /\ main'[p].page = g /\ main'[p].back = "idle"
      /\ main'[p].needs = {}
      /\ \A h \in Pages : bdb'[p][h] = IF h = g THEN b ELSE bdb[p][h]
  BY <1>0 DEF Opened
<1> HIDE DEF b, fake
<1>6. Leaves(p) /\ Settled' = Settled /\ WriteOrder'
  BY <1>1, <1>5 DEF Leaves, Settled, Durable, WriteOrder, OInv
<1>7. \A h \in Pages \ {g} : /\ bdb'[p][h] = bdb[p][h] /\ (Dirty(p, h)' <=> Dirty(p, h))
                             /\ Has(p, h, "not_valid")' <=> Has(p, h, "not_valid")
  BY <1>5 DEF Dirty, Has
<1>8. Ordered(p)'
  <2>1. CASE Dirty(p, g)
    <3>1. ~fake /\ ~read
      BY <1>3, <2>1
    <3>2. \A h \in Pages : bdb'[p][h] = bdb[p][h] /\ \A f : Has(p, h, f)' <=> Has(p, h, f)
      BY <1>2, <1>5, <3>1 DEF Has
    <3>3. Counted(p)' \subseteq Counted(p)
      BY <1>5, <2>1, <3>2 DEF Counted, Dirty
    <3>4. Invalids(p)' = Invalids(p)
      BY <3>2 DEF Invalids
    <3>5. \A k \in Counted(p)' : Doomed(p, k) => Doomed(p, k)'
      BY <3>2, <3>4 DEF Doomed, At, Call, Condemned, Counted
    <3>6. \A e \in pre[p] : Dirty(p, e.hi) => Dirty(p, e.hi)'
      BY <3>2, Parts DEF Precedence, Dirty
    <3>7. NeedsKept(p)
      BY <1>5 DEF NeedsKept
    <3> QED BY <1>6, <3>2, <3>3, <3>5, <3>6, <3>7, OrderedStays, AwaitedPages
               DEF OInv, Order, Dirty
  <2>2. CASE ~Dirty(p, g)
    <3> SUFFICES ASSUME NEW S \in SUBSET Pages, Sound(p, S)'
                 PROVE  Rests(p, S, S \ {g})
      BY <1>6, OrderedFrom DEF OInv, Order
    <3>1. S \ {g} \subseteq Counted(p)
      BY <1>5, <1>7 DEF Sound, Counted
    <3>2. ASSUME NEW e \in pre[p], ~e.cleared, e.low \in S \ {g}, Dirty(p, e.hi)
          PROVE  e.hi \in S \ {g}
      <4>1. e.hi \in Pages \ {g} /\ e \in pre'[p]
        BY <2>2, <3>2, Parts DEF Precedence
      <4> QED BY <1>7, <3>2, <4>1 DEF Sound
    <3>3. ASSUME NEW k \in S \ {g}, Doomed(p, k)
          PROVE  FALSE
      <4>1. Invalids(p) \cap PagesOf(ast[p]) \subseteq Invalids(p)'
        BY <1>1, <1>7 DEF Invalids
      <4>2. Condemned(ast[p], Invalids(p)) \subseteq Condemned(ast[p], Invalids(p)')
        BY <4>1, Parts, CondemnedMore
      <4>3. Doomed(p, k)'
        BY <1>7, <3>3, <4>2 DEF Doomed, At, Call
      <4> QED BY <3>3, <4>3 DEF Sound
    <3>4. Sound(p, S \ {g})
      BY <3>1, <3>2, <3>3 DEF Sound
    <3>5. HasOf(p, S \ {g}) \subseteq HasOf(p, S)'
      BY <1>7 DEF HasOf
    <3>6. ASSUME NEW k \in S, Dirty(p, k)'
          PROVE  \/ bdb'[p][k].img.needs = {}
                 \/ /\ k \in S \ {g} /\ Dirty(p, k)
                    /\ bdb'[p][k].img.needs = bdb[p][k].img.needs
      <4>1. CASE k # g
        BY <1>7, <3>6, <4>1
      <4>2. CASE k = g
        <5>1. fake
          BY <1>2, <1>5, <2>2, <3>6, <4>2 DEF Dirty, Has
        <5> QED BY <1>2, <1>5, <4>2, <5>1
      <4> QED BY <4>1, <4>2
    <3> QED BY <1>5, <3>4, <3>5, <3>6 DEF Rests
  <2> QED BY <2>1, <2>2
<1>9. FramesFit(p)'
  <2> SUFFICES ASSUME NEW i \in DOMAIN ast[p]
               PROVE  FrameFits(p, ast[p][i])'
    BY DEF FramesFit
  <2>1. PICK f : f = ast[p][i]
    OBVIOUS
  <2>2. FrameFits(p, f) /\ f.page \in Pages \ {g}
    BY <1>1, <2>1, Parts, PagesOfCalls DEF OInv, Order, FramesFit, PagesOf
  <2>3. ASSUME NEW E, Tried(p, f.page, E)
        PROVE  Tried(p, f.page, E)'
    <3> SUFFICES ASSUME NEW e \in pre[p], ~e.cleared, e.low = f.page, Dirty(p, e.hi)'
                 PROVE  e.hi \in E
      BY DEF Tried
    <3>1. CASE e.hi # g
      BY <1>7, <2>3, <3>1, Parts DEF Tried, Precedence
    <3>2. CASE e.hi = g
      <4>1. ~fake
        BY <1>3, <3>2 DEF Below
      <4>2. Dirty(p, g)
        BY <1>2, <1>5, <3>2, <4>1 DEF Dirty, Has
      <4> QED BY <2>3, <3>2, <4>2 DEF Tried
    <3> QED BY <3>1, <3>2
  <2>4. FrameFits(p, f)'
    BY <1>7, <2>2, <2>3 DEF FrameFits
  <2> QED BY <2>1, <2>4 DEF FrameFits, Tried
<1>10. NeedsFit(p)' /\ FakeFits(p)'
  BY <1>5 DEF NeedsFit, FakeFits
<1> QED BY <1>6, <1>8, <1>9, <1>10, Combined DEF Order

LEMMA LockBufferIs ==
  ASSUME IInv, OInv, NEW p \in Procs, lock_buffer(p)
  PROVE  (Calm(p) /\ FakeFits(p)') \/ \E g \in Pages, read \in BOOLEAN : Opens(p, g, read)
<1>1. PICK g \in Pages : g = main[p].page
  BY Parts DEF lock_buffer, Runs, MainOf, MainLine
<1>2. \/ Entered(p, FALSE)
      \/ Waits(p)
  BY DEF lock_buffer, Waits
<1>3. Runs(p, "lock") /\ UNCHANGED <<disk, pre, ast, committed, lost, clock>>
  BY DEF lock_buffer
<1>4. CASE Entered(p, FALSE)
  BY <1>1, <1>3, <1>4 DEF Runs, Opens
<1>5. CASE Waits(p)
  BY <1>3, <1>5, CalmWaits
<1> QED BY <1>2, <1>4, <1>5

LEMMA GrantedIs ==
  ASSUME IInv, OInv, NEW p \in Procs, LockGranted(p)
  PROVE  \E g \in Pages, read \in BOOLEAN : Opens(p, g, read)
<1>1. PICK g \in Pages : g = main[p].page
  BY Parts DEF LockGranted, MainOf, MainLine
<1>2. main[p].pc = "waiting" /\ lck[p][g] = LCK_none
  BY <1>1, Parts DEF LockGranted, WindowOf
<1>3. ~Dirty(p, g)
  BY <1>2, Parts DEF Caching, ImagesFit, LCK_none, LCK_write
<1>4. Entered(p, TRUE) /\ UNCHANGED <<disk, pre, ast, lost>>
  BY DEF LockGranted
<1> QED BY <1>1, <1>2, <1>3, <1>4 DEF Opens

-----------------------------------------------------------------------------
(* Calls go on.                                                            *)

LEMMA CallsFit ==
  ASSUME IInv, OInv, NEW p \in Procs, ast[p] # <<>>
  PROVE  /\ FrameFits(p, Call(p))
         /\ \A i \in DOMAIN Tail(ast[p]) : FrameFits(p, Tail(ast[p])[i])
<1>1. ast[p] \in Seq(Frame) /\ FramesFit(p)
  BY Parts DEF OInv, Order
<1>2. /\ Tail(ast[p]) \in Seq(Frame) /\ Len(Tail(ast[p])) = Len(ast[p]) - 1
      /\ Head(ast[p]) = ast[p][1]
      /\ \A i \in 1..Len(Tail(ast[p])) : Tail(ast[p])[i] = ast[p][i + 1]
  BY <1>1, Popped
<1>3. /\ Len(ast[p]) \in Nat \ {0} /\ DOMAIN ast[p] = 1..Len(ast[p])
      /\ DOMAIN Tail(ast[p]) = 1..Len(Tail(ast[p]))
  BY <1>1, <1>2, EmptySeq, LenProperties
<1>4. 1 \in DOMAIN ast[p] /\ \A i \in DOMAIN Tail(ast[p]) : i + 1 \in DOMAIN ast[p]
  BY <1>2, <1>3
<1> QED BY <1>1, <1>2, <1>3, <1>4 DEF FramesFit, Call

\* A call stays in order when no page becomes dirty and no precedence is added.
LEMMA FrameKept ==
  ASSUME NEW p \in Procs, NEW f, FrameFits(p, f),
         \A e \in pre'[p] : ~e.cleared /\ Dirty(p, e.hi)' => e \in pre[p] /\ Dirty(p, e.hi),
         f.at = "lower" => /\ Dirty(p, f.page)' => Dirty(p, f.page)
                           /\ Has(p, f.page, "not_valid") => Has(p, f.page, "not_valid")'
  PROVE  FrameFits(p, f)'
<1>1. \A E : Tried(p, f.page, E) => Tried(p, f.page, E)'
  BY DEF Tried
<1> QED BY <1>1 DEF FrameFits

LEMMA FramesKept ==
  ASSUME NEW p \in Procs, NEW t \in Seq(Frame), \A i \in DOMAIN t : FrameFits(p, t[i]),
         \A e \in pre'[p] : ~e.cleared /\ Dirty(p, e.hi)' => e \in pre[p] /\ Dirty(p, e.hi),
         \A g \in PagesOf(t) : /\ Dirty(p, g)' => Dirty(p, g)
                               /\ Has(p, g, "not_valid") => Has(p, g, "not_valid")'
  PROVE  \A i \in DOMAIN t : FrameFits(p, t[i])'
<1> SUFFICES ASSUME NEW i \in DOMAIN t
             PROVE  FrameFits(p, t[i])'
  OBVIOUS
<1>1. PICK f : f = t[i]
  OBVIOUS
<1>2. FrameFits(p, f) /\ f.page \in PagesOf(t)
  BY <1>1 DEF PagesOf
<1>3. FrameFits(p, f)'
  BY <1>2, FrameKept
<1> QED BY <1>1, <1>3

LEMMA FramesPushed ==
  ASSUME NEW p \in Procs, NEW t \in Seq(Frame), NEW f \in Frame, ast'[p] = <<f>> \o t,
         FrameFits(p, f)', \A i \in DOMAIN t : FrameFits(p, t[i])'
  PROVE  FramesFit(p)'
<1> SUFFICES ASSUME NEW i \in DOMAIN ast'[p]
             PROVE  FrameFits(p, ast[p][i])'
  BY DEF FramesFit
<1>1. PICK h : h = ast'[p][i]
  OBVIOUS
<1>2. /\ DOMAIN (<<f>> \o t) = 1..(Len(t) + 1) /\ DOMAIN t = 1..Len(t) /\ Len(t) \in Nat
      /\ (<<f>> \o t)[1] = f /\ \A j \in 1..Len(t) : (<<f>> \o t)[j + 1] = t[j]
  BY CallsOf
<1>3. FrameFits(p, h)'
  <2>1. CASE i = 1
    <3>1. h = f
      BY <1>1, <1>2, <2>1
    <3> QED BY <3>1
  <2>2. CASE i # 1
    <3>1. PICK j \in 1..Len(t) : j + 1 = i
      <4>1. i - 1 \in 1..Len(t) /\ (i - 1) + 1 = i
        BY <1>2, <2>2
      <4> QED BY <4>1
    <3>2. h = t[j]
      BY <1>1, <1>2, <3>1
    <3> QED BY <1>2, <3>2
  <2> QED BY <2>1, <2>2
<1> QED BY <1>1, <1>3 DEF FrameFits, Tried

LEMMA FramesLeft ==
  ASSUME NEW p \in Procs, NEW t \in Seq(Frame), ast'[p] = t,
         \A i \in DOMAIN t : FrameFits(p, t[i])'
  PROVE  FramesFit(p)'
<1> SUFFICES ASSUME NEW i \in DOMAIN ast'[p]
             PROVE  FrameFits(p, ast[p][i])'
  BY DEF FramesFit
<1>1. PICK h : h = t[i]
  OBVIOUS
<1>2. FrameFits(p, h)'
  BY <1>1
<1> QED BY <1>1, <1>2 DEF FrameFits, Tried

-----------------------------------------------------------------------------
(* A page is written.                                                      *)

\* Page g is written, with nothing left to be written before it.
LEMMA SavedOrder ==
  ASSUME IInv, OInv, NEW p \in Procs, NEW g \in Pages, Dirty(p, g), ~Dirty(p, g)',
         Sound(p, {g}), disk' = [disk EXCEPT ![g] = bdb[p][g].img], lost' = lost,
         NeedsKept(p), Counted(p)' \subseteq Counted(p),
         \A h \in Pages \ {g} : (Dirty(p, h)' <=> Dirty(p, h)) /\ bdb'[p][h].img = bdb[p][h].img,
         \A k \in Counted(p)' : Doomed(p, k) => Doomed(p, k)',
         \A e \in pre[p] : ~e.cleared /\ e.hi # g => e \in pre'[p]
  PROVE  Ordered(p)' /\ WriteOrder' /\ Settled \subseteq Settled'
<1>1. \A h \in Pages : disk'[h] = IF h = g THEN bdb[p][g].img ELSE disk[h]
  BY Parts DEF TypeOK
<1>2. disk[g].has \subseteq bdb[p][g].img.has
  BY Parts DEF Caching, ImagesFit
<1>3. /\ Durable \subseteq Durable' /\ Settled \subseteq Settled'
      /\ bdb[p][g].img.has \subseteq Durable'
  <2>1. \A h \in Pages : disk[h].has \subseteq disk'[h].has
    BY <1>1, <1>2
  <2> QED BY <1>1, <2>1, SettledGrows DEF Durable
<1>4. bdb[p][g].img.needs \subseteq Settled \cup bdb[p][g].img.has
  BY DEF OInv, Order, Ordered, HasOf
<1>5. WriteOrder'
  <2> SUFFICES ASSUME NEW h \in Pages
               PROVE  disk'[h].needs \ lost' \subseteq Durable'
    BY DEF WriteOrder
  <2>1. CASE h = g
    BY <1>1, <1>3, <1>4, <2>1 DEF Settled
  <2>2. CASE h # g
    BY <1>1, <1>3, <2>2 DEF OInv, WriteOrder
  <2> QED BY <2>1, <2>2
<1>6. Ordered(p)'
  <2> SUFFICES ASSUME NEW S \in SUBSET Pages, Sound(p, S)'
               PROVE  Rests(p, S, S \cup {g}) /\ S \cup {g} \in SUBSET Pages
    BY <1>3, OrderedFrom DEF OInv, Order
  <2>1. S \cup {g} \subseteq Counted(p)
    BY DEF Sound, Counted
  <2>2. ASSUME NEW e \in pre[p], ~e.cleared, e.low \in S \cup {g}, Dirty(p, e.hi)
        PROVE  e.hi \in S \cup {g}
    <3>1. CASE e.low = g
      BY <2>2, <3>1 DEF Sound
    <3>2. CASE e.low # g /\ e.hi # g
      BY <2>2, <3>2, Parts DEF Sound, Precedence
    <3> QED BY <3>1, <3>2
  <2>3. \A k \in S \cup {g} : ~Doomed(p, k)
    BY DEF Sound
  <2>4. Sound(p, S \cup {g})
    BY <2>1, <2>2, <2>3 DEF Sound
  <2>5. HasOf(p, S \cup {g}) \subseteq Settled' \cup HasOf(p, S)'
    BY <1>3 DEF HasOf, Settled
  <2>6. ASSUME InWindow(p)', main'[p].page \in S, main'[p].needs # {}
        PROVE  /\ InWindow(p) /\ main[p].page \in S /\ main'[p].needs = main[p].needs
               /\ HasOf(p, S \cup {g} \cup Awaited(p))
                    \subseteq Settled' \cup HasOf(p, S \cup Awaited(p))'
    <3>1. /\ main'[p].needs = main[p].needs /\ main'[p].page = main[p].page
          /\ \A k \in Awaited(p) : k \in Awaited(p)' \/ bdb[p][k].img.has \subseteq Settled'
      BY <2>6 DEF NeedsKept
    <3>2. InWindow(p) /\ main[p].page \in S
      BY <2>6, <3>1 DEF OInv, Order, NeedsFit
    <3>3. HasOf(p, S \cup {g} \cup Awaited(p))
            \subseteq Settled' \cup HasOf(p, S \cup Awaited(p))'
      BY <1>3, <3>1, AwaitedPages DEF HasOf, Settled
    <3> QED BY <3>1, <3>2, <3>3
  <2>7. \A k \in S : Dirty(p, k)' =>
          /\ k \in S \cup {g} /\ Dirty(p, k)
          /\ bdb'[p][k].img.needs = bdb[p][k].img.needs
    OBVIOUS
  <2> QED BY <2>4, <2>5, <2>6, <2>7 DEF Rests
<1> QED BY <1>3, <1>5, <1>6

\* Nothing is left to be written before the page that is written.
LEMMA WriteSound ==
  ASSUME IInv, NEW p \in Procs, write_page(p)
  PROVE  \E g \in Pages : g = Top(p) /\ Dirty(p, g) /\ Sound(p, {g})
<1>1. PICK g \in Pages : g = Top(p)
  BY WritingLatches DEF write_page, MayWrite
<1>2. Dirty(p, g) /\ Above(p, g) = {} /\ ~Has(p, g, "not_valid") /\ ast[p] = <<>>
  BY <1>1 DEF write_page, MayWrite, Runs
<1>3. ~Doomed(p, g)
  BY <1>2, DoomedAlone
<1> QED BY <1>1, <1>2, <1>3 DEF Sound, Counted, Above

LEMMA WritePageOrder ==
  ASSUME IInv, OInv, NEW p \in Procs, write_page(p)
  PROVE  OInv'
<1> DEFINE g == Top(p)
           flags == bdb[p][g].flags \ {"dirty", "changed"}
<1>1. /\ Runs(p, "write") /\ Dirty(p, g) /\ g \in Pages /\ Above(p, g) = {}
      /\ ~Has(p, g, "not_valid") /\ ast[p] = <<>> /\ ast' = ast
      /\ disk' = [disk EXCEPT ![g] = bdb[p][g].img] /\ lost' = lost
      /\ WriteReturns(p, flags)
  BY WritingLatches DEF write_page, MayWrite
<1> HIDE DEF g
<1>2. /\ \A q \in Procs \ {p} : bdb'[q] = bdb[q] /\ main'[q] = main[q] /\ pre'[q] = pre[q]
      /\ pre'[p] = pre[p] \ Below(p, g)
      /\ \A h \in Pages : /\ bdb'[p][h].img = bdb[p][h].img
                          /\ bdb'[p][h].flags = IF h = g THEN flags ELSE bdb[p][h].flags
      /\ main'[p].page = main[p].page /\ main'[p].needs = main[p].needs
      /\ InWindow(p)' <=> InWindow(p)
      /\ \A k \in Awaited(p) : k \in Awaited(p)' \/ k = g
      /\ FakeFits(p)'
  BY <1>1, Returned DEF g
<1>3. Leaves(p)
  BY <1>1, <1>2 DEF Leaves
<1>4. \A h \in Pages : /\ Dirty(p, h)' <=> Dirty(p, h) /\ h # g
                       /\ Has(p, h, "not_valid")' <=> Has(p, h, "not_valid")
  BY <1>2 DEF Dirty, Has
<1>5. Counted(p)' \subseteq Counted(p)
  BY <1>2, <1>4 DEF Counted
<1>6. \A k \in Counted(p)' : Doomed(p, k) => Doomed(p, k)'
  BY <1>1, <1>4, DoomedAlone, DoomedAlonePrimed DEF Counted
<1>7. Sound(p, {g})
  BY WriteSound DEF g
<1>8. NeedsKept(p)
  <2>1. bdb[p][g].img.has \subseteq Settled'
    BY <1>1, Parts DEF Settled, Durable, TypeOK
  <2>2. main[p].needs # {} => InWindow(p)
    BY DEF OInv, Order, NeedsFit
  <2> QED BY <1>2, <2>1, <2>2 DEF NeedsKept
<1>9. Ordered(p)' /\ WriteOrder' /\ Settled \subseteq Settled'
  <2>1. \A e \in pre[p] : ~e.cleared /\ e.hi # g => e \in pre'[p]
    BY <1>2 DEF Below
  <2> QED BY <1>1, <1>2, <1>4, <1>5, <1>6, <1>7, <1>8, <2>1, SavedOrder
<1>10. NeedsFit(p)' /\ FramesFit(p)'
  BY <1>1, <1>8, FramesFitAlone DEF NeedsFit, NeedsKept
<1> QED BY <1>2, <1>3, <1>9, <1>10, Combined DEF Order

\* down_grade goes on to the pages that wait for its page, which is dirty no longer.
LEMMA LowerOf ==
  ASSUME IInv, NEW p \in Procs, ast[p] # <<>>, GoesLower(p)
  PROVE  \E g \in Pages, f \in Frame, t \in Seq(Frame) :
           /\ g = Call(p).page /\ t = Tail(ast[p]) /\ ast' = [ast EXCEPT ![p] = <<f>> \o t]
           /\ ast'[p] = <<f>> \o t /\ f.page = g /\ f.at = "lower"
           /\ f.todo = {e.low : e \in Below(p, g)}
           /\ f.invalid = Call(p).invalid /\ f.in_use = Call(p).in_use
           /\ g # main[p].page /\ PagesOf(t) \subseteq Pages \ {g}
           /\ g \in PagesOf(ast[p])
<1>1. PICK g : g = Call(p).page
  OBVIOUS
<1>2. PICK t : t = Tail(ast[p])
  OBVIOUS
<1>3. /\ Call(p) \in Frame /\ g \in Pages /\ t \in Seq(Frame) /\ g \in PagesOf(ast[p])
      /\ PagesOf(t) = PagesOf(ast[p]) \ {g}
  BY <1>1, <1>2, CallOf
<1>4. PICK lows \in SUBSET Pages : lows = {e.low : e \in Below(p, g)}
  <2>1. {e.low : e \in Below(p, g)} \in SUBSET Pages
    BY Parts DEF Below, Precedence
  <2> QED BY <2>1
<1>5. PICK f : f = [Call(p) EXCEPT !.at = "lower", !.todo = lows]
  OBVIOUS
<1>6. /\ f \in Frame /\ f.page = g /\ f.at = "lower" /\ f.todo = lows
      /\ f.invalid = Call(p).invalid /\ f.in_use = Call(p).in_use
  BY <1>1, <1>3, <1>4, <1>5 DEF Frame
<1>7. ast' = [ast EXCEPT ![p] = <<f>> \o t]
  BY <1>1, <1>2, <1>4, <1>5 DEF GoesLower, Continues
<1>8. ast'[p] = <<f>> \o t
  BY <1>7, Parts DEF TypeOK
<1>9. g # main[p].page
  BY <1>3, Parts, LatchBounds
<1>10. PagesOf(t) \subseteq Pages \ {g}
  BY <1>3, PagesOfCalls
<1> QED BY <1>1, <1>2, <1>3, <1>4, <1>6, <1>7, <1>8, <1>9, <1>10

LEMMA DowngradeSound ==
  ASSUME IInv, OInv, NEW p \in Procs, Unwritten(p), DowngradeWrites(p)
  PROVE  \E g \in Pages :
           /\ g = Call(p).page /\ Dirty(p, g) /\ ~Has(p, g, "not_valid") /\ Sound(p, {g})
           /\ \A k \in Pages : Doomed(p, k) => Has(p, k, "not_valid")
<1>1. /\ ast[p] # <<>> /\ Call(p).at = "higher" /\ ~Call(p).invalid /\ ~Call(p).in_use
      /\ HigherLeft(p) = {}
  BY DEF DowngradeWrites, At
<1>2. PICK g \in Pages : g = Call(p).page
  BY <1>1, CallOf
<1>3. Dirty(p, g) /\ ~Has(p, g, "not_valid")
  BY <1>1, <1>2, CallDirty DEF DowngradeWrites
<1>4. \A k \in Pages : Doomed(p, k) => Has(p, k, "not_valid")
  <2>1. Condemned(ast[p], Invalids(p)) = {}
    BY <1>1, Parts, CondemnedPopped DEF Call
  <2> QED BY <1>1, <2>1 DEF Doomed
<1>5. Sound(p, {g})
  <2>1. ASSUME NEW e \in pre[p], ~e.cleared, e.low = g, Dirty(p, e.hi)
        PROVE  FALSE
    <3>1. e.hi \in Call(p).todo
      BY <1>1, <1>2, <2>1, CallsFit DEF FrameFits, Tried
    <3>2. e = [hi |-> e.hi, low |-> g, cleared |-> FALSE]
      BY <2>1, Parts DEF Precedence
    <3>3. Live(p, e.hi, g)
      BY <3>2 DEF Live
    <3> QED BY <1>1, <1>2, <2>1, <3>1, <3>3 DEF HigherLeft
  <2> QED BY <1>3, <1>4, <2>1 DEF Sound, Counted
<1> QED BY <1>2, <1>3, <1>4, <1>5

LEMMA DowngradeWritesOrder ==
  ASSUME IInv, OInv, NEW p \in Procs, Unwritten(p), DowngradeWrites(p)
  PROVE  OInv'
<1>1. /\ ast[p] # <<>> /\ Call(p).at = "higher" /\ ~Call(p).invalid /\ ~Call(p).in_use
      /\ GoesLower(p) /\ HigherLeft(p) = {} /\ UNCHANGED <<pre, main, lost>>
  BY DEF DowngradeWrites, At
<1>2. PICK g \in Pages, f \in Frame, t \in Seq(Frame) :
        /\ g = Call(p).page /\ t = Tail(ast[p]) /\ ast' = [ast EXCEPT ![p] = <<f>> \o t]
        /\ ast'[p] = <<f>> \o t /\ f.page = g /\ f.at = "lower"
        /\ f.todo = {e.low : e \in Below(p, g)}
        /\ f.invalid = Call(p).invalid /\ f.in_use = Call(p).in_use
        /\ g # main[p].page /\ PagesOf(t) \subseteq Pages \ {g}
        /\ g \in PagesOf(ast[p])
  BY <1>1, LowerOf
<1>3. Dirty(p, g) /\ ~Has(p, g, "not_valid")
  BY <1>1, <1>2, CallDirty DEF DowngradeWrites
<1> DEFINE c == Without(bdb[p][g], {"dirty", "changed", "blocking"})
           b == Kept(c, Downgraded(p, g))
<1>4. b.flags = bdb[p][g].flags \ {"dirty", "changed", "blocking"}
  <2>1. c \in Buffer /\ c.flags = bdb[p][g].flags \ {"dirty", "changed", "blocking"}
    BY Parts, BufferOps DEF Flags
  <2> HIDE DEF c
  <2> QED BY <2>1 DEF Kept, Buffer
<1>5. disk' = [disk EXCEPT ![g] = bdb[p][g].img] /\ bdb' = [bdb EXCEPT ![p][g] = b]
  BY <1>2 DEF DowngradeWrites
<1> HIDE DEF b
<1>6. /\ \A q \in Procs \ {p} : bdb'[q] = bdb[q] /\ ast'[q] = ast[q]
      /\ \A h \in Pages : bdb'[p][h] = IF h = g THEN b ELSE bdb[p][h]
  BY <1>2, <1>5, Parts DEF TypeOK
<1>7. Leaves(p)
  BY <1>1, <1>6 DEF Leaves
<1>8. \A h \in Pages : /\ Dirty(p, h)' <=> Dirty(p, h) /\ h # g
                       /\ Has(p, h, "not_valid")' <=> Has(p, h, "not_valid")
                       /\ h # g => bdb'[p][h] = bdb[p][h]
  BY <1>4, <1>6 DEF Dirty, Has
<1>9. (InWindow(p)' <=> InWindow(p)) /\ Awaited(p)' = Awaited(p)
  BY <1>1 DEF InWindow, Awaited
<1>10. Counted(p)' \subseteq Counted(p)
  BY <1>1, <1>8, <1>9 DEF Counted
<1>11. \A k \in Pages : Doomed(p, k) => Has(p, k, "not_valid")
  BY DowngradeSound
<1>12. \A k \in Counted(p)' : Doomed(p, k) => Doomed(p, k)'
  BY <1>8, <1>11 DEF Counted, Doomed
<1>13. Sound(p, {g})
  BY <1>2, DowngradeSound
<1>14. NeedsKept(p)
  BY <1>1, <1>9 DEF NeedsKept, OInv, Order, NeedsFit
<1>15. Ordered(p)' /\ WriteOrder' /\ Settled \subseteq Settled'
  BY <1>1, <1>3, <1>5, <1>8, <1>10, <1>12, <1>13, <1>14, SavedOrder
<1>16. FramesFit(p)'
  <2>1. FrameFits(p, f)'
    BY <1>1, <1>2, <1>8 DEF FrameFits
  <2>2. \A i \in DOMAIN t : FrameFits(p, t[i])'
    <3>1. \A i \in DOMAIN t : FrameFits(p, t[i])
      BY <1>1, <1>2, CallsFit
    <3>2. \A e \in pre'[p] : ~e.cleared /\ Dirty(p, e.hi)' => e \in pre[p] /\ Dirty(p, e.hi)
      BY <1>1, <1>8, Parts DEF Precedence
    <3>3. \A h \in PagesOf(t) : /\ Dirty(p, h)' => Dirty(p, h)
                                /\ Has(p, h, "not_valid") => Has(p, h, "not_valid")'
      BY <1>2, <1>8
    <3> QED BY <3>1, <3>2, <3>3, FramesKept
  <2> QED BY <1>2, <2>1, <2>2, FramesPushed
<1>17. NeedsFit(p)' /\ FakeFits(p)'
  <2>1. main[p].page \in Pages => bdb'[p][main[p].page] = bdb[p][main[p].page]
    BY <1>2, <1>8
  <2>2. main[p].pc \in {"lock", "waiting"} => main[p].page \in Pages
    BY Parts DEF MainOf, MainLine
  <2> QED BY <1>1, <1>9, <2>1, <2>2 DEF OInv, Order, NeedsFit, FakeFits, Has, Below
<1> QED BY <1>7, <1>15, <1>16, <1>17, Combined DEF Order

LEMMA DowngradeFailsOrder ==
  ASSUME IInv, OInv, NEW p \in Procs, DowngradeFails(p)
  PROVE  OInv'
<1>1. /\ ast[p] # <<>> /\ Call(p).at = "higher" /\ ~Call(p).in_use /\ GoesLower(p)
      /\ UNCHANGED <<disk, main>>
  BY DEF DowngradeFails, At
<1>2. PICK g \in Pages, f \in Frame, t \in Seq(Frame) :
        /\ g = Call(p).page /\ t = Tail(ast[p]) /\ ast' = [ast EXCEPT ![p] = <<f>> \o t]
        /\ ast'[p] = <<f>> \o t /\ f.page = g /\ f.at = "lower"
        /\ f.todo = {e.low : e \in Below(p, g)}
        /\ f.invalid = Call(p).invalid /\ f.in_use = Call(p).in_use
        /\ g # main[p].page /\ PagesOf(t) \subseteq Pages \ {g}
        /\ g \in PagesOf(ast[p])
  BY <1>1, LowerOf
<1> DEFINE skipped == {e \in Above(p, g) : e.hi \in Call(p).todo}
           E == Cleared(p, IF Call(p).invalid THEN skipped ELSE {})
           c == With(Without(bdb[p][g], {"dirty", "changed", "blocking"}), {"not_valid"})
           b == Kept(c, LCK_none)
<1>3. /\ pre' = [pre EXCEPT ![p] = E] /\ bdb' = [bdb EXCEPT ![p][g] = b]
      /\ lost' = lost \cup (bdb[p][g].img.has \ disk[g].has)
  BY <1>2 DEF DowngradeFails
<1>4. b.flags = (bdb[p][g].flags \ {"dirty", "changed", "blocking"}) \cup {"not_valid"}
  <2>1. /\ c \in Buffer
        /\ c.flags = (bdb[p][g].flags \ {"dirty", "changed", "blocking"}) \cup {"not_valid"}
    BY Parts, BufferOps DEF Flags
  <2> HIDE DEF c
  <2> QED BY <2>1 DEF Kept, Buffer
<1>5. \A e \in E : (~e.cleared => e \in pre[p]) /\ \E d \in pre[p] : d.hi = e.hi
  BY Parts, LowerCleared
<1>6. \A e \in pre[p] : e.low # g => e \in E
  BY DEF Cleared, Above
<1> HIDE DEF E, b
<1>7. /\ \A q \in Procs \ {p} : bdb'[q] = bdb[q] /\ ast'[q] = ast[q] /\ pre'[q] = pre[q]
      /\ \A h \in Pages : bdb'[p][h] = IF h = g THEN b ELSE bdb[p][h]
      /\ pre'[p] = E
  BY <1>2, <1>3, Parts DEF TypeOK
<1>8. Leaves(p)
  BY <1>1, <1>7 DEF Leaves
<1>9. \A h \in Pages : /\ Dirty(p, h)' <=> Dirty(p, h) /\ h # g
                       /\ Has(p, h, "not_valid")' <=> Has(p, h, "not_valid") \/ h = g
                       /\ h # g => bdb'[p][h] = bdb[p][h]
  BY <1>4, <1>7 DEF Dirty, Has
<1>10. (InWindow(p)' <=> InWindow(p)) /\ Awaited(p)' = Awaited(p)
  BY <1>1 DEF InWindow, Awaited
<1>11. Counted(p)' \subseteq Counted(p) /\ g \notin Counted(p)'
  BY <1>1, <1>2, <1>9, <1>10 DEF Counted
<1>12. /\ Condemned(<<f>> \o t, Invalids(p)) \subseteq Condemned(<<f>> \o t, Invalids(p)')
       /\ f.todo \subseteq Condemned(<<f>> \o t, Invalids(p)')
       /\ f.invalid =>
            Condemned(t, Invalids(p)) \subseteq Condemned(<<f>> \o t, Invalids(p))
  <2>1. Invalids(p) \subseteq Invalids(p)' /\ g \in Invalids(p)'
    BY <1>9 DEF Invalids
  <2>2. <<f>> \o t \in Seq(Frame)
    BY CallsOf
  <2> QED BY <1>2, <2>1, <2>2, CondemnedMore, CondemnedPushed
<1>13. ASSUME NEW k \in Counted(p)', Doomed(p, k)
       PROVE  Doomed(p, k)'
  <2>1. k \in Pages \ {g}
    BY <1>11 DEF Counted
  <2>2. CASE Has(p, k, "not_valid")
    BY <1>9, <2>1, <2>2 DEF Doomed
  <2>3. CASE k \in Condemned(ast[p], Invalids(p))
    <3>1. f.invalid /\ k \in Condemned(t, Invalids(p))
      BY <1>1, <1>2, <2>3, Parts, CondemnedPopped DEF Call
    <3> QED BY <1>2, <1>12, <3>1 DEF Doomed
  <2> QED BY <1>2, <1>13, <2>1, <2>2, <2>3 DEF Doomed
<1>14. ASSUME NEW e \in pre[p], ~e.cleared, Dirty(p, e.hi), e.low \in Counted(p)',
              ~Doomed(p, e.low)'
       PROVE  e \in pre'[p] /\ Dirty(p, e.hi)'
  <2>1. e.hi # g
    <3> SUFFICES ASSUME e.hi = g
                 PROVE  FALSE
      OBVIOUS
    <3>1. e.low \in f.todo
      BY <1>2 DEF Below
    <3> QED BY <1>2, <1>12, <1>14, <3>1 DEF Doomed
  <2>2. e.low # g /\ e.hi \in Pages
    BY <1>11, <1>14, Parts DEF Precedence
  <2> QED BY <1>6, <1>7, <1>9, <1>14, <2>1, <2>2
<1>15. Settled \subseteq Settled' /\ WriteOrder' /\ bdb[p][g].img.has \subseteq Settled'
  <2>1. lost \subseteq lost' /\ Durable' = Durable
    BY <1>1, <1>3 DEF Durable
  <2>2. disk[g].has \subseteq Durable
    BY DEF Durable
  <2> QED BY <1>1, <1>3, <2>1, <2>2 DEF Settled, WriteOrder, OInv
<1>16. NeedsKept(p)
  BY <1>1, <1>10 DEF NeedsKept, OInv, Order, NeedsFit
<1>17. Ordered(p)'
  <2>1. \A k \in Pages : bdb[p][k].img.has \subseteq bdb'[p][k].img.has \cup Settled'
    BY <1>9, <1>15
  <2>2. \A k \in Pages : Dirty(p, k)' => Dirty(p, k) /\ bdb'[p][k].img = bdb[p][k].img
    BY <1>9
  <2> QED BY <1>11, <1>13, <1>14, <1>15, <1>16, <2>1, <2>2, OrderedStays, AwaitedPages
             DEF OInv, Order
<1>18. FramesFit(p)'
  <2>1. FrameFits(p, f)'
    BY <1>1, <1>2, <1>9 DEF FrameFits
  <2>2. \A i \in DOMAIN t : FrameFits(p, t[i])'
    <3>1. \A i \in DOMAIN t : FrameFits(p, t[i])
      BY <1>1, <1>2, CallsFit
    <3>2. \A e \in pre'[p] : ~e.cleared /\ Dirty(p, e.hi)' => e \in pre[p] /\ Dirty(p, e.hi)
      <4> SUFFICES ASSUME NEW e \in pre'[p], ~e.cleared, Dirty(p, e.hi)'
                   PROVE  e \in pre[p] /\ Dirty(p, e.hi)
        OBVIOUS
      <4>1. e \in pre[p] /\ e.hi \in Pages
        BY <1>5, <1>7, Parts DEF Precedence
      <4> QED BY <1>9, <4>1
    <3>3. \A h \in PagesOf(t) : /\ Dirty(p, h)' => Dirty(p, h)
                                /\ Has(p, h, "not_valid") => Has(p, h, "not_valid")'
      BY <1>2, <1>9
    <3> QED BY <3>1, <3>2, <3>3, FramesKept
  <2> QED BY <1>2, <2>1, <2>2, FramesPushed
<1>19. NeedsFit(p)' /\ FakeFits(p)'
  <2>1. main[p].page \in Pages => bdb'[p][main[p].page] = bdb[p][main[p].page]
    BY <1>2, <1>9
  <2>2. main[p].pc \in {"lock", "waiting"} => main[p].page \in Pages
    BY Parts DEF MainOf, MainLine
  <2>3. Below(p, main[p].page) = {} => Below(p, main[p].page)' = {}
    BY <1>1, <1>5, <1>7 DEF Below
  <2> QED BY <1>1, <1>10, <2>1, <2>2, <2>3 DEF OInv, Order, NeedsFit, FakeFits, Has
<1> QED BY <1>8, <1>15, <1>17, <1>18, <1>19, Combined DEF Order

-----------------------------------------------------------------------------
(* AST steps that change no image that counts.                             *)

\* A call of down_grade for page g, among calls, has yet to come to page x that waits for g.
Lowers(calls, g, x) ==
  \E i \in DOMAIN calls : calls[i].at = "lower" /\ calls[i].page = g /\ x \in calls[i].todo

LEMMA LowersPushed ==
  ASSUME NEW t \in Seq(Frame), NEW f \in Frame, NEW g, NEW x,
         Lowers(t, g, x) \/ (f.at = "lower" /\ f.page = g /\ x \in f.todo)
  PROVE  Lowers(<<f>> \o t, g, x)
<1> DEFINE c == <<f>> \o t
<1>1. /\ DOMAIN c = 1..(Len(t) + 1) /\ DOMAIN t = 1..Len(t) /\ Len(t) \in Nat
      /\ c[1] = f /\ \A i \in 1..Len(t) : c[i + 1] = t[i]
  BY CallsOf
<1> HIDE DEF c
<1>2. CASE Lowers(t, g, x)
  <2>1. PICK i \in DOMAIN t : t[i].at = "lower" /\ t[i].page = g /\ x \in t[i].todo
    BY <1>2 DEF Lowers
  <2>2. i + 1 \in DOMAIN c /\ c[i + 1] = t[i]
    BY <1>1, <2>1
  <2> QED BY <2>1, <2>2 DEF Lowers, c
<1>3. CASE f.at = "lower" /\ f.page = g /\ x \in f.todo
  <2>1. 1 \in DOMAIN c
    BY <1>1
  <2> QED BY <1>1, <1>3, <2>1 DEF Lowers, c
<1> QED BY <1>2, <1>3

LEMMA LowersPopped ==
  ASSUME NEW s \in Seq(Frame), s # <<>>, NEW g, NEW x, Lowers(s, g, x)
  PROVE  \/ Head(s).at = "lower" /\ Head(s).page = g /\ x \in Head(s).todo
         \/ Lowers(Tail(s), g, x)
<1> DEFINE t == Tail(s)
<1>1. /\ t \in Seq(Frame) /\ Len(t) = Len(s) - 1 /\ Head(s) = s[1]
      /\ \A i \in 1..Len(t) : t[i] = s[i + 1]
  BY Popped
<1>2. /\ Len(s) \in Nat \ {0} /\ DOMAIN s = 1..Len(s) /\ DOMAIN t = 1..Len(t)
  BY <1>1, EmptySeq, LenProperties
<1> HIDE DEF t
<1>3. PICK j \in DOMAIN s : s[j].at = "lower" /\ s[j].page = g /\ x \in s[j].todo
  BY DEF Lowers
<1>4. CASE j = 1
  BY <1>1, <1>3, <1>4
<1>5. CASE j # 1
  <2>1. j - 1 \in DOMAIN t /\ (j - 1) + 1 = j
    BY <1>1, <1>2, <1>5
  <2>2. t[j - 1] = s[(j - 1) + 1]
    BY <1>1, <1>2, <2>1
  <2> QED BY <1>3, <2>1, <2>2 DEF Lowers, t
<1> QED BY <1>4, <1>5

\* A step of a call of down_grade that changes no image that counts: it writes nothing and
\* makes no page dirty.
Steady(p) ==
  /\ Leaves(p) /\ UNCHANGED <<disk, lost>> /\ main'[p] = main[p]
  /\ \A k \in Pages : /\ Dirty(p, k)' <=> Dirty(p, k)
                      /\ Dirty(p, k) => bdb'[p][k].img = bdb[p][k].img
                      /\ Has(p, k, "faked")' <=> Has(p, k, "faked")
  /\ \A e \in pre[p] : ~e.cleared /\ Dirty(p, e.hi) => e \in pre'[p]
  /\ \A e \in pre'[p] : \E d \in pre[p] : d.hi = e.hi
  /\ \A e \in pre'[p] : ~e.cleared =>
       e \in pre[p] /\ (Lowers(ast[p], e.hi, e.low) => Lowers(ast'[p], e.hi, e.low))
  /\ \A k \in Counted(p) : Doomed(p, k) => Doomed(p, k)'
  /\ FramesFit(p)'

LEMMA SteadyKeeps ==
  ASSUME IInv, OInv, NEW p \in Procs, Steady(p)
  PROVE  OInv'
<1> SUFFICES ASSUME
      Leaves(p), UNCHANGED <<disk, lost>>, main'[p] = main[p],
      \A k \in Pages : /\ Dirty(p, k)' <=> Dirty(p, k)
                       /\ Dirty(p, k) => bdb'[p][k].img = bdb[p][k].img
                       /\ Has(p, k, "faked")' <=> Has(p, k, "faked"),
      \A e \in pre[p] : ~e.cleared /\ Dirty(p, e.hi) => e \in pre'[p],
      \A e \in pre'[p] : \E d \in pre[p] : d.hi = e.hi,
      \A k \in Counted(p) : Doomed(p, k) => Doomed(p, k)',
      FramesFit(p)'
    PROVE OInv'
  BY DEF Steady
<1>1. Settled' = Settled /\ Durable' = Durable /\ WriteOrder'
  BY DEF Settled, Durable, OInv, WriteOrder
<1>2. (InWindow(p)' <=> InWindow(p)) /\ Awaited(p)' = Awaited(p)
  BY DEF InWindow, Awaited
<1>3. Counted(p)' = Counted(p)
  BY <1>2 DEF Counted
<1>4. \A k \in Pages : bdb[p][k].img.has \subseteq bdb'[p][k].img.has \cup Settled'
  <2> SUFFICES ASSUME NEW k \in Pages
               PROVE  bdb[p][k].img.has \subseteq bdb'[p][k].img.has \cup Settled'
    OBVIOUS
  <2>1. CASE Dirty(p, k)
    BY <2>1
  <2>2. CASE ~Dirty(p, k)
    BY <1>1, <2>2, CleanImages DEF OInv, Settled
  <2> QED BY <2>1, <2>2
<1>5. NeedsKept(p)
  BY <1>2 DEF NeedsKept, OInv, Order, NeedsFit
<1>6. \A e \in pre[p] : ~e.cleared /\ Dirty(p, e.hi) => e \in pre'[p] /\ Dirty(p, e.hi)'
  BY Parts DEF Precedence
<1>7. Ordered(p)'
  BY <1>1, <1>3, <1>4, <1>5, <1>6, OrderedStays, AwaitedPages DEF OInv, Order
<1>8. NeedsFit(p)' /\ FakeFits(p)'
  <2>1. main[p].pc \in {"lock", "waiting"} => main[p].page \in Pages
    BY Parts DEF MainOf, MainLine
  <2>2. Below(p, main[p].page) = {} => Below(p, main[p].page)' = {}
    BY DEF Below
  <2> QED BY <1>2, <2>1, <2>2 DEF OInv, Order, NeedsFit, FakeFits
<1> QED BY <1>1, <1>7, <1>8, Combined DEF Order

\* The calls that are left when down_grade has begun with page g: it has returned, or goes
\* on to the pages to be written first.
Begun(p, g, B, outer) ==
  \/ ast'[p] = outer
  \/ \E f \in Frame :
       /\ ast'[p] = <<f>> \o outer /\ f.page = g /\ f.at = "higher"
       /\ f.todo = {e.hi : e \in Above(p, g)} /\ ~f.in_use
       /\ f.invalid <=> "not_valid" \in B[g].flags

\* What a call of down_grade leaves.
LEMMA DownsTo ==
  ASSUME IInv, NEW p \in Procs, NEW g \in Pages, NEW B, NEW outer, NEW E,
         Downs(p, g, B, outer, E)
  PROVE  /\ Leaves(p) /\ UNCHANGED <<disk, lost>> /\ main'[p] = main[p] /\ pre'[p] = E
         /\ \A k \in Pages : /\ Dirty(p, k)' <=> Dirty(p, k)
                             /\ Dirty(p, k) => bdb'[p][k].img = bdb[p][k].img
                             /\ Has(p, k, "faked")' <=> Has(p, k, "faked")
                             /\ Has(p, k, "not_valid")' <=> "not_valid" \in B[k].flags
         /\ Begun(p, g, B, outer)
<1>1. /\ B \in [Pages -> Buffer] /\ B[g] \in Buffer
      /\ \A h \in Pages :
           /\ "dirty" \in B[h].flags <=> Dirty(p, h)
           /\ "faked" \in B[h].flags <=> Has(p, h, "faked")
           /\ B[h].img = bdb[p][h].img
  BY DEF Downs, Resembles, Has, Dirty
<1>2. /\ outer \in Seq(Frame) /\ pre' = [pre EXCEPT ![p] = E]
      /\ disk' = disk /\ main' = main /\ lost' = lost
  BY DEF Downs
<1>3. \E b, c :
        /\ bdb' = [bdb EXCEPT ![p] = [B EXCEPT ![g] = b]] /\ ast' = [ast EXCEPT ![p] = c]
        /\ "dirty" \in b.flags <=> "dirty" \in B[g].flags
        /\ "dirty" \in B[g].flags => b.img = B[g].img
        /\ "faked" \in b.flags <=> "faked" \in B[g].flags
        /\ "not_valid" \in b.flags <=> "not_valid" \in B[g].flags
        /\ \/ c = outer
           \/ \E f \in Frame :
                /\ c = <<f>> \o outer /\ f.page = g /\ f.at = "higher"
                /\ f.todo = {e.hi : e \in Above(p, g)} /\ ~f.in_use
                /\ f.invalid <=> "not_valid" \in B[g].flags
  <2>1. CASE /\ bdb' = [bdb EXCEPT ![p] = [B EXCEPT ![g] = With(@, {"blocking"})]]
             /\ ast' = [ast EXCEPT ![p] = outer]
    <3> DEFINE b == With(B[g], {"blocking"})
    <3>1. b.img = B[g].img /\ b.flags = B[g].flags \cup {"blocking"}
      BY <1>1, BufferOps DEF Flags
    <3>2. bdb' = [bdb EXCEPT ![p] = [B EXCEPT ![g] = b]]
      BY <2>1
    <3> HIDE DEF b
    <3> QED BY <2>1, <3>1, <3>2
  <2>2. CASE /\ "dirty" \notin B[g].flags
             /\ bdb' = [bdb EXCEPT ![p] =
                          [B EXCEPT ![g] = Kept(Without(@, {"blocking"}), Downgraded(p, g))]]
             /\ ast' = [ast EXCEPT ![p] = outer]
    <3> DEFINE b == Kept(Without(B[g], {"blocking"}), Downgraded(p, g))
    <3>1. b.flags = B[g].flags \ {"blocking"}
      BY <1>1, BufferOps DEF Flags, Kept, Buffer
    <3>2. bdb' = [bdb EXCEPT ![p] = [B EXCEPT ![g] = b]]
      BY <2>2
    <3> HIDE DEF b
    <3> QED BY <2>2, <3>1, <3>2
  <2>3. CASE /\ bdb' = [bdb EXCEPT ![p] = [B EXCEPT ![g] = With(Latched(@), {"blocking"})]]
             /\ ast' = [ast EXCEPT ![p] =
                  <<[page |-> g, at |-> "higher", todo |-> {e.hi : e \in Above(p, g)},
                     cur |-> NoPage, in_use |-> FALSE,
                     invalid |-> "not_valid" \in B[g].flags]>> \o outer]
    <3> DEFINE b == With(Latched(B[g]), {"blocking"})
               higher == {e.hi : e \in Above(p, g)}
               f == [page |-> g, at |-> "higher", todo |-> higher, cur |-> NoPage,
                     in_use |-> FALSE, invalid |-> "not_valid" \in B[g].flags]
    <3>1. b.img = B[g].img /\ b.flags = B[g].flags \cup {"blocking"}
      BY <1>1 DEF With, Latched, Buffer
    <3>2. bdb' = [bdb EXCEPT ![p] = [B EXCEPT ![g] = b]]
      BY <2>3
    <3>3. higher \in SUBSET Pages
      BY Parts DEF Above, Precedence
    <3>4. ast' = [ast EXCEPT ![p] = <<f>> \o outer]
      BY <2>3
    <3> HIDE DEF b, higher
    <3>5. f \in Frame
      BY <3>3 DEF Frame
    <3>6. /\ f.page = g /\ f.at = "higher" /\ f.todo = higher /\ ~f.in_use
          /\ f.invalid = ("not_valid" \in B[g].flags)
      OBVIOUS
    <3> HIDE DEF f
    <3> QED BY <3>1, <3>2, <3>4, <3>5, <3>6 DEF higher
  <2>4. down_grade(p, g, B, outer)
    BY DEF Downs
  <2> QED BY <2>1, <2>2, <2>3, <2>4 DEF down_grade
<1>4. PICK b, c :
        /\ bdb' = [bdb EXCEPT ![p] = [B EXCEPT ![g] = b]] /\ ast' = [ast EXCEPT ![p] = c]
        /\ "dirty" \in b.flags <=> "dirty" \in B[g].flags
        /\ "dirty" \in B[g].flags => b.img = B[g].img
        /\ "faked" \in b.flags <=> "faked" \in B[g].flags
        /\ "not_valid" \in b.flags <=> "not_valid" \in B[g].flags
        /\ \/ c = outer
           \/ \E f \in Frame :
                /\ c = <<f>> \o outer /\ f.page = g /\ f.at = "higher"
                /\ f.todo = {e.hi : e \in Above(p, g)} /\ ~f.in_use
                /\ f.invalid <=> "not_valid" \in B[g].flags
  BY <1>3
<1>5. /\ \A q \in Procs \ {p} : bdb'[q] = bdb[q] /\ ast'[q] = ast[q] /\ pre'[q] = pre[q]
      /\ \A h \in Pages : bdb'[p][h] = IF h = g THEN b ELSE B[h]
      /\ ast'[p] = c /\ pre'[p] = E
  BY <1>1, <1>2, <1>4, Parts DEF TypeOK
<1>6. Leaves(p) /\ main'[p] = main[p] /\ UNCHANGED <<disk, lost>>
  BY <1>2, <1>5 DEF Leaves
<1>7. \A k \in Pages : /\ Dirty(p, k)' <=> Dirty(p, k)
                       /\ Dirty(p, k) => bdb'[p][k].img = bdb[p][k].img
                       /\ Has(p, k, "faked")' <=> Has(p, k, "faked")
                       /\ Has(p, k, "not_valid")' <=> "not_valid" \in B[k].flags
  BY <1>1, <1>4, <1>5 DEF Dirty, Has
<1>8. Begun(p, g, B, outer)
  BY <1>4, <1>5 DEF Begun
<1> QED BY <1>5, <1>6, <1>7, <1>8

LEMMA PushedFit ==
  ASSUME NEW p \in Procs, NEW t \in Seq(Frame), NEW f \in Frame, FrameFits(p, f),
         \A i \in DOMAIN t : FrameFits(p, t[i])
  PROVE  \A i \in DOMAIN (<<f>> \o t) : FrameFits(p, (<<f>> \o t)[i])
<1> DEFINE c == <<f>> \o t
<1>1. /\ DOMAIN c = 1..(Len(t) + 1) /\ DOMAIN t = 1..Len(t) /\ Len(t) \in Nat
      /\ c[1] = f /\ \A j \in 1..Len(t) : c[j + 1] = t[j]
  BY CallsOf
<1> HIDE DEF c
<1>2. ASSUME NEW i \in DOMAIN c
      PROVE  FrameFits(p, c[i])
  <2>1. CASE i = 1
    BY <1>1, <2>1
  <2>2. CASE i # 1
    <3>1. i - 1 \in 1..Len(t) /\ (i - 1) + 1 = i
      BY <1>1, <1>2, <2>2
    <3>2. c[(i - 1) + 1] = t[i - 1]
      BY <1>1, <3>1
    <3> QED BY <1>1, <3>1, <3>2
  <2> QED BY <2>1, <2>2
<1> QED BY <1>2 DEF c

\* down_grade begins with a page, and the calls it is made from fit.
LEMMA DownSteady ==
  ASSUME IInv, OInv, NEW p \in Procs, NEW x \in Pages, NEW B, NEW outer, NEW E,
         Downs(p, x, B, outer, E), \A i \in DOMAIN outer : FrameFits(p, outer[i]),
         \A h \in Pages : Has(p, h, "not_valid") => "not_valid" \in B[h].flags,
         \A e \in pre[p] : ~e.cleared /\ Dirty(p, e.hi) => e \in E,
         \A e \in E : ~e.cleared /\ Lowers(ast[p], e.hi, e.low) => Lowers(outer, e.hi, e.low),
         \A k \in Pages : Doomed(p, k) =>
           \/ "not_valid" \in B[k].flags
           \/ /\ "not_valid" \in B[x].flags
              /\ k \in Condemned(outer, {h \in Pages : "not_valid" \in B[h].flags})
  PROVE  Steady(p)
<1>1. /\ Leaves(p) /\ UNCHANGED <<disk, lost>> /\ main'[p] = main[p] /\ pre'[p] = E
      /\ \A k \in Pages : /\ Dirty(p, k)' <=> Dirty(p, k)
                          /\ Dirty(p, k) => bdb'[p][k].img = bdb[p][k].img
                          /\ Has(p, k, "faked")' <=> Has(p, k, "faked")
                          /\ Has(p, k, "not_valid")' <=> "not_valid" \in B[k].flags
  BY DownsTo
<1>2. /\ outer \in Seq(Frame) /\ E \in SUBSET Precedence
      /\ \A e \in E : (~e.cleared => e \in pre[p]) /\ \E d \in pre[p] : d.hi = e.hi
  BY DEF Downs
<1>3. Invalids(p)' = {h \in Pages : "not_valid" \in B[h].flags}
  BY <1>1 DEF Invalids
<1>4. \A e \in pre'[p] : ~e.cleared /\ Dirty(p, e.hi)' => e \in pre[p] /\ Dirty(p, e.hi)
  BY <1>1, <1>2 DEF Precedence
<1>5. \A i \in DOMAIN outer : FrameFits(p, outer[i])'
  <2>1. PagesOf(outer) \subseteq Pages
    BY <1>2, PagesOfCalls
  <2>2. \A g \in PagesOf(outer) : /\ Dirty(p, g)' => Dirty(p, g)
                                  /\ Has(p, g, "not_valid") => Has(p, g, "not_valid")'
    BY <1>1, <2>1
  <2> QED BY <1>2, <1>4, <2>2, FramesKept
<1>6. CASE ast'[p] = outer
  <2>1. FramesFit(p)'
    BY <1>2, <1>5, <1>6, FramesLeft
  <2>2. \A k \in Pages : Doomed(p, k) => Doomed(p, k)'
    BY <1>1, <1>3, <1>6 DEF Doomed
  <2>3. \A e \in pre'[p] : ~e.cleared =>
          e \in pre[p] /\ (Lowers(ast[p], e.hi, e.low) => Lowers(ast'[p], e.hi, e.low))
    BY <1>1, <1>2, <1>6
  <2> QED BY <1>1, <1>2, <2>1, <2>2, <2>3 DEF Steady, Counted
<1>7. ASSUME NEW f \in Frame, ast'[p] = <<f>> \o outer, f.page = x, f.at = "higher",
             f.todo = {e.hi : e \in Above(p, x)}, ~f.in_use,
             f.invalid <=> "not_valid" \in B[x].flags
      PROVE  Steady(p)
  <2>1. FrameFits(p, f)'
    <3>1. Tried(p, f.page, f.todo)'
      BY <1>4, <1>7 DEF Tried, Above
    <3> QED BY <1>7, <3>1 DEF FrameFits
  <2>2. FramesFit(p)'
    BY <1>2, <1>5, <1>7, <2>1, FramesPushed
  <2>3. \A k \in Pages : Doomed(p, k) => Doomed(p, k)'
    <3>1. \A bad : f.invalid => Condemned(outer, bad) \subseteq Condemned(<<f>> \o outer, bad)
      BY <1>2, CondemnedPushed
    <3> QED BY <1>1, <1>3, <1>7, <3>1 DEF Doomed
  <2>4. \A e \in pre'[p] : ~e.cleared =>
          e \in pre[p] /\ (Lowers(ast[p], e.hi, e.low) => Lowers(ast'[p], e.hi, e.low))
    BY <1>1, <1>2, <1>7, LowersPushed
  <2> QED BY <1>1, <1>2, <2>2, <2>3, <2>4 DEF Steady, Counted
<1>8. Begun(p, x, B, outer)
  BY DownsTo
<1> QED BY <1>6, <1>7, <1>8 DEF Begun

LEMMA BlockingSteady ==
  ASSUME IInv, OInv, NEW p \in Procs, NEW g \in Pages, blocking_ast_bdb(p, g)
  PROVE  Steady(p)
<1>1. /\ <<>> \in Seq(Frame) /\ Apart(<<>>) /\ PagesOf(<<>>) = {} /\ ast[p] = <<>>
      /\ DOMAIN <<>> = {}
  BY EmptySeq DEF Apart, PagesOf, blocking_ast_bdb
<1>2. posted' \in [Procs -> SUBSET Pages]
  BY Parts DEF blocking_ast_bdb, TypeOK
<1>3. \A h \in Pages : Resembles(bdb[p][h], bdb[p][h])
  BY DEF Resembles
<1>4. Downs(p, g, bdb[p], <<>>, pre[p])
  BY <1>1, <1>2, <1>3, Parts, Unmoved DEF Downs, blocking_ast_bdb
<1>5. \A k \in Pages : Doomed(p, k) => "not_valid" \in bdb[p][k].flags
  BY <1>1, DoomedAlone DEF Has
<1>6. \A g_, x : ~Lowers(ast[p], g_, x)
  BY <1>1 DEF Lowers
<1> QED BY <1>1, <1>4, <1>5, <1>6, DownSteady DEF Has

\* A call that is for no invalid page lets none above it give up a page.
LEMMA NoneCondemned ==
  ASSUME IInv, NEW p \in Procs, ast[p] # <<>>, ~Call(p).invalid, Call(p).at # "lower"
  PROVE  \A k : Doomed(p, k) <=> Has(p, k, "not_valid")
<1>1. ast[p] \in Seq(Frame)
  BY Parts
<1>2. Condemned(ast[p], Invalids(p)) = {}
  BY <1>1, CondemnedPopped DEF Call
<1> QED BY <1>2 DEF Doomed, At

LEMMA DowngradesHigherSteady ==
  ASSUME IInv, OInv, NEW p \in Procs, DowngradesHigher(p)
  PROVE  Steady(p)
<1>1. PICK x \in HigherLeft(p) :
        down_grade(p, x, bdb[p],
          <<[Call(p) EXCEPT !.at = "called", !.cur = x, !.todo = @ \ {x}]>> \o Tail(ast[p]))
  BY DEF DowngradesHigher
<1> DEFINE f == [Call(p) EXCEPT !.at = "called", !.cur = x, !.todo = @ \ {x}]
<1>2. ast[p] # <<>> /\ Call(p).at = "higher"
  BY DEF DowngradesHigher, At
<1>3. x \in Pages /\ x \in Call(p).todo /\ ~Call(p).invalid
  BY <1>2, CallOf DEF HigherLeft, Frame
<1>4. f \in Frame /\ f.page = Call(p).page
  BY <1>2, <1>3, CallOf DEF Frame
<1>5. \A h \in Pages : Resembles(bdb[p][h], bdb[p][h])
  BY DEF Resembles
<1>6. FrameFits(p, f)
  <2>1. /\ f.at = "called" /\ f.invalid = Call(p).invalid /\ f.in_use = Call(p).in_use
        /\ f.todo \cup {f.cur} = Call(p).todo
    BY <1>2, <1>3, CallOf DEF Frame
  <2>2. FrameFits(p, Call(p))
    BY <1>2, CallsFit
  <2> HIDE DEF f
  <2> QED BY <1>2, <1>3, <1>4, <2>1, <2>2 DEF FrameFits
<1> DEFINE c == <<f>> \o Tail(ast[p])
<1>7. down_grade(p, x, bdb[p], c)
  BY <1>1
<1> HIDE DEF f
<1>8. c \in Seq(Frame) /\ Apart(c) /\ PagesOf(c) = PagesOf(ast[p])
  BY <1>2, <1>4, CallOf
<1>9. \A i \in DOMAIN c : FrameFits(p, c[i])
  BY <1>2, <1>4, <1>6, CallOf, CallsFit, PushedFit
<1>13. \A g, y : Lowers(ast[p], g, y) => Lowers(c, g, y)
  <2>1. ast[p] \in Seq(Frame) /\ Tail(ast[p]) \in Seq(Frame)
    BY <1>2, CallOf, Parts
  <2>2. \A g, y : Lowers(ast[p], g, y) => Lowers(Tail(ast[p]), g, y)
    BY <1>2, <2>1, LowersPopped DEF Call
  <2> QED BY <1>4, <2>1, <2>2, LowersPushed
<1> HIDE DEF c
<1>10. UNCHANGED <<disk, pre, main, posted, tra, committed, lost, clock>>
  BY DEF DowngradesHigher
<1>11. Downs(p, x, bdb[p], c, pre[p])
  BY <1>5, <1>7, <1>8, <1>10, Parts, Unmoved DEF Downs
<1>12. \A k \in Pages : Doomed(p, k) => "not_valid" \in bdb[p][k].flags
  BY <1>2, <1>3, NoneCondemned DEF Has
<1> QED BY <1>3, <1>9, <1>11, <1>12, <1>13, DownSteady DEF Has

\* The innermost call goes on with frame f, and no buffer changes.
LEMMA GoesOnSteady ==
  ASSUME IInv, OInv, NEW p \in Procs, ast[p] # <<>>, NEW f \in Frame, Continues(p, f),
         NEW E, pre' = [pre EXCEPT ![p] = E],
         \A e \in E : (~e.cleared => e \in pre[p]) /\ \E d \in pre[p] : d.hi = e.hi,
         \A e \in pre[p] : ~e.cleared /\ Dirty(p, e.hi) => e \in E,
         UNCHANGED <<disk, bdb, main, lost>>, FrameFits(p, f),
         \A e \in E : ~e.cleared /\ Call(p).at = "lower" /\ e.hi = Call(p).page
                         /\ e.low \in Call(p).todo =>
                      f.at = "lower" /\ f.page = e.hi /\ e.low \in f.todo,
         \A k \in Pages : Doomed(p, k) => Doomed(p, k)'
  PROVE  Steady(p)
<1>1. /\ Leaves(p) /\ pre'[p] = E /\ ast'[p] = <<f>> \o Tail(ast[p])
      /\ Tail(ast[p]) \in Seq(Frame) /\ main'[p] = main[p]
  BY CallOf, Parts DEF Continues, Leaves, TypeOK
<1>2. \A k : (Dirty(p, k)' <=> Dirty(p, k)) /\ \A x : Has(p, k, x)' <=> Has(p, k, x)
  BY DEF Dirty, Has
<1>3. \A e \in pre'[p] : ~e.cleared /\ Dirty(p, e.hi)' => e \in pre[p] /\ Dirty(p, e.hi)
  BY <1>1, <1>2
<1>4. FrameFits(p, f)'
  BY <1>2, <1>3, FrameKept
<1>5. PICK t \in Seq(Frame) : t = Tail(ast[p]) /\ ast'[p] = <<f>> \o t
  BY <1>1
<1>6. FramesFit(p)'
  <2>1. \A i \in DOMAIN t : FrameFits(p, t[i])
    BY <1>5, CallsFit
  <2>2. \A i \in DOMAIN t : FrameFits(p, t[i])'
    BY <1>2, <1>3, <2>1, FramesKept
  <2> QED BY <1>4, <1>5, <2>2, FramesPushed
<1>7. \A e \in E : ~e.cleared /\ Lowers(ast[p], e.hi, e.low) => Lowers(ast'[p], e.hi, e.low)
  <2> SUFFICES ASSUME NEW e \in E, ~e.cleared, Lowers(ast[p], e.hi, e.low)
               PROVE  Lowers(<<f>> \o t, e.hi, e.low)
    BY <1>5
  <2>1. \/ f.at = "lower" /\ f.page = e.hi /\ e.low \in f.todo
        \/ Lowers(t, e.hi, e.low)
    BY <1>5, Parts, LowersPopped DEF Call
  <2> QED BY <2>1, LowersPushed
<1> QED BY <1>1, <1>2, <1>6, <1>7 DEF Steady, Counted

LEMMA HigherDoneSteady ==
  ASSUME IInv, OInv, NEW p \in Procs, HigherDone(p)
  PROVE  Steady(p)
<1> DEFINE x == Call(p).cur
           g == Call(p).page
           above == {e.hi : e \in Above(p, g)}
           back == [Call(p) EXCEPT !.at = "higher", !.cur = NoPage]
<1>1. /\ ast[p] # <<>> /\ Call(p).at = "called" /\ UNCHANGED <<disk, bdb, pre, main, lost>>
      /\ IF Has(p, x, "not_valid")
         THEN \E first \in above :
                Continues(p, [back EXCEPT !.invalid = TRUE, !.in_use = FALSE,
                                          !.todo = above \ {first}])
         ELSE Continues(p, [back EXCEPT !.in_use = @ \/ Dirty(p, x)])
      /\ Call(p).at # "lower"
  BY DEF HigherDone, At
<1>2. FrameFits(p, Call(p))
  BY <1>1, CallsFit
<1>3. /\ ~Call(p).invalid /\ (~Call(p).in_use => Tried(p, g, Call(p).todo \cup {x}))
  BY <1>1, <1>2 DEF FrameFits
<1>4. /\ back \in Frame /\ back.page = g /\ back.at = "higher"
      /\ back.in_use = Call(p).in_use /\ back.todo = Call(p).todo
      /\ back.invalid = Call(p).invalid
  BY <1>1, CallOf DEF Frame
<1>5. above \in SUBSET Pages
  BY Parts DEF Above, Precedence
<1>6. \A k \in Pages : Doomed(p, k) => Doomed(p, k)'
  BY <1>1, <1>3, NoneCondemned DEF Doomed, Has
<1> HIDE DEF x, g, above, back
<1>7. \E f \in Frame : FrameFits(p, f) /\ Continues(p, f)
  <2>1. CASE Has(p, x, "not_valid")
    <3>1. PICK first \in above :
            Continues(p, [back EXCEPT !.invalid = TRUE, !.in_use = FALSE,
                                      !.todo = above \ {first}])
      BY <1>1, <2>1
    <3> DEFINE f == [back EXCEPT !.invalid = TRUE, !.in_use = FALSE, !.todo = above \ {first}]
    <3>2. f \in Frame /\ f.at = "higher" /\ f.invalid /\ ~f.in_use
      BY <1>4, <1>5 DEF Frame
    <3>3. Continues(p, f)
      BY <3>1
    <3> HIDE DEF f
    <3> QED BY <3>2, <3>3 DEF FrameFits
  <2>2. CASE ~Has(p, x, "not_valid")
    <3> DEFINE f == [back EXCEPT !.in_use = @ \/ Dirty(p, x)]
    <3>1. (back.in_use \/ Dirty(p, x)) \in BOOLEAN
      BY DEF Dirty, Has
    <3>2. /\ f \in Frame /\ f.at = "higher" /\ f.page = g /\ f.todo = Call(p).todo
          /\ f.invalid = Call(p).invalid /\ f.in_use = (back.in_use \/ Dirty(p, x))
      BY <1>4, <3>1 DEF Frame
    <3>3. Continues(p, f)
      BY <1>1, <2>2
    <3> HIDE DEF f
    <3>4. ~f.in_use => Tried(p, g, f.todo)
      BY <1>3, <1>4, <3>2 DEF Tried
    <3>5. FrameFits(p, f)
      BY <1>3, <3>2, <3>4 DEF FrameFits
    <3> QED BY <3>2, <3>3, <3>5
  <2> QED BY <2>1, <2>2
<1>8. pre' = [pre EXCEPT ![p] = pre[p]]
  BY <1>1, Parts, Unmoved
<1> QED BY <1>1, <1>6, <1>7, <1>8, GoesOnSteady

LEMMA DowngradesLowerSteady ==
  ASSUME IInv, OInv, NEW p \in Procs, DowngradesLower(p)
  PROVE  Steady(p)
<1> DEFINE g == Call(p).page
           invalid == Has(p, g, "not_valid")
           Frm(x) == [Call(p) EXCEPT !.todo = @ \ {x}]
           Bs(x) == IF invalid THEN [bdb[p] EXCEPT ![x] = With(@, {"not_valid"})] ELSE bdb[p]
<1>1. PICK x \in Call(p).todo :
        /\ pre' = [pre EXCEPT ![p] = Cleared(p, {e \in Below(p, Call(p).page) : e.low = x})]
        /\ IF invalid \/ Has(p, x, "not_valid") \/ Has(p, x, "blocking")
           THEN down_grade(p, x, Bs(x), <<Frm(x)>> \o Tail(ast[p]))
           ELSE Continues(p, Frm(x)) /\ UNCHANGED <<bdb, lck>>
  BY DEF DowngradesLower
<1>2. /\ ast[p] # <<>> /\ Call(p).at = "lower"
      /\ UNCHANGED <<disk, main, posted, tra, committed, lost, clock>>
  BY DEF DowngradesLower, At
<1>3. x \in Pages /\ g \in Pages /\ Call(p) \in Frame
  BY <1>2, CallOf DEF Frame
<1> DEFINE E == Cleared(p, {e \in Below(p, g) : e.low = x})
           f == Frm(x)
           B == Bs(x)
           c == <<f>> \o Tail(ast[p])
<1>4. /\ f \in Frame /\ f.page = g /\ f.at = "lower" /\ f.todo = Call(p).todo \ {x}
      /\ f.invalid = Call(p).invalid /\ f.in_use = Call(p).in_use
  BY <1>2, <1>3 DEF Frame
<1>5. /\ E \in SUBSET Precedence /\ pre' = [pre EXCEPT ![p] = E]
      /\ \A e \in E : (~e.cleared => e \in pre[p]) /\ \E d \in pre[p] : d.hi = e.hi
  BY <1>1, Parts, LowerCleared
<1>6. /\ B \in [Pages -> Buffer]
      /\ \A h \in Pages :
           /\ Resembles(B[h], bdb[p][h]) /\ B[h].use = bdb[p][h].use
           /\ "not_valid" \in B[h].flags <=> Has(p, h, "not_valid") \/ (invalid /\ h = x)
  <2>1. bdb[p] \in [Pages -> Buffer] /\ {"not_valid"} \in SUBSET Flags
    BY Parts DEF Flags
  <2> DEFINE b == With(bdb[p][x], {"not_valid"})
  <2>2. b \in Buffer /\ Resembles(b, bdb[p][x]) /\ b.use = bdb[p][x].use
        /\ "not_valid" \in b.flags
    BY <1>3, <2>1, BufferOps DEF Resembles
  <2>3. B = IF invalid THEN [bdb[p] EXCEPT ![x] = b] ELSE bdb[p]
    OBVIOUS
  <2> HIDE DEF b, B, invalid
  <2> QED BY <1>3, <2>1, <2>2, <2>3 DEF Resembles, Has
<1>7. FrameFits(p, Call(p)) /\ ~Dirty(p, g) /\ (Call(p).invalid => invalid)
  BY <1>2, CallsFit DEF FrameFits
<1>8. FrameFits(p, f)
  BY <1>2, <1>4, <1>7 DEF FrameFits
<1>9. \A e \in pre[p] : ~e.cleared /\ Dirty(p, e.hi) => e \in E
  BY <1>7 DEF Cleared, Below
<1>10. ASSUME NEW k \in Pages, Doomed(p, k)
       PROVE  \/ Has(p, k, "not_valid")
              \/ invalid /\ k = x
              \/ /\ invalid
                 /\ \A bad : Invalids(p) \subseteq bad => k \in Condemned(c, bad)
  <2>1. ast[p] \in Seq(Frame) /\ Tail(ast[p]) \in Seq(Frame)
    BY <1>2, CallOf, Parts
  <2>2. g \in Invalids(p) <=> invalid
    BY <1>3 DEF Invalids
  <2>3. Has(p, k, "not_valid") \/ k \in Condemned(ast[p], Invalids(p))
    BY <1>2, <1>10 DEF Doomed, At
  <2>4. ASSUME k \in Condemned(ast[p], Invalids(p))
        PROVE  \/ invalid /\ k \in Call(p).todo
               \/ Call(p).invalid /\ k \in Condemned(Tail(ast[p]), Invalids(p))
    BY <1>2, <2>1, <2>2, <2>4, CondemnedPopped DEF Call
  <2> HIDE DEF f, invalid
  <2>5. \A bad : /\ f.invalid => Condemned(Tail(ast[p]), bad) \subseteq Condemned(c, bad)
                 /\ f.at = "lower" /\ f.page \in bad => f.todo \subseteq Condemned(c, bad)
    BY <1>4, <2>1, CondemnedPushed
  <2>6. \A bad : Invalids(p) \subseteq bad =>
          Condemned(Tail(ast[p]), Invalids(p)) \subseteq Condemned(Tail(ast[p]), bad)
    BY <2>1, CondemnedMore
  <2> QED BY <1>4, <1>7, <2>2, <2>3, <2>4, <2>5, <2>6
<1>14. \A e \in E : ~e.cleared /\ e.hi = g /\ e.low \in Call(p).todo => e.low \in f.todo
  <2>1. ASSUME NEW e \in E, ~e.cleared, e.hi = g
        PROVE  e.low # x
    <3>1. PICK d \in pre[p] :
            e = IF d \in {k \in Below(p, g) : k.low = x} THEN [d EXCEPT !.cleared = TRUE] ELSE d
      BY <2>1 DEF Cleared
    <3>2. d \notin {k \in Below(p, g) : k.low = x}
      BY <2>1, <3>1, Parts DEF Precedence
    <3> QED BY <2>1, <3>1, <3>2 DEF Below
  <2> HIDE DEF E, f
  <2> QED BY <1>4, <2>1
<1>15. \A e \in E : ~e.cleared /\ Lowers(ast[p], e.hi, e.low) => Lowers(c, e.hi, e.low)
  <2> SUFFICES ASSUME NEW e \in E, ~e.cleared, Lowers(ast[p], e.hi, e.low)
               PROVE  Lowers(c, e.hi, e.low)
    OBVIOUS
  <2>1. ast[p] \in Seq(Frame) /\ Tail(ast[p]) \in Seq(Frame)
    BY <1>2, CallOf, Parts
  <2>2. \/ e.hi = g /\ e.low \in Call(p).todo
        \/ Lowers(Tail(ast[p]), e.hi, e.low)
    BY <1>2, <2>1, LowersPopped DEF Call
  <2>3. \/ f.at = "lower" /\ f.page = e.hi /\ e.low \in f.todo
        \/ Lowers(Tail(ast[p]), e.hi, e.low)
    BY <1>4, <1>14, <2>2
  <2> HIDE DEF f, E
  <2> QED BY <1>4, <2>1, <2>3, LowersPushed
<1>11. CASE invalid \/ Has(p, x, "not_valid") \/ Has(p, x, "blocking")
  <2>1. down_grade(p, x, B, c)
    BY <1>1, <1>11
  <2> HIDE DEF f, B, E, Frm, Bs, invalid
  <2>2. c \in Seq(Frame) /\ Apart(c) /\ PagesOf(c) = PagesOf(ast[p])
    BY <1>2, <1>4, CallOf
  <2>3. \A i \in DOMAIN c : FrameFits(p, c[i])
    BY <1>2, <1>4, <1>8, CallOf, CallsFit, PushedFit
  <2>4. posted' \in [Procs -> SUBSET Pages]
    BY <1>2, Parts DEF TypeOK
  <2> HIDE DEF c
  <2>5. Downs(p, x, B, c, E)
    BY <1>2, <1>5, <1>6, <2>1, <2>2, <2>4 DEF Downs
  <2>6. Invalids(p) \subseteq {h \in Pages : "not_valid" \in B[h].flags}
    BY <1>6 DEF Invalids
  <2>7. \A k \in Pages : Doomed(p, k) =>
          \/ "not_valid" \in B[k].flags
          \/ /\ "not_valid" \in B[x].flags
             /\ k \in Condemned(c, {h \in Pages : "not_valid" \in B[h].flags})
    BY <1>3, <1>6, <1>10, <2>6
  <2>8. \A e \in E : ~e.cleared /\ Lowers(ast[p], e.hi, e.low) => Lowers(c, e.hi, e.low)
    BY <1>15
  <2> QED BY <1>3, <1>6, <1>9, <2>3, <2>5, <2>7, <2>8, DownSteady
<1>12. CASE ~(invalid \/ Has(p, x, "not_valid") \/ Has(p, x, "blocking"))
  <2>1. Continues(p, f) /\ UNCHANGED bdb
    BY <1>1, <1>12
  <2>2. \A k \in Pages : Doomed(p, k) => Doomed(p, k)'
    BY <1>10, <1>12, <2>1 DEF Doomed, Has
  <2> HIDE DEF f, B, E, Frm, Bs, invalid
  <2> QED BY <1>2, <1>4, <1>5, <1>8, <1>9, <1>14, <2>1, <2>2, GoesOnSteady
<1> QED BY <1>11, <1>12

LEMMA DeferredSteady ==
  ASSUME IInv, OInv, NEW p \in Procs, DowngradeDeferred(p)
  PROVE  Steady(p)
<1>1. /\ ast[p] # <<>> /\ Returns(p) /\ Call(p).at = "higher" /\ Call(p).in_use
      /\ UNCHANGED <<disk, pre, main, lost>>
  BY DEF DowngradeDeferred, At
<1>2. PICK g \in Pages : g = Call(p).page
  BY <1>1, CallOf
<1>3. PICK t \in Seq(Frame) : t = Tail(ast[p])
  BY <1>1, CallOf
<1>4. bdb' = [bdb EXCEPT ![p][g] = Released(@)]
  BY <1>2 DEF DowngradeDeferred
<1>5. /\ Leaves(p) /\ pre'[p] = pre[p] /\ main'[p] = main[p] /\ ast'[p] = t
      /\ \A h \in Pages : bdb'[p][h] = IF h = g THEN Released(bdb[p][g]) ELSE bdb[p][h]
  BY <1>1, <1>3, <1>4, Parts DEF Leaves, Returns, TypeOK
<1>6. \A h \in Pages : bdb'[p][h].img = bdb[p][h].img /\ bdb'[p][h].flags = bdb[p][h].flags
  BY <1>5, Parts DEF Released, Buffer
<1>7. \A h \in Pages : (Dirty(p, h)' <=> Dirty(p, h)) /\ \A f : Has(p, h, f)' <=> Has(p, h, f)
  BY <1>6 DEF Dirty, Has
<1>8. \A k : Doomed(p, k) <=> Has(p, k, "not_valid")
  <2>1. ~Call(p).invalid
    BY <1>1, CallsFit DEF FrameFits
  <2> QED BY <1>1, <2>1, NoneCondemned
<1>9. FramesFit(p)'
  <2>1. \A i \in DOMAIN t : FrameFits(p, t[i])
    BY <1>1, <1>3, CallsFit
  <2>2. \A e \in pre'[p] : ~e.cleared /\ Dirty(p, e.hi)' => e \in pre[p] /\ Dirty(p, e.hi)
    BY <1>5, <1>7, Parts DEF Precedence
  <2>3. \A i \in DOMAIN t : FrameFits(p, t[i])'
    BY <1>7, <2>1, <2>2, FramesKept, PagesOfCalls
  <2> QED BY <1>5, <2>3, FramesLeft
<1>10. \A k \in Counted(p) : Doomed(p, k) => Doomed(p, k)'
  BY <1>7, <1>8 DEF Doomed, Counted
<1>11. \A g_, x : Lowers(ast[p], g_, x) => Lowers(ast'[p], g_, x)
  BY <1>1, <1>3, <1>5, Parts, LowersPopped DEF Call
<1> QED BY <1>1, <1>5, <1>6, <1>7, <1>9, <1>10, <1>11 DEF Steady

LEMMA LowerDoneSteady ==
  ASSUME IInv, OInv, NEW p \in Procs, LowerDone(p)
  PROVE  Steady(p)
<1>1. /\ ast[p] # <<>> /\ Returns(p) /\ Call(p).at = "lower" /\ Call(p).todo = {}
      /\ UNCHANGED <<disk, pre, main, lost>>
  BY DEF LowerDone, At
<1>2. PICK g \in Pages : g = Call(p).page
  BY <1>1, CallOf
<1>3. PICK t \in Seq(Frame) : t = Tail(ast[p])
  BY <1>1, CallOf
<1>4. bdb' = [bdb EXCEPT ![p][g] = Without(Released(@), {"not_valid"})]
  BY <1>2 DEF LowerDone
<1>5. /\ Leaves(p) /\ pre'[p] = pre[p] /\ main'[p] = main[p] /\ ast'[p] = t
      /\ \A h \in Pages : bdb'[p][h] =
           IF h = g THEN Without(Released(bdb[p][g]), {"not_valid"}) ELSE bdb[p][h]
  BY <1>1, <1>3, <1>4, Parts DEF Leaves, Returns, TypeOK
<1>6. \A h \in Pages :
        /\ bdb'[p][h].img = bdb[p][h].img
        /\ bdb'[p][h].flags = IF h = g THEN bdb[p][h].flags \ {"not_valid"} ELSE bdb[p][h].flags
  <2>1. bdb[p][g] \in Buffer
    BY Parts
  <2>2. /\ Without(Released(bdb[p][g]), {"not_valid"}).img = bdb[p][g].img
        /\ Without(Released(bdb[p][g]), {"not_valid"}).flags = bdb[p][g].flags \ {"not_valid"}
    BY <2>1 DEF Without, Released, Buffer
  <2> QED BY <1>5, <2>2
<1>7. \A h \in Pages : /\ Dirty(p, h)' <=> Dirty(p, h)
                       /\ Has(p, h, "faked")' <=> Has(p, h, "faked")
                       /\ h # g => (Has(p, h, "not_valid")' <=> Has(p, h, "not_valid"))
  BY <1>6 DEF Dirty, Has
<1>8. /\ ~Dirty(p, g) /\ g # main[p].page
      /\ PagesOf(t) \subseteq Pages \ {g}
  <2>1. ~Dirty(p, g)
    BY <1>1, <1>2, CallsFit DEF FrameFits
  <2>2. g # main[p].page
    BY <1>1, <1>2, CallOf, Parts, LatchBounds
  <2>3. PagesOf(t) \subseteq Pages \ {g}
    BY <1>1, <1>2, <1>3, CallOf, PagesOfCalls
  <2> QED BY <2>1, <2>2, <2>3
<1>9. FramesFit(p)'
  <2>1. \A i \in DOMAIN t : FrameFits(p, t[i])
    BY <1>1, <1>3, CallsFit
  <2>2. \A e \in pre'[p] : ~e.cleared /\ Dirty(p, e.hi)' => e \in pre[p] /\ Dirty(p, e.hi)
    BY <1>5, <1>7, Parts DEF Precedence
  <2>3. \A h \in PagesOf(t) : /\ Dirty(p, h)' => Dirty(p, h)
                              /\ Has(p, h, "not_valid") => Has(p, h, "not_valid")'
    BY <1>7, <1>8
  <2>4. \A i \in DOMAIN t : FrameFits(p, t[i])'
    BY <2>1, <2>2, <2>3, FramesKept
  <2> QED BY <1>5, <2>4, FramesLeft
<1>10. ASSUME NEW k \in Counted(p), Doomed(p, k)
       PROVE  Doomed(p, k)'
  <2>1. k \in Pages /\ k # g
    BY <1>8 DEF Counted
  <2>2. CASE Has(p, k, "not_valid")
    BY <1>7, <2>1, <2>2 DEF Doomed
  <2>3. CASE k \in Condemned(ast[p], Invalids(p))
    <3>1. k \in Condemned(t, Invalids(p))
      BY <1>1, <1>3, <2>3, CondemnedPopped, Parts DEF Call
    <3>2. Invalids(p) \cap PagesOf(t) \subseteq Invalids(p)'
      BY <1>7, <1>8 DEF Invalids
    <3>3. k \in Condemned(t, Invalids(p)')
      BY <3>1, <3>2, CondemnedMore
    <3> QED BY <1>5, <3>3 DEF Doomed
  <2> QED BY <1>1, <1>10, <2>2, <2>3 DEF Doomed, At
<1>11. \A k \in Pages : Dirty(p, k) => bdb'[p][k].img = bdb[p][k].img
  BY <1>6
<1>12. \A g_, x : Lowers(ast[p], g_, x) => Lowers(ast'[p], g_, x)
  BY <1>1, <1>3, <1>5, Parts, LowersPopped DEF Call
<1> QED BY <1>1, <1>5, <1>7, <1>9, <1>10, <1>11, <1>12 DEF Steady

-----------------------------------------------------------------------------
(* Precedence, and the update of a page.                                   *)

\* CCH_precedence leaves what is known, waits for a write before it goes on or before it
\* enters the precedence, or enters it.
Precedes(p, g, x) ==
  \/ /\ ~Dirty(p, x) \/ Over(p, x, g)
     /\ main'[p].pc = "held" /\ main'[p].back = "idle" /\ pre' = pre
  \/ /\ main'[p].pc = "write" /\ main'[p].back = "held" /\ main'[p].stack = <<x>> /\ pre' = pre
  \/ /\ main'[p].pc = "write" /\ main'[p].back = "insert" /\ main'[p].hi = x /\ pre' = pre
  \/ /\ Dirty(p, x) /\ main'[p].pc = "held" /\ main'[p].back = "idle"
     /\ pre' = Inserted(p, x, g)

LEMMA PrecedenceDoes ==
  ASSUME IInv, NEW p \in Procs, NEW x \in Pages, CCH_precedence(p, x)
  PROVE  \E g \in Pages :
           /\ g = main[p].page /\ x # g /\ ast[p] = <<>> /\ main[p].pc = "held"
           /\ main[p].back = "idle" /\ Precedes(p, g, x)
           /\ \A q \in Procs \ {p} : bdb'[q] = bdb[q] /\ main'[q] = main[q]
           /\ main'[p].page = g /\ main'[p].needs = main[p].needs \cup bdb[p][x].img.has
           /\ main'[p].number = main[p].number
           /\ \A h \in Pages : /\ bdb'[p][h].img = bdb[p][h].img
                               /\ bdb'[p][h].flags = bdb[p][h].flags
<1>1. PICK g \in Pages : g = main[p].page
  BY Parts DEF CCH_precedence, Runs, MainOf, MainLine
<1>2. /\ ast[p] = <<>> /\ main[p].pc = "held" /\ x # g /\ main[p].back = "idle"
  BY <1>1, PlainLine DEF CCH_precedence, Runs
<1> DEFINE Says(g_) ==
  \E unknown \in GivesUp :
        LET known == Over(p, x, g_)
            gaveUp == unknown /\ Below(p, x) # {} /\ ~known
            cycle == Related(p, g_, x, unknown) /\ Below(p, g_) # {}
            writes == IF gaveUp THEN x ELSE g_
            next == IF ~Dirty(p, x) \/ known \/ gaveUp THEN "held" ELSE "insert"
            write == Dirty(p, x) /\ (gaveUp \/ (~known /\ cycle)) IN
        /\ main' = [main EXCEPT ![p].needs = @ \cup bdb[p][x].img.has,
                      ![p].hi = IF write /\ next = "insert" THEN x ELSE NoPage,
                      ![p].pc = IF write THEN "write" ELSE "held",
                      ![p].stack = IF write THEN <<writes>> ELSE <<>>,
                      ![p].back = IF write THEN next ELSE "idle"]
        /\ bdb' = IF write THEN [bdb EXCEPT ![p][writes] = Latched(@)] ELSE bdb
        /\ pre' = IF write \/ next = "held" THEN pre ELSE Inserted(p, x, g_)
<1>3. PICK unknown \in GivesUp :
        LET known == Over(p, x, g)
            gaveUp == unknown /\ Below(p, x) # {} /\ ~known
            cycle == Related(p, g, x, unknown) /\ Below(p, g) # {}
            writes == IF gaveUp THEN x ELSE g
            next == IF ~Dirty(p, x) \/ known \/ gaveUp THEN "held" ELSE "insert"
            write == Dirty(p, x) /\ (gaveUp \/ (~known /\ cycle)) IN
        /\ main' = [main EXCEPT ![p].needs = @ \cup bdb[p][x].img.has,
                      ![p].hi = IF write /\ next = "insert" THEN x ELSE NoPage,
                      ![p].pc = IF write THEN "write" ELSE "held",
                      ![p].stack = IF write THEN <<writes>> ELSE <<>>,
                      ![p].back = IF write THEN next ELSE "idle"]
        /\ bdb' = IF write THEN [bdb EXCEPT ![p][writes] = Latched(@)] ELSE bdb
        /\ pre' = IF write \/ next = "held" THEN pre ELSE Inserted(p, x, g)
  <2>1. Says(main[p].page)
    BY DEF CCH_precedence
  <2>2. Says(g)
    <3> HIDE DEF Says
    <3> QED BY <1>1, <2>1
  <2> QED BY <2>2
<1>4. PICK known, gaveUp, cycle, writes, next, write, needs :
        /\ known = Over(p, x, g) /\ gaveUp = (unknown /\ Below(p, x) # {} /\ ~known)
        /\ cycle = (Related(p, g, x, unknown) /\ Below(p, g) # {})
        /\ writes = IF gaveUp THEN x ELSE g
        /\ next = IF ~Dirty(p, x) \/ known \/ gaveUp THEN "held" ELSE "insert"
        /\ write = (Dirty(p, x) /\ (gaveUp \/ (~known /\ cycle)))
        /\ needs = main[p].needs \cup bdb[p][x].img.has
  OBVIOUS
<1>5. PICK pc, back, hi, stack :
        /\ pc = IF write THEN "write" ELSE "held"
        /\ back = IF write THEN next ELSE "idle"
        /\ hi = IF write /\ next = "insert" THEN x ELSE NoPage
        /\ stack = IF write THEN <<writes>> ELSE <<>>
  OBVIOUS
<1>6. /\ main' = [main EXCEPT ![p].needs = needs, ![p].hi = hi, ![p].pc = pc,
                              ![p].stack = stack, ![p].back = back]
      /\ bdb' = IF write THEN [bdb EXCEPT ![p][writes] = Latched(@)] ELSE bdb
      /\ pre' = IF write \/ next = "held" THEN pre ELSE Inserted(p, x, g)
  BY <1>3, <1>4, <1>5
<1>7. /\ \A q \in Procs \ {p} : main'[q] = main[q]
      /\ main'[p].needs = needs /\ main'[p].hi = hi /\ main'[p].pc = pc
      /\ main'[p].stack = stack /\ main'[p].back = back
      /\ main'[p].page = main[p].page /\ main'[p].number = main[p].number
  BY <1>6, Parts DEF TypeOK, MainLine
<1>8. /\ \A q \in Procs \ {p} : bdb'[q] = bdb[q]
      /\ \A h \in Pages : bdb'[p][h] = bdb[p][h] \/ bdb'[p][h] = Latched(bdb[p][h])
  BY <1>4, <1>6, Parts DEF TypeOK
<1>9. \A h \in Pages : bdb'[p][h].img = bdb[p][h].img /\ bdb'[p][h].flags = bdb[p][h].flags
  <2> SUFFICES ASSUME NEW h \in Pages
               PROVE  bdb'[p][h].img = bdb[p][h].img /\ bdb'[p][h].flags = bdb[p][h].flags
    OBVIOUS
  <2>1. /\ Latched(bdb[p][h]).img = bdb[p][h].img
        /\ Latched(bdb[p][h]).flags = bdb[p][h].flags
    BY Parts, LatchOps
  <2> QED BY <1>8, <2>1
<1>10. Precedes(p, g, x)
  <2>1. CASE ~Dirty(p, x) \/ known
    <3>1. next = "held" /\ ~write
      BY <1>4, <2>1
    <3> QED BY <1>4, <1>5, <1>6, <1>7, <2>1, <3>1 DEF Precedes
  <2>2. CASE Dirty(p, x) /\ ~known /\ gaveUp
    <3>1. next = "held" /\ write /\ writes = x
      BY <1>4, <2>2
    <3> QED BY <1>4, <1>5, <1>6, <1>7, <3>1 DEF Precedes
  <2>3. CASE Dirty(p, x) /\ ~known /\ ~gaveUp
    <3>1. next = "insert"
      BY <1>4, <2>3
    <3> QED BY <1>4, <1>5, <1>6, <1>7, <2>3, <3>1 DEF Precedes
  <2> QED BY <2>1, <2>2, <2>3
<1> QED BY <1>1, <1>2, <1>4, <1>7, <1>8, <1>9, <1>10

LEMMA PrecedenceOrder ==
  ASSUME IInv, OInv, NEW p \in Procs, NEW x \in Pages, CCH_precedence(p, x), Heeds(p, x)
  PROVE  OInv'
<1>1. PICK g \in Pages :
        /\ g = main[p].page /\ x # g /\ ast[p] = <<>> /\ main[p].pc = "held"
        /\ main[p].back = "idle" /\ Precedes(p, g, x)
        /\ \A q \in Procs \ {p} : bdb'[q] = bdb[q] /\ main'[q] = main[q]
        /\ main'[p].page = g /\ main'[p].needs = main[p].needs \cup bdb[p][x].img.has
        /\ main'[p].number = main[p].number
        /\ \A h \in Pages : /\ bdb'[p][h].img = bdb[p][h].img
                            /\ bdb'[p][h].flags = bdb[p][h].flags
  BY PrecedenceDoes
<1>2. UNCHANGED <<disk, ast, lost>> /\ ast'[p] = <<>>
  BY <1>1 DEF CCH_precedence
<1>3. \A h \in Pages : (Dirty(p, h)' <=> Dirty(p, h)) /\ \A f : Has(p, h, f)' <=> Has(p, h, f)
  BY <1>1 DEF Dirty, Has
<1>4. Settled' = Settled /\ Durable' = Durable /\ WriteOrder'
  BY <1>2 DEF Settled, Durable, OInv, WriteOrder
<1>5. /\ \A q \in Procs \ {p} : pre'[q] = pre[q]
      /\ \A e \in pre[p] : e \in pre'[p]
      /\ main'[p].pc \in {"held", "write"} /\ InWindow(p)' /\ InWindow(p)
  <2>1. pre' = pre \/ pre' = Inserted(p, x, g)
    BY <1>1 DEF Precedes
  <2>2. \A q \in Procs \ {p} : pre'[q] = pre[q]
    BY <2>1, Parts DEF Inserted, TypeOK
  <2>3. \A e \in pre[p] : e \in pre'[p]
    BY <2>1, Parts DEF Inserted, TypeOK
  <2>4. g # NoPage
    BY ConstantAssumption
  <2> QED BY <1>1, <2>2, <2>3, <2>4 DEF Precedes, InWindow
<1>6. Leaves(p) /\ Counted(p)' = Counted(p)
  BY <1>1, <1>2, <1>3, <1>5 DEF Leaves, Counted
<1>7. FramesFit(p)' /\ NeedsFit(p)' /\ FakeFits(p)'
  BY <1>2, <1>5, FramesFitAlone DEF NeedsFit, FakeFits
<1>8. Ordered(p)'
  <2> SUFFICES ASSUME NEW S \in SUBSET Pages, Sound(p, S)'
               PROVE  Rests(p, S, S)
    BY <1>4, OrderedFrom DEF OInv, Order
  <2>1. Sound(p, S)
    <3>1. \A k \in S : Doomed(p, k) => Doomed(p, k)'
      BY <1>1, <1>2, <1>3, DoomedAlone, DoomedAlonePrimed
    <3>2. \A e \in pre[p] : e.hi \in Pages
      BY Parts DEF Precedence
    <3> QED BY <1>3, <1>5, <1>6, <3>1, <3>2 DEF Sound
  <2>2. \A T \in SUBSET Pages : HasOf(p, T)' = HasOf(p, T)
    BY <1>1 DEF HasOf
  <2>3. \A k \in S : Dirty(p, k)' => Dirty(p, k) /\ bdb'[p][k].img.needs = bdb[p][k].img.needs
    BY <1>1, <1>3
  <2>4. ASSUME main'[p].page \in S
        PROVE  main'[p].needs \subseteq Settled' \cup HasOf(p, S \cup Awaited(p))'
    <3>1. Awaited(p) = {}
      BY <1>1 DEF Awaited
    <3>2. main[p].needs \subseteq Settled \cup HasOf(p, S)
      BY <1>1, <1>5, <2>1, <2>4, <3>1 DEF OInv, Order, Ordered
    <3>3. PICK A \in SUBSET Pages : A = Awaited(p)' /\ (Dirty(p, x) => x \in S \cup A)
      <4>1. CASE ~Dirty(p, x) \/ Over(p, x, g)
        <5>1. Dirty(p, x) => DirtyOver(p, x, g)
          BY <1>1, <4>1 DEF Heeds
        <5>2. ASSUME Dirty(p, x), x \notin S
              PROVE  FALSE
          <6>1. \A e \in pre[p] : ~e.cleared /\ e.hi \in Pages \ S /\ Dirty(p, e.hi) =>
                  e.low \in Pages \ S
            BY <2>1, Parts DEF Sound, Precedence
          <6>2. g \in Pages \ S
            BY <5>1, <5>2, <6>1 DEF DirtyOver
          <6> QED BY <1>1, <2>4, <6>2
        <5>3. Awaited(p)' \in SUBSET Pages
          <6>1. main'[p].pc = "held" /\ main'[p].back = "idle" => Awaited(p)' = {}
            BY DEF Awaited
          <6>2. main'[p].back = "held" /\ main'[p].pc = "write" /\ main'[p].stack = <<x>> =>
                  Awaited(p)' = {x}
            BY DEF Awaited, Latest
          <6>3. main'[p].back = "insert" /\ main'[p].hi = x => Awaited(p)' = {x}
            BY DEF Awaited
          <6> QED BY <1>1, <6>1, <6>2, <6>3 DEF Precedes
        <5> QED BY <5>2, <5>3
      <4>2. CASE main'[p].pc = "write" /\ main'[p].back = "held" /\ main'[p].stack = <<x>>
        <5>1. Awaited(p)' = {x}
          BY <4>2 DEF Awaited, Latest
        <5> QED BY <5>1
      <4>3. CASE main'[p].pc = "write" /\ main'[p].back = "insert" /\ main'[p].hi = x
        <5>1. Awaited(p)' = {x}
          BY <4>3 DEF Awaited
        <5> QED BY <5>1
      <4>4. CASE /\ Dirty(p, x) /\ main'[p].pc = "held" /\ main'[p].back = "idle"
                 /\ pre' = Inserted(p, x, g)
        <5>1. Awaited(p)' = {}
          BY <4>4 DEF Awaited
        <5>2. [hi |-> x, low |-> g, cleared |-> FALSE] \in pre'[p]
          BY <4>4, Parts DEF Inserted, TypeOK
        <5>3. x \in S
          BY <1>1, <1>3, <2>4, <4>4, <5>2 DEF Sound
        <5> QED BY <5>1, <5>3
      <4> QED BY <1>1, <4>1, <4>2, <4>3, <4>4 DEF Precedes
    <3>4. HasOf(p, S \cup Awaited(p))' = HasOf(p, S \cup A)
      BY <1>1, <3>3 DEF HasOf
    <3>5. bdb[p][x].img.has \subseteq Settled \cup HasOf(p, S \cup A)
      <4>1. CASE Dirty(p, x)
        BY <3>3, <4>1 DEF HasOf
      <4>2. CASE ~Dirty(p, x)
        BY <4>2, CleanImages DEF OInv, Settled
      <4> QED BY <4>1, <4>2
    <3>6. HasOf(p, S) \subseteq HasOf(p, S \cup A)
      BY DEF HasOf
    <3> QED BY <1>1, <1>4, <3>2, <3>4, <3>5, <3>6
  <2> QED BY <1>4, <2>1, <2>2, <2>3, <2>4 DEF Rests
<1> QED BY <1>4, <1>6, <1>7, <1>8, Combined DEF Order

LEMMA BrokenOrder ==
  ASSUME IInv, OInv, NEW p \in Procs, CycleBroken(p)
  PROVE  OInv'
<1>1. PICK g \in Pages, x \in Pages : g = main[p].page /\ x = main[p].hi
  BY Parts DEF CycleBroken, Runs, MainOf, MainLine
<1>2. /\ ast[p] = <<>> /\ ast'[p] = <<>> /\ main[p].pc = "insert"
      /\ UNCHANGED <<disk, bdb, ast, lost>> /\ pre' = Inserted(p, x, g)
      /\ main[p].back = "idle"
  BY <1>1, PlainLine DEF CycleBroken, Runs
<1>3. /\ \A q \in Procs \ {p} : main'[q] = main[q] /\ pre'[q] = pre[q]
      /\ main'[p].pc = "held" /\ main'[p].page = g /\ main'[p].needs = main[p].needs
      /\ main'[p].back = "idle"
      /\ pre'[p] = pre[p] \cup {[hi |-> x, low |-> g, cleared |-> FALSE]}
  BY <1>1, <1>2, Parts DEF CycleBroken, Inserted, TypeOK, MainLine
<1>4. \A h : (Dirty(p, h)' <=> Dirty(p, h)) /\ \A f : Has(p, h, f)' <=> Has(p, h, f)
  BY <1>2 DEF Dirty, Has
<1>5. Settled' = Settled /\ Durable' = Durable /\ WriteOrder'
  BY <1>2 DEF Settled, Durable, OInv, WriteOrder
<1>6. InWindow(p) /\ InWindow(p)' /\ Awaited(p) = {x} /\ Awaited(p)' = {}
  BY <1>1, <1>2, <1>3, ConstantAssumption DEF InWindow, Awaited
<1>7. Leaves(p) /\ Counted(p)' = Counted(p)
  BY <1>1, <1>2, <1>3, <1>4, <1>6 DEF Leaves, Counted
<1>8. FramesFit(p)' /\ NeedsFit(p)' /\ FakeFits(p)'
  BY <1>2, <1>3, <1>6, FramesFitAlone DEF NeedsFit, FakeFits
<1>9. Ordered(p)'
  <2> SUFFICES ASSUME NEW S \in SUBSET Pages, Sound(p, S)'
               PROVE  Rests(p, S, S)
    BY <1>5, OrderedFrom DEF OInv, Order
  <2>1. Sound(p, S)
    BY <1>2, <1>3, <1>4, <1>7, DoomedAlone, DoomedAlonePrimed DEF Sound
  <2>2. \A T \in SUBSET Pages : HasOf(p, T)' = HasOf(p, T)
    BY <1>2 DEF HasOf
  <2>3. ASSUME g \in S
        PROVE  HasOf(p, S \cup Awaited(p)) \subseteq Settled' \cup HasOf(p, S)'
    <3>1. CASE Dirty(p, x)
      <4>1. PICK e \in pre'[p] : e = [hi |-> x, low |-> g, cleared |-> FALSE]
        BY <1>3
      <4>2. ~e.cleared /\ e.low \in S /\ Dirty(p, e.hi)' /\ e.hi = x
        BY <1>4, <2>3, <3>1, <4>1
      <4>3. x \in S
        BY <4>2 DEF Sound
      <4> QED BY <1>6, <2>2, <4>3 DEF HasOf
    <3>2. CASE ~Dirty(p, x)
      <4>1. bdb[p][x].img.has \subseteq Settled
        BY <3>2, CleanImages DEF OInv, Settled
      <4>2. HasOf(p, S \cup {x}) = HasOf(p, S) \cup bdb[p][x].img.has
        BY DEF HasOf
      <4> QED BY <1>5, <1>6, <2>2, <4>1, <4>2
    <3> QED BY <3>1, <3>2
  <2>4. HasOf(p, S \cup Awaited(p))' = HasOf(p, S)'
    BY <1>2, <1>6 DEF HasOf
  <2>5. \A k \in S : Dirty(p, k)' => Dirty(p, k) /\ bdb'[p][k].img.needs = bdb[p][k].img.needs
    BY <1>2, <1>4
  <2> QED BY <1>1, <1>3, <1>6, <2>1, <2>2, <2>3, <2>4, <2>5 DEF Rests
<1> QED BY <1>5, <1>7, <1>8, <1>9, Combined DEF Order

\* CCH_mark makes the image of the page in the window what it is from then on.
Marks(p, g) ==
  /\ ast[p] = <<>> /\ main[p].pc = "held" /\ main[p].back = "idle" /\ main[p].page = g
  /\ \A q \in Procs \ {p} : bdb'[q] = bdb[q] /\ main'[q] = main[q]
  /\ main'[p].pc = "held" /\ main'[p].back = "idle" /\ main'[p].page = g
  /\ main'[p].needs = {} /\ main'[p].number = main[p].number
  /\ UNCHANGED <<disk, pre, ast, lost>>
  /\ \A h \in Pages \ {g} : bdb'[p][h] = bdb[p][h]
  /\ bdb'[p][g].flags = bdb[p][g].flags \cup MarkFlags
  /\ bdb'[p][g].img = [has |-> bdb[p][g].img.has \cup {clock'},
                       needs |-> bdb[p][g].img.needs \cup main[p].needs]

LEMMA MarkDoes ==
  ASSUME IInv, NEW p \in Procs, CCH_mark(p)
  PROVE  \E g \in Pages : Marks(p, g)
<1>1. PICK g \in Pages : g = main[p].page
  BY Parts DEF CCH_mark, Runs, MainOf, MainLine
<1>2. PICK img : img = [has |-> bdb[p][g].img.has \cup {clock'},
                        needs |-> bdb[p][g].img.needs \cup main[p].needs]
  OBVIOUS
<1>3. /\ ast[p] = <<>> /\ main[p].pc = "held" /\ main[p].back = "idle"
      /\ main' = [main EXCEPT ![p].needs = {}]
      /\ UNCHANGED <<disk, pre, ast, lost>>
  BY PlainLine DEF CCH_mark, Runs
<1>4. bdb' = [bdb EXCEPT ![p][g] = [With(@, MarkFlags) EXCEPT !.img = img]]
  <2> DEFINE Says(g_, u_) ==
               LET was == bdb[p][g_].img
                   new == [has |-> was.has \cup {u_}, needs |-> was.needs \cup main[p].needs] IN
               bdb' = [bdb EXCEPT ![p][g_] = [With(@, MarkFlags) EXCEPT !.img = new]]
  <2>1. Says(main[p].page, clock')
    BY DEF CCH_mark
  <2>2. Says(g, clock')
    <3> HIDE DEF Says
    <3> QED BY <1>1, <2>1
  <2> QED BY <1>2, <2>2
<1>5. PICK b : b = [With(bdb[p][g], MarkFlags) EXCEPT !.img = img]
  OBVIOUS
<1>6. b.img = img /\ b.flags = bdb[p][g].flags \cup MarkFlags
  BY <1>5, Parts DEF With, Buffer
<1>7. /\ \A q \in Procs \ {p} : bdb'[q] = bdb[q] /\ main'[q] = main[q]
      /\ \A h \in Pages : bdb'[p][h] = IF h = g THEN b ELSE bdb[p][h]
      /\ main'[p].pc = "held" /\ main'[p].back = "idle" /\ main'[p].page = g
      /\ main'[p].needs = {} /\ main'[p].number = main[p].number
  BY <1>1, <1>3, <1>4, <1>5, Parts DEF TypeOK, MainLine
<1> QED BY <1>1, <1>2, <1>3, <1>6, <1>7 DEF Marks

LEMMA MarkOrder ==
  ASSUME IInv, OInv, NEW p \in Procs, CCH_mark(p)
  PROVE  OInv'
<1>1. PICK g \in Pages : Marks(p, g)
  BY MarkDoes
<1>2. PICK u : u = clock'
  OBVIOUS
<1>3. /\ bdb'[p][g].img.has = bdb[p][g].img.has \cup {u}
      /\ bdb'[p][g].img.needs = bdb[p][g].img.needs \cup main[p].needs
  BY <1>1, <1>2 DEF Marks
<1>4. /\ Dirty(p, g)' /\ (Has(p, g, "not_valid")' <=> Has(p, g, "not_valid"))
      /\ \A h \in Pages \ {g} :
           (Dirty(p, h)' <=> Dirty(p, h)) /\ (Has(p, h, "not_valid")' <=> Has(p, h, "not_valid"))
  BY <1>1 DEF Marks, Dirty, Has, MarkFlags
<1>5. Settled' = Settled /\ Durable' = Durable /\ WriteOrder'
  BY <1>1 DEF Marks, Settled, Durable, OInv, WriteOrder
<1>6. /\ InWindow(p) /\ InWindow(p)' /\ Awaited(p) = {} /\ Leaves(p)
      /\ main[p].page = g /\ ast[p] = <<>> /\ ast'[p] = <<>> /\ pre'[p] = pre[p]
  BY <1>1, ConstantAssumption DEF Marks, InWindow, Awaited, Leaves
<1>7. Counted(p)' = Counted(p)
  BY <1>1, <1>4, <1>6 DEF Marks, Counted
<1>8. FramesFit(p)' /\ NeedsFit(p)' /\ FakeFits(p)'
  BY <1>1, <1>6, FramesFitAlone DEF Marks, NeedsFit, FakeFits
<1>9. Ordered(p)'
  <2> SUFFICES ASSUME NEW S \in SUBSET Pages, Sound(p, S)'
               PROVE  Rests(p, S, S)
    BY <1>5, OrderedFrom DEF OInv, Order
  <2>1. Sound(p, S)
    <3>1. \A k \in S : Doomed(p, k) => Doomed(p, k)'
      BY <1>4, <1>6, DoomedAlone, DoomedAlonePrimed
    <3>2. \A e \in pre[p] : Dirty(p, e.hi) => Dirty(p, e.hi)'
      BY <1>4, Parts DEF Precedence
    <3> QED BY <1>6, <1>7, <3>1, <3>2 DEF Sound
  <2>2. \A h \in Pages : bdb[p][h].img.has \subseteq bdb'[p][h].img.has
    BY <1>1, <1>3 DEF Marks
  <2>3. HasOf(p, S) \subseteq HasOf(p, S)'
    BY <2>2 DEF HasOf
  <2>4. ASSUME NEW k \in S, Dirty(p, k)'
        PROVE  \/ bdb'[p][k].img.needs \subseteq Settled' \cup HasOf(p, S)'
               \/ k \in S /\ Dirty(p, k) /\ bdb'[p][k].img.needs = bdb[p][k].img.needs
    <3>1. CASE k = g
      <4>1. main[p].needs \subseteq Settled \cup HasOf(p, S)
        BY <1>6, <2>1, <3>1 DEF OInv, Order, Ordered
      <4>2. bdb[p][g].img.needs \subseteq Settled \cup HasOf(p, S)
        <5>1. CASE Dirty(p, g)
          BY <2>1, <3>1, <5>1 DEF OInv, Order, Ordered
        <5>2. CASE ~Dirty(p, g)
          BY <5>2, CleanImages DEF OInv
        <5> QED BY <5>1, <5>2
      <4> QED BY <1>3, <1>5, <2>3, <3>1, <4>1, <4>2
    <3>2. CASE k # g
      <4>1. bdb'[p][k] = bdb[p][k]
        BY <1>1, <3>2 DEF Marks
      <4> QED BY <1>4, <2>4, <3>2, <4>1
    <3> QED BY <3>1, <3>2
  <2>5. main'[p].needs = {}
    BY <1>1 DEF Marks
  <2> QED BY <1>5, <2>1, <2>3, <2>4, <2>5 DEF Rests
<1> QED BY <1>5, <1>6, <1>8, <1>9, Combined DEF Order

-----------------------------------------------------------------------------
(* The invariant holds.                                                    *)

LEMMA InitOrder ==
  ASSUME Init
  PROVE  OInv
<1>1. WriteOrder
  BY DEF Init, WriteOrder, Blank
<1>2. ASSUME NEW p \in Procs
      PROVE  Order(p)
  <2>1. /\ main[p] = Idle /\ ast[p] = <<>> /\ pre[p] = {}
        /\ \A g \in Pages : bdb[p][g] = NewBuffer
    BY <1>2 DEF Init
  <2>2. Counted(p) = {} /\ ~InWindow(p)
    BY <2>1 DEF Counted, InWindow, Dirty, Has, NewBuffer, Idle
  <2>3. Ordered(p) /\ NeedsFit(p)
    BY <2>1, <2>2 DEF Ordered, Sound, NeedsFit, Idle
  <2>4. DOMAIN <<>> = {}
    OBVIOUS
  <2>5. FramesFit(p) /\ FakeFits(p)
    BY <2>1, <2>4 DEF FramesFit, FakeFits, Below, Idle
  <2> QED BY <2>3, <2>5 DEF Order
<1> QED BY <1>1, <1>2 DEF OInv

\* What the steps of a process come to.
Opening(p) == \E g \in Pages, read \in BOOLEAN : Opens(p, g, read)
Preceding(p) == \E x \in Pages : CCH_precedence(p, x)
Noticing == UNCHANGED <<disk, bdb, pre, main, ast, lost>>
Comes(p) ==
  \/ Calm(p) /\ FakeFits(p)'
  \/ Noticing \/ Opening(p) \/ Preceding(p) \/ CycleBroken(p) \/ CCH_mark(p) \/ write_page(p)
  \/ Gone(p) \/ Steady(p) \/ DowngradeWrites(p) \/ DowngradeFails(p)

LEMMA StepIs ==
  ASSUME Invariant, OInv, NEW p \in Procs,
         Fetch(p) \/ Change(p) \/ Write(p) \/ Release(p) \/ Transaction(p) \/ Ast(p)
  PROVE  Comes(p)
<1>1. IInv
  BY DEF Invariant
<1>2. CASE Fetch(p)
  <2>1. CASE lock_buffer(p)
    BY <1>1, <2>1, LockBufferIs DEF Comes, Opening
  <2>2. CASE LockGranted(p)
    BY <1>1, <2>2, GrantedIs DEF Comes, Opening
  <2>3. CASE NoticeRepeated(p)
    BY <2>3 DEF NoticeRepeated, Comes, Noticing
  <2> QED BY <1>1, <1>2, <2>1, <2>2, <2>3, CalmFake, CalmFetch, CalmFakeWritten DEF Fetch, Comes
<1>3. CASE Change(p)
  BY <1>3 DEF Change, Comes, Preceding
<1>4. CASE Write(p)
  <2>1. CASE WriteFails(p)
    BY <1>1, <2>1, CalmUnwind DEF WriteFails, MayWrite, Runs, Comes
  <2> QED BY <1>1, <1>4, <2>1, CalmFindsClean, CalmDropped, CalmHigher DEF Write, Comes
<1>5. CASE Release(p)
  <2>1. ASSUME NEW g \in Reused, get_buffer(p, g)
        PROVE  Comes(p)
    <3>1. g \in Pages
      BY ConstantAssumption
    <3> QED BY <1>1, <2>1, <3>1, CalmTaken DEF Comes
  <2> QED BY <1>1, <1>5, <2>1, CalmRelease, CalmReused DEF Release, Comes
<1>6. CASE Transaction(p)
  BY <1>1, <1>6, CalmCommit, CalmFlush, CalmRollback DEF Transaction, Comes
<1>7. CASE Ast(p)
  BY <1>1, <1>7, BlockingSteady, DowngradesHigherSteady, HigherDoneSteady, DeferredSteady,
     DowngradesLowerSteady, LowerDoneSteady DEF Ast, Comes
<1> QED BY <1>2, <1>3, <1>4, <1>5, <1>6, <1>7

LEMMA StutterOrder ==
  ASSUME OInv, Noticing
  PROVE  OInv'
<1>1. UNCHANGED <<disk, bdb, pre, main, ast, lost>>
  BY DEF Noticing
<1>2. Settled' = Settled /\ WriteOrder'
  BY <1>1 DEF Settled, Durable, WriteOrder, OInv
<1>3. ASSUME NEW q \in Procs
      PROVE  Order(q)'
  BY <1>1, <1>2, SameOrder DEF OInv
<1> QED BY <1>2, <1>3 DEF OInv

LEMMA StepOrder ==
  ASSUME Invariant, OInv, NEW p \in Procs, Comes(p),
         \A x \in Pages : CCH_precedence(p, x) => Heeds(p, x)
  PROVE  OInv'
<1>1. IInv /\ Unwritten(p)
  BY DEF Invariant
<1>2. CASE Opening(p)
  BY <1>1, <1>2, OpensOrder DEF Opening
<1>3. CASE Preceding(p)
  BY <1>1, <1>3, PrecedenceOrder DEF Preceding
<1> QED BY <1>1, <1>2, <1>3, CalmKeeps, StutterOrder, BrokenOrder, MarkOrder, WritePageOrder,
           GoneOrder, SteadyKeeps, DowngradeWritesOrder, DowngradeFailsOrder DEF Comes

\* As long as check_precedence takes no page for one of higher precedence that is not, all
\* that dirty pages refer to is in the file, lost, or in pages to be written before them.
THEOREM OrderInvariance == Spec /\ NoOverlooked => []OInv
<1>1. Init => OInv
  BY InitOrder
<1>2. Invariant /\ OInv /\ [Next]_vars /\ [Heeding]_vars => OInv'
  <2> SUFFICES ASSUME Invariant, OInv, [Next]_vars, [Heeding]_vars
               PROVE  OInv'
    OBVIOUS
  <2>1. CASE UNCHANGED vars
    BY <2>1, StutterOrder DEF vars, Noticing
  <2>2. CASE Heeding /\ Next
    <3>1. PICK p \in Procs :
            Fetch(p) \/ Change(p) \/ Write(p) \/ Release(p) \/ Transaction(p) \/ Ast(p)
      BY <2>2 DEF Next
    <3> QED BY <2>2, <3>1, StepIs, StepOrder DEF Heeding
  <2> QED BY <2>1, <2>2
<1> QED BY <1>1, <1>2, Invariance, PTL DEF Spec, NoOverlooked

\* The file never has a page that refers to what is neither there nor lost, whatever
\* fails: check_precedence, write_buffer and down_grade write the higher pages first, as
\* long as check_precedence takes no page for one of higher precedence that is not.
THEOREM WritesInOrder == Spec /\ NoOverlooked => []WriteOrder
<1>1. OInv => WriteOrder
  BY DEF OInv
<1> QED BY <1>1, OrderInvariance, PTL

-----------------------------------------------------------------------------
(* When no page is overlooked: for two pages, and as long as no precedence *)
(* is entered under a page that was written meanwhile.                     *)

TwoPages == \E a, b : Pages \subseteq {a, b}

LEMMA TwoHeed ==
  ASSUME TwoPages, IInv, NEW p \in Procs, NEW x \in Pages, CCH_precedence(p, x)
  PROVE  Heeds(p, x)
<1>1. PICK g \in Pages : g = main[p].page /\ x # g
  BY PrecedenceDoes
<1>2. Pages \subseteq {x, g}
  BY <1>1 DEF TwoPages
<1> SUFFICES ASSUME Dirty(p, x), Over(p, x, g)
             PROVE  DirtyOver(p, x, g)
  BY <1>1 DEF Heeds
<1>3. PICK e \in pre[p] : ~e.cleared /\ e.hi = x /\ e.low # x
  <2>1. {x} \in SUBSET Pages
    OBVIOUS
  <2>2. g \notin {x}
    BY <1>1
  <2> QED BY <2>1, <2>2 DEF Over
<1>4. e.low = g
  BY <1>2, <1>3, Parts DEF Precedence
<1> QED BY <1>3, <1>4 DEF DirtyOver

\* Of two pages, none is overlooked: the one way from a page to the other is the
\* precedence of the two.
THEOREM TwoPagesHeed == ASSUME TwoPages PROVE Spec => NoOverlooked
<1>1. Invariant /\ [Next]_vars => [Heeding]_vars
  BY TwoHeed DEF Invariant, Heeding
<1> QED BY <1>1, Invariance, PTL DEF Spec, NoOverlooked

\* Two pages are always written in the order of what they refer to.
THEOREM TwoPagesWritten == ASSUME TwoPages PROVE Spec => []WriteOrder
BY TwoPagesHeed, WritesInOrder, PTL

\* Precedence that is not cleared is over a dirty page, or a call of down_grade is about
\* to clear it.
Fresh(p) ==
  \A e \in pre[p] : ~e.cleared => Dirty(p, e.hi) \/ Lowers(ast[p], e.hi, e.low)
FreshInv == \A p \in Procs : Fresh(p)

LEMMA FreshAlone ==
  ASSUME NEW p \in Procs, ast[p] = <<>>, Fresh(p)
  PROVE  \A e \in pre[p] : ~e.cleared => Dirty(p, e.hi)
<1>1. DOMAIN <<>> = {}
  OBVIOUS
<1> QED BY <1>1 DEF Fresh, Lowers

LEMMA FreshHeeds ==
  ASSUME IInv, FreshInv, NEW p \in Procs, NEW x \in Pages, CCH_precedence(p, x)
  PROVE  Heeds(p, x)
<1>1. PICK g \in Pages : g = main[p].page /\ ast[p] = <<>>
  BY PrecedenceDoes
<1>2. \A e \in pre[p] : ~e.cleared => Dirty(p, e.hi)
  BY <1>1, FreshAlone DEF FreshInv
<1> QED BY <1>1, <1>2 DEF Heeds, Over, DirtyOver

\* What keeps it: dirty pages stay dirty, calls stay, and no precedence is new.
LEMMA FreshKept ==
  ASSUME NEW p \in Procs, Fresh(p),
         \A e \in pre'[p] : ~e.cleared =>
           /\ e \in pre[p] /\ (Dirty(p, e.hi) => Dirty(p, e.hi)')
           /\ Lowers(ast[p], e.hi, e.low) => Lowers(ast'[p], e.hi, e.low)
  PROVE  Fresh(p)'
BY DEF Fresh

LEMMA FreshCalm ==
  ASSUME IInv, NEW p \in Procs, Fresh(p), Calm(p)
  PROVE  Fresh(p)' /\ Leaves(p)
<1>1. \A e \in pre[p] : e.hi \in Pages
  BY Parts DEF Precedence
<1>2. \A e \in pre'[p] : ~e.cleared => e \in pre[p] /\ (Dirty(p, e.hi) => Dirty(p, e.hi)')
  BY <1>1 DEF Calm
<1> QED BY <1>2, FreshKept DEF Calm

LEMMA FreshOpening ==
  ASSUME IInv, OInv, NEW p \in Procs, Fresh(p), Opening(p)
  PROVE  Fresh(p)' /\ Leaves(p)
<1>1. PICK g \in Pages, read \in BOOLEAN : Opens(p, g, read)
  BY DEF Opening
<1>2. Opened(p, g, read)
  BY <1>1, OpensDoes
<1>3. UNCHANGED <<pre, ast>>
  BY <1>1 DEF Opens
<1>4. \A h \in Pages : Dirty(p, h) => Dirty(p, h)'
  BY <1>2 DEF Opened, Dirty, Has
<1>5. \A e \in pre[p] : e.hi \in Pages
  BY Parts DEF Precedence
<1>6. Leaves(p)
  BY <1>2, <1>3 DEF Opened, Leaves
<1> QED BY <1>3, <1>4, <1>5, <1>6, FreshKept

LEMMA FreshPrecedence ==
  ASSUME IInv, NEW p \in Procs, Fresh(p), Preceding(p)
  PROVE  Fresh(p)' /\ Leaves(p)
<1>1. PICK x \in Pages : CCH_precedence(p, x)
  BY DEF Preceding
<1>2. PICK g \in Pages :
        /\ Precedes(p, g, x)
        /\ \A q \in Procs \ {p} : bdb'[q] = bdb[q] /\ main'[q] = main[q]
        /\ \A h \in Pages : /\ bdb'[p][h].img = bdb[p][h].img
                            /\ bdb'[p][h].flags = bdb[p][h].flags
  BY <1>1, PrecedenceDoes
<1>3. ast' = ast /\ \A h \in Pages : Dirty(p, h)' <=> Dirty(p, h)
  BY <1>1, <1>2 DEF CCH_precedence, Dirty, Has
<1>4. pre' = pre \/ (Dirty(p, x) /\ pre' = Inserted(p, x, g))
  BY <1>2 DEF Precedes
<1>5. /\ \A q \in Procs \ {p} : pre'[q] = pre[q]
      /\ \A e \in pre'[p] : ~e.cleared => e \in pre[p] \/ (e.hi = x /\ Dirty(p, x))
  BY <1>4, Parts DEF Inserted, TypeOK
<1>6. \A e \in pre[p] : e.hi \in Pages
  BY Parts DEF Precedence
<1>7. Fresh(p)'
  BY <1>3, <1>5, <1>6 DEF Fresh
<1> QED BY <1>2, <1>3, <1>5, <1>7 DEF Leaves

LEMMA FreshBroken ==
  ASSUME IInv, NEW p \in Procs, Fresh(p), CycleBroken(p), Dirty(p, main[p].hi)
  PROVE  Fresh(p)' /\ Leaves(p)
<1>1. PICK x : x = main[p].hi
  OBVIOUS
<1>2. ast' = ast /\ bdb' = bdb /\ \A h : Dirty(p, h)' <=> Dirty(p, h)
  BY DEF CycleBroken, Dirty, Has
<1>3. /\ \A q \in Procs \ {p} : pre'[q] = pre[q] /\ main'[q] = main[q]
      /\ \A e \in pre'[p] : ~e.cleared => e \in pre[p] \/ (e.hi = x /\ Dirty(p, x))
  BY <1>1, Parts DEF CycleBroken, Inserted, TypeOK
<1>4. Fresh(p)'
  BY <1>2, <1>3 DEF Fresh
<1> QED BY <1>2, <1>3, <1>4 DEF Leaves

LEMMA FreshMark ==
  ASSUME IInv, NEW p \in Procs, Fresh(p), CCH_mark(p)
  PROVE  Fresh(p)' /\ Leaves(p)
<1>1. PICK g \in Pages : Marks(p, g)
  BY MarkDoes
<1>2. UNCHANGED <<pre, ast>> /\ \A h \in Pages : Dirty(p, h) => Dirty(p, h)'
  BY <1>1 DEF Marks, Dirty, Has
<1>3. \A e \in pre[p] : e.hi \in Pages
  BY Parts DEF Precedence
<1> QED BY <1>1, <1>2, <1>3, FreshKept DEF Marks, Leaves

LEMMA FreshWrite ==
  ASSUME IInv, OInv, NEW p \in Procs, Fresh(p), write_page(p)
  PROVE  Fresh(p)' /\ Leaves(p)
<1>1. PICK g \in Pages : g = Top(p)
  BY WritingLatches DEF write_page, MayWrite
<1>2. PICK flags : flags = bdb[p][g].flags \ {"dirty", "changed"}
  OBVIOUS
<1>3. Runs(p, "write") /\ ast' = ast /\ ast[p] = <<>> /\ WriteReturns(p, flags)
  BY <1>1, <1>2 DEF write_page, MayWrite, Runs
<1>4. /\ \A q \in Procs \ {p} : bdb'[q] = bdb[q] /\ main'[q] = main[q] /\ pre'[q] = pre[q]
      /\ pre'[p] = pre[p] \ Below(p, g)
      /\ \A h \in Pages : bdb'[p][h].flags = IF h = g THEN flags ELSE bdb[p][h].flags
  BY <1>1, <1>3, Returned
<1>5. \A h \in Pages \ {g} : Dirty(p, h)' <=> Dirty(p, h)
  BY <1>4 DEF Dirty, Has
<1>6. \A e \in pre'[p] : e \in pre[p] /\ e.hi \in Pages \ {g}
  BY <1>4, Parts DEF Precedence, Below
<1> QED BY <1>3, <1>4, <1>5, <1>6, FreshKept DEF Leaves

LEMMA FreshSteady ==
  ASSUME IInv, NEW p \in Procs, Fresh(p), Steady(p)
  PROVE  Fresh(p)' /\ Leaves(p)
<1>1. \A e \in pre[p] : e.hi \in Pages
  BY Parts DEF Precedence
<1>2. \A e \in pre'[p] : ~e.cleared =>
        /\ e \in pre[p] /\ (Dirty(p, e.hi) => Dirty(p, e.hi)')
        /\ Lowers(ast[p], e.hi, e.low) => Lowers(ast'[p], e.hi, e.low)
  BY <1>1 DEF Steady
<1> QED BY <1>2, FreshKept DEF Steady

\* down_grade has written or given up its page, and goes on to those that wait for it.
LEMMA FreshLower ==
  ASSUME IInv, NEW p \in Procs, Fresh(p), DowngradeWrites(p) \/ DowngradeFails(p)
  PROVE  Fresh(p)' /\ Leaves(p)
<1>1. /\ ast[p] # <<>> /\ Call(p).at = "higher" /\ GoesLower(p) /\ main' = main
  BY DEF DowngradeWrites, DowngradeFails, At
<1>2. PICK g \in Pages, f \in Frame, t \in Seq(Frame) :
        /\ g = Call(p).page /\ t = Tail(ast[p]) /\ ast' = [ast EXCEPT ![p] = <<f>> \o t]
        /\ ast'[p] = <<f>> \o t /\ f.page = g /\ f.at = "lower"
        /\ f.todo = {e.low : e \in Below(p, g)}
  BY <1>1, LowerOf
<1>3. \E b : bdb' = [bdb EXCEPT ![p][g] = b]
  BY <1>2 DEF DowngradeWrites, DowngradeFails
<1>4. PICK b : bdb' = [bdb EXCEPT ![p][g] = b]
  BY <1>3
<1>5. \E E : pre' = [pre EXCEPT ![p] = E] /\ \A e \in E : ~e.cleared => e \in pre[p]
  <2>1. CASE DowngradeWrites(p)
    BY <2>1, Parts, Unmoved DEF DowngradeWrites
  <2>2. CASE DowngradeFails(p)
    <3> DEFINE skipped == {e \in Above(p, g) : e.hi \in Call(p).todo}
               E == Cleared(p, IF Call(p).invalid THEN skipped ELSE {})
    <3>1. pre' = [pre EXCEPT ![p] = E]
      BY <1>2, <2>2 DEF DowngradeFails
    <3>2. \A e \in E : ~e.cleared => e \in pre[p]
      BY Parts, LowerCleared
    <3> HIDE DEF E
    <3> QED BY <3>1, <3>2
  <2> QED BY <2>1, <2>2
<1>6. PICK E : pre' = [pre EXCEPT ![p] = E] /\ \A e \in E : ~e.cleared => e \in pre[p]
  BY <1>5
<1>7. /\ \A q \in Procs \ {p} : bdb'[q] = bdb[q] /\ ast'[q] = ast[q] /\ pre'[q] = pre[q]
      /\ \A h \in Pages \ {g} : bdb'[p][h] = bdb[p][h]
      /\ pre'[p] = E
  BY <1>2, <1>4, <1>6, Parts DEF TypeOK
<1>8. \A h \in Pages \ {g} : Dirty(p, h)' <=> Dirty(p, h)
  BY <1>7 DEF Dirty, Has
<1>9. \A h, x : Lowers(ast[p], h, x) => Lowers(ast'[p], h, x)
  <2>1. ast[p] \in Seq(Frame) /\ Head(ast[p]).at # "lower"
    BY <1>1, Parts DEF Call
  <2>2. \A h, x : Lowers(ast[p], h, x) => Lowers(t, h, x)
    BY <1>1, <1>2, <2>1, LowersPopped
  <2>3. t \in Seq(Frame) /\ f \in Frame /\ ast'[p] = <<f>> \o t
    BY <1>2
  <2> QED BY <2>2, <2>3, LowersPushed
<1>10. \A x \in f.todo : Lowers(ast'[p], g, x)
  <2>1. t \in Seq(Frame) /\ f \in Frame /\ ast'[p] = <<f>> \o t /\ f.page = g /\ f.at = "lower"
    BY <1>2
  <2> QED BY <2>1, LowersPushed
<1>11. \A e \in pre[p] : e.hi \in Pages /\ (e.hi = g => e.low \in f.todo)
  BY <1>2, Parts DEF Precedence, Below
<1>12. Fresh(p)'
  <2> SUFFICES ASSUME NEW e \in pre'[p], ~e.cleared
               PROVE  Dirty(p, e.hi)' \/ Lowers(ast'[p], e.hi, e.low)
    BY DEF Fresh
  <2>1. e \in pre[p] /\ (Dirty(p, e.hi) \/ Lowers(ast[p], e.hi, e.low))
    BY <1>6, <1>7 DEF Fresh
  <2> QED BY <1>8, <1>9, <1>10, <1>11, <2>1
<1> QED BY <1>1, <1>7, <1>12 DEF Leaves

LEMMA FreshGone ==
  ASSUME IInv, NEW p \in Procs, Gone(p)
  PROVE  Fresh(p)' /\ Leaves(p)
<1>1. /\ \A q \in Procs \ {p} : /\ bdb'[q] = bdb[q] /\ pre'[q] = pre[q]
                                /\ main'[q] = main[q] /\ ast'[q] = ast[q]
      /\ pre'[p] = {}
  BY Parts DEF Gone, TypeOK
<1> QED BY <1>1 DEF Fresh, Leaves

LEMMA FreshStep ==
  ASSUME IInv, OInv, FreshInv, NEW p \in Procs, Comes(p),
         CycleBroken(p) => Dirty(p, main[p].hi)
  PROVE  FreshInv'
<1>1. CASE Noticing
  <2>1. UNCHANGED <<bdb, pre, ast>>
    BY <1>1 DEF Noticing
  <2> QED BY <2>1 DEF FreshInv, Fresh, Dirty, Has
<1>2. CASE ~Noticing
  <2>1. Fresh(p)
    BY DEF FreshInv
  <2>2. Fresh(p)' /\ Leaves(p)
    BY <1>2, <2>1, FreshCalm, FreshOpening, FreshPrecedence, FreshBroken, FreshMark, FreshWrite,
       FreshGone, FreshSteady, FreshLower DEF Comes
  <2>3. ASSUME NEW q \in Procs, q # p
        PROVE  Fresh(q)'
    <3>1. bdb'[q] = bdb[q] /\ pre'[q] = pre[q] /\ ast'[q] = ast[q]
      BY <2>2, <2>3 DEF Leaves
    <3>2. Fresh(q)
      BY DEF FreshInv
    <3> QED BY <3>1, <3>2 DEF Fresh, Dirty, Has
  <2> QED BY <2>2, <2>3 DEF FreshInv
<1> QED BY <1>1, <1>2

\* check_precedence overlooks a page only after it has entered a precedence under a page
\* that was written while it broke a cycle: what it did not look for again.
THEOREM OnlyStaleInserts == Spec /\ NoStaleInsert => NoOverlooked
<1>1. Init => OInv /\ FreshInv
  BY InitOrder DEF Init, FreshInv, Fresh
<1>2. Invariant /\ FreshInv /\ [Next]_vars => [Heeding]_vars
  BY FreshHeeds DEF Invariant, Heeding
<1>3. Invariant /\ OInv /\ FreshInv /\ [Next]_vars /\ [Entering]_vars => OInv' /\ FreshInv'
  <2> SUFFICES ASSUME Invariant, OInv, FreshInv, [Next]_vars, [Entering]_vars
               PROVE  OInv' /\ FreshInv'
    OBVIOUS
  <2>1. CASE UNCHANGED vars
    <3>1. UNCHANGED <<bdb, pre, ast>>
      BY <2>1 DEF vars
    <3>2. FreshInv'
      BY <3>1 DEF FreshInv, Fresh, Dirty, Has
    <3> QED BY <2>1, <3>2, StutterOrder DEF vars, Noticing
  <2>2. CASE Entering /\ Next
    <3>1. PICK p \in Procs :
            Fetch(p) \/ Change(p) \/ Write(p) \/ Release(p) \/ Transaction(p) \/ Ast(p)
      BY <2>2 DEF Next
    <3>2. IInv /\ Comes(p) /\ (CycleBroken(p) => Dirty(p, main[p].hi))
      BY <2>2, <3>1, StepIs DEF Invariant, Entering
    <3>3. \A x \in Pages : CCH_precedence(p, x) => Heeds(p, x)
      BY <3>2, FreshHeeds
    <3> QED BY <3>2, <3>3, StepOrder, FreshStep
  <2> QED BY <2>1, <2>2
<1>4. Spec /\ NoStaleInsert => [](OInv /\ FreshInv)
  BY <1>1, <1>3, Invariance, PTL DEF Spec, NoStaleInsert
<1> QED BY <1>2, <1>4, Invariance, PTL DEF Spec, NoOverlooked

-----------------------------------------------------------------------------
(* The current images.                                                     *)

\* What the invariant says of the current image of a page, wherever it is.
CurrentIs(g) ==
  /\ Current(g) \in Image /\ disk[g] \in Image /\ Current(g).has \subseteq Past
  /\ disk[g].has \subseteq Current(g).has
  /\ \A p \in Procs : /\ Dirty(p, g) => Current(g) = bdb[p][g].img
                      /\ bdb[p][g].img.has \subseteq Current(g).has
  /\ (\A p \in Procs : ~Dirty(p, g)) => Current(g) = disk[g]
  /\ \A p, q \in Procs : Dirty(p, g) /\ Dirty(q, g) => p = q
  /\ \A p \in Procs : InWindow(p) /\ main[p].page = g =>
       bdb[p][g].img = Current(g) /\ \A q \in Procs \ {p} : ~Dirty(q, g)
Currently == \A g \in Pages : CurrentIs(g)

LEMMA CurrentIsSo == IInv => Currently
<1> SUFFICES ASSUME IInv, NEW g \in Pages
             PROVE  CurrentIs(g)
  BY DEF Currently
<1>1. TypeOK /\ Caching /\ History /\ \A p \in Procs : WindowOf(p)
  BY DEF IInv, Control, Own
<1>2. ASSUME NEW p \in Procs, NEW q \in Procs, Dirty(p, g), Dirty(q, g)
      PROVE  p = q
  BY <1>1, <1>2, DirtyAlone
<1>3. ASSUME NEW p \in Procs, Dirty(p, g)
      PROVE  Current(g) = bdb[p][g].img
  <2>1. PICK q \in Procs : q = (CHOOSE r \in Procs : Dirty(r, g)) /\ Dirty(q, g)
    BY <1>3
  <2> QED BY <1>2, <1>3, <2>1 DEF Current
<1>4. (\A p \in Procs : ~Dirty(p, g)) => Current(g) = disk[g]
  BY DEF Current
<1>5. /\ disk[g] \in Image /\ \A p \in Procs : bdb[p][g].img \in Image
      /\ disk[g].has \subseteq Past /\ \A p \in Procs : bdb[p][g].img.has \subseteq Past
  BY <1>1 DEF TypeOK, Buffer, History, NumbersFit
<1>6. ASSUME NEW p \in Procs
      PROVE  /\ Dirty(p, g) => disk[g].has \subseteq bdb[p][g].img.has
             /\ ~Dirty(p, g) => bdb[p][g].img.has \subseteq disk[g].has
             /\ ~Dirty(p, g) /\ lck[p][g] # LCK_none => bdb[p][g].img = disk[g]
  BY <1>1 DEF Caching, ImagesFit, Blank
<1>7. Current(g) \in Image /\ Current(g).has \subseteq Past /\ disk[g].has \subseteq Current(g).has
  BY <1>3, <1>4, <1>5, <1>6
<1>8. ASSUME NEW p \in Procs
      PROVE  bdb[p][g].img.has \subseteq Current(g).has
  BY <1>3, <1>6, <1>7
<1>9. ASSUME NEW p \in Procs, InWindow(p), main[p].page = g
      PROVE  bdb[p][g].img = Current(g) /\ \A q \in Procs \ {p} : ~Dirty(q, g)
  <2>1. lck[p][g] # LCK_none
    BY <1>1, <1>9 DEF WindowOf
  <2>2. \A q \in Procs \ {p} : ~Dirty(q, g)
    BY <1>1, <2>1, DirtyAlone
  <2> QED BY <1>3, <1>4, <1>6, <2>1, <2>2
<1> QED BY <1>2, <1>3, <1>4, <1>5, <1>7, <1>8, <1>9 DEF CurrentIs

LEMMA CurrentIsSoNext == IInv' => Currently'
BY CurrentIsSo, PTL

\* The current image of a page stays, unless process p of the step changes it.
LEMMA CurrentStays ==
  ASSUME Currently, Currently', NEW p \in Procs, Leaves(p), NEW g \in Pages,
         disk'[g] = disk[g], Dirty(p, g)' <=> Dirty(p, g),
         Dirty(p, g) => bdb'[p][g].img = bdb[p][g].img
  PROVE  Current(g)' = Current(g)
<1>1. CurrentIs(g) /\ CurrentIs(g)'
  BY DEF Currently
<1>2. \A q \in Procs \ {p} : bdb'[q] = bdb[q] /\ (Dirty(q, g)' <=> Dirty(q, g))
  BY DEF Leaves, Dirty, Has
<1>3. \A q \in Procs : /\ Dirty(q, g)' <=> Dirty(q, g)
                       /\ Dirty(q, g) => bdb'[q][g].img = bdb[q][g].img
  BY <1>2
<1>4. CASE \E q \in Procs : Dirty(q, g)
  BY <1>1, <1>3, <1>4 DEF CurrentIs
<1>5. CASE \A q \in Procs : ~Dirty(q, g)
  BY <1>1, <1>3, <1>5 DEF CurrentIs
<1> QED BY <1>4, <1>5

\* It is that of the file when nobody has the page dirty.
LEMMA CurrentClean ==
  ASSUME Currently, Currently', NEW p \in Procs, Leaves(p), NEW g \in Pages,
         Dirty(p, g), ~Dirty(p, g)'
  PROVE  Current(g)' = disk'[g]
<1>1. CurrentIs(g) /\ CurrentIs(g)'
  BY DEF Currently
<1>2. \A q \in Procs \ {p} : ~Dirty(q, g) /\ (Dirty(q, g)' <=> Dirty(q, g))
  BY <1>1 DEF Leaves, CurrentIs, Dirty, Has
<1>3. \A q \in Procs : ~Dirty(q, g)'
  BY <1>2
<1> QED BY <1>1, <1>3 DEF CurrentIs

\* An image refers to updates of other pages, that were made and are not lost while they
\* are current.
Separate == \A g, h \in Pages : g # h => Current(g).has \cap Current(h).has = {}
Outward(img) == img.needs \cap img.has = {} /\ img.needs \subseteq Past
ImageFits(g) == Outward(Current(g)) /\ Outward(disk[g]) /\ lost \cap Current(g).has = {}
WindowFits(p) ==
  /\ main[p].needs \subseteq Past
  /\ \A g \in Pages : main[p].page = g => main[p].needs \cap Current(g).has = {}
CInv ==
  /\ Separate /\ (\A g \in Pages : ImageFits(g)) /\ (\A p \in Procs : WindowFits(p))

\* What process p may do to what its window shows and waits for.
Refers(p) ==
  \/ main'[p].needs = {}
  \/ /\ main'[p].page = main[p].page
     /\ \/ main'[p].needs \subseteq main[p].needs
        \/ \E x \in Pages \ {main[p].page} :
             main'[p].needs \subseteq main[p].needs \cup Current(x).has

\* What the steps are for the images: nothing, or one of the steps of CarefulWrite.
Rest == \A h \in Pages : Current(h)' = Current(h)
Keeps(p) == Rest /\ disk' = disk /\ lost' = lost /\ Refers(p)
Adds(p, g, u) ==
  /\ \A h \in Pages \ {g} : Current(h)' = Current(h)
  /\ \E needs \in SUBSET Updates, old \in {Current(g).needs, {}} :
       /\ Current(g)' = [has |-> Current(g).has \cup {u}, needs |-> old \cup needs]
       /\ \/ needs \subseteq main[p].needs /\ main[p].page = g /\ u \notin Past
          \/ needs = {} /\ old = {}
  /\ u \in Updates /\ u \notin lost /\ \A h \in Pages : u \notin Current(h).has
  /\ u \in Past' /\ Dirty(p, g)' /\ main'[p].needs = {} /\ disk' = disk /\ lost' = lost
Writes(p, g) ==
  /\ Rest /\ disk' = [disk EXCEPT ![g] = Current(g)] /\ lost' = lost /\ Refers(p)
  /\ Current(g).needs \subseteq Settled \cup Current(g).has
Loses(p, G) ==
  /\ \A h \in Pages : Current(h)' = IF h \in G THEN disk[h] ELSE Current(h)
  /\ disk' = disk /\ Refers(p)
  /\ \A u \in lost' : u \in lost \/ \E g \in G : u \in Current(g).has \ disk[g].has

\* The window of process p shows what it did, or no other page's updates that are its own.
LEMMA WindowStays ==
  ASSUME Currently, CInv, NEW p \in Procs, Refers(p), Past \subseteq Past',
         \A h \in Pages : Current(h)'.has \subseteq Current(h).has
  PROVE  WindowFits(p)'
<1>1. WindowFits(p) /\ Separate
  BY DEF CInv
<1>2. main'[p].needs \subseteq Past'
  BY <1>1 DEF Refers, WindowFits, Currently, CurrentIs
<1>3. ASSUME NEW g \in Pages, main'[p].page = g, main'[p].needs # {}
      PROVE  main'[p].needs \cap Current(g).has = {}
  <2>1. main[p].page = g /\ main[p].needs \cap Current(g).has = {}
    BY <1>1, <1>3 DEF Refers, WindowFits
  <2>2. \A x \in Pages \ {g} : Current(x).has \cap Current(g).has = {}
    BY <1>1 DEF Separate
  <2> QED BY <1>3, <2>1, <2>2 DEF Refers
<1>4. ASSUME NEW g \in Pages, main'[p].page = g
      PROVE  main'[p].needs \cap Current(g)'.has = {}
  BY <1>3, <1>4
<1> QED BY <1>2, <1>4 DEF WindowFits

LEMMA OthersStay ==
  ASSUME CInv, NEW p \in Procs, Leaves(p), Past \subseteq Past',
         \A h \in Pages : Current(h)'.has \subseteq Current(h).has
  PROVE  \A q \in Procs \ {p} : WindowFits(q)'
<1> SUFFICES ASSUME NEW q \in Procs \ {p}
             PROVE  WindowFits(q)'
  OBVIOUS
<1>1. WindowFits(q) /\ main'[q] = main[q]
  BY DEF CInv, Leaves
<1> QED BY <1>1 DEF WindowFits

LEMMA KeepsImages ==
  ASSUME Currently, CInv, NEW p \in Procs, Leaves(p), Past \subseteq Past', Keeps(p)
  PROVE  CInv'
<1>1. disk' = disk /\ lost' = lost /\ \A h \in Pages : Current(h)' = Current(h)
  BY DEF Keeps, Rest
<1>2. Separate'
  BY <1>1 DEF CInv, Separate
<1>3. \A g \in Pages : ImageFits(g)'
  BY <1>1 DEF CInv, ImageFits, Outward
<1>4. WindowFits(p)' /\ \A q \in Procs \ {p} : WindowFits(q)'
  BY <1>1, WindowStays, OthersStay DEF Keeps
<1> QED BY <1>2, <1>3, <1>4 DEF CInv

LEMMA WritesImages ==
  ASSUME IInv, Currently, CInv, NEW p \in Procs, Leaves(p), Past \subseteq Past',
         NEW g \in Pages, Writes(p, g)
  PROVE  CInv'
<1>1. /\ lost' = lost /\ \A h \in Pages : Current(h)' = Current(h)
      /\ \A h \in Pages : disk'[h] = IF h = g THEN Current(g) ELSE disk[h]
  BY Parts DEF Writes, Rest, TypeOK, IInv, Control
<1>2. Separate'
  BY <1>1 DEF CInv, Separate
<1>3. \A h \in Pages : ImageFits(h)'
  BY <1>1 DEF CInv, ImageFits, Outward
<1>4. WindowFits(p)' /\ \A q \in Procs \ {p} : WindowFits(q)'
  BY <1>1, WindowStays, OthersStay DEF Writes
<1> QED BY <1>2, <1>3, <1>4 DEF CInv

LEMMA LosesImages ==
  ASSUME Currently, CInv, NEW p \in Procs, Leaves(p), Past \subseteq Past',
         NEW G \in SUBSET Pages, Loses(p, G)
  PROVE  CInv'
<1>1. /\ disk' = disk /\ Refers(p)
      /\ \A h \in Pages : Current(h)' = IF h \in G THEN disk[h] ELSE Current(h)
      /\ \A u \in lost' : u \in lost \/ \E g \in G : u \in Current(g).has \ disk[g].has
  BY DEF Loses
<1>2. \A h \in Pages : disk[h].has \subseteq Current(h).has
  BY DEF Currently, CurrentIs
<1>3. \A h \in Pages : Current(h)'.has \subseteq Current(h).has
  BY <1>1, <1>2
<1>4. Separate'
  BY <1>3 DEF CInv, Separate
<1>5. ASSUME NEW h \in Pages
      PROVE  ImageFits(h)'
  <2>1. ImageFits(h) /\ Separate
    BY DEF CInv
  <2>2. Outward(Current(h))' /\ Outward(disk[h])'
    BY <1>1, <2>1 DEF ImageFits, Outward
  <2>3. ASSUME NEW u \in lost', u \in Current(h)'.has
        PROVE  FALSE
    <3>1. u \notin lost
      BY <1>3, <2>1, <2>3 DEF ImageFits
    <3>2. PICK g \in G : u \in Current(g).has \ disk[g].has
      BY <1>1, <2>3, <3>1
    <3>3. g = h
      BY <1>3, <2>1, <2>3, <3>2 DEF Separate
    <3> QED BY <1>1, <2>3, <3>2, <3>3
  <2> QED BY <2>2, <2>3 DEF ImageFits
<1>6. WindowFits(p)' /\ \A q \in Procs \ {p} : WindowFits(q)'
  BY <1>1, <1>3, WindowStays, OthersStay
<1> QED BY <1>4, <1>5, <1>6 DEF CInv

LEMMA AddsImages ==
  ASSUME OInv, Currently, Currently', CInv, NEW p \in Procs, Leaves(p), Past \subseteq Past',
         NEW g \in Pages, NEW u, Adds(p, g, u)
  PROVE  CInv'
<1>1. /\ \A h \in Pages \ {g} : Current(h)' = Current(h)
      /\ u \notin lost /\ \A h \in Pages : u \notin Current(h).has
      /\ u \in Past' /\ Dirty(p, g)' /\ main'[p].needs = {} /\ disk' = disk /\ lost' = lost
  BY DEF Adds
<1>2. PICK needs \in SUBSET Updates, old \in {Current(g).needs, {}} :
        /\ Current(g)' = [has |-> Current(g).has \cup {u}, needs |-> old \cup needs]
        /\ \/ needs \subseteq main[p].needs /\ main[p].page = g /\ u \notin Past
           \/ needs = {} /\ old = {}
  BY DEF Adds
<1>3. /\ Current(g)'.has = Current(g).has \cup {u}
      /\ Current(g)'.needs = old \cup needs
  BY <1>2
<1>4. Separate'
  BY <1>1, <1>3 DEF CInv, Separate
<1>5. Outward(Current(g))'
  <2>1. CASE needs \subseteq main[p].needs /\ main[p].page = g /\ u \notin Past
    BY <1>2, <1>3, <1>1, <2>1 DEF CInv, WindowFits, ImageFits, Outward
  <2>2. CASE needs = {} /\ old = {}
    BY <1>3, <2>2 DEF Outward
  <2> QED BY <1>2, <2>1, <2>2
<1>6. ASSUME NEW h \in Pages
      PROVE  ImageFits(h)'
  <2>1. ImageFits(h)
    BY DEF CInv
  <2>2. CASE h = g
    BY <1>1, <1>3, <1>5, <2>1, <2>2 DEF ImageFits, Outward
  <2>3. CASE h # g
    BY <1>1, <2>1, <2>3 DEF ImageFits, Outward
  <2> QED BY <2>2, <2>3
<1>7. WindowFits(p)'
  BY <1>1 DEF WindowFits
<1>8. ASSUME NEW q \in Procs \ {p}
      PROVE  WindowFits(q)'
  <2>1. WindowFits(q) /\ main'[q] = main[q] /\ NeedsFit(q)
    BY DEF CInv, Leaves, OInv, Order
  <2>2. ASSUME main[q].page = g, main[q].needs # {}
        PROVE  FALSE
    <3>1. InWindow(q)' /\ main'[q].page = g
      BY <2>1, <2>2 DEF NeedsFit, InWindow
    <3>2. ~Dirty(p, g)'
      BY <3>1 DEF Currently, CurrentIs
    <3> QED BY <1>1, <3>2
  <2>3. \A h \in Pages : main[q].page = h => main[q].needs \cap Current(h)'.has = {}
    BY <1>1, <2>1, <2>2 DEF WindowFits
  <2> QED BY <2>1, <2>3 DEF WindowFits
<1> QED BY <1>4, <1>6, <1>7, <1>8 DEF CInv

-----------------------------------------------------------------------------
(* They are steps of CarefulWrite.                                         *)

Store == [g \in Pages |-> Current(g)]

LEMMA KeepsImplement ==
  ASSUME NEW p \in Procs, Keeps(p)
  PROVE  UNCHANGED <<Store, disk>>
<1>1. \A h \in Pages : Current(h)' = Current(h)
  BY DEF Keeps, Rest
<1> QED BY <1>1 DEF Keeps, Store

LEMMA AddsImplement ==
  ASSUME NEW p \in Procs, NEW g \in Pages, NEW u, Adds(p, g, u)
  PROVE  Wholes!Next
<1>1. u \in Updates \ Wholes!Known /\ disk' = disk
  BY DEF Adds, Wholes!Known
<1>2. PICK needs \in SUBSET Updates, old \in {Current(g).needs, {}} :
        Current(g)' = [has |-> Current(g).has \cup {u}, needs |-> old \cup needs]
  BY DEF Adds
<1>3. \A h \in Pages \ {g} : Current(h)' = Current(h)
  BY DEF Adds
<1>4. Store' = [Store EXCEPT ![g] = [has |-> @.has \cup {u}, needs |-> old \cup needs]]
  BY <1>2, <1>3 DEF Store
<1>5. Wholes!Update(g, u)
  BY <1>1, <1>2, <1>4 DEF Wholes!Update, Store
<1> QED BY <1>1, <1>5 DEF Wholes!Next

LEMMA WritesImplement ==
  ASSUME CInv, NEW p \in Procs, NEW g \in Pages, Writes(p, g)
  PROVE  Wholes!Next
<1>1. UNCHANGED Store
  BY DEF Writes, Rest, Store
<1>2. disk' = [disk EXCEPT ![g] = Current(g)]
  BY DEF Writes
<1>3. Current(g).needs \cap Wholes!Known \subseteq Wholes!Durable
  <2>1. Current(g).needs \subseteq Durable \cup lost \cup Current(g).has
    BY DEF Writes, Settled
  <2>2. Current(g).needs \cap Current(g).has = {} /\ \A h \in Pages : lost \cap Current(h).has = {}
    BY DEF CInv, ImageFits, Outward
  <2> QED BY <2>1, <2>2 DEF Wholes!Known, Wholes!Durable, Durable
<1>4. Wholes!Write(g)
  BY <1>1, <1>2, <1>3 DEF Wholes!Write, Store
<1> QED BY <1>4 DEF Wholes!Next

LEMMA LosesImplement ==
  ASSUME NEW p \in Procs, NEW G \in SUBSET Pages, Loses(p, G)
  PROVE  Wholes!Next
<1>1. Store' = [g \in Pages |-> IF g \in G THEN disk[g] ELSE Store[g]] /\ disk' = disk
  BY DEF Loses, Store
<1>2. Wholes!Lose(G)
  BY <1>1 DEF Wholes!Lose, Store
<1> QED BY <1>2 DEF Wholes!Next

-----------------------------------------------------------------------------
(* What each step does to the current images.                              *)

Does(p) ==
  /\ Leaves(p)
  /\ \/ Keeps(p)
     \/ \E g \in Pages : Writes(p, g) \/ \E u \in Updates : Adds(p, g, u)
     \/ \E G \in SUBSET Pages : Loses(p, G)

LEMMA PastGrows ==
  ASSUME IInv, NEW p \in Procs,
         Fetch(p) \/ Change(p) \/ Write(p) \/ Release(p) \/ Transaction(p) \/ Ast(p)
  PROVE  Past \subseteq Past'
<1>1. clock \in Nat
  BY Parts, Numbers
<1>2. clock' = clock \/ clock' = clock + 1
  <2>1. CASE Fetch(p)
    BY <2>1 DEF Fetch, CCH_fetch, CCH_fake, FakeWritten, lock_buffer, NoticeRepeated, LockGranted
  <2>2. CASE Change(p)
    BY <2>2 DEF Change, CCH_precedence, CycleBroken, CCH_mark
  <2>3. CASE Write(p)
    BY <2>3 DEF Write, WriteFindsClean, PrecedenceDropped, WritesHigher, write_page, WriteFails,
       Gone, CCH_unwind
  <2>4. CASE Release(p)
    BY <2>4 DEF Release, CCH_release, BufferReused, get_buffer
  <2>5. CASE Transaction(p)
    BY <2>5 DEF Transaction, TRA_commit, btc_flush, Committed, TRA_rollback
  <2>6. CASE Ast(p)
    BY <2>6 DEF Ast, blocking_ast_bdb, DowngradesHigher, HigherDone, DowngradeDeferred,
       DowngradeWrites, DowngradeFails, DowngradesLower, LowerDone
  <2> QED BY <2>1, <2>2, <2>3, <2>4, <2>5, <2>6
<1> QED BY <1>1, <1>2 DEF Past

\* An update that is not yet used is new to every page.
LEMMA NowhereYet ==
  ASSUME Currently, NEW u, Unseen(u)
  PROVE  u \notin lost /\ \A h \in Pages : u \notin Current(h).has
<1> SUFFICES ASSUME NEW h \in Pages
             PROVE  u \notin Current(h).has
  BY DEF Unseen
<1>1. CurrentIs(h)
  BY DEF Currently
<1>2. CASE \E q \in Procs : Dirty(q, h)
  BY <1>1, <1>2 DEF CurrentIs, Unseen
<1>3. CASE \A q \in Procs : ~Dirty(q, h)
  BY <1>1, <1>3 DEF CurrentIs, Unseen
<1> QED BY <1>2, <1>3

LEMMA NeedsRefer ==
  ASSUME NEW p \in Procs, NeedsKept(p)
  PROVE  Refers(p)
BY DEF NeedsKept, Refers

LEMMA CalmDoes ==
  ASSUME Currently, Currently', NEW p \in Procs, Calm(p)
  PROVE  Does(p)
<1>1. Leaves(p) /\ UNCHANGED <<disk, lost>> /\ NeedsKept(p)
  BY DEF Calm
<1>2. ASSUME NEW h \in Pages
      PROVE  Current(h)' = Current(h)
  BY <1>1, CurrentStays DEF Calm
<1>3. Refers(p)
  BY <1>1, NeedsRefer
<1> QED BY <1>1, <1>2, <1>3 DEF Does, Keeps, Rest

LEMMA SteadyDoes ==
  ASSUME Currently, Currently', NEW p \in Procs, Steady(p)
  PROVE  Does(p)
<1>1. Leaves(p) /\ UNCHANGED <<disk, lost>> /\ main'[p] = main[p]
  BY DEF Steady
<1>2. ASSUME NEW h \in Pages
      PROVE  Current(h)' = Current(h)
  BY <1>1, CurrentStays DEF Steady
<1>3. Refers(p)
  BY <1>1 DEF Refers
<1> QED BY <1>1, <1>2, <1>3 DEF Does, Keeps, Rest

LEMMA NoticingDoes ==
  ASSUME Currently, Currently', NEW p \in Procs, Noticing
  PROVE  Does(p)
<1>1. Leaves(p) /\ UNCHANGED <<disk, bdb, lost>> /\ main'[p] = main[p]
  BY DEF Noticing, Leaves
<1>2. ASSUME NEW h \in Pages
      PROVE  Current(h)' = Current(h)
  <2>1. Dirty(p, h)' <=> Dirty(p, h)
    BY <1>1 DEF Dirty, Has
  <2> QED BY <1>1, <2>1, CurrentStays
<1>3. Refers(p)
  BY <1>1 DEF Refers
<1> QED BY <1>1, <1>2, <1>3 DEF Does, Keeps, Rest

LEMMA BrokenDoes ==
  ASSUME IInv, Currently, Currently', NEW p \in Procs, CycleBroken(p)
  PROVE  Does(p)
<1>1. UNCHANGED <<disk, bdb, ast, lost>>
  BY DEF CycleBroken
<1>2. /\ \A q \in Procs \ {p} : main'[q] = main[q] /\ pre'[q] = pre[q]
      /\ main'[p].page = main[p].page /\ main'[p].needs = main[p].needs
  BY Parts DEF CycleBroken, Inserted, TypeOK, MainLine
<1>3. Leaves(p)
  BY <1>1, <1>2 DEF Leaves
<1>4. ASSUME NEW h \in Pages
      PROVE  Current(h)' = Current(h)
  <2>1. Dirty(p, h)' <=> Dirty(p, h)
    BY <1>1 DEF Dirty, Has
  <2> QED BY <1>1, <1>3, <2>1, CurrentStays
<1>5. Refers(p)
  BY <1>2 DEF Refers
<1> QED BY <1>1, <1>3, <1>4, <1>5 DEF Does, Keeps, Rest

LEMMA PrecedingDoes ==
  ASSUME IInv, Currently, Currently', NEW p \in Procs, Preceding(p)
  PROVE  Does(p)
<1>1. PICK x \in Pages : CCH_precedence(p, x)
  BY DEF Preceding
<1>2. PICK g \in Pages :
        /\ g = main[p].page /\ x # g /\ Precedes(p, g, x)
        /\ \A q \in Procs \ {p} : bdb'[q] = bdb[q] /\ main'[q] = main[q]
        /\ main'[p].page = g /\ main'[p].needs = main[p].needs \cup bdb[p][x].img.has
        /\ \A h \in Pages : /\ bdb'[p][h].img = bdb[p][h].img
                            /\ bdb'[p][h].flags = bdb[p][h].flags
  BY <1>1, PrecedenceDoes
<1>3. UNCHANGED <<disk, ast, lost>> /\ \A h \in Pages : Dirty(p, h)' <=> Dirty(p, h)
  BY <1>1, <1>2 DEF CCH_precedence, Dirty, Has
<1>4. \A q \in Procs \ {p} : pre'[q] = pre[q]
  BY <1>2, Parts DEF Precedes, Inserted, TypeOK
<1>5. Leaves(p)
  BY <1>2, <1>3, <1>4 DEF Leaves
<1>6. ASSUME NEW h \in Pages
      PROVE  Current(h)' = Current(h)
  BY <1>2, <1>3, <1>5, CurrentStays
<1>7. Refers(p)
  <2>1. bdb[p][x].img.has \subseteq Current(x).has
    BY DEF Currently, CurrentIs
  <2>2. x \in Pages \ {main[p].page}
    BY <1>2
  <2>3. main'[p].needs \subseteq main[p].needs \cup Current(x).has
    BY <1>2, <2>1
  <2> QED BY <1>2, <2>2, <2>3 DEF Refers
<1> QED BY <1>3, <1>5, <1>6, <1>7 DEF Does, Keeps, Rest

\* A page allocated anew is nobody's, so that its current image is that of the file.
LEMMA FakingDoes ==
  ASSUME IInv, Currently, Currently', NEW p \in Procs, NEW g \in Pages, NEW read \in BOOLEAN,
         Opens(p, g, read), Opened(p, g, read), Leaves(p), Has(p, g, "faked"),
         Past \subseteq Past'
  PROVE  Does(p)
<1>1. PICK u : u = main[p].number
  OBVIOUS
<1>2. /\ g = main[p].page /\ main[p].pc \in {"lock", "waiting"} /\ UNCHANGED <<disk, lost>>
  BY DEF Opens
<1>3. u # 0 /\ u \in Past /\ Unseen(u)
  BY <1>1, <1>2, Parts DEF CleanOf, History, NumbersFit
<1>4. u \in Updates
  BY <1>3, Parts, Numbers, ConstantAssumption DEF Past, Updates, TypeOK
<1>5. /\ bdb'[p][g].flags = bdb[p][g].flags \cup MarkFlags
      /\ bdb'[p][g].img = [has |-> disk[g].has \cup {u}, needs |-> {}]
      /\ main'[p].needs = {} /\ ~Dirty(p, g) /\ \A h \in Pages \ {g} : bdb'[p][h] = bdb[p][h]
  BY <1>1 DEF Opened
<1>6. Dirty(p, g)' /\ \A h \in Pages \ {g} : Dirty(p, h)' <=> Dirty(p, h)
  BY <1>5 DEF Dirty, Has, MarkFlags
<1>7. CurrentIs(g) /\ CurrentIs(g)'
  BY DEF Currently
<1>8. Current(g) = disk[g]
  <2>1. \A q \in Procs \ {p} : ~Dirty(q, g)
    BY <1>6, <1>7 DEF CurrentIs, Leaves, Dirty, Has
  <2> QED BY <1>5, <1>7, <2>1 DEF CurrentIs
<1>9. Current(g)' = [has |-> Current(g).has \cup {u}, needs |-> {}]
  BY <1>5, <1>6, <1>7, <1>8 DEF CurrentIs
<1>10. ASSUME NEW h \in Pages \ {g}
       PROVE  Current(h)' = Current(h)
  BY <1>2, <1>5, <1>6, CurrentStays
<1>11. u \notin lost /\ \A h \in Pages : u \notin Current(h).has
  BY <1>3, NowhereYet
<1>12. u \in Past'
  BY <1>3
<1>13. Adds(p, g, u)
  <2>1. {} \in SUBSET Updates /\ {} \in {Current(g).needs, {}}
    OBVIOUS
  <2>2. Current(g)' = [has |-> Current(g).has \cup {u}, needs |-> {} \cup {}]
    BY <1>9
  <2> QED BY <1>2, <1>4, <1>5, <1>6, <1>10, <1>11, <1>12, <2>1, <2>2 DEF Adds
<1> QED BY <1>4, <1>13 DEF Does

LEMMA OpeningDoes ==
  ASSUME IInv, OInv, Currently, Currently', NEW p \in Procs, Opening(p), Past \subseteq Past'
  PROVE  Does(p)
<1>1. PICK g \in Pages, read \in BOOLEAN : Opens(p, g, read)
  BY DEF Opening
<1>2. Opened(p, g, read)
  BY <1>1, OpensDoes
<1>3. UNCHANGED <<disk, pre, ast, lost>> /\ (read => ~Dirty(p, g))
  BY <1>1 DEF Opens
<1>4. Leaves(p)
  BY <1>2, <1>3 DEF Opened, Leaves
<1>5. CASE Has(p, g, "faked")
  BY <1>1, <1>2, <1>4, <1>5, FakingDoes
<1>6. CASE ~Has(p, g, "faked")
  <2>1. /\ \/ read /\ bdb'[p][g].flags = bdb[p][g].flags \ {"not_valid"}
           \/ bdb'[p][g] = bdb[p][g]
        /\ \A h \in Pages \ {g} : bdb'[p][h] = bdb[p][h]
        /\ main'[p].needs = {}
    BY <1>2, <1>6 DEF Opened
  <2>2. ASSUME NEW h \in Pages
        PROVE  /\ Dirty(p, h)' <=> Dirty(p, h)
               /\ Dirty(p, h) => bdb'[p][h].img = bdb[p][h].img
    BY <1>3, <2>1 DEF Dirty, Has
  <2>3. ASSUME NEW h \in Pages
        PROVE  Current(h)' = Current(h)
    BY <1>3, <1>4, <2>2, CurrentStays
  <2>4. Refers(p)
    BY <2>1 DEF Refers
  <2> QED BY <1>3, <1>4, <2>3, <2>4 DEF Does, Keeps, Rest
<1> QED BY <1>5, <1>6

LEMMA MarkAdds ==
  ASSUME IInv, OInv, Currently, Currently', CInv, NEW p \in Procs, CCH_mark(p)
  PROVE  Does(p)
<1>1. PICK g \in Pages : Marks(p, g)
  BY MarkDoes
<1>2. PICK u : u = clock'
  OBVIOUS
<1>3. clock < MaxUpdate /\ u = clock + 1
  BY <1>2 DEF CCH_mark
<1>4. clock \in Nat /\ Unseen(u) /\ u \in Updates /\ u \notin Past /\ u \in Past'
  <2>1. clock \in Nat /\ Unseen(u)
    BY <1>3, Parts, Numbers
  <2> QED BY <1>2, <1>3, <2>1, ConstantAssumption DEF Past, Updates
<1>5. /\ UNCHANGED <<disk, pre, ast, lost>> /\ main[p].page = g
      /\ main'[p].needs = {} /\ \A h \in Pages \ {g} : bdb'[p][h] = bdb[p][h]
      /\ bdb'[p][g].img = [has |-> bdb[p][g].img.has \cup {u},
                           needs |-> bdb[p][g].img.needs \cup main[p].needs]
  BY <1>1, <1>2 DEF Marks
<1>6. Leaves(p)
  BY <1>1 DEF Marks, Leaves
<1>7. Dirty(p, g)' /\ \A h \in Pages \ {g} : Dirty(p, h)' <=> Dirty(p, h)
  BY <1>1 DEF Marks, Dirty, Has, MarkFlags
<1>8. CurrentIs(g) /\ CurrentIs(g)'
  BY DEF Currently
<1>9. Current(g) = bdb[p][g].img
  <2>1. InWindow(p)
    BY <1>1, ConstantAssumption DEF Marks, InWindow
  <2> QED BY <1>5, <1>8, <2>1 DEF CurrentIs
<1>10. Current(g)' = [has |-> Current(g).has \cup {u},
                      needs |-> Current(g).needs \cup main[p].needs]
  BY <1>5, <1>7, <1>8, <1>9 DEF CurrentIs
<1>11. ASSUME NEW h \in Pages \ {g}
       PROVE  Current(h)' = Current(h)
  BY <1>5, <1>6, <1>7, CurrentStays
<1>12. u \notin lost /\ \A h \in Pages : u \notin Current(h).has
  BY <1>4, NowhereYet
<1>13. Adds(p, g, u)
  <2>1. main[p].needs \in SUBSET Updates /\ Current(g).needs \in {Current(g).needs, {}}
    BY Parts DEF MainLine
  <2> QED BY <1>4, <1>5, <1>7, <1>10, <1>11, <1>12, <2>1 DEF Adds
<1> QED BY <1>4, <1>6, <1>13 DEF Does

\* The page that is written is sound by itself: what it refers to is settled, or its own.
LEMMA SoundWrite ==
  ASSUME OInv, Currently, NEW p \in Procs, NEW g \in Pages, Dirty(p, g), Sound(p, {g})
  PROVE  /\ Current(g) = bdb[p][g].img
         /\ Current(g).needs \subseteq Settled \cup Current(g).has
<1>1. Current(g) = bdb[p][g].img
  BY DEF Currently, CurrentIs
<1>2. bdb[p][g].img.needs \subseteq Settled \cup HasOf(p, {g})
  BY DEF OInv, Order, Ordered
<1>3. HasOf(p, {g}) = bdb[p][g].img.has
  BY DEF HasOf
<1> QED BY <1>1, <1>2, <1>3

\* A page that its process writes is clean from then on, and stays what it is.
LEMMA WrittenStays ==
  ASSUME IInv, Currently, Currently', NEW p \in Procs, NEW g \in Pages, Leaves(p),
         Dirty(p, g), ~Dirty(p, g)', disk' = [disk EXCEPT ![g] = bdb[p][g].img],
         \A h \in Pages \ {g} : /\ Dirty(p, h)' <=> Dirty(p, h)
                                /\ bdb'[p][h].img = bdb[p][h].img
  PROVE  Rest /\ disk' = [disk EXCEPT ![g] = Current(g)]
<1>1. Current(g) = bdb[p][g].img
  BY DEF Currently, CurrentIs
<1>2. \A h \in Pages : disk'[h] = IF h = g THEN Current(g) ELSE disk[h]
  BY <1>1, Parts DEF TypeOK
<1>3. Current(g)' = Current(g)
  BY <1>2, CurrentClean
<1>4. ASSUME NEW h \in Pages \ {g}
      PROVE  Current(h)' = Current(h)
  BY <1>2, CurrentStays
<1> QED BY <1>1, <1>3, <1>4 DEF Rest

LEMMA WritePageDoes ==
  ASSUME IInv, OInv, Currently, Currently', NEW p \in Procs, write_page(p)
  PROVE  Does(p)
<1>1. PICK g \in Pages : g = Top(p) /\ Dirty(p, g) /\ Sound(p, {g})
  BY WriteSound
<1>2. PICK flags : flags = bdb[p][g].flags \ {"dirty", "changed"}
  OBVIOUS
<1>3. /\ Runs(p, "write") /\ WriteReturns(p, flags)
      /\ disk' = [disk EXCEPT ![g] = bdb[p][g].img] /\ UNCHANGED <<ast, lost>>
  BY <1>1, <1>2 DEF write_page, MayWrite
<1>4. /\ \A q \in Procs \ {p} : bdb'[q] = bdb[q] /\ main'[q] = main[q] /\ pre'[q] = pre[q]
      /\ \A h \in Pages : /\ bdb'[p][h].img = bdb[p][h].img
                          /\ bdb'[p][h].flags = IF h = g THEN flags ELSE bdb[p][h].flags
      /\ main'[p].page = main[p].page /\ main'[p].needs = main[p].needs
  BY <1>1, <1>3, Returned
<1>5. Leaves(p) /\ Refers(p)
  BY <1>3, <1>4 DEF Leaves, Refers
<1>6. ~Dirty(p, g)' /\ \A h \in Pages \ {g} : Dirty(p, h)' <=> Dirty(p, h)
  BY <1>2, <1>4 DEF Dirty, Has
<1>7. Rest /\ disk' = [disk EXCEPT ![g] = Current(g)]
  <2>1. \A h \in Pages \ {g} : /\ Dirty(p, h)' <=> Dirty(p, h)
                               /\ bdb'[p][h].img = bdb[p][h].img
    BY <1>4, <1>6
  <2>2. Leaves(p) /\ Dirty(p, g) /\ ~Dirty(p, g)' /\ disk' = [disk EXCEPT ![g] = bdb[p][g].img]
    BY <1>1, <1>3, <1>5, <1>6
  <2> QED BY <2>1, <2>2, WrittenStays
<1>8. Current(g).needs \subseteq Settled \cup Current(g).has
  BY <1>1, SoundWrite
<1> QED BY <1>3, <1>5, <1>7, <1>8 DEF Does, Writes

LEMMA DowngradeWritesDoes ==
  ASSUME IInv, OInv, Currently, Currently', NEW p \in Procs, Unwritten(p), DowngradeWrites(p)
  PROVE  Does(p)
<1>1. PICK g \in Pages : g = Call(p).page /\ Dirty(p, g) /\ Sound(p, {g})
  BY DowngradeSound
<1>2. PICK b : b = Kept(Without(bdb[p][g], {"dirty", "changed", "blocking"}), Downgraded(p, g))
  OBVIOUS
<1>3. /\ disk' = [disk EXCEPT ![g] = bdb[p][g].img] /\ bdb' = [bdb EXCEPT ![p][g] = b]
      /\ UNCHANGED <<pre, main, lost>> /\ \E f : ast' = [ast EXCEPT ![p] = f]
  BY <1>1, <1>2 DEF DowngradeWrites, GoesLower, Continues
<1>4. "dirty" \notin b.flags
  <2>1. PICK c \in Buffer : c = Without(bdb[p][g], {"dirty", "changed", "blocking"})
    BY Parts, BufferOps DEF Flags
  <2>2. "dirty" \notin c.flags
    BY <2>1, Parts, BufferOps DEF Flags
  <2> QED BY <1>2, <2>1, <2>2 DEF Kept, Buffer
<1>5. /\ \A q \in Procs \ {p} : bdb'[q] = bdb[q] /\ ast'[q] = ast[q]
      /\ \A h \in Pages : bdb'[p][h] = IF h = g THEN b ELSE bdb[p][h]
  BY <1>3, Parts DEF TypeOK
<1>6. Leaves(p) /\ Refers(p)
  BY <1>3, <1>5 DEF Leaves, Refers
<1>7. ~Dirty(p, g)' /\ \A h \in Pages \ {g} : Dirty(p, h)' <=> Dirty(p, h)
  BY <1>4, <1>5 DEF Dirty, Has
<1>8. Rest /\ disk' = [disk EXCEPT ![g] = Current(g)]
  <2>1. \A h \in Pages \ {g} : /\ Dirty(p, h)' <=> Dirty(p, h)
                               /\ bdb'[p][h].img = bdb[p][h].img
    BY <1>5, <1>7
  <2>2. Leaves(p) /\ Dirty(p, g) /\ ~Dirty(p, g)' /\ disk' = [disk EXCEPT ![g] = bdb[p][g].img]
    BY <1>1, <1>3, <1>6, <1>7
  <2> QED BY <2>1, <2>2, WrittenStays
<1>9. Current(g).needs \subseteq Settled \cup Current(g).has
  BY <1>1, SoundWrite
<1> QED BY <1>3, <1>6, <1>8, <1>9 DEF Does, Writes

LEMMA DowngradeFailsDoes ==
  ASSUME IInv, Currently, Currently', NEW p \in Procs, Unwritten(p), DowngradeFails(p)
  PROVE  Does(p)
<1>1. PICK g \in Pages : g = Call(p).page /\ Dirty(p, g)
  BY CallOf, CallDirty DEF DowngradeFails, At
<1>2. PICK b : b = Kept(With(Without(bdb[p][g], {"dirty", "changed", "blocking"}),
                             {"not_valid"}), LCK_none)
  OBVIOUS
<1>3. /\ lost' = lost \cup (bdb[p][g].img.has \ disk[g].has)
      /\ bdb' = [bdb EXCEPT ![p][g] = b] /\ UNCHANGED <<disk, main>>
      /\ \E f : ast' = [ast EXCEPT ![p] = f] /\ \E E : pre' = [pre EXCEPT ![p] = E]
  BY <1>1, <1>2 DEF DowngradeFails, GoesLower, Continues
<1>4. "dirty" \notin b.flags
  <2>1. PICK c \in Buffer : c = Without(bdb[p][g], {"dirty", "changed", "blocking"})
    BY Parts, BufferOps DEF Flags
  <2>2. "dirty" \notin c.flags
    BY <2>1, Parts, BufferOps DEF Flags
  <2>3. PICK d \in Buffer : d = With(c, {"not_valid"})
    BY <2>1, BufferOps DEF Flags
  <2>4. "dirty" \notin d.flags
    BY <2>1, <2>2, <2>3, BufferOps DEF Flags
  <2> QED BY <1>2, <2>1, <2>3, <2>4 DEF Kept, Buffer
<1>5. /\ \A q \in Procs \ {p} : bdb'[q] = bdb[q] /\ ast'[q] = ast[q] /\ pre'[q] = pre[q]
      /\ \A h \in Pages : bdb'[p][h] = IF h = g THEN b ELSE bdb[p][h]
  BY <1>3, Parts DEF TypeOK
<1>6. Leaves(p) /\ Refers(p)
  BY <1>3, <1>5 DEF Leaves, Refers
<1>7. ~Dirty(p, g)' /\ \A h \in Pages \ {g} : Dirty(p, h)' <=> Dirty(p, h)
  BY <1>4, <1>5 DEF Dirty, Has
<1>8. Current(g)' = disk[g] /\ Current(g) = bdb[p][g].img
  BY <1>1, <1>3, <1>6, <1>7, CurrentClean DEF Currently, CurrentIs
<1>9. ASSUME NEW h \in Pages \ {g}
      PROVE  Current(h)' = Current(h)
  BY <1>3, <1>5, <1>6, <1>7, CurrentStays
<1>10. Loses(p, {g})
  BY <1>3, <1>6, <1>8, <1>9 DEF Loses
<1> QED BY <1>6, <1>10 DEF Does

LEMMA GoneDoes ==
  ASSUME IInv, Currently, Currently', NEW p \in Procs, Gone(p)
  PROVE  Does(p)
<1>1. /\ \A q \in Procs \ {p} : /\ bdb'[q] = bdb[q] /\ pre'[q] = pre[q]
                                /\ main'[q] = main[q] /\ ast'[q] = ast[q]
      /\ main'[p].needs = {} /\ \A h \in Pages : bdb'[p][h] = NewBuffer
      /\ UNCHANGED <<disk, lost>>
  BY Parts DEF Gone, TypeOK, Idle
<1>2. Leaves(p) /\ Refers(p)
  BY <1>1 DEF Leaves, Refers
<1>3. PICK G \in SUBSET Pages : G = {h \in Pages : Dirty(p, h)}
  OBVIOUS
<1>4. \A h \in Pages : ~Dirty(p, h)'
  BY <1>1 DEF Dirty, Has, NewBuffer
<1>5. ASSUME NEW h \in Pages
      PROVE  Current(h)' = IF h \in G THEN disk[h] ELSE Current(h)
  <2>1. CASE h \in G
    BY <1>1, <1>2, <1>3, <1>4, <2>1, CurrentClean
  <2>2. CASE h \notin G
    BY <1>1, <1>2, <1>3, <1>4, <2>2, CurrentStays
  <2> QED BY <2>1, <2>2
<1>6. Loses(p, G)
  BY <1>1, <1>2, <1>5 DEF Loses
<1> QED BY <1>2, <1>6 DEF Does

LEMMA ComesDoes ==
  ASSUME Invariant, OInv, CInv, Currently, Currently', NEW p \in Procs, Comes(p),
         Past \subseteq Past'
  PROVE  Does(p)
<1>1. IInv /\ Unwritten(p)
  BY DEF Invariant
<1> QED BY <1>1, CalmDoes, NoticingDoes, OpeningDoes, PrecedingDoes, BrokenDoes, MarkAdds,
           WritePageDoes, GoneDoes, SteadyDoes, DowngradeWritesDoes, DowngradeFailsDoes DEF Comes

LEMMA DoesImages ==
  ASSUME IInv, OInv, CInv, Currently, Currently', NEW p \in Procs, Does(p), Past \subseteq Past'
  PROVE  CInv'
BY KeepsImages, AddsImages, WritesImages, LosesImages DEF Does

LEMMA DoesImplement ==
  ASSUME CInv, NEW p \in Procs, Does(p)
  PROVE  [Wholes!Next]_<<Store, disk>>
BY KeepsImplement, AddsImplement, WritesImplement, LosesImplement DEF Does

LEMMA InitImages ==
  ASSUME Init
  PROVE  CInv /\ Store = [g \in Pages |-> Blank] /\ disk = Store
<1>1. \A p \in Procs : main[p].needs = {} /\ main[p].page = NoPage
  BY DEF Init, Idle
<1>2. \A p \in Procs, g \in Pages : ~Dirty(p, g)
  BY DEF Init, Dirty, Has, NewBuffer
<1>3. \A g \in Pages : disk[g] = Blank /\ Current(g) = Blank
  BY <1>2 DEF Init, Current
<1>4. CInv
  BY <1>1, <1>3 DEF CInv, Separate, ImageFits, Outward, WindowFits, Blank
<1> QED BY <1>3, <1>4 DEF Store, Init

LEMMA StepImplements ==
  ASSUME Invariant, OInv, CInv, Currently, Currently', [Next]_vars
  PROVE  CInv' /\ [Wholes!Next]_<<Store, disk>>
<1>1. CASE UNCHANGED vars
  <2>1. UNCHANGED <<bdb, disk, main, lost, clock>>
    BY <1>1 DEF vars
  <2>2. \A g \in Pages : Current(g)' = Current(g)
    BY <2>1 DEF Current, Dirty, Has
  <2>3. CInv'
    BY <2>1, <2>2 DEF CInv, Separate, ImageFits, Outward, WindowFits, Past
  <2> QED BY <2>1, <2>2, <2>3 DEF Store
<1>2. CASE Next
  <2>1. PICK p \in Procs :
          Fetch(p) \/ Change(p) \/ Write(p) \/ Release(p) \/ Transaction(p) \/ Ast(p)
    BY <1>2 DEF Next
  <2>2. IInv /\ Past \subseteq Past'
    BY <2>1, PastGrows DEF Invariant
  <2>3. Does(p)
    BY <2>1, <2>2, StepIs, ComesDoes
  <2> QED BY <2>2, <2>3, DoesImages, DoesImplement
<1> QED BY <1>1, <1>2

\* The caches of all processes together are one store that writes its pages after what
\* they refer to (CarefulWrite), as long as check_precedence overlooks no page.
THEOREM CachesImplement == Spec /\ NoOverlooked => Implements
<1>1. Init => CInv /\ Wholes!Init
  BY InitImages DEF Wholes!Init, Store, Wholes!Blank, Blank
<1>2. Invariant => Currently
  BY CurrentIsSo DEF Invariant
<1>3. Invariant /\ OInv /\ CInv /\ Currently /\ Currently' /\ [Next]_vars =>
        CInv' /\ [Wholes!Next]_<<Store, disk>>
  BY StepImplements
<1>4. Spec /\ NoOverlooked => [](Invariant /\ OInv)
  BY Invariance, OrderInvariance, PTL
<1>5. [Wholes!Next]_<<Store, disk>> => [Wholes!Next]_<<[g \in Pages |-> Current(g)], disk>>
  BY DEF Store
<1> QED BY <1>1, <1>2, <1>3, <1>4, <1>5, PTL DEF Spec, Implements, Wholes!Spec

\* So are those for two pages, whatever happens.
THEOREM TwoPagesImplement == ASSUME TwoPages PROVE Spec => Implements
BY TwoPagesHeed, CachesImplement, PTL
=============================================================================
