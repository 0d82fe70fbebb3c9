-------------------------- MODULE PageCacheProofs --------------------------
(***************************************************************************)
(* Proofs about PageCache, for any processes and pages and any number of   *)
(* updates.                                                                *)
(***************************************************************************)
EXTENDS PageCache, SequenceTheorems, TLAPS

-----------------------------------------------------------------------------
(* The inductive invariant.                                                *)

\* Latches: the main line has one on the page of its window, on a buffer it takes for
\* another page and on the page it writes; each call of down_grade has one on its page.
One(b) == IF b THEN 1 ELSE 0
Taking(p) == main[p].pc = "reuse" \/ main[p].back = "reuse"
Line(p, g) ==
  One(main[p].page = g) + One(Taking(p) /\ main[p].hi = g)
    + One(main[p].stack # <<>> /\ Top(p) = g)
PagesOf(calls) == {calls[i].page : i \in DOMAIN calls}
Apart(calls) ==
  \A i, j \in DOMAIN calls : calls[i].page = calls[j].page => i = j

\* No call of down_grade is for a page that is latched otherwise.
LatchesOf(p) ==
  /\ Apart(ast[p])
  /\ \A g \in Pages :
       /\ bdb[p][g].use = Line(p, g) + One(g \in PagesOf(ast[p]))
       /\ g \in PagesOf(ast[p]) => Line(p, g) = 0

\* Where the main line of a process is, and what it has there.
Latest(s) == s[Len(s)]
MainOf(p) ==
  LET m == main[p] IN
  /\ m.pc = "write" <=> m.stack # <<>>
  /\ m.pc = "write" <=> m.back # "idle"
  /\ m.pc \in {"idle", "flush"} \/ m.back = "flush" => m.page = NoPage
  /\ m.pc \in {"lock", "waiting", "held", "insert", "fake"}
       \/ m.back \in {"held", "insert", "fake"} => m.page # NoPage
  /\ m.pc \in {"insert", "reuse"} \/ m.back \in {"insert", "reuse"} =>
       m.hi # NoPage /\ m.hi # m.page
  /\ \A i \in 1..(Len(m.stack) - 1) : m.stack[i] # m.stack[i + 1]
  /\ m.back \in {"insert", "fake"} => Latest(m.stack) = m.page
  /\ m.back = "reuse" => Latest(m.stack) = m.hi
  /\ m.pc = "fake" \/ m.back = "fake" => m.number # 0

\* A page allocated anew and a buffer to be taken are not dirty; there is no precedence
\* below a page that was written to break a cycle.
CleanOf(p) ==
  LET m == main[p] IN
  /\ m.pc \in {"lock", "waiting"} /\ Has(p, m.page, "faked") =>
       m.number # 0 /\ ~Dirty(p, m.page) /\ Has(p, m.page, "writer")
  /\ m.pc = "fake" => ~Dirty(p, m.page)
  /\ m.pc = "reuse" => ~Dirty(p, m.hi)
  /\ m.pc = "insert" => Below(p, m.page) = {}

\* The lock on the page of the window, once it is there, and while it is waited for.
InWindow(p) ==
  /\ main[p].page # NoPage
  /\ \/ main[p].pc \in {"held", "insert", "reuse"}
     \/ main[p].back \in {"held", "insert", "reuse"}
WindowOf(p) ==
  LET g == main[p].page IN
  /\ InWindow(p) =>
       lck[p][g] # LCK_none /\ (Has(p, g, "writer") => lck[p][g] = LCK_write)
  /\ main[p].pc = "waiting" =>
       /\ lck[p][g] = LCK_none /\ main[p].want # LCK_none
       /\ Has(p, g, "writer") => main[p].want = LCK_write

Own(p) == LatchesOf(p) /\ MainOf(p) /\ CleanOf(p) /\ WindowOf(p)

\* The locks of different processes, and what a lock says of the image in the buffer.
LocksFit ==
  \A p, q \in Procs, g \in Pages : p # q => lck[p][g] + lck[q][g] <= LCK_write
ImagesFit ==
  \A p \in Procs, g \in Pages :
    IF Dirty(p, g) THEN lck[p][g] = LCK_write /\ disk[g].has \subseteq bdb[p][g].img.has
    ELSE bdb[p][g].img = IF lck[p][g] = LCK_none THEN Blank ELSE disk[g]

\* Numbers of updates are new when they are used.
Past == 1..clock
Unseen(u) ==
  /\ u \notin committed \cup lost
  /\ \A p \in Procs : u \notin tra[p].made
  /\ \A g \in Pages : u \notin disk[g].has /\ \A p \in Procs : u \notin bdb[p][g].img.has
NumbersFit ==
  /\ committed \subseteq Past /\ lost \subseteq Past
  /\ \A p \in Procs : tra[p].made \subseteq Past /\ main[p].number \in {0} \cup Past
  /\ \A g \in Pages : disk[g].has \subseteq Past
  /\ \A p \in Procs, g \in Pages : bdb[p][g].img.has \subseteq Past
  /\ \A p \in Procs : main[p].number # 0 => Unseen(main[p].number)
  /\ \A p, q \in Procs : main[p].number = main[q].number /\ main[p].number # 0 => p = q

\* An update that is not in the file is in a dirty buffer of its own process only, which
\* says that the transaction has changed it; and it is there unless it is lost.
UpdatesFit ==
  /\ \A p, q \in Procs, g \in Pages : p # q =>
       tra[q].made \cap bdb[p][g].img.has \subseteq disk[g].has
  /\ \A p \in Procs, g \in Pages :
       Dirty(p, g) /\ ~Has(p, g, "changed") =>
         tra[p].made \cap bdb[p][g].img.has \subseteq disk[g].has
  /\ \A p \in Procs : \A u \in tra[p].made \ lost :
       \/ \E g \in Pages : u \in disk[g].has
       \/ \E g \in Pages : Dirty(p, g) /\ Has(p, g, "changed") /\ u \in bdb[p][g].img.has

\* A call of down_grade that has not yet written its page still has it dirty.
Early(calls) == {calls[i].page : i \in {j \in DOMAIN calls : calls[j].at # "lower"}}
Unwritten(p) == \A g \in Early(ast[p]) : Dirty(p, g)

Control == TypeOK /\ \A p \in Procs : Own(p)
Caching == LocksFit /\ ImagesFit
History == NumbersFit /\ UpdatesFit /\ CommittedInFile /\ LossNoticed
IInv == Control /\ Caching /\ History /\ NoCycle
Invariant == IInv /\ \A p \in Procs : Unwritten(p)

-----------------------------------------------------------------------------
(* Buffers and latches.                                                    *)

LEMMA BufferOps ==
  ASSUME NEW b \in Buffer, NEW F \in SUBSET Flags
  PROVE  /\ With(b, F) \in Buffer /\ With(b, F).img = b.img /\ With(b, F).use = b.use
         /\ With(b, F).flags = b.flags \cup F
         /\ Without(b, F) \in Buffer /\ Without(b, F).img = b.img
         /\ Without(b, F).use = b.use /\ Without(b, F).flags = b.flags \ F
BY DEF With, Without, Buffer

LEMMA LatchOps ==
  ASSUME NEW b \in Buffer
  PROVE  /\ Latched(b).img = b.img /\ Latched(b).flags = b.flags
         /\ Latched(b).use = b.use + 1
         /\ b.use < 2 => Latched(b) \in Buffer
         /\ Released(b).img = b.img /\ Released(b).flags = b.flags
         /\ Released(b).use = b.use - 1
         /\ b.use > 0 => Released(b) \in Buffer
BY DEF Latched, Released, Buffer

LEMMA Types ==
  ASSUME TypeOK, NEW p \in Procs
  PROVE  /\ main[p] \in MainLine /\ bdb[p] \in [Pages -> Buffer]
         /\ lck[p] \in [Pages -> Levels] /\ pre[p] \in SUBSET Precedence
         /\ ast[p] \in Seq(Frame) /\ posted[p] \in SUBSET Pages
         /\ tra[p] \in [made : SUBSET Updates, invalidated : BOOLEAN]
BY DEF TypeOK

LEMMA OneValue == \A b \in BOOLEAN : One(b) \in {0, 1}
BY DEF One

\* A page has two latches at most, and a buffer that is not in use has none.
LEMMA LatchBounds ==
  ASSUME TypeOK, NEW p \in Procs, LatchesOf(p), MainOf(p), NEW g \in Pages
  PROVE  /\ bdb[p][g].use = 0 => /\ main[p].page # g /\ (Taking(p) => main[p].hi # g)
                                 /\ (main[p].stack # <<>> => Top(p) # g)
                                 /\ g \notin PagesOf(ast[p])
         /\ main[p].page = g => bdb[p][g].use > 0 /\ g \notin PagesOf(ast[p])
         /\ Taking(p) /\ main[p].hi = g => bdb[p][g].use > 0
         /\ main[p].stack # <<>> /\ Top(p) = g => bdb[p][g].use > 0
         /\ g \in PagesOf(ast[p]) => bdb[p][g].use = 1
BY DEF LatchesOf, MainOf, Line, One, Taking, TypeOK, Buffer

-----------------------------------------------------------------------------
(* The stack of write_buffer.                                              *)

LEMMA Pushed ==
  ASSUME NEW S, NEW s \in Seq(S), s # <<>>, NEW x \in S
  PROVE  /\ <<x>> \o s \in Seq(S) /\ <<x>> \o s # <<>> /\ Head(<<x>> \o s) = x
         /\ Len(<<x>> \o s) = Len(s) + 1 /\ Latest(<<x>> \o s) = Latest(s)
         /\ \A i \in 1..Len(s) : (<<x>> \o s)[i + 1] = s[i]
<1>1. <<x>> \in Seq(S) /\ Len(<<x>>) = 1 /\ <<x>>[1] = x
  OBVIOUS
<1>2. Len(s) \in Nat \ {0}
  BY EmptySeq
<1>3. /\ <<x>> \o s \in Seq(S) /\ Len(<<x>> \o s) = Len(s) + 1
      /\ \A i \in 1..(Len(s) + 1) : (<<x>> \o s)[i] = IF i <= 1 THEN <<x>>[i] ELSE s[i - 1]
  BY <1>1, <1>2, ConcatProperties
<1>4. \A i \in 1..Len(s) : (<<x>> \o s)[i + 1] = s[i]
  BY <1>2, <1>3
<1>5. (<<x>> \o s)[1] = x
  BY <1>1, <1>2, <1>3
<1> HIDE DEF Latest
<1>6. <<x>> \o s # <<>> /\ Head(<<x>> \o s) = x
  BY <1>2, <1>3, <1>5
<1>7. Latest(<<x>> \o s) = Latest(s)
  BY <1>2, <1>3, <1>4 DEF Latest
<1> QED BY <1>3, <1>4, <1>6, <1>7

LEMMA Popped ==
  ASSUME NEW S, NEW s \in Seq(S), s # <<>>
  PROVE  /\ Head(s) \in S /\ Tail(s) \in Seq(S) /\ Len(Tail(s)) = Len(s) - 1
         /\ Head(s) = s[1] /\ \A i \in 1..Len(Tail(s)) : Tail(s)[i] = s[i + 1]
         /\ Tail(s) # <<>> => Latest(Tail(s)) = Latest(s) /\ Head(Tail(s)) = s[2] /\ Len(s) > 1
         /\ Tail(s) = <<>> => Latest(s) = Head(s)
<1>1. /\ Head(s) \in S /\ Tail(s) \in Seq(S) /\ Len(Tail(s)) = Len(s) - 1
      /\ \A i \in 1..Len(Tail(s)) : Tail(s)[i] = s[i + 1]
  BY HeadTailProperties
<1>2. Len(s) \in Nat \ {0} /\ Head(s) = s[1]
  BY EmptySeq
<1>3. ASSUME Tail(s) # <<>>
      PROVE  Latest(Tail(s)) = Latest(s) /\ Head(Tail(s)) = s[2] /\ Len(s) > 1
  <2>1. Len(Tail(s)) \in Nat \ {0} /\ Head(Tail(s)) = Tail(s)[1]
    BY <1>1, <1>3, EmptySeq
  <2> QED BY <1>1, <1>2, <2>1 DEF Latest
<1>4. ASSUME Tail(s) = <<>>
      PROVE  Latest(s) = Head(s)
  <2>1. Len(Tail(s)) = 0
    BY <1>1, <1>4, EmptySeq
  <2>2. Len(s) - 1 = 0
    BY <1>1, <2>1, Zenon
  <2>3. Len(s) = 1
    BY <1>2, <2>2
  <2> QED BY <1>2, <2>3 DEF Latest
<1> QED BY <1>1, <1>2, <1>3, <1>4

LEMMA Single ==
  ASSUME NEW S, NEW x \in S
  PROVE  /\ <<x>> \in Seq(S) /\ <<x>> # <<>> /\ Head(<<x>>) = x /\ Latest(<<x>>) = x
         /\ Len(<<x>>) = 1
BY DEF Latest

-----------------------------------------------------------------------------
(* Steps of one process.                                                   *)

\* What a step of process p leaves to the others.
Alone(p) ==
  \A q \in Procs \ {p} :
    /\ bdb'[q] = bdb[q] /\ lck'[q] = lck[q] /\ pre'[q] = pre[q]
    /\ main'[q] = main[q] /\ ast'[q] = ast[q] /\ tra'[q] = tra[q]

LEMMA AloneKeepsOwn ==
  ASSUME NEW p \in Procs, Alone(p), NEW q \in Procs \ {p}, Own(q)
  PROVE  Own(q)'
BY DEF Alone, Own, LatchesOf, MainOf, CleanOf, WindowOf, InWindow, Line, Taking, Has, Dirty,
       Below, Top

\* A step of the main line of p, up to what it writes and locks.
LEMMA MainStep ==
  ASSUME TypeOK, NEW p \in Procs, NEW B \in [Pages -> Buffer], NEW m \in MainLine,
         NEW E \in SUBSET Precedence,
         bdb' = [bdb EXCEPT ![p] = B], main' = [main EXCEPT ![p] = m],
         pre' = [pre EXCEPT ![p] = E], posted' \in [Procs -> SUBSET Pages],
         UNCHANGED <<disk, lck, ast, tra, committed, lost>>, clock' \in 0..MaxUpdate
  PROVE  /\ TypeOK' /\ Alone(p)
         /\ bdb'[p] = B /\ main'[p] = m /\ pre'[p] = E
BY DEF TypeOK, Alone

\* The latches of a main line that runs: they are its own.
LEMMA RunningLatches ==
  ASSUME TypeOK, NEW p \in Procs, LatchesOf(p), ast[p] = <<>>, NEW g \in Pages
  PROVE  bdb[p][g].use = Line(p, g)
<1>1. g \notin PagesOf(ast[p])
  BY DEF PagesOf
<1>2. Line(p, g) \in Int
  BY DEF Line, One
<1> QED BY <1>1, <1>2 DEF LatchesOf, One

LEMMA RunningLatchesKept ==
  ASSUME NEW p \in Procs, ast'[p] = <<>>, \A g \in Pages : bdb'[p][g].use = Line(p, g)'
  PROVE  LatchesOf(p)'
<1>1. Apart(ast[p])' /\ \A g \in Pages : g \notin PagesOf(ast[p])'
  BY DEF PagesOf, Apart
<1>2. \A g \in Pages : Line(p, g)' \in Int
  BY DEF Line, One
<1> QED BY <1>1, <1>2 DEF LatchesOf, One

LEMMA FewerKeepNoCycle ==
  ASSUME NEW p \in Procs, NoCycle, Alone(p), \A e \in pre'[p] : ~e.cleared => e \in pre[p]
  PROVE  NoCycle'
<1> SUFFICES ASSUME NEW q \in Procs, NEW e \in pre'[q], ~e.cleared, Over(q, e.low, e.hi)'
             PROVE FALSE
  BY DEF NoCycle
<1>1. \A d \in pre'[q] : ~d.cleared => d \in pre[q]
  BY DEF Alone
<1>2. Over(q, e.low, e.hi)
  <2> SUFFICES ASSUME NEW S \in SUBSET Pages, e.low \in S,
                      \A d \in pre[q] : ~d.cleared /\ d.hi \in S => d.low \in S
               PROVE e.hi \in S
    BY DEF Over
  <2> QED BY <1>1 DEF Over
<1> QED BY <1>1, <1>2 DEF NoCycle

LEMMA Gathered ==
  ASSUME NEW p \in Procs, TypeOK', Alone(p), \A q \in Procs : Own(q), Own(p)',
         Caching', History', NoCycle'
  PROVE  IInv'
BY AloneKeepsOwn DEF IInv, Control

-----------------------------------------------------------------------------
(* What steps do to locks, images and the history.                         *)

\* No image or lock changes, and precedence is only given up; a number may be taken.
SameImages(p) ==
  \A g \in Pages :
    /\ bdb'[p][g].img = bdb[p][g].img
    /\ Dirty(p, g)' <=> Dirty(p, g)
    /\ Dirty(p, g) => (Has(p, g, "changed")' <=> Has(p, g, "changed"))
Still(p) ==
  /\ Alone(p) /\ SameImages(p) /\ UNCHANGED <<disk, lck, tra, committed, lost>>
  /\ \/ clock' = clock /\ main'[p].number \in {0, main[p].number}
     \/ clock' = clock + 1 /\ main'[p].number = clock'

\* Images are given up and read, but none that is dirty.
Quiet(p) ==
  /\ Alone(p) /\ UNCHANGED <<disk, committed, lost, clock>>
  /\ main'[p].number \in {0, main[p].number}
  /\ \A g \in Pages : Dirty(p, g)' => Dirty(p, g) /\ bdb'[p][g].img = bdb[p][g].img
  /\ \/ tra'[p].made = {}
     \/ /\ tra'[p].made = tra[p].made
        /\ tra[p].invalidated => tra'[p].invalidated
        /\ \A g \in Pages : Dirty(p, g) =>
             Dirty(p, g)' /\ (Has(p, g, "changed")' <=> Has(p, g, "changed"))

\* Update u is made in page g.
Makes(p, g, u) ==
  /\ Alone(p) /\ UNCHANGED <<disk, committed, lost>>
  /\ main'[p].number \in {0, main[p].number}
  /\ \A q \in Procs : main'[q].number # u
  /\ tra'[p].made = tra[p].made \cup {u} /\ (tra[p].invalidated => tra'[p].invalidated)
  /\ Dirty(p, g)' /\ Has(p, g, "changed")'
  /\ bdb'[p][g].img.has \subseteq bdb[p][g].img.has \cup disk[g].has \cup {u}
  /\ u \in bdb'[p][g].img.has
  /\ Dirty(p, g) => bdb[p][g].img.has \subseteq bdb'[p][g].img.has
  /\ \A h \in Pages \ {g} :
       /\ bdb'[p][h].img = bdb[p][h].img /\ (Dirty(p, h)' <=> Dirty(p, h))
       /\ Has(p, h, "changed")' <=> Has(p, h, "changed")

\* The image of page g goes to the file, and the page is dirty no longer.
Saves(p, g) ==
  /\ Alone(p) /\ UNCHANGED <<tra, committed, lost, clock>>
  /\ main'[p].number = main[p].number
  /\ Dirty(p, g) /\ ~Dirty(p, g)' /\ disk' = [disk EXCEPT ![g] = bdb[p][g].img]
  /\ \A h \in Pages \ {g} :
       /\ bdb'[p][h].img = bdb[p][h].img /\ (Dirty(p, h)' <=> Dirty(p, h))
       /\ Has(p, h, "changed")' <=> Has(p, h, "changed")
       /\ lck'[p][h] = lck[p][h]
  /\ lck'[p][g] \in Levels /\ lck'[p][g] <= lck[p][g]
  /\ bdb'[p][g].img = IF lck'[p][g] = LCK_none THEN Blank ELSE bdb[p][g].img

LEMMA StillKeeps ==
  ASSUME TypeOK, NEW p \in Procs, Caching, History, Still(p)
  PROVE  Caching' /\ History'
<1>1. \A q \in Procs, g \in Pages :
        /\ bdb'[q][g].img = bdb[q][g].img /\ (Dirty(q, g)' <=> Dirty(q, g))
        /\ Dirty(q, g) => (Has(q, g, "changed")' <=> Has(q, g, "changed"))
  BY DEF Still, Alone, SameImages, Dirty, Has
<1>2. Caching'
  BY <1>1 DEF Still, Caching, LocksFit, ImagesFit
<1>3. NumbersFit'
  <2>1. clock \in Nat /\ clock' \in Nat /\ \A u \in Past : u \in Past' /\ u # clock + 1
    BY DEF TypeOK, Still, Past
  <2>2. CASE clock' = clock /\ main'[p].number \in {0, main[p].number}
    <3>1. \A q \in Procs : main'[q].number \in {0, main[q].number}
      BY <2>2 DEF Still, Alone
    <3> QED BY <1>1, <2>2, <3>1 DEF History, NumbersFit, Unseen, Past, Still
  <2>3. CASE clock' = clock + 1 /\ main'[p].number = clock'
    <3>1. \A q \in Procs \ {p} : main'[q].number = main[q].number
      BY DEF Still, Alone
    <3>2. \A u : Unseen(u)' <=> Unseen(u)
      BY <1>1 DEF Unseen, Still
    <3>3. Unseen(clock') /\ clock' \in Past' /\ \A q \in Procs : main[q].number # clock'
      BY <2>1, <2>3 DEF History, NumbersFit, Unseen, Past
    <3> QED BY <1>1, <2>1, <2>3, <3>1, <3>2, <3>3 DEF History, NumbersFit, Still
  <2> QED BY <2>2, <2>3 DEF Still
<1>4. UpdatesFit' /\ CommittedInFile' /\ LossNoticed'
  BY <1>1 DEF Still, History, UpdatesFit, CommittedInFile, LossNoticed, Durable
<1> QED BY <1>2, <1>3, <1>4 DEF History

\* Locks that are lowered, and one that is granted.
LEMMA LoweredKeep ==
  ASSUME TypeOK, LocksFit, NEW p \in Procs, Alone(p),
         \A g \in Pages : lck'[p][g] \in Levels /\ lck'[p][g] <= lck[p][g]
  PROVE  LocksFit'
<1>1. \A q \in Procs, g \in Pages : /\ lck'[q][g] \in Int /\ lck[q][g] \in Int
                                    /\ lck'[q][g] <= lck[q][g]
  <2> SUFFICES ASSUME NEW q \in Procs, NEW g \in Pages
               PROVE  lck'[q][g] \in Int /\ lck[q][g] \in Int /\ lck'[q][g] <= lck[q][g]
    OBVIOUS
  <2>1. lck[q][g] \in Levels
    BY DEF TypeOK
  <2> QED BY <2>1 DEF Alone, Levels, LCK_none, LCK_write
<1>2. \A a, b, c, d \in Int : a <= c /\ b <= d /\ c + d <= 2 => a + b <= 2
  OBVIOUS
<1> QED BY <1>1, <1>2 DEF LocksFit, LCK_write

LEMMA GrantedKeep ==
  ASSUME TypeOK, LocksFit, NEW p \in Procs, Alone(p), NEW g \in Pages, NEW level \in Levels,
         Others(p, g, level) = {}, lck' = [lck EXCEPT ![p][g] = level]
  PROVE  LocksFit' /\ lck' \in [Procs -> [Pages -> Levels]]
<1>1. lck' \in [Procs -> [Pages -> Levels]]
  BY DEF TypeOK
<1>2. \A q \in Procs, h \in Pages : q # p \/ h # g => lck'[q][h] = lck[q][h]
  BY DEF TypeOK
<1>3. lck'[p][g] = level
  BY DEF TypeOK
<1>4. ASSUME NEW q \in Procs \ {p}
      PROVE  lck[q][g] + level <= LCK_write /\ level + lck[q][g] <= LCK_write
  <2>1. lck[q][g] \in 0..2 /\ level \in 0..2
    BY DEF TypeOK, Levels, LCK_none, LCK_write
  <2>2. ~(lck[q][g] + level > 2)
    BY DEF Others, LCK_write
  <2> QED BY <2>1, <2>2 DEF LCK_write
<1> QED BY <1>1, <1>2, <1>3, <1>4 DEF LocksFit

LEMMA QuietKeeps ==
  ASSUME TypeOK, NEW p \in Procs, Caching, Caching', History, Quiet(p)
  PROVE  History'
<1>1. \A q \in Procs, g \in Pages :
        /\ bdb'[q][g].img.has \subseteq bdb[q][g].img.has \cup disk[g].has
        /\ Dirty(q, g)' => Dirty(q, g) /\ bdb'[q][g].img = bdb[q][g].img
        /\ ~Dirty(q, g)' => bdb'[q][g].img.has \subseteq disk[g].has
  BY DEF Quiet, Alone, Dirty, Has, Caching, ImagesFit, Blank
<1>2. \A q \in Procs :
        \/ tra'[q].made = {}
        \/ /\ tra'[q].made = tra[q].made
           /\ tra[q].invalidated => tra'[q].invalidated
           /\ \A g \in Pages : Dirty(q, g) =>
                Dirty(q, g)' /\ (Has(q, g, "changed")' <=> Has(q, g, "changed"))
  BY DEF Quiet, Alone, Dirty, Has
<1>3. NumbersFit'
  <2>1. \A q \in Procs : main'[q].number \in {0, main[q].number}
    BY DEF Quiet, Alone
  <2>2. \A u : Unseen(u) => Unseen(u)'
    BY <1>1, <1>2 DEF Unseen, Quiet
  <2> QED BY <1>1, <1>2, <2>1, <2>2 DEF History, NumbersFit, Past, Quiet
<1>4. UpdatesFit'
  <2>1. ASSUME NEW q \in Procs, NEW r \in Procs, NEW g \in Pages, q # r
        PROVE  tra'[r].made \cap bdb'[q][g].img.has \subseteq disk'[g].has
    BY <1>1, <1>2, <2>1 DEF History, UpdatesFit, Quiet
  <2>2. ASSUME NEW q \in Procs, NEW g \in Pages, Dirty(q, g)', ~Has(q, g, "changed")'
        PROVE  tra'[q].made \cap bdb'[q][g].img.has \subseteq disk'[g].has
    BY <1>1, <1>2, <2>2 DEF History, UpdatesFit, Quiet
  <2>3. ASSUME NEW q \in Procs, NEW u \in tra'[q].made \ lost'
        PROVE  \/ \E g \in Pages : u \in disk'[g].has
               \/ \E g \in Pages : Dirty(q, g)' /\ Has(q, g, "changed")'
                                   /\ u \in bdb'[q][g].img.has
    <3>1. tra'[q].made = tra[q].made /\ u \in tra[q].made \ lost
      BY <1>2, <2>3 DEF Quiet
    <3> QED BY <1>1, <1>2, <3>1 DEF History, UpdatesFit, Quiet
  <2> QED BY <2>1, <2>2, <2>3 DEF UpdatesFit
<1>5. CommittedInFile' /\ LossNoticed'
  BY <1>2 DEF Quiet, History, CommittedInFile, LossNoticed, Durable
<1> QED BY <1>3, <1>4, <1>5 DEF History

LEMMA MakesKeeps ==
  ASSUME TypeOK, NEW p \in Procs, NEW g \in Pages, NEW u \in Past', Caching, History,
         Unseen(u), u # 0, clock' \in Nat, clock \in Nat, clock <= clock', Makes(p, g, u)
  PROVE  History'
<1>1. Past \subseteq Past'
  BY DEF Past
<1>2. \A q \in Procs, h \in Pages :
        /\ bdb'[q][h].img.has \subseteq bdb[q][h].img.has \cup disk[h].has \cup {u}
        /\ (q # p \/ h # g) =>
             /\ bdb'[q][h].img.has = bdb[q][h].img.has /\ (Dirty(q, h)' <=> Dirty(q, h))
             /\ Has(q, h, "changed")' <=> Has(q, h, "changed")
  BY DEF Makes, Alone, Dirty, Has
<1>3. \A q \in Procs \ {p} : tra'[q] = tra[q]
  BY DEF Makes, Alone
<1>4. NumbersFit'
  <2>1. \A q \in Procs : main'[q].number \in {0, main[q].number} /\ main'[q].number # u
    BY DEF Makes, Alone
  <2>2. \A v : Unseen(v) /\ v # u => Unseen(v)'
    BY <1>2, <1>3 DEF Unseen, Makes
  <2>3. \A q \in Procs : tra'[q].made \subseteq Past'
    BY <1>1, <1>3 DEF History, NumbersFit, Makes
  <2>4. \A q \in Procs, h \in Pages : disk'[h].has \subseteq Past' /\ bdb'[q][h].img.has \subseteq Past'
    BY <1>1, <1>2 DEF History, NumbersFit, Makes
  <2>5. \A h \in Pages : disk'[h].has \subseteq Past'
    BY <1>1 DEF History, NumbersFit, Makes
  <2> QED BY <1>1, <2>1, <2>2, <2>3, <2>4, <2>5 DEF History, NumbersFit, Makes
<1>5. UpdatesFit'
  <2>1. ASSUME NEW q \in Procs, NEW r \in Procs, NEW h \in Pages, q # r
        PROVE  tra'[r].made \cap bdb'[q][h].img.has \subseteq disk'[h].has
    <3>1. CASE q = p
      <4>1. tra'[r].made = tra[r].made /\ u \notin tra[r].made
        BY <1>3, <2>1, <3>1 DEF Unseen
      <4>2. bdb'[q][h].img.has \subseteq bdb[q][h].img.has \cup disk[h].has \cup {u}
        BY <1>2
      <4> QED BY <2>1, <4>1, <4>2 DEF History, UpdatesFit, Makes
    <3>2. CASE q # p
      <4>1. bdb'[q][h].img.has = bdb[q][h].img.has /\ u \notin bdb[q][h].img.has
        BY <1>2, <3>2 DEF Unseen
      <4>2. tra'[r].made \subseteq tra[r].made \cup {u}
        BY <1>3 DEF Makes
      <4> QED BY <2>1, <4>1, <4>2 DEF History, UpdatesFit, Makes
    <3> QED BY <3>1, <3>2
  <2>2. ASSUME NEW q \in Procs, NEW h \in Pages, Dirty(q, h)', ~Has(q, h, "changed")'
        PROVE  tra'[q].made \cap bdb'[q][h].img.has \subseteq disk'[h].has
    <3>1. q # p \/ h # g
      BY <2>2 DEF Makes
    <3>2. /\ bdb'[q][h].img.has = bdb[q][h].img.has /\ u \notin bdb[q][h].img.has
          /\ Dirty(q, h) /\ ~Has(q, h, "changed")
      BY <1>2, <2>2, <3>1 DEF Unseen
    <3>3. tra'[q].made \subseteq tra[q].made \cup {u}
      BY <1>3 DEF Makes
    <3> QED BY <3>2, <3>3 DEF History, UpdatesFit, Makes
  <2>3. ASSUME NEW q \in Procs, NEW v \in tra'[q].made \ lost'
        PROVE  \/ \E h \in Pages : v \in disk'[h].has
               \/ \E h \in Pages : Dirty(q, h)' /\ Has(q, h, "changed")'
                                   /\ v \in bdb'[q][h].img.has
    <3>1. CASE q = p /\ v = u
      BY <3>1 DEF Makes
    <3>2. CASE q # p \/ v # u
      <4>1. v \in tra[q].made \ lost
        BY <1>3, <2>3, <3>2 DEF Makes
      <4>2. CASE \E h \in Pages : v \in disk[h].has
        BY <4>2 DEF Makes
      <4>3. ASSUME NEW h \in Pages, Dirty(q, h), Has(q, h, "changed"), v \in bdb[q][h].img.has
            PROVE  Dirty(q, h)' /\ Has(q, h, "changed")' /\ v \in bdb'[q][h].img.has
        BY <1>2, <4>3 DEF Makes
      <4> QED BY <4>1, <4>2, <4>3 DEF History, UpdatesFit
    <3> QED BY <3>1, <3>2
  <2> QED BY <2>1, <2>2, <2>3 DEF UpdatesFit
<1>6. CommittedInFile' /\ LossNoticed'
  <2>1. u \notin lost
    BY DEF Unseen
  <2> QED BY <1>3, <2>1 DEF Makes, History, CommittedInFile, LossNoticed, Durable
<1> QED BY <1>4, <1>5, <1>6 DEF History

\* No process sees an old image of a page while another has it dirty.
LEMMA DirtyAlone ==
  ASSUME TypeOK, Caching, NEW p \in Procs, NEW q \in Procs \ {p}, NEW g \in Pages, Dirty(p, g)
  PROVE  lck[p][g] = LCK_write /\ lck[q][g] = LCK_none /\ ~Dirty(q, g) /\ bdb[q][g].img = Blank
<1>1. lck[p][g] = LCK_write /\ lck[p][g] + lck[q][g] <= LCK_write /\ lck[q][g] \in Levels
  BY DEF Caching, LocksFit, ImagesFit, TypeOK
<1>2. lck[q][g] = LCK_none
  BY <1>1 DEF LCK_write, LCK_none, Levels
<1> QED BY <1>1, <1>2 DEF Caching, ImagesFit, LCK_write, LCK_none

LEMMA SavesKeeps ==
  ASSUME TypeOK, NEW p \in Procs, NEW g \in Pages, Caching, History, Saves(p, g)
  PROVE  Caching' /\ History'
<1>1. /\ \A h \in Pages : disk'[h] = IF h = g THEN bdb[p][g].img ELSE disk[h]
      /\ \A h \in Pages : disk[h].has \subseteq disk'[h].has
  BY DEF Saves, TypeOK, Caching, ImagesFit
<1>2. \A q \in Procs, h \in Pages : q # p \/ h # g =>
        /\ bdb'[q][h].img = bdb[q][h].img /\ (Dirty(q, h)' <=> Dirty(q, h))
        /\ Has(q, h, "changed")' <=> Has(q, h, "changed")
        /\ lck'[q][h] = lck[q][h]
  BY DEF Saves, Alone, Dirty, Has
<1>3. \A q \in Procs \ {p} : lck[q][g] = LCK_none /\ ~Dirty(q, g) /\ bdb[q][g].img = Blank
  BY DirtyAlone DEF Saves
<1>4. LocksFit'
  <2>1. ASSUME NEW h \in Pages
        PROVE  lck'[p][h] \in Levels /\ lck'[p][h] <= lck[p][h]
    <3>1. CASE h = g
      BY <3>1 DEF Saves
    <3>2. CASE h # g
      BY <1>2, <3>2 DEF TypeOK, Levels, LCK_none, LCK_write
    <3> QED BY <3>1, <3>2
  <2> QED BY <2>1, LoweredKeep DEF Saves, Caching
<1>5. ImagesFit'
  <2> SUFFICES ASSUME NEW q \in Procs, NEW h \in Pages
               PROVE  IF Dirty(q, h)' THEN lck'[q][h] = LCK_write
                                           /\ disk'[h].has \subseteq bdb'[q][h].img.has
                      ELSE bdb'[q][h].img = IF lck'[q][h] = LCK_none THEN Blank ELSE disk'[h]
    BY DEF ImagesFit
  <2>1. CASE q = p /\ h = g
    BY <1>1, <2>1 DEF Saves
  <2>2. CASE q # p /\ h = g
    BY <1>2, <1>3, <2>2
  <2>3. CASE h # g
    BY <1>1, <1>2, <2>3 DEF Caching, ImagesFit
  <2> QED BY <2>1, <2>2, <2>3
<1>6. \A q \in Procs, h \in Pages :
        bdb'[q][h].img.has \subseteq bdb[q][h].img.has
  BY <1>2 DEF Saves, Blank
<1>7. \A h \in Pages : disk'[h].has \subseteq disk[h].has \cup bdb[p][h].img.has
  BY <1>1
<1>8. NumbersFit'
  <2>1. \A q \in Procs : main'[q].number = main[q].number
    BY DEF Saves, Alone
  <2>2. \A u : Unseen(u) => Unseen(u)'
    BY <1>6, <1>7 DEF Unseen, Saves
  <2> QED BY <1>6, <1>7, <2>1, <2>2 DEF History, NumbersFit, Past, Saves
<1>9. UpdatesFit'
  <2>1. ASSUME NEW q \in Procs, NEW r \in Procs, NEW h \in Pages, q # r
        PROVE  tra'[r].made \cap bdb'[q][h].img.has \subseteq disk'[h].has
    BY <1>1, <1>6, <2>1 DEF History, UpdatesFit, Saves
  <2>2. ASSUME NEW q \in Procs, NEW h \in Pages, Dirty(q, h)', ~Has(q, h, "changed")'
        PROVE  tra'[q].made \cap bdb'[q][h].img.has \subseteq disk'[h].has
    BY <1>1, <1>2, <2>2 DEF History, UpdatesFit, Saves
  <2>3. ASSUME NEW q \in Procs, NEW u \in tra'[q].made \ lost'
        PROVE  \/ \E h \in Pages : u \in disk'[h].has
               \/ \E h \in Pages : Dirty(q, h)' /\ Has(q, h, "changed")'
                                   /\ u \in bdb'[q][h].img.has
    <3>1. u \in tra[q].made \ lost
      BY <2>3 DEF Saves
    <3>2. CASE \E h \in Pages : u \in disk[h].has
      BY <1>1, <3>2
    <3>3. ASSUME NEW h \in Pages, Dirty(q, h), Has(q, h, "changed"), u \in bdb[q][h].img.has
          PROVE  \/ u \in disk'[h].has
                 \/ Dirty(q, h)' /\ Has(q, h, "changed")' /\ u \in bdb'[q][h].img.has
      BY <1>1, <1>2, <3>3
    <3> QED BY <3>1, <3>2, <3>3 DEF History, UpdatesFit
  <2> QED BY <2>1, <2>2, <2>3 DEF UpdatesFit
<1>10. CommittedInFile' /\ LossNoticed'
  BY <1>1 DEF Saves, History, CommittedInFile, LossNoticed, Durable
<1> QED BY <1>4, <1>5, <1>8, <1>9, <1>10 DEF Caching, History

-----------------------------------------------------------------------------
(* Steps of the main line that change no image.                            *)

\* The main line of p goes on to m, its buffers become B and its precedence E; all its
\* images stay as they are, dirty and changed or not. A number may be taken.
Goes(p, B, m, E) ==
  /\ B \in [Pages -> Buffer] /\ m \in MainLine /\ E \in SUBSET pre[p]
  /\ bdb' = [bdb EXCEPT ![p] = B] /\ main' = [main EXCEPT ![p] = m]
  /\ pre' = [pre EXCEPT ![p] = E] /\ posted' \in [Procs -> SUBSET Pages]
  /\ UNCHANGED <<disk, lck, ast, tra, committed, lost>>
  /\ \/ clock' = clock /\ m.number \in {0, main[p].number}
     \/ clock < MaxUpdate /\ clock' = clock + 1 /\ m.number = clock'

\* Buffer b has the image of buffer c, dirty or not.
Alike(b, c) ==
  /\ b.img = c.img /\ ("dirty" \in b.flags <=> "dirty" \in c.flags)
  /\ "dirty" \in c.flags => ("changed" \in b.flags <=> "changed" \in c.flags)

LEMMA StillStep ==
  ASSUME IInv, NEW p \in Procs, NEW B, NEW m, NEW E, Goes(p, B, m, E),
         \A h \in Pages : Alike(B[h], bdb[p][h])
  PROVE  /\ TypeOK' /\ Alone(p) /\ Caching' /\ History' /\ NoCycle'
         /\ main'[p] = m /\ pre'[p] = E /\ bdb'[p] = B
<1>1. TypeOK /\ Caching /\ History /\ NoCycle
  BY DEF IInv, Control
<1>2. clock' \in 0..MaxUpdate /\ E \in SUBSET Precedence
  BY <1>1, ConstantAssumption DEF TypeOK, Goes
<1>3. TypeOK' /\ Alone(p) /\ bdb'[p] = B /\ main'[p] = m /\ pre'[p] = E
  BY <1>1, <1>2, MainStep DEF Goes
<1>4. Still(p)
  BY <1>3 DEF Still, SameImages, Dirty, Has, Goes, Alike
<1>5. NoCycle'
  BY <1>1, <1>3, FewerKeepNoCycle DEF Goes
<1> QED BY <1>1, <1>3, <1>4, <1>5, StillKeeps

LEMMA PageStep ==
  ASSUME IInv, NEW p \in Procs, NEW g \in Pages, NEW b \in Buffer, NEW m, NEW E,
         Goes(p, [bdb[p] EXCEPT ![g] = b], m, E), Alike(b, bdb[p][g])
  PROVE  /\ TypeOK' /\ Alone(p) /\ Caching' /\ History' /\ NoCycle'
         /\ main'[p] = m /\ pre'[p] = E
         /\ \A h \in Pages : bdb'[p][h] = IF h = g THEN b ELSE bdb[p][h]
<1> DEFINE B == [bdb[p] EXCEPT ![g] = b]
<1>1. bdb[p] \in [Pages -> Buffer]
  BY DEF IInv, Control, TypeOK
<1>2. \A h \in Pages : B[h] = IF h = g THEN b ELSE bdb[p][h]
  BY <1>1
<1>3. Goes(p, B, m, E)
  OBVIOUS
<1>4. \A h \in Pages : Alike(B[h], bdb[p][h])
  BY <1>2 DEF Alike
<1> HIDE DEF B
<1>5. /\ TypeOK' /\ Alone(p) /\ Caching' /\ History' /\ NoCycle'
      /\ main'[p] = m /\ pre'[p] = E /\ bdb'[p] = B
  BY <1>3, <1>4, StillStep
<1> QED BY <1>2, <1>5

\* The parts of the invariant that are about the process of a step.
LEMMA Parts ==
  ASSUME IInv, NEW p \in Procs
  PROVE  /\ TypeOK /\ Caching /\ History /\ NoCycle /\ \A q \in Procs : Own(q)
         /\ LatchesOf(p) /\ MainOf(p) /\ CleanOf(p) /\ WindowOf(p)
         /\ main[p] \in MainLine /\ bdb[p] \in [Pages -> Buffer]
         /\ lck[p] \in [Pages -> Levels] /\ pre[p] \in SUBSET Precedence
         /\ ast[p] \in Seq(Frame) /\ posted[p] \in SUBSET Pages
         /\ tra[p] \in [made : SUBSET Updates, invalidated : BOOLEAN]
BY Types DEF IInv, Control, Own

LEMMA LineOf ==
  ASSUME IInv, NEW p \in Procs
  PROVE  main[p] \in MainLine
BY Parts

\* Nothing of process p changes but some precedence that it gives up.
LEMMA SameOwn ==
  ASSUME NEW p \in Procs, Own(p), UNCHANGED <<bdb, lck, main, ast>>, pre'[p] \subseteq pre[p]
  PROVE  Own(p)'
<1>1. LatchesOf(p)'
  BY DEF Own, LatchesOf, Line, Taking, Top
<1>2. MainOf(p)'
  BY DEF Own, MainOf
<1>3. CleanOf(p)'
  BY DEF Own, CleanOf, Has, Dirty, Below
<1>4. WindowOf(p)'
  BY DEF Own, WindowOf, InWindow, Has
<1> QED BY <1>1, <1>2, <1>3, <1>4 DEF Own

LEMMA Gather ==
  ASSUME IInv, NEW p \in Procs, TypeOK', Alone(p), Caching', History', NoCycle',
         LatchesOf(p)', MainOf(p)', CleanOf(p)', WindowOf(p)'
  PROVE  IInv'
BY Gathered DEF IInv, Control, Own

\* A process that is between its calls has no latch.
LEMMA IdleLatches ==
  ASSUME IInv, NEW p \in Procs, Runs(p, "idle") \/ Runs(p, "flush")
  PROVE  /\ main[p].page = NoPage /\ main[p].stack = <<>> /\ ~Taking(p)
         /\ main[p].back = "idle"
         /\ \A g \in Pages : bdb[p][g].use = 0 /\ Line(p, g) = 0
<1>1. main[p].page = NoPage /\ main[p].stack = <<>> /\ ~Taking(p) /\ main[p].back = "idle"
  BY Parts DEF Runs, MainOf, Taking
<1>2. \A g \in Pages : Line(p, g) = 0
  BY <1>1, ConstantAssumption DEF Line, One
<1> QED BY <1>1, <1>2, Parts, RunningLatches DEF Runs

-----------------------------------------------------------------------------
(* Fetching a page.                                                        *)

LEMMA FetchKeeps ==
  ASSUME IInv, NEW p \in Procs, NEW g \in Pages, NEW write \in BOOLEAN,
         CCH_fetch(p, g, write)
  PROVE  IInv'
<1> DEFINE F == IF write THEN {"writer"} ELSE {}
           b == With(Without(Latched(bdb[p][g]), {"faked"}), F)
           m == [main[p] EXCEPT !.pc = "lock", !.page = g]
<1>1. /\ main[p].page = NoPage /\ main[p].stack = <<>> /\ ~Taking(p) /\ main[p].back = "idle"
      /\ \A h \in Pages : bdb[p][h].use = 0
  BY IdleLatches DEF CCH_fetch
<1>2. /\ b \in Buffer /\ b.use = 1 /\ b.img = bdb[p][g].img
      /\ b.flags = (bdb[p][g].flags \ {"faked"}) \cup F
  <2>1. bdb[p][g] \in Buffer /\ Latched(bdb[p][g]) \in Buffer
    BY <1>1, Parts, LatchOps
  <2> QED BY <1>1, <2>1, LatchOps, BufferOps DEF Flags
<1>3. m \in MainLine
  BY LineOf DEF MainLine
<1> HIDE DEF b
<1>4. /\ TypeOK' /\ Alone(p) /\ Caching' /\ History' /\ NoCycle'
      /\ main'[p] = m /\ pre'[p] = pre[p]
      /\ \A h \in Pages : bdb'[p][h] = IF h = g THEN b ELSE bdb[p][h]
  <2>1. main' = [main EXCEPT ![p] = m]
    <3>1. main' = [main EXCEPT ![p].pc = "lock", ![p].page = g]
      BY DEF CCH_fetch
    <3> QED BY <3>1, Parts DEF TypeOK, MainLine
  <2>2. [bdb[p] EXCEPT ![g] = b] \in [Pages -> Buffer] /\ m.number = main[p].number
    BY <1>2, Parts DEF MainLine
  <2>3. bdb' = [bdb EXCEPT ![p] = [bdb[p] EXCEPT ![g] = b]]
    BY Parts DEF CCH_fetch, b, TypeOK
  <2>4. Goes(p, [bdb[p] EXCEPT ![g] = b], m, pre[p])
    BY <1>3, <2>1, <2>2, <2>3, Parts DEF Goes, CCH_fetch, TypeOK
  <2>5. Alike(b, bdb[p][g])
    BY <1>2 DEF Alike
  <2> HIDE DEF m
  <2> QED BY <1>2, <2>4, <2>5, PageStep
<1>5. LatchesOf(p)'
  <2>1. \A h \in Pages : Line(p, h)' = One(h = g)
    BY <1>1, <1>4, Parts DEF Line, One, Taking, MainLine
  <2> QED BY <1>1, <1>2, <1>4, <2>1, RunningLatchesKept DEF CCH_fetch, Runs, One
<1>6. MainOf(p)'
  BY <1>1, <1>4, Parts, ConstantAssumption DEF MainOf, MainLine
<1>7. CleanOf(p)' /\ WindowOf(p)'
  BY <1>1, <1>2, <1>4, Parts DEF CleanOf, WindowOf, InWindow, Has, F, MainLine
<1> QED BY <1>4, <1>5, <1>6, <1>7, Gather

LEMMA FakeKeeps ==
  ASSUME IInv, NEW p \in Procs, NEW g \in Pages, CCH_fake(p, g)
  PROVE  IInv'
<1> DEFINE at == [main[p] EXCEPT !.page = g, !.number = clock']
<1>1. /\ main[p].page = NoPage /\ main[p].stack = <<>> /\ ~Taking(p) /\ main[p].back = "idle"
      /\ \A h \in Pages : bdb[p][h].use = 0
  BY IdleLatches DEF CCH_fake
<1>2. bdb[p][g] \in Buffer /\ Latched(bdb[p][g]) \in Buffer /\ Latched(bdb[p][g]).use = 1
  BY <1>1, Parts, LatchOps
<1>3. clock < MaxUpdate /\ clock' = clock + 1 /\ clock' \in 1..MaxUpdate
  BY Parts, ConstantAssumption DEF CCH_fake, TypeOK
<1>4. at \in MainLine /\ at.page = g /\ at.number = clock' /\ at.stack = <<>>
  <2>1. clock' \in 0..MaxUpdate
    BY <1>3, ConstantAssumption
  <2>2. at \in MainLine
    BY <2>1, LineOf DEF MainLine
  <2>3. at.page = g /\ at.number = clock' /\ at.stack = main[p].stack
    BY Parts DEF MainLine
  <2> QED BY <1>1, <2>2, <2>3
<1>5. CASE Dirty(p, g)
  <2> DEFINE b == Latched(Latched(bdb[p][g]))
             m == [at EXCEPT !.pc = "write", !.stack = <<g>>, !.back = "fake"]
  <2>1. b \in Buffer /\ b.use = 2 /\ b.img = bdb[p][g].img /\ b.flags = bdb[p][g].flags
    BY <1>1, <1>2, LatchOps
  <2>2. m \in MainLine
    BY <1>4, Single DEF MainLine
  <2>3. /\ m.pc = "write" /\ m.page = g /\ m.number = clock'
        /\ m.stack # <<>> /\ Head(m.stack) = g /\ Latest(m.stack) = g /\ Len(m.stack) = 1
        /\ m.back = "fake" /\ m.hi = main[p].hi
    BY <1>4, Parts, Single DEF MainLine
  <2> HIDE DEF b, m, at
  <2>4. /\ TypeOK' /\ Alone(p) /\ Caching' /\ History' /\ NoCycle'
        /\ main'[p] = m /\ pre'[p] = pre[p]
        /\ \A h \in Pages : bdb'[p][h] = IF h = g THEN b ELSE bdb[p][h]
    <3>1. main' = [main EXCEPT ![p] = m] /\ bdb' = [bdb EXCEPT ![p][g] = b]
      BY <1>5 DEF CCH_fake, m, at, b
    <3>2. /\ bdb' = [bdb EXCEPT ![p] = [bdb[p] EXCEPT ![g] = b]]
          /\ [bdb[p] EXCEPT ![g] = b] \in [Pages -> Buffer]
      BY <2>1, <3>1, Parts DEF TypeOK
    <3>3. Goes(p, [bdb[p] EXCEPT ![g] = b], m, pre[p])
      BY <1>3, <1>5, <2>2, <2>3, <3>1, <3>2, Parts DEF Goes, CCH_fake, TypeOK
    <3>4. Alike(b, bdb[p][g])
      BY <2>1 DEF Alike
    <3> QED BY <2>1, <3>3, <3>4, PageStep
  <2>5. LatchesOf(p)'
    <3>1. \A h \in Pages : Line(p, h)' = One(h = g) + One(h = g)
      BY <1>1, <2>3, <2>4 DEF Line, One, Taking, Top
    <3> QED BY <1>1, <2>1, <2>4, <3>1, RunningLatchesKept DEF CCH_fake, Runs, One
  <2>6. MainOf(p)'
    <3>1. clock' # 0 /\ g # NoPage
      BY <1>3, ConstantAssumption
    <3> QED BY <2>3, <2>4, <3>1 DEF MainOf
  <2>7. CleanOf(p)' /\ WindowOf(p)'
    BY <2>3, <2>4 DEF CleanOf, WindowOf, InWindow
  <2> QED BY <2>4, <2>5, <2>6, <2>7, Gather
<1>6. CASE ~Dirty(p, g)
  <2> DEFINE b == Faking(Latched(bdb[p][g]))
             m == [at EXCEPT !.pc = "lock"]
  <2>1. /\ b \in Buffer /\ b.use = 1 /\ b.img = bdb[p][g].img
        /\ b.flags = {"writer", "faked"} \cup (bdb[p][g].flags \cap {"blocking"})
    <3>1. Latched(bdb[p][g]).img = bdb[p][g].img /\ Latched(bdb[p][g]).flags = bdb[p][g].flags
      BY <1>2, LatchOps
    <3> QED BY <1>2, <3>1 DEF Faking, Buffer, Flags
  <2>2. m \in MainLine
    BY <1>4 DEF MainLine
  <2>3. /\ m.pc = "lock" /\ m.page = g /\ m.number = clock' /\ m.stack = <<>>
        /\ m.back = "idle" /\ m.hi = main[p].hi
    BY <1>1, <1>4, Parts DEF MainLine
  <2> HIDE DEF b, m, at
  <2>4. /\ TypeOK' /\ Alone(p) /\ Caching' /\ History' /\ NoCycle'
        /\ main'[p] = m /\ pre'[p] = pre[p] \ Below(p, g)
        /\ \A h \in Pages : bdb'[p][h] = IF h = g THEN b ELSE bdb[p][h]
    <3>1. /\ main' = [main EXCEPT ![p] = m] /\ bdb' = [bdb EXCEPT ![p][g] = b]
          /\ pre' = [pre EXCEPT ![p] = pre[p] \ Below(p, g)]
      BY <1>6 DEF CCH_fake, m, at, b
    <3>2. /\ bdb' = [bdb EXCEPT ![p] = [bdb[p] EXCEPT ![g] = b]]
          /\ [bdb[p] EXCEPT ![g] = b] \in [Pages -> Buffer]
      BY <2>1, <3>1, Parts DEF TypeOK
    <3>3. Goes(p, [bdb[p] EXCEPT ![g] = b], m, pre[p] \ Below(p, g))
      BY <1>3, <2>2, <2>3, <3>1, <3>2, Parts DEF Goes, CCH_fake, TypeOK
    <3>4. Alike(b, bdb[p][g])
      BY <1>6, <2>1 DEF Alike, Dirty, Has
    <3> QED BY <2>1, <3>3, <3>4, PageStep
  <2>5. LatchesOf(p)'
    <3>1. \A h \in Pages : Line(p, h)' = One(h = g)
      BY <1>1, <2>3, <2>4 DEF Line, One, Taking
    <3> QED BY <1>1, <2>1, <2>4, <3>1, RunningLatchesKept DEF CCH_fake, Runs, One
  <2>6. MainOf(p)'
    BY <2>3, <2>4, ConstantAssumption DEF MainOf
  <2>7. CleanOf(p)' /\ WindowOf(p)'
    BY <1>3, <2>1, <2>3, <2>4 DEF CleanOf, WindowOf, InWindow, Has, Dirty
  <2> QED BY <2>4, <2>5, <2>6, <2>7, Gather
<1> QED BY <1>5, <1>6

LEMMA FakeWrittenKeeps ==
  ASSUME IInv, NEW p \in Procs, FakeWritten(p)
  PROVE  IInv'
<1> DEFINE g == main[p].page
           b == Faking(bdb[p][g])
           m == [main[p] EXCEPT !.pc = "lock"]
<1>1. g \in Pages /\ main[p].number # 0 /\ main[p].back = "idle" /\ ~Dirty(p, g)
  BY Parts DEF FakeWritten, Runs, MainOf, CleanOf, MainLine
<1>2. main[p].stack = <<>> /\ ~Taking(p)
  BY <1>1, Parts DEF FakeWritten, Runs, MainOf, Taking
<1>3. /\ b \in Buffer /\ b.use = bdb[p][g].use /\ b.img = bdb[p][g].img
      /\ b.flags = {"writer", "faked"} \cup (bdb[p][g].flags \cap {"blocking"})
  BY <1>1, Parts DEF Faking, Buffer, Flags
<1>4. m \in MainLine
  BY LineOf DEF MainLine
<1>5. /\ m.pc = "lock" /\ m.page = g /\ m.number = main[p].number /\ m.stack = <<>>
      /\ m.back = "idle" /\ m.hi = main[p].hi
  BY <1>1, <1>2, Parts DEF MainLine
<1> HIDE DEF b, m, g
<1>6. /\ TypeOK' /\ Alone(p) /\ Caching' /\ History' /\ NoCycle'
      /\ main'[p] = m /\ pre'[p] = pre[p]
      /\ \A h \in Pages : bdb'[p][h] = IF h = g THEN b ELSE bdb[p][h]
  <2>1. main' = [main EXCEPT ![p] = m] /\ bdb' = [bdb EXCEPT ![p][g] = b]
    BY DEF FakeWritten, m, b, g
  <2>2. /\ bdb' = [bdb EXCEPT ![p] = [bdb[p] EXCEPT ![g] = b]]
        /\ [bdb[p] EXCEPT ![g] = b] \in [Pages -> Buffer]
    BY <1>1, <1>3, <2>1, Parts DEF TypeOK
  <2>3. Goes(p, [bdb[p] EXCEPT ![g] = b], m, pre[p])
    BY <1>4, <1>5, <2>1, <2>2, Parts DEF Goes, FakeWritten, TypeOK
  <2>4. Alike(b, bdb[p][g])
    BY <1>1, <1>3 DEF Alike, Dirty, Has
  <2> QED BY <1>1, <1>3, <2>3, <2>4, PageStep
<1>7. LatchesOf(p)'
  <2>1. \A h \in Pages : Line(p, h)' = Line(p, h)
    BY <1>2, <1>5, <1>6 DEF Line, One, Taking, g
  <2>2. ast[p] = <<>> /\ \A h \in Pages : bdb[p][h].use = Line(p, h)
    BY Parts, RunningLatches DEF FakeWritten, Runs
  <2>3. ast'[p] = <<>>
    BY <2>2 DEF FakeWritten
  <2> QED BY <1>1, <1>3, <1>6, <2>1, <2>2, <2>3, RunningLatchesKept
<1>8. MainOf(p)'
  BY <1>1, <1>5, <1>6, ConstantAssumption DEF MainOf
<1>9. CleanOf(p)' /\ WindowOf(p)'
  BY <1>1, <1>3, <1>5, <1>6 DEF CleanOf, WindowOf, InWindow, Has, Dirty
<1> QED BY <1>6, <1>7, <1>8, <1>9, Gather

LEMMA NoticeKeeps ==
  ASSUME IInv, NEW p \in Procs, NoticeRepeated(p)
  PROVE  IInv'
<1>1. main[p].page \in Pages
  BY Parts DEF NoticeRepeated, MainOf, MainLine
<1>2. posted' \in [Procs -> SUBSET Pages]
  BY <1>1, Parts DEF NoticeRepeated, BlockersPosted, TypeOK
<1>3. TypeOK'
  BY <1>2, Parts DEF NoticeRepeated, TypeOK
<1>4. Alone(p) /\ Still(p)
  BY DEF Alone, Still, SameImages, Dirty, Has, NoticeRepeated
<1>5. Own(p)' /\ NoCycle'
  <2>1. UNCHANGED <<bdb, lck, main, ast, pre>>
    BY DEF NoticeRepeated
  <2>2. NoCycle'
    BY <2>1, Parts DEF NoCycle, Over
  <2> QED BY <2>1, <2>2, Parts, SameOwn
<1> QED BY <1>3, <1>4, <1>5, Parts, StillKeeps, Gathered

-----------------------------------------------------------------------------
(* The rest of the main line, where it changes no image.                   *)

\* The main line where it neither writes nor takes a buffer.
LEMMA PlainLine ==
  ASSUME IInv, NEW p \in Procs, main[p].pc \notin {"write", "reuse"}
  PROVE  /\ main[p].stack = <<>> /\ main[p].back = "idle" /\ ~Taking(p)
         /\ \A h \in Pages : Line(p, h) = One(main[p].page = h)
<1>1. main[p].stack = <<>> /\ main[p].back = "idle" /\ ~Taking(p)
  BY Parts DEF MainOf, Taking
<1> QED BY <1>1 DEF Line, One

LEMMA OneBuffer ==
  ASSUME IInv, NEW p \in Procs, NEW g \in Pages, NEW b \in Buffer,
         bdb' = [bdb EXCEPT ![p][g] = b]
  PROVE  /\ bdb' = [bdb EXCEPT ![p] = [bdb[p] EXCEPT ![g] = b]]
         /\ [bdb[p] EXCEPT ![g] = b] \in [Pages -> Buffer]
BY Parts DEF TypeOK

LEMMA ReleaseKeeps ==
  ASSUME IInv, NEW p \in Procs, CCH_release(p)
  PROVE  IInv'
<1> DEFINE g == main[p].page
           b == Released(Without(bdb[p][g], {"writer", "marked", "faked"}))
<1>1. /\ g \in Pages /\ ast[p] = <<>> /\ main[p].pc = "held"
      /\ \A h \in Pages : bdb[p][h].use = One(g = h)
  <2>1. g \in Pages /\ ast[p] = <<>> /\ main[p].pc = "held"
    BY Parts DEF CCH_release, Runs, MainOf, MainLine
  <2> QED BY <2>1, Parts, PlainLine, RunningLatches
<1>2. /\ b \in Buffer /\ b.use = 0 /\ b.img = bdb[p][g].img
      /\ b.flags = bdb[p][g].flags \ {"writer", "marked", "faked"}
  <2>1. bdb[p][g] \in Buffer /\ bdb[p][g].use = 1 /\ {"writer", "marked", "faked"} \in SUBSET Flags
    BY <1>1, Parts DEF One, Flags
  <2> QED BY <2>1, LatchOps, BufferOps
<1>3. Idle \in MainLine /\ Idle.number = 0
  BY EmptySeq, ConstantAssumption DEF Idle, MainLine, Levels, LCK_none, LCK_write
<1>4. posted' \in [Procs -> SUBSET Pages]
  BY <1>1, Parts DEF CCH_release, Reposts, TypeOK
<1> HIDE DEF b, g
<1>5. /\ TypeOK' /\ Alone(p) /\ Caching' /\ History' /\ NoCycle'
      /\ main'[p] = Idle /\ pre'[p] = pre[p]
      /\ \A h \in Pages : bdb'[p][h] = IF h = g THEN b ELSE bdb[p][h]
  <2>1. main' = [main EXCEPT ![p] = Idle] /\ bdb' = [bdb EXCEPT ![p][g] = b]
    BY DEF CCH_release, b, g
  <2>2. Goes(p, [bdb[p] EXCEPT ![g] = b], Idle, pre[p])
    BY <1>1, <1>2, <1>3, <1>4, <2>1, OneBuffer, Parts DEF Goes, CCH_release, TypeOK
  <2>3. Alike(b, bdb[p][g])
    BY <1>2 DEF Alike
  <2> QED BY <1>1, <1>2, <2>2, <2>3, PageStep
<1>6. LatchesOf(p)'
  <2>1. \A h \in Pages : Line(p, h)' = 0
    BY <1>5, ConstantAssumption DEF Line, One, Taking, Idle
  <2> QED BY <1>1, <1>2, <1>5, <2>1, RunningLatchesKept DEF CCH_release, One
<1>7. MainOf(p)'
  <2>1. Len(<<>>) = 0
    BY EmptySeq
  <2> QED BY <1>5, <2>1 DEF MainOf, Idle
<1>8. CleanOf(p)' /\ WindowOf(p)'
  BY <1>5 DEF CleanOf, WindowOf, InWindow, Idle
<1> QED BY <1>5, <1>6, <1>7, <1>8, Gather

LEMMA CommitKeeps ==
  ASSUME IInv, NEW p \in Procs, TRA_commit(p)
  PROVE  IInv'
<1> DEFINE m == [main[p] EXCEPT !.pc = "flush"]
<1>1. m \in MainLine
  BY LineOf DEF MainLine
<1>2. /\ m.pc = "flush" /\ m.page = main[p].page /\ m.number = main[p].number
      /\ m.stack = main[p].stack /\ m.back = main[p].back /\ m.hi = main[p].hi
  BY Parts DEF MainLine
<1>3. main[p].page = NoPage /\ main[p].stack = <<>> /\ ~Taking(p) /\ main[p].back = "idle"
  BY IdleLatches DEF TRA_commit
<1> HIDE DEF m
<1>4. /\ TypeOK' /\ Alone(p) /\ Caching' /\ History' /\ NoCycle'
      /\ main'[p] = m /\ pre'[p] = pre[p] /\ bdb'[p] = bdb[p]
  <2>1. main' = [main EXCEPT ![p] = m]
    BY DEF TRA_commit, m
  <2>2. Goes(p, bdb[p], m, pre[p])
    BY <1>1, <1>2, <2>1, Parts DEF Goes, TRA_commit, TypeOK
  <2>3. \A h \in Pages : Alike(bdb[p][h], bdb[p][h])
    BY DEF Alike
  <2> QED BY <2>2, <2>3, StillStep
<1>5. LatchesOf(p)'
  <2>1. \A h \in Pages : Line(p, h)' = Line(p, h)
    BY <1>2, <1>3, <1>4 DEF Line, One, Taking
  <2>2. ast[p] = <<>> /\ \A h \in Pages : bdb[p][h].use = Line(p, h)
    BY Parts, RunningLatches DEF TRA_commit, Runs
  <2> QED BY <1>4, <2>1, <2>2, RunningLatchesKept DEF TRA_commit
<1>6. MainOf(p)'
  BY <1>2, <1>3, <1>4, Parts DEF MainOf
<1>7. CleanOf(p)' /\ WindowOf(p)'
  BY <1>2, <1>3, <1>4 DEF CleanOf, WindowOf, InWindow
<1> QED BY <1>4, <1>5, <1>6, <1>7, Gather

LEMMA FlushKeeps ==
  ASSUME IInv, NEW p \in Procs, btc_flush(p)
  PROVE  IInv'
<1>1. PICK g \in ToFlush(p) : WriteStarts(p, g, "flush", bdb[p])
  BY DEF btc_flush
<1> DEFINE b == Latched(bdb[p][g])
           m == [main[p] EXCEPT !.pc = "write", !.stack = <<g>>, !.back = "flush"]
<1>2. /\ main[p].page = NoPage /\ main[p].stack = <<>> /\ ~Taking(p) /\ main[p].back = "idle"
      /\ \A h \in Pages : bdb[p][h].use = 0
  BY IdleLatches DEF btc_flush
<1>3. /\ g \in Pages
      /\ b \in Buffer /\ b.use = 1 /\ b.img = bdb[p][g].img /\ b.flags = bdb[p][g].flags
  <2>1. g \in Pages
    BY DEF ToFlush
  <2> QED BY <1>2, <2>1, Parts, LatchOps
<1>4. m \in MainLine
  <2>1. <<g>> \in Seq(Pages) /\ main[p] \in MainLine
    BY <1>3, LineOf, Single
  <2> QED BY <2>1 DEF MainLine
<1>5. /\ m.pc = "write" /\ m.page = NoPage /\ m.number = main[p].number
      /\ m.stack # <<>> /\ Head(m.stack) = g /\ Len(m.stack) = 1
      /\ m.back = "flush" /\ m.hi = main[p].hi
  BY <1>2, Parts, Single DEF MainLine
<1>6. main' = [main EXCEPT ![p] = m] /\ bdb' = [bdb EXCEPT ![p][g] = b]
  <2>1. /\ bdb' = [bdb EXCEPT ![p] = [bdb[p] EXCEPT ![g] = Latched(@)]]
        /\ main' = [main EXCEPT ![p].pc = "write", ![p].stack = <<g>>, ![p].back = "flush"]
    BY <1>1 DEF WriteStarts
  <2>2. bdb' = [bdb EXCEPT ![p][g] = b]
    BY <2>1, <1>3, Parts DEF TypeOK
  <2>3. main' = [main EXCEPT ![p] = m]
    BY <2>1, Parts DEF TypeOK, MainLine
  <2> QED BY <2>2, <2>3
<1> HIDE DEF b, m
<1>7. /\ TypeOK' /\ Alone(p) /\ Caching' /\ History' /\ NoCycle'
      /\ main'[p] = m /\ pre'[p] = pre[p]
      /\ \A h \in Pages : bdb'[p][h] = IF h = g THEN b ELSE bdb[p][h]
  <2>1. Goes(p, [bdb[p] EXCEPT ![g] = b], m, pre[p])
    BY <1>3, <1>4, <1>5, <1>6, OneBuffer, Parts DEF Goes, btc_flush, TypeOK
  <2>2. Alike(b, bdb[p][g])
    BY <1>3 DEF Alike
  <2> QED BY <1>3, <2>1, <2>2, PageStep
<1>8. LatchesOf(p)'
  <2>1. \A h \in Pages : Line(p, h)' = One(h = g)
    BY <1>2, <1>5, <1>7, ConstantAssumption DEF Line, One, Taking, Top
  <2> QED BY <1>2, <1>3, <1>7, <2>1, RunningLatchesKept DEF btc_flush, Runs, One
<1>9. MainOf(p)'
  <2>1. \A i \in 1..(Len(m.stack) - 1) : m.stack[i] # m.stack[i + 1]
    BY <1>5
  <2> QED BY <1>5, <1>7, <2>1 DEF MainOf
<1>10. CleanOf(p)' /\ WindowOf(p)'
  BY <1>5, <1>7 DEF CleanOf, WindowOf, InWindow
<1> QED BY <1>7, <1>8, <1>9, <1>10, Gather

\* A buffer that get_buffer is to take is written first.
LEMMA TakingKeeps ==
  ASSUME IInv, NEW p \in Procs, NEW g \in Pages, get_buffer(p, g), Dirty(p, g)
  PROVE  IInv'
<1> DEFINE b == Latched(Latched(bdb[p][g]))
           m == [main[p] EXCEPT !.pc = "write", !.stack = <<g>>, !.back = "reuse", !.hi = g]
<1>1. /\ ast[p] = <<>> /\ main[p].pc \in {"idle", "held"}
      /\ bdb[p][g] \in Buffer /\ bdb[p][g].use = 0
      /\ \A h \in Pages : bdb[p][h].use = One(main[p].page = h)
  <2>1. ast[p] = <<>> /\ main[p].pc \in {"idle", "held"} /\ ~(bdb[p][g].use > 0)
    BY DEF get_buffer, Runs, InUse
  <2>2. bdb[p][g] \in Buffer
    BY Parts
  <2>3. bdb[p][g].use = 0
    BY <2>1, <2>2 DEF Buffer
  <2> QED BY <2>1, <2>2, <2>3, Parts, PlainLine, RunningLatches
<1>2. b \in Buffer /\ b.use = 2 /\ b.img = bdb[p][g].img /\ b.flags = bdb[p][g].flags
  <2>1. /\ Latched(bdb[p][g]) \in Buffer /\ Latched(bdb[p][g]).use = 1
        /\ Latched(bdb[p][g]).img = bdb[p][g].img /\ Latched(bdb[p][g]).flags = bdb[p][g].flags
    BY <1>1, LatchOps
  <2> QED BY <2>1, LatchOps
<1>3. m \in MainLine
  BY LineOf, Single DEF MainLine
<1>4. /\ m.pc = "write" /\ m.page = main[p].page /\ m.number = main[p].number
      /\ m.stack # <<>> /\ Head(m.stack) = g /\ Latest(m.stack) = g /\ Len(m.stack) = 1
      /\ m.back = "reuse" /\ m.hi = g
  BY Parts, Single DEF MainLine
<1>5. main[p].page # g /\ g # NoPage
  BY <1>1, ConstantAssumption DEF One
<1>6. main' = [main EXCEPT ![p] = m] /\ bdb' = [bdb EXCEPT ![p][g] = b]
  <2>1. /\ bdb' = [bdb EXCEPT ![p][g] = Latched(Latched(@))]
        /\ main' = [main EXCEPT ![p].pc = "write", ![p].stack = <<g>>,
                      ![p].back = "reuse", ![p].hi = g]
        /\ UNCHANGED <<lck, pre, posted>>
    BY DEF get_buffer
  <2>2. bdb' = [bdb EXCEPT ![p][g] = b]
    BY <2>1
  <2>3. main' = [main EXCEPT ![p] = m]
    BY <2>1, Parts DEF TypeOK, MainLine
  <2> QED BY <2>2, <2>3
<1> HIDE DEF b, m
<1>7. /\ TypeOK' /\ Alone(p) /\ Caching' /\ History' /\ NoCycle'
      /\ main'[p] = m /\ pre'[p] = pre[p]
      /\ \A h \in Pages : bdb'[p][h] = IF h = g THEN b ELSE bdb[p][h]
  <2>1. UNCHANGED <<disk, lck, pre, posted, ast, tra, committed, lost, clock>>
    BY DEF get_buffer
  <2>2. Goes(p, [bdb[p] EXCEPT ![g] = b], m, pre[p])
    BY <1>2, <1>3, <1>4, <1>6, <2>1, OneBuffer, Parts DEF Goes, TypeOK
  <2>3. Alike(b, bdb[p][g])
    BY <1>2 DEF Alike
  <2> QED BY <1>2, <2>2, <2>3, PageStep
<1>8. LatchesOf(p)'
  <2>1. \A h \in Pages : Line(p, h)' = One(main[p].page = h) + One(h = g) + One(h = g)
    BY <1>4, <1>7 DEF Line, One, Taking, Top
  <2>2. ast'[p] = <<>>
    BY <1>1 DEF get_buffer
  <2> QED BY <1>1, <1>2, <1>5, <1>7, <2>1, <2>2, RunningLatchesKept DEF One
<1>9. MainOf(p)'
  BY <1>4, <1>5, <1>7 DEF MainOf
<1>10. CleanOf(p)' /\ WindowOf(p)'
  <2>1. main[p].page # NoPage => main[p].page \in Pages /\ main[p].pc = "held"
    BY <1>1, Parts DEF MainLine, MainOf
  <2>2. lck' = lck
    BY DEF get_buffer
  <2> QED BY <1>4, <1>5, <1>7, <2>1, <2>2, Parts DEF CleanOf, WindowOf, InWindow, Has
<1> QED BY <1>7, <1>8, <1>9, <1>10, Gather

LEMMA DroppedKeeps ==
  ASSUME IInv, NEW p \in Procs, PrecedenceDropped(p)
  PROVE  IInv'
<1>1. PICK e \in Above(p, Top(p)) : e.cleared /\ pre' = [pre EXCEPT ![p] = @ \ {e}]
  BY DEF PrecedenceDropped
<1>2. /\ TypeOK' /\ Alone(p) /\ Caching' /\ History' /\ NoCycle'
      /\ main'[p] = main[p] /\ pre'[p] = pre[p] \ {e} /\ bdb'[p] = bdb[p]
  <2>1. Goes(p, bdb[p], main[p], pre[p] \ {e})
    BY <1>1, Parts DEF Goes, PrecedenceDropped, TypeOK
  <2>2. \A h \in Pages : Alike(bdb[p][h], bdb[p][h])
    BY DEF Alike
  <2> QED BY <2>1, <2>2, StillStep
<1>3. main' = main /\ bdb' = bdb /\ lck' = lck /\ ast' = ast
  BY DEF PrecedenceDropped
<1>4. Own(p)'
  BY <1>2, <1>3, Parts, SameOwn
<1> QED BY <1>2, <1>4, Gather DEF Own

\* All buffers are released.
LEMMA UnwindKeeps ==
  ASSUME IInv, NEW p \in Procs, ast[p] = <<>>, CCH_unwind(p)
  PROVE  IInv'
<1> DEFINE held == {g \in Pages : InUse(p, g)}
           B == [g \in Pages |-> IF g \in held
                                 THEN [Without(bdb[p][g], {"writer"}) EXCEPT !.use = 0]
                                 ELSE bdb[p][g]]
<1>1. \A h \in Pages : B[h] \in Buffer /\ B[h].use = 0 /\ Alike(B[h], bdb[p][h])
  <2> SUFFICES ASSUME NEW h \in Pages
               PROVE  B[h] \in Buffer /\ B[h].use = 0 /\ Alike(B[h], bdb[p][h])
    OBVIOUS
  <2>1. bdb[p][h] \in Buffer /\ {"writer"} \in SUBSET Flags
    BY Parts DEF Flags
  <2> DEFINE c == Without(bdb[p][h], {"writer"})
  <2>2. /\ c \in Buffer /\ c.img = bdb[p][h].img
        /\ c.flags = bdb[p][h].flags \ {"writer"}
    BY <2>1, BufferOps
  <2> HIDE DEF c
  <2>3. CASE h \in held
    <3>1. B[h] = [c EXCEPT !.use = 0]
      BY <2>3 DEF c
    <3> QED BY <2>2, <3>1 DEF Buffer, Alike
  <2>4. CASE h \notin held
    <3>1. B[h] = bdb[p][h] /\ ~(bdb[p][h].use > 0)
      BY <2>4 DEF InUse
    <3> QED BY <2>1, <3>1 DEF Buffer, Alike
  <2> QED BY <2>3, <2>4
<1>2. bdb' = [bdb EXCEPT ![p] = B] /\ main' = [main EXCEPT ![p] = Idle]
  BY DEF CCH_unwind
<1>3. posted' \in [Procs -> SUBSET Pages]
  BY Parts DEF CCH_unwind, Reposts, TypeOK
<1>4. B \in [Pages -> Buffer]
  BY <1>1
<1> HIDE DEF B
<1>5. Idle \in MainLine /\ Idle.number = 0
  BY EmptySeq, ConstantAssumption DEF Idle, MainLine, Levels, LCK_none, LCK_write
<1>6. /\ TypeOK' /\ Alone(p) /\ Caching' /\ History' /\ NoCycle'
      /\ main'[p] = Idle /\ pre'[p] = pre[p] /\ bdb'[p] = B
  <2>1. Goes(p, B, Idle, pre[p])
    BY <1>2, <1>3, <1>4, <1>5, Parts DEF Goes, CCH_unwind, TypeOK
  <2> QED BY <1>1, <2>1, StillStep
<1>7. LatchesOf(p)'
  <2>1. \A h \in Pages : Line(p, h)' = 0
    BY <1>6, ConstantAssumption DEF Line, One, Taking, Idle
  <2> QED BY <1>1, <1>6, <2>1, RunningLatchesKept DEF CCH_unwind
<1>8. MainOf(p)'
  <2>1. Len(<<>>) = 0
    BY EmptySeq
  <2> QED BY <1>6, <2>1 DEF MainOf, Idle
<1>9. CleanOf(p)' /\ WindowOf(p)'
  BY <1>6 DEF CleanOf, WindowOf, InWindow, Idle
<1> QED BY <1>6, <1>7, <1>8, <1>9, Gather

-----------------------------------------------------------------------------
(* Writing.                                                                *)

\* While p writes, each page has the latches of the window, of a buffer to be taken and
\* of the page on top.
LEMMA WritingLatches ==
  ASSUME IInv, NEW p \in Procs, Runs(p, "write")
  PROVE  /\ main[p].stack \in Seq(Pages) /\ main[p].stack # <<>> /\ Top(p) \in Pages
         /\ ast[p] = <<>> /\ main[p].back # "idle"
         /\ Taking(p) <=> main[p].back = "reuse"
         /\ Taking(p) => main[p].hi # main[p].page
         /\ \A h \in Pages : bdb[p][h].use =
              One(main[p].page = h) + One(Taking(p) /\ main[p].hi = h) + One(Top(p) = h)
         /\ bdb[p][Top(p)].use \in {1, 2} /\ \A h \in Pages \ {Top(p)} : bdb[p][h].use \in {0, 1}
<1>1. main[p].stack \in Seq(Pages) /\ main[p].stack # <<>> /\ ast[p] = <<>>
  BY Parts DEF Runs, MainOf, MainLine
<1>2. Top(p) \in Pages
  BY <1>1, Popped DEF Top
<1>3. /\ main[p].back # "idle" /\ (Taking(p) <=> main[p].back = "reuse")
      /\ Taking(p) => main[p].hi # main[p].page
  BY Parts DEF Runs, MainOf, Taking
<1>4. \A h \in Pages : bdb[p][h].use =
        One(main[p].page = h) + One(Taking(p) /\ main[p].hi = h) + One(Top(p) = h)
  <2>1. \A h \in Pages : bdb[p][h].use = Line(p, h)
    BY <1>1, Parts, RunningLatches
  <2> QED BY <1>1, <2>1 DEF Line, One
<1>5. bdb[p][Top(p)].use \in {1, 2} /\ \A h \in Pages \ {Top(p)} : bdb[p][h].use \in {0, 1}
  BY <1>2, <1>3, <1>4 DEF One
<1> QED BY <1>1, <1>2, <1>3, <1>4, <1>5

LEMMA HigherKeeps ==
  ASSUME IInv, NEW p \in Procs, WritesHigher(p)
  PROVE  IInv'
<1>1. PICK e \in Above(p, Top(p)) :
        /\ ~e.cleared
        /\ bdb' = [bdb EXCEPT ![p][Top(p)] = Released(@), ![p][e.hi] = Latched(@)]
        /\ main' = [main EXCEPT ![p].stack = <<e.hi>> \o @]
  BY DEF WritesHigher
<1> DEFINE s == main[p].stack
           t == Top(p)
           x == e.hi
           B == [bdb[p] EXCEPT ![t] = Released(@), ![x] = Latched(@)]
           m == [main[p] EXCEPT !.stack = <<x>> \o @]
<1>2. /\ s \in Seq(Pages) /\ s # <<>> /\ t \in Pages /\ t = s[1]
      /\ ast[p] = <<>> /\ main[p].pc = "write"
  BY WritingLatches, Popped DEF WritesHigher, Runs, Top
<1>3. x \in Pages /\ x # t
  <2>1. e \in pre[p] /\ e.low = t /\ x \in Pages
    BY Parts DEF Above, Precedence
  <2>2. ~Over(p, t, x)
    BY <1>1, <2>1, Parts DEF NoCycle
  <2>3. Over(p, t, t)
    BY DEF Over
  <2> QED BY <2>1, <2>2, <2>3
<1>4. /\ bdb[p][t].use \in {1, 2} /\ bdb[p][x].use \in {0, 1}
      /\ bdb[p][t] \in Buffer /\ bdb[p][x] \in Buffer
  BY <1>2, <1>3, WritingLatches, Parts DEF WritesHigher
<1>5. /\ Released(bdb[p][t]) \in Buffer /\ Released(bdb[p][t]).use = bdb[p][t].use - 1
      /\ Released(bdb[p][t]).img = bdb[p][t].img /\ Released(bdb[p][t]).flags = bdb[p][t].flags
      /\ Latched(bdb[p][x]) \in Buffer /\ Latched(bdb[p][x]).use = bdb[p][x].use + 1
      /\ Latched(bdb[p][x]).img = bdb[p][x].img /\ Latched(bdb[p][x]).flags = bdb[p][x].flags
  BY <1>4, LatchOps
<1>6. /\ B \in [Pages -> Buffer]
      /\ \A h \in Pages : B[h] = IF h = t THEN Released(bdb[p][t])
                                 ELSE IF h = x THEN Latched(bdb[p][x]) ELSE bdb[p][h]
  BY <1>2, <1>3, <1>5, Parts
<1>7. /\ m.stack \in Seq(Pages) /\ m.stack # <<>> /\ Head(m.stack) = x
      /\ m.stack[1] = x /\ Len(m.stack) = Len(s) + 1 /\ Latest(m.stack) = Latest(s)
      /\ \A i \in 1..Len(s) : m.stack[i + 1] = s[i]
  <2>1. m.stack = <<x>> \o s
    BY Parts DEF MainLine
  <2>2. Len(m.stack) # 0 /\ Head(m.stack) = m.stack[1]
    BY <1>2, <1>3, <2>1, Pushed, EmptySeq
  <2> QED BY <1>2, <1>3, <2>1, <2>2, Pushed
<1>8. /\ m \in MainLine
      /\ m.pc = main[p].pc /\ m.page = main[p].page /\ m.number = main[p].number
      /\ m.back = main[p].back /\ m.hi = main[p].hi
  <2>1. <<x>> \o s \in Seq(Pages)
    BY <1>2, <1>3, Pushed
  <2> QED BY <2>1, Parts DEF MainLine
<1>9. main' = [main EXCEPT ![p] = m] /\ bdb' = [bdb EXCEPT ![p] = B]
  <2> DEFINE st == <<x>> \o s
  <2>1. main' = [main EXCEPT ![p].stack = st] /\ m = [main[p] EXCEPT !.stack = st]
    BY <1>1, Parts DEF TypeOK, MainLine
  <2> HIDE DEF st, m
  <2>2. main' = [main EXCEPT ![p] = m]
    BY <2>1, Parts DEF TypeOK, MainLine
  <2>3. bdb' = [bdb EXCEPT ![p] = B]
    BY <1>1, Parts DEF TypeOK
  <2> QED BY <2>2, <2>3
<1> HIDE DEF B, m, s, t, x
<1>10. /\ TypeOK' /\ Alone(p) /\ Caching' /\ History' /\ NoCycle'
       /\ main'[p] = m /\ pre'[p] = pre[p] /\ bdb'[p] = B
  <2>1. Goes(p, B, m, pre[p])
    BY <1>6, <1>8, <1>9, Parts DEF Goes, WritesHigher, TypeOK
  <2>2. \A h \in Pages : Alike(B[h], bdb[p][h])
    BY <1>2, <1>3, <1>5, <1>6 DEF Alike
  <2> QED BY <2>1, <2>2, StillStep
<1>11. LatchesOf(p)'
  <2>1. \A h \in Pages : bdb[p][h].use =
          One(main[p].page = h) + One(Taking(p) /\ main[p].hi = h) + One(t = h)
    BY WritingLatches DEF WritesHigher, t
  <2>2. \A h \in Pages : Line(p, h)' =
          One(main[p].page = h) + One(Taking(p) /\ main[p].hi = h) + One(x = h)
    BY <1>7, <1>8, <1>10 DEF Line, One, Taking, Top
  <2>3. ASSUME NEW h \in Pages
        PROVE  bdb'[p][h].use = Line(p, h)'
    <3>1. One(t = h) = (IF h = t THEN 1 ELSE 0) /\ One(x = h) = IF h = x THEN 1 ELSE 0
      BY DEF One
    <3>2. One(main[p].page = h) \in Int /\ One(Taking(p) /\ main[p].hi = h) \in Int
      BY DEF One
    <3>3. CASE h = t
      BY <1>3, <1>5, <1>6, <1>10, <2>1, <2>2, <3>1, <3>2, <3>3
    <3>4. CASE h = x
      BY <1>3, <1>5, <1>6, <1>10, <2>1, <2>2, <3>1, <3>2, <3>4
    <3>5. CASE h # t /\ h # x
      BY <1>6, <1>10, <2>1, <2>2, <3>1, <3>5
    <3> QED BY <3>3, <3>4, <3>5
  <2> QED BY <1>2, <2>3, RunningLatchesKept DEF WritesHigher
<1>12. MainOf(p)'
  <2>1. \A i \in 1..(Len(m.stack) - 1) : m.stack[i] # m.stack[i + 1]
    <3>1. \A i \in 1..(Len(s) - 1) : s[i] # s[i + 1]
      BY Parts DEF MainOf, s
    <3>2. Len(s) \in Nat
      BY <1>2
    <3> SUFFICES ASSUME NEW i \in 1..(Len(m.stack) - 1)
                 PROVE  m.stack[i] # m.stack[i + 1]
      OBVIOUS
    <3>3. CASE i = 1
      BY <1>2, <1>3, <1>7, <3>3
    <3>4. CASE i # 1
      <4>1. i - 1 \in 1..(Len(s) - 1) /\ i \in 1..Len(s) /\ i - 1 \in 1..Len(s)
        BY <1>7, <3>2, <3>4
      <4>2. m.stack[i] = s[i - 1] /\ m.stack[i + 1] = s[i]
        <5>1. \A j \in 1..Len(s) : m.stack[j + 1] = s[j]
          BY <1>7
        <5>2. i - 1 + 1 = i
          OBVIOUS
        <5>3. m.stack[i - 1 + 1] = s[i - 1]
          BY <4>1, <5>1
        <5> QED BY <4>1, <5>1, <5>2, <5>3
      <4>3. s[i - 1] # s[i - 1 + 1] /\ i - 1 + 1 = i
        BY <3>1, <4>1
      <4> QED BY <4>2, <4>3
    <3> QED BY <3>3, <3>4
  <2>2. /\ main'[p].pc = main[p].pc /\ main'[p].page = main[p].page
        /\ main'[p].number = main[p].number /\ main'[p].back = main[p].back
        /\ main'[p].hi = main[p].hi /\ main'[p].stack = m.stack
        /\ m.stack # <<>> /\ main[p].stack # <<>> /\ Latest(m.stack) = Latest(main[p].stack)
    BY <1>2, <1>7, <1>8, <1>10 DEF s
  <2> QED BY <2>1, <2>2, Parts DEF MainOf
<1>13. CleanOf(p)' /\ WindowOf(p)'
  <2>1. main[p].page # NoPage => main[p].page \in Pages
    BY Parts DEF MainLine
  <2>2. \A h \in Pages : Has(p, h, "writer")' <=> Has(p, h, "writer")
    BY <1>2, <1>3, <1>5, <1>6, <1>10 DEF Has
  <2>3. lck' = lck
    BY DEF WritesHigher
  <2>4. main'[p].pc = "write" /\ (InWindow(p)' <=> InWindow(p)) /\ main'[p].page = main[p].page
    BY <1>2, <1>8, <1>10 DEF InWindow
  <2>5. InWindow(p) => main[p].page \in Pages
    BY <2>1 DEF InWindow
  <2> QED BY <2>2, <2>3, <2>4, <2>5, Parts DEF CleanOf, WindowOf
<1> QED BY <1>10, <1>11, <1>12, <1>13, Gather

\* write_buffer is done with the page on top.
LEMMA ReturnsKeep ==
  ASSUME IInv, NEW p \in Procs, Runs(p, "write"), NEW flags \in SUBSET Flags,
         "dirty" \notin flags, "writer" \in flags <=> Has(p, Top(p), "writer"),
         WriteReturns(p, flags), UNCHANGED <<lck, ast>>
  PROVE  \E B \in [Pages -> Buffer], m \in MainLine :
           /\ bdb' = [bdb EXCEPT ![p] = B] /\ main' = [main EXCEPT ![p] = m]
           /\ pre' = [pre EXCEPT ![p] = pre[p] \ Below(p, Top(p))]
           /\ posted' \in [Procs -> SUBSET Pages]
           /\ m.number = main[p].number
           /\ B[Top(p)].flags = flags /\ B[Top(p)].img = bdb[p][Top(p)].img
           /\ \A h \in Pages \ {Top(p)} : B[h].flags = bdb[p][h].flags /\ B[h].img = bdb[p][h].img
           /\ LatchesOf(p)' /\ MainOf(p)' /\ CleanOf(p)' /\ WindowOf(p)'
<1>0. PICK t \in Pages : t = Top(p)
  BY WritingLatches
<1> DEFINE s == main[p].stack
           r == Tail(main[p].stack)
           left == [Released(bdb[p][t]) EXCEPT !.flags = flags]
           lows == {e.low : e \in {e \in Below(p, t) : ~e.cleared}}
           B == [g \in Pages |-> IF g = t THEN left
                                 ELSE IF r # <<>> /\ g = Head(r) THEN Latched(bdb[p][g])
                                 ELSE bdb[p][g]]
           m == [main[p] EXCEPT !.stack = r,
                   !.pc = IF r = <<>> THEN main[p].back ELSE "write",
                   !.back = IF r = <<>> THEN "idle" ELSE main[p].back]
<1>1. /\ s \in Seq(Pages) /\ s # <<>> /\ t \in Pages /\ t = s[1] /\ r \in Seq(Pages)
      /\ Len(r) = Len(s) - 1 /\ \A i \in 1..Len(r) : r[i] = s[i + 1]
      /\ r # <<>> => Latest(r) = Latest(s) /\ Head(r) = s[2] /\ Len(s) > 1 /\ Head(r) \in Pages
      /\ r = <<>> => Latest(s) = t
  BY <1>0, WritingLatches, Popped DEF Top
<1>2. \A i \in 1..(Len(s) - 1) : s[i] # s[i + 1]
  BY Parts DEF MainOf
<1>3. r # <<>> => Head(r) # t
  <2>1. Len(s) \in Nat
    BY <1>1
  <2>2. ASSUME r # <<>>
        PROVE  s[1] # s[2]
    <3>1. 1 \in 1..(Len(s) - 1) /\ 1 + 1 = 2
      BY <1>1, <2>1, <2>2
    <3>2. s[1] # s[1 + 1]
      BY <1>2, <3>1
    <3> QED BY <3>1, <3>2
  <2> QED BY <1>1, <2>2
<1>4. /\ left \in Buffer /\ left.use = bdb[p][t].use - 1
      /\ left.img = bdb[p][t].img /\ left.flags = flags
  <2>1. bdb[p][t] \in Buffer /\ bdb[p][t].use \in {1, 2}
    BY <1>0, WritingLatches, Parts
  <2>2. /\ Released(bdb[p][t]) \in Buffer /\ Released(bdb[p][t]).use = bdb[p][t].use - 1
        /\ Released(bdb[p][t]).img = bdb[p][t].img
    BY <2>1, LatchOps
  <2> QED BY <2>2 DEF Buffer
<1>5. \A h \in Pages \ {t} :
        /\ bdb[p][h] \in Buffer /\ bdb[p][h].use \in {0, 1}
        /\ Latched(bdb[p][h]) \in Buffer /\ Latched(bdb[p][h]).use = bdb[p][h].use + 1
        /\ Latched(bdb[p][h]).img = bdb[p][h].img
        /\ Latched(bdb[p][h]).flags = bdb[p][h].flags
  BY <1>0, WritingLatches, LatchOps, Parts
<1>6. bdb' = [bdb EXCEPT ![p] = B] /\ main' = [main EXCEPT ![p] = m]
  <2>1. /\ bdb' = [bdb EXCEPT ![p] =
                    [g \in Pages |-> IF g = t THEN left
                                     ELSE IF r # <<>> /\ g = Head(r) THEN Latched(@[g])
                                     ELSE @[g]]]
        /\ main' = [main EXCEPT ![p].stack = r, ![p].pc = IF r = <<>> THEN main[p].back ELSE "write",
                ![p].back = IF r = <<>> THEN "idle" ELSE @]
    BY <1>0 DEF WriteReturns
  <2> HIDE DEF left, r
  <2>2. bdb' = [bdb EXCEPT ![p] = B]
    BY <2>1
  <2>3. main' = [main EXCEPT ![p] = m]
    BY <2>1, Parts DEF TypeOK, MainLine
  <2> QED BY <2>2, <2>3
<1>7. posted' \in [Procs -> SUBSET Pages]
  <2>1. posted' = [posted EXCEPT ![p] = @ \cup Reposts(p, lows)
                     \cup (IF left.use = 0 /\ "blocking" \in flags THEN {t} ELSE {})]
    BY <1>0 DEF WriteReturns
  <2>2. lows \subseteq Pages
    BY Parts DEF Below, Precedence
  <2> HIDE DEF lows, left
  <2> QED BY <1>1, <2>1, <2>2, Parts DEF Reposts, TypeOK
<1>8. pre' = [pre EXCEPT ![p] = pre[p] \ Below(p, t)]
  BY <1>0 DEF WriteReturns
<1>9. /\ B \in [Pages -> Buffer]
      /\ \A h \in Pages : B[h] = IF h = t THEN left
                                 ELSE IF r # <<>> /\ h = Head(r) THEN Latched(bdb[p][h])
                                 ELSE bdb[p][h]
  <2> HIDE DEF left, r
  <2> QED BY <1>4, <1>5
<1>10. /\ m \in MainLine
       /\ m.stack = r /\ m.pc = (IF r = <<>> THEN main[p].back ELSE "write")
       /\ m.back = (IF r = <<>> THEN "idle" ELSE main[p].back)
       /\ m.page = main[p].page /\ m.number = main[p].number /\ m.hi = main[p].hi
  <2> HIDE DEF r
  <2>1. main[p] \in MainLine
    BY LineOf
  <2>2. m \in MainLine
    BY <1>1, <2>1 DEF MainLine
  <2>3. /\ m.stack = r /\ m.pc = (IF r = <<>> THEN main[p].back ELSE "write")
        /\ m.back = (IF r = <<>> THEN "idle" ELSE main[p].back)
        /\ m.page = main[p].page /\ m.number = main[p].number /\ m.hi = main[p].hi
    BY <2>1 DEF MainLine
  <2> QED BY <2>2, <2>3
<1> HIDE DEF left, r, s, B, m, lows
<1>11. /\ bdb'[p] = B /\ main'[p] = m /\ pre'[p] = pre[p] \ Below(p, t)
  BY <1>6, <1>8, Parts DEF TypeOK
<1>12. /\ B[t].flags = flags /\ B[t].img = bdb[p][t].img
       /\ \A h \in Pages \ {t} : B[h].flags = bdb[p][h].flags /\ B[h].img = bdb[p][h].img
  BY <1>1, <1>4, <1>5, <1>9
<1>13. LatchesOf(p)'
  <2>1. \A h \in Pages : bdb[p][h].use =
          One(main[p].page = h) + One(main[p].back = "reuse" /\ main[p].hi = h) + One(t = h)
    BY <1>0, WritingLatches
  <2>2. \A h \in Pages : Line(p, h)' =
          One(main[p].page = h) + One(main[p].back = "reuse" /\ main[p].hi = h)
            + One(r # <<>> /\ Head(r) = h)
    BY <1>10, <1>11 DEF Line, One, Taking, Top
  <2>3. ASSUME NEW h \in Pages
        PROVE  bdb'[p][h].use = Line(p, h)'
    <3>1. One(t = h) = (IF h = t THEN 1 ELSE 0)
          /\ One(r # <<>> /\ Head(r) = h) = IF r # <<>> /\ h = Head(r) THEN 1 ELSE 0
      BY DEF One
    <3>2. /\ One(main[p].page = h) \in Int
          /\ One(main[p].back = "reuse" /\ main[p].hi = h) \in Int
      BY DEF One
    <3>3. CASE h = t
      <4>1. bdb'[p][t].use = bdb[p][t].use - 1
        BY <1>4, <1>9, <1>11
      <4>2. One(r # <<>> /\ Head(r) = h) = 0 /\ One(t = h) = 1
        BY <1>3, <3>1, <3>3
      <4> QED BY <2>1, <2>2, <3>2, <3>3, <4>1, <4>2
    <3>4. CASE h # t /\ r # <<>> /\ h = Head(r)
      BY <1>5, <1>9, <1>11, <2>1, <2>2, <3>1, <3>2, <3>4
    <3>5. CASE h # t /\ ~(r # <<>> /\ h = Head(r))
      BY <1>9, <1>11, <2>1, <2>2, <3>1, <3>5
    <3> QED BY <3>3, <3>4, <3>5
  <2> QED BY <2>3, WritingLatches, RunningLatchesKept
<1>14. MainOf(p)'
  <2>1. \A i \in 1..(Len(r) - 1) : r[i] # r[i + 1]
    <3>1. Len(s) \in Nat /\ Len(r) = Len(s) - 1
      BY <1>1
    <3> SUFFICES ASSUME NEW i \in 1..(Len(r) - 1)
                 PROVE  r[i] # r[i + 1]
      OBVIOUS
    <3>2. i \in 1..Len(r) /\ i + 1 \in 1..Len(r) /\ i + 1 \in 1..(Len(s) - 1)
      BY <3>1
    <3>3. r[i] = s[i + 1] /\ r[i + 1] = s[i + 1 + 1] /\ s[i + 1] # s[i + 1 + 1]
      BY <1>1, <1>2, <3>2
    <3> QED BY <3>3
  <2>2. main[p].back # "idle" /\ main[p].pc = "write"
    BY WritingLatches DEF Runs
  <2> QED BY <1>1, <1>10, <1>11, <2>1, <2>2, Parts DEF MainOf, MainLine, s
<1>15. CleanOf(p)'
  <2>1. main[p].back \in {"idle", "held", "insert", "flush", "fake", "reuse"}
    BY Parts DEF MainLine
  <2>2. /\ main[p].back \in {"insert", "fake"} /\ r = <<>> => main[p].page = t
        /\ main[p].back = "reuse" /\ r = <<>> => main[p].hi = t
    BY <1>1, Parts DEF MainOf, s
  <2>3. m.pc \in {"fake", "reuse", "insert"} => r = <<>> /\ m.pc = main[p].back
    BY <1>10, <2>1
  <2>4. m.pc \notin {"lock", "waiting"}
    BY <1>10, <2>1
  <2>5. ~Dirty(p, t)' /\ Below(p, t)' = {}
    BY <1>11, <1>12 DEF Dirty, Has, Below
  <2> QED BY <1>10, <1>11, <2>2, <2>3, <2>4, <2>5 DEF CleanOf
<1>16. WindowOf(p)'
  <2>1. main[p].back \in {"idle", "held", "insert", "flush", "fake", "reuse"}
        /\ main[p].back # "idle" /\ main[p].pc = "write"
    BY WritingLatches, Parts DEF MainLine, Runs
  <2>2. InWindow(p)' => InWindow(p)
    BY <1>10, <1>11, <2>1 DEF InWindow
  <2>3. m.pc # "waiting"
    BY <1>10, <2>1
  <2>4. InWindow(p) => main[p].page \in Pages
    BY Parts DEF InWindow, MainLine
  <2>5. \A h \in Pages : Has(p, h, "writer")' <=> Has(p, h, "writer")
    BY <1>0, <1>11, <1>12 DEF Has
  <2> QED BY <1>10, <1>11, <2>2, <2>3, <2>4, <2>5, Parts DEF WindowOf
<1> QED BY <1>0, <1>6, <1>7, <1>8, <1>9, <1>10, <1>12, <1>13, <1>14, <1>15, <1>16

LEMMA FindsCleanKeeps ==
  ASSUME IInv, NEW p \in Procs, WriteFindsClean(p)
  PROVE  IInv'
<1>0. PICK t \in Pages : t = Top(p)
  BY WritingLatches DEF WriteFindsClean, write_page, MayWrite
<1> DEFINE flags == bdb[p][t].flags
<1>1. /\ Runs(p, "write") /\ t \in Pages /\ flags \in SUBSET Flags /\ "dirty" \notin flags
      /\ WriteReturns(p, flags) /\ UNCHANGED <<disk, lck, ast, tra, committed, lost, clock>>
  <2>1. Runs(p, "write") /\ "dirty" \notin flags
    BY <1>0 DEF WriteFindsClean, Dirty, Has
  <2>2. bdb[p][t] \in Buffer
    BY Parts
  <2> QED BY <1>0, <2>1, <2>2 DEF WriteFindsClean, Buffer
<1>2. PICK B \in [Pages -> Buffer], m \in MainLine :
        /\ bdb' = [bdb EXCEPT ![p] = B] /\ main' = [main EXCEPT ![p] = m]
        /\ pre' = [pre EXCEPT ![p] = pre[p] \ Below(p, t)]
        /\ posted' \in [Procs -> SUBSET Pages]
        /\ m.number = main[p].number
        /\ B[t].flags = flags /\ B[t].img = bdb[p][t].img
        /\ \A h \in Pages \ {t} : B[h].flags = bdb[p][h].flags /\ B[h].img = bdb[p][h].img
        /\ LatchesOf(p)' /\ MainOf(p)' /\ CleanOf(p)' /\ WindowOf(p)'
  <2>1. "writer" \in flags <=> Has(p, t, "writer")
    BY DEF Has
  <2> HIDE DEF flags
  <2> QED BY <1>0, <1>1, <2>1, ReturnsKeep
<1>3. TypeOK' /\ Alone(p) /\ Caching' /\ History' /\ NoCycle'
  <2>1. Goes(p, B, m, pre[p] \ Below(p, t))
    BY <1>1, <1>2 DEF Goes
  <2>2. \A h \in Pages : Alike(B[h], bdb[p][h])
    BY <1>2 DEF Alike
  <2> HIDE DEF flags
  <2> QED BY <2>1, <2>2, StillStep
<1> QED BY <1>2, <1>3, Gather

LEMMA WriteKeeps ==
  ASSUME IInv, NEW p \in Procs, write_page(p)
  PROVE  IInv'
<1>0. PICK t \in Pages : t = Top(p)
  BY WritingLatches DEF WriteFindsClean, write_page, MayWrite
<1> DEFINE flags == bdb[p][t].flags \ {"dirty", "changed"}
<1>1. /\ Runs(p, "write") /\ t \in Pages /\ flags \in SUBSET Flags /\ "dirty" \notin flags
      /\ Dirty(p, t) /\ disk' = [disk EXCEPT ![t] = bdb[p][t].img]
      /\ WriteReturns(p, flags) /\ UNCHANGED <<lck, ast, tra, committed, lost, clock>>
  <2>1. Runs(p, "write") /\ "dirty" \notin flags
    BY <1>0 DEF write_page, MayWrite
  <2>2. bdb[p][t] \in Buffer
    BY Parts
  <2> QED BY <1>0, <2>1, <2>2 DEF write_page, MayWrite, Buffer
<1>2. PICK B \in [Pages -> Buffer], m \in MainLine :
        /\ bdb' = [bdb EXCEPT ![p] = B] /\ main' = [main EXCEPT ![p] = m]
        /\ pre' = [pre EXCEPT ![p] = pre[p] \ Below(p, t)]
        /\ posted' \in [Procs -> SUBSET Pages]
        /\ m.number = main[p].number
        /\ B[t].flags = flags /\ B[t].img = bdb[p][t].img
        /\ \A h \in Pages \ {t} : B[h].flags = bdb[p][h].flags /\ B[h].img = bdb[p][h].img
        /\ LatchesOf(p)' /\ MainOf(p)' /\ CleanOf(p)' /\ WindowOf(p)'
  <2>1. "writer" \in flags <=> Has(p, t, "writer")
    BY DEF Has
  <2> HIDE DEF flags
  <2> QED BY <1>0, <1>1, <2>1, ReturnsKeep
<1>3. TypeOK' /\ Alone(p) /\ bdb'[p] = B /\ main'[p] = m /\ pre'[p] = pre[p] \ Below(p, t)
  <2>1. bdb[p][t].img \in Image
    BY <1>1, Parts DEF Buffer
  <2> HIDE DEF flags
  <2> QED BY <1>1, <1>2, <2>1, Parts DEF TypeOK, Alone
<1>4. Caching' /\ History'
  <2>1. Saves(p, t)
    <3>1. lck[p][t] \in Levels /\ lck[p][t] # LCK_none /\ lck[p][t] <= lck[p][t]
      BY <1>1, Parts DEF Caching, ImagesFit, Levels, LCK_none, LCK_write
    <3>2. ~Dirty(p, t)'
      BY <1>2, <1>3 DEF Dirty, Has
    <3>3. \A h \in Pages \ {t} :
            /\ bdb'[p][h].img = bdb[p][h].img /\ (Dirty(p, h)' <=> Dirty(p, h))
            /\ Has(p, h, "changed")' <=> Has(p, h, "changed")
      BY <1>2, <1>3 DEF Dirty, Has
    <3> HIDE DEF flags
    <3> QED BY <1>1, <1>2, <1>3, <3>1, <3>2, <3>3 DEF Saves
  <2> QED BY <1>1, <2>1, Parts, SavesKeeps
<1>5. NoCycle'
  BY <1>3, Parts, FewerKeepNoCycle
<1> QED BY <1>2, <1>3, <1>4, <1>5, Gather

-----------------------------------------------------------------------------
(* Precedence.                                                             *)

\* There is no cycle with a new precedence unless there was a way back.
LEMMA InsertKeepsNoCycle ==
  ASSUME NEW p \in Procs, NEW hi \in Pages, NEW low \in Pages, NoCycle, Alone(p),
         pre[p] \in SUBSET Precedence, ~Over(p, low, hi),
         pre'[p] = pre[p] \cup {[hi |-> hi, low |-> low, cleared |-> FALSE]}
  PROVE  NoCycle'
<1> DEFINE new == [hi |-> hi, low |-> low, cleared |-> FALSE]
           Shut(S, E) == \A e \in E : ~e.cleared /\ e.hi \in S => e.low \in S
<1>1. \A S : Shut(S, pre'[p]) <=> Shut(S, pre[p]) /\ (hi \in S => low \in S)
  <2>1. pre'[p] = pre[p] \cup {new} /\ new.hi = hi /\ new.low = low /\ new.cleared = FALSE
    OBVIOUS
  <2> HIDE DEF new
  <2> QED BY <2>1
<1>2. PICK T \in SUBSET Pages : low \in T /\ Shut(T, pre[p]) /\ hi \notin T
  BY DEF Over
<1> SUFFICES ASSUME NEW q \in Procs, NEW e \in pre'[q], ~e.cleared, Over(q, e.low, e.hi)'
             PROVE  FALSE
  BY DEF NoCycle
<1>3. CASE q # p
  <2>1. e \in pre[q] /\ Over(q, e.low, e.hi)
    BY <1>3 DEF Alone, Over
  <2> QED BY <2>1 DEF NoCycle
<1>4. CASE q = p
  <2>1. \A S \in SUBSET Pages : e.low \in S /\ Shut(S, pre'[p]) => e.hi \in S
    BY <1>4 DEF Over
  <2> HIDE DEF Shut
  <2>2. CASE e = new
    BY <1>1, <1>2, <2>1, <2>2
  <2>3. CASE e \in pre[p]
    <3>1. PICK S \in SUBSET Pages : e.low \in S /\ Shut(S, pre[p]) /\ e.hi \notin S
      BY <2>3 DEF NoCycle, Over, Shut
    <3>2. Shut(S \cup T, pre[p]) /\ Shut(S \cap T, pre[p])
      BY <1>2, <3>1 DEF Shut
    <3>3. e.hi \in S \cup T
      BY <1>1, <1>2, <2>1, <3>1, <3>2
    <3>4. e.low \in T
      BY <1>2, <2>3, <3>1, <3>3 DEF Shut
    <3>5. e.hi \in S \cap T
      BY <1>1, <1>2, <2>1, <3>1, <3>2, <3>4
    <3> QED BY <3>1, <3>5
  <2> QED BY <1>4, <2>2, <2>3
<1> QED BY <1>3, <1>4

LEMMA InsertStep ==
  ASSUME IInv, NEW p \in Procs, NEW m \in MainLine, NEW hi \in Pages, NEW low \in Pages,
         m.number = main[p].number, ~Over(p, low, hi), pre' = Inserted(p, hi, low),
         main' = [main EXCEPT ![p] = m],
         UNCHANGED <<disk, lck, bdb, ast, posted, tra, committed, lost, clock>>
  PROVE  /\ TypeOK' /\ Alone(p) /\ Caching' /\ History' /\ NoCycle'
         /\ main'[p] = m
<1> DEFINE E == pre[p] \cup {[hi |-> hi, low |-> low, cleared |-> FALSE]}
<1>1. pre' = [pre EXCEPT ![p] = E] /\ E \in SUBSET Precedence
  <2>1. pre' = [pre EXCEPT ![p] = E]
    BY DEF Inserted
  <2>2. [hi |-> hi, low |-> low, cleared |-> FALSE] \in Precedence
    BY DEF Precedence
  <2> QED BY <2>1, <2>2, Parts
<1>2. TypeOK' /\ Alone(p) /\ main'[p] = m /\ pre'[p] = E
  BY <1>1, Parts DEF TypeOK, Alone
<1>3. Still(p)
  BY <1>2 DEF Still, SameImages, Dirty, Has
<1>4. NoCycle'
  BY <1>2, Parts, InsertKeepsNoCycle
<1> QED BY <1>2, <1>3, <1>4, Parts, StillKeeps

LEMMA NothingBelow ==
  ASSUME NEW p \in Procs, NEW g \in Pages, NEW x \in Pages \ {g}, Below(p, g) = {}
  PROVE  ~Over(p, g, x)
<1>1. \A e \in pre[p] : e.hi \notin {g}
  BY DEF Below
<1>2. {g} \in SUBSET Pages
  OBVIOUS
<1> QED BY <1>1, <1>2 DEF Over

LEMMA PrecedenceKeeps ==
  ASSUME IInv, NEW p \in Procs, NEW x \in Pages, CCH_precedence(p, x)
  PROVE  IInv'
<1>0. PICK g \in Pages : g = main[p].page
  BY Parts DEF CCH_precedence, Runs, MainOf, MainLine
<1> DEFINE Says(g_) ==
  \E unknown \in GivesUp :
        LET known == Over(p, x, g_)
            gaveUp == unknown /\ Below(p, x) # {} /\ ~known
            cycle == Related(p, g_, x, unknown) /\ Below(p, g_) # {}
            writes == IF gaveUp THEN x ELSE g_
            next == IF ~Dirty(p, x) \/ known \/ gaveUp THEN "held" ELSE "insert"
            write == Dirty(p, x) /\ (gaveUp \/ (~known /\ cycle)) IN
        /\ main' = [main EXCEPT ![p].needs = @ \cup bdb[p][x].img.has,
                      ![p].hi = IF write /\ next = "insert" THEN x ELSE NoPage,
                      ![p].pc = IF write THEN "write" ELSE "held",
                      ![p].stack = IF write THEN <<writes>> ELSE <<>>,
                      ![p].back = IF write THEN next ELSE "idle"]
        /\ bdb' = IF write THEN [bdb EXCEPT ![p][writes] = Latched(@)] ELSE bdb
        /\ pre' = IF write \/ next = "held" THEN pre ELSE Inserted(p, x, g_)
<1>1. PICK unknown \in GivesUp :
        LET known == Over(p, x, g)
            gaveUp == unknown /\ Below(p, x) # {} /\ ~known
            cycle == Related(p, g, x, unknown) /\ Below(p, g) # {}
            writes == IF gaveUp THEN x ELSE g
            next == IF ~Dirty(p, x) \/ known \/ gaveUp THEN "held" ELSE "insert"
            write == Dirty(p, x) /\ (gaveUp \/ (~known /\ cycle)) IN
        /\ main' = [main EXCEPT ![p].needs = @ \cup bdb[p][x].img.has,
                      ![p].hi = IF write /\ next = "insert" THEN x ELSE NoPage,
                      ![p].pc = IF write THEN "write" ELSE "held",
                      ![p].stack = IF write THEN <<writes>> ELSE <<>>,
                      ![p].back = IF write THEN next ELSE "idle"]
        /\ bdb' = IF write THEN [bdb EXCEPT ![p][writes] = Latched(@)] ELSE bdb
        /\ pre' = IF write \/ next = "held" THEN pre ELSE Inserted(p, x, g)
  <2>1. Says(main[p].page)
    BY DEF CCH_precedence
  <2>2. Says(g)
    <3> HIDE DEF Says
    <3> QED BY <1>0, <2>1
  <2> QED BY <2>2
<1> DEFINE known == Over(p, x, g)
           gaveUp == unknown /\ Below(p, x) # {} /\ ~known
           cycle == Related(p, g, x, unknown) /\ Below(p, g) # {}
           writes == IF gaveUp THEN x ELSE g
           next == IF ~Dirty(p, x) \/ known \/ gaveUp THEN "held" ELSE "insert"
           write == Dirty(p, x) /\ (gaveUp \/ (~known /\ cycle))
           hi == IF write /\ next = "insert" THEN x ELSE NoPage
           stack == IF write THEN <<writes>> ELSE <<>>
           back == IF write THEN next ELSE "idle"
           m == [main[p] EXCEPT !.needs = @ \cup bdb[p][x].img.has, !.hi = hi,
                   !.pc = IF write THEN "write" ELSE "held", !.stack = stack, !.back = back]
<1>2. /\ ast[p] = <<>> /\ main[p].pc = "held" /\ x # g /\ g # NoPage /\ x # NoPage
      /\ \A h \in Pages : bdb[p][h].use = One(g = h)
      /\ UNCHANGED <<disk, lck, ast, posted, tra, committed, lost, clock>>
  <2>1. ast[p] = <<>> /\ main[p].pc = "held" /\ x # g
    BY <1>0 DEF CCH_precedence, Runs
  <2>2. \A h \in Pages : bdb[p][h].use = One(g = h)
    BY <1>0, <2>1, Parts, PlainLine, RunningLatches
  <2> QED BY <2>1, <2>2, ConstantAssumption DEF CCH_precedence
<1>3. /\ next \in {"held", "insert"} /\ writes \in {x, g}
      /\ next = "insert" => writes = g
  OBVIOUS
<1>4. ~write /\ next = "insert" => ~Over(p, g, x)
  <2>1. Below(p, g) = {} => ~Over(p, g, x)
    BY <1>2, NothingBelow
  <2> QED BY <1>2, <2>1 DEF Related
<1>5. main' = [main EXCEPT ![p] = m]
  <2>1. main' = [main EXCEPT ![p].needs = @ \cup bdb[p][x].img.has, ![p].hi = hi,
                   ![p].pc = IF write THEN "write" ELSE "held",
                   ![p].stack = stack, ![p].back = back]
    BY <1>1
  <2> HIDE DEF hi, write, stack, back
  <2> QED BY <2>1, Parts DEF TypeOK, MainLine
<1>6. /\ bdb' = IF write THEN [bdb EXCEPT ![p][writes] = Latched(@)] ELSE bdb
      /\ pre' = IF write \/ next = "held" THEN pre ELSE Inserted(p, x, g)
  BY <1>1
<1> HIDE DEF known, gaveUp, cycle, writes, next, write
<1>7. /\ m \in MainLine
      /\ m.page = g /\ m.number = main[p].number /\ m.hi = hi /\ m.stack = stack
      /\ m.pc = (IF write THEN "write" ELSE "held") /\ m.back = back
  <2>1. hi \in Pages \cup {NoPage} /\ back \in {"idle", "held", "insert"}
    BY <1>3
  <2>2. stack \in Seq(Pages)
    <3>1. <<writes>> \in Seq(Pages)
      BY <1>3, Single
    <3>2. <<>> \in Seq(Pages)
      BY EmptySeq
    <3> QED BY <3>1, <3>2
  <2>3. main[p].needs \cup bdb[p][x].img.has \in SUBSET Updates
    BY Parts DEF MainLine, Buffer, Image
  <2>4. main[p] \in MainLine
    BY LineOf
  <2> HIDE DEF hi, stack, back
  <2>5. m \in MainLine
    BY <2>1, <2>2, <2>3, <2>4 DEF MainLine
  <2>6. /\ m.page = g /\ m.number = main[p].number /\ m.hi = hi /\ m.stack = stack
        /\ m.pc = (IF write THEN "write" ELSE "held") /\ m.back = back
    BY <1>0, <2>4 DEF MainLine
  <2> QED BY <2>5, <2>6
<1>8. CASE write
  <2>0. PICK w \in Pages : w = writes
    BY <1>3
  <2> DEFINE b == Latched(bdb[p][w])
  <2>1. /\ b \in Buffer /\ b.use = One(g = w) + 1 /\ b.img = bdb[p][w].img
        /\ b.flags = bdb[p][w].flags
    <3>1. bdb[p][w] \in Buffer /\ bdb[p][w].use \in {0, 1} /\ bdb[p][w].use = One(g = w)
      BY <1>2, Parts DEF One
    <3> QED BY <3>1, LatchOps
  <2>2. /\ m.stack # <<>> /\ Head(m.stack) = w /\ Latest(m.stack) = w /\ Len(m.stack) = 1
    BY <1>7, <1>8, <2>0, Single
  <2>3. m.pc = "write" /\ m.back = next /\ m.hi = IF next = "insert" THEN x ELSE NoPage
    BY <1>7, <1>8
  <2>4. bdb' = [bdb EXCEPT ![p][w] = b] /\ pre' = pre
    BY <1>6, <1>8, <2>0
  <2> HIDE DEF b, m, stack, hi, back
  <2>5. /\ TypeOK' /\ Alone(p) /\ Caching' /\ History' /\ NoCycle'
        /\ main'[p] = m /\ pre'[p] = pre[p]
        /\ \A h \in Pages : bdb'[p][h] = IF h = w THEN b ELSE bdb[p][h]
    <3>1. Goes(p, [bdb[p] EXCEPT ![w] = b], m, pre[p])
      BY <1>2, <1>5, <1>7, <2>1, <2>4, OneBuffer, Parts DEF Goes, TypeOK
    <3>2. Alike(b, bdb[p][w])
      BY <2>1 DEF Alike
    <3> QED BY <2>1, <3>1, <3>2, PageStep
  <2>6. LatchesOf(p)'
    <3>1. \A h \in Pages : Line(p, h)' = One(g = h) + One(w = h)
      BY <1>3, <1>7, <2>2, <2>3, <2>5 DEF Line, One, Taking, Top
    <3> QED BY <1>2, <2>1, <2>5, <3>1, RunningLatchesKept DEF One
  <2>7. MainOf(p)'
    <3>1. next = "insert" => w = g
      BY <1>3, <2>0
    <3>2. \A i \in 1..(Len(m.stack) - 1) : m.stack[i] # m.stack[i + 1]
      BY <2>2
    <3> QED BY <1>2, <1>3, <1>7, <2>2, <2>3, <2>5, <3>1, <3>2 DEF MainOf
  <2>8. CleanOf(p)' /\ WindowOf(p)'
    <3>1. InWindow(p)
      BY <1>0, <1>2 DEF InWindow
    <3>2. Has(p, g, "writer")' <=> Has(p, g, "writer")
      BY <2>1, <2>5 DEF Has
    <3> QED BY <1>0, <1>2, <1>7, <2>3, <2>5, <3>1, <3>2, Parts DEF CleanOf, WindowOf
  <2> QED BY <2>5, <2>6, <2>7, <2>8, Gather
<1>9. CASE ~write
  <2>1. /\ m.pc = "held" /\ m.back = "idle" /\ m.hi = NoPage /\ m.stack = <<>>
        /\ bdb' = bdb
    BY <1>6, <1>7, <1>9
  <2> HIDE DEF m, stack, hi, back
  <2>2. TypeOK' /\ Alone(p) /\ Caching' /\ History' /\ NoCycle' /\ main'[p] = m
    <3>1. CASE next = "held"
      <4>1. pre' = pre
        BY <1>6, <3>1
      <4>2. Goes(p, bdb[p], m, pre[p])
        BY <1>2, <1>5, <1>7, <2>1, <4>1, Parts DEF Goes, TypeOK
      <4>3. \A h \in Pages : Alike(bdb[p][h], bdb[p][h])
        BY DEF Alike
      <4> QED BY <4>2, <4>3, StillStep
    <3>2. CASE next = "insert"
      <4>1. pre' = Inserted(p, x, g) /\ ~Over(p, g, x)
        BY <1>4, <1>6, <1>9, <3>2
      <4> QED BY <1>2, <1>5, <1>7, <2>1, <4>1, InsertStep
    <3> QED BY <1>3, <3>1, <3>2
  <2>3. LatchesOf(p)'
    <3>1. \A h \in Pages : Line(p, h)' = One(g = h)
      BY <1>7, <2>1, <2>2 DEF Line, One, Taking
    <3> QED BY <1>2, <2>1, <3>1, RunningLatchesKept
  <2>4. MainOf(p)'
    <3>1. Len(<<>>) = 0
      BY EmptySeq
    <3> QED BY <1>2, <1>7, <2>1, <2>2, <3>1 DEF MainOf
  <2>5. CleanOf(p)' /\ WindowOf(p)'
    <3>1. InWindow(p)
      BY <1>0, <1>2 DEF InWindow
    <3> QED BY <1>0, <1>2, <1>7, <2>1, <2>2, <3>1, Parts DEF CleanOf, WindowOf, Has
  <2> QED BY <2>2, <2>3, <2>4, <2>5, Gather
<1> QED BY <1>8, <1>9

LEMMA BrokenKeeps ==
  ASSUME IInv, NEW p \in Procs, CycleBroken(p)
  PROVE  IInv'
<1> DEFINE m == [main[p] EXCEPT !.pc = "held", !.hi = NoPage]
<1>1. PICK g \in Pages, x \in Pages : g = main[p].page /\ x = main[p].hi /\ x # g
  BY Parts DEF CycleBroken, Runs, MainOf, MainLine
<1>2. /\ ast[p] = <<>> /\ main[p].pc = "insert" /\ Below(p, g) = {} /\ g # NoPage
      /\ UNCHANGED <<disk, lck, bdb, ast, posted, tra, committed, lost, clock>>
      /\ pre' = Inserted(p, x, g)
  BY <1>1, Parts, ConstantAssumption DEF CycleBroken, Runs, CleanOf
<1>3. m \in MainLine
  BY LineOf DEF MainLine
<1>4. /\ m.pc = "held" /\ m.page = g /\ m.number = main[p].number /\ m.stack = <<>>
      /\ m.back = "idle"
  BY <1>1, <1>2, PlainLine, Parts DEF MainLine
<1>5. main' = [main EXCEPT ![p] = m]
  <2>1. main' = [main EXCEPT ![p].pc = "held", ![p].hi = NoPage]
    BY DEF CycleBroken
  <2> QED BY <2>1, Parts DEF TypeOK, MainLine
<1> HIDE DEF m
<1>6. TypeOK' /\ Alone(p) /\ Caching' /\ History' /\ NoCycle' /\ main'[p] = m
  <2>1. ~Over(p, g, x)
    BY <1>1, <1>2, NothingBelow
  <2> QED BY <1>2, <1>3, <1>4, <1>5, <2>1, InsertStep
<1>7. LatchesOf(p)'
  <2>1. \A h \in Pages : bdb[p][h].use = One(g = h)
    BY <1>1, <1>2, PlainLine, Parts, RunningLatches
  <2>2. \A h \in Pages : Line(p, h)' = One(g = h)
    BY <1>4, <1>6 DEF Line, One, Taking
  <2> QED BY <1>2, <2>1, <2>2, RunningLatchesKept
<1>8. MainOf(p)'
  <2>1. Len(<<>>) = 0
    BY EmptySeq
  <2> QED BY <1>2, <1>4, <1>6, <2>1 DEF MainOf
<1>9. CleanOf(p)' /\ WindowOf(p)'
  <2>1. InWindow(p)
    BY <1>1, <1>2 DEF InWindow
  <2> QED BY <1>1, <1>2, <1>4, <1>6, <2>1, Parts DEF CleanOf, WindowOf, Has
<1> QED BY <1>6, <1>7, <1>8, <1>9, Gather

-----------------------------------------------------------------------------
(* Steps of the main line that change images or locks.                     *)

LEMMA Numbers ==
  ASSUME TypeOK, History
  PROVE  /\ clock \in Nat /\ Unseen(clock + 1) /\ clock + 1 # 0
         /\ \A q \in Procs : main[q].number # clock + 1
<1>1. clock \in Nat /\ clock + 1 \notin Past /\ clock + 1 # 0
  BY ConstantAssumption DEF TypeOK, Past
<1> QED BY <1>1 DEF History, NumbersFit, Unseen

\* What a step does to one page of one process.
LEMMA ImagesKept ==
  ASSUME TypeOK, Caching, NEW p \in Procs, NEW g \in Pages, Alone(p), LocksFit', disk' = disk,
         \A h \in Pages \ {g} : /\ bdb'[p][h].img = bdb[p][h].img /\ lck'[p][h] = lck[p][h]
                                /\ Dirty(p, h)' <=> Dirty(p, h),
         IF Dirty(p, g)' THEN lck'[p][g] = LCK_write /\ disk[g].has \subseteq bdb'[p][g].img.has
         ELSE bdb'[p][g].img = IF lck'[p][g] = LCK_none THEN Blank ELSE disk[g]
  PROVE  Caching'
<1> SUFFICES ASSUME NEW q \in Procs, NEW h \in Pages
             PROVE  IF Dirty(q, h)'
                    THEN lck'[q][h] = LCK_write /\ disk'[h].has \subseteq bdb'[q][h].img.has
                    ELSE bdb'[q][h].img = IF lck'[q][h] = LCK_none THEN Blank ELSE disk'[h]
  BY DEF Caching, ImagesFit
<1>1. CASE q = p /\ h = g
  BY <1>1
<1>2. CASE q = p /\ h # g
  BY <1>2 DEF Caching, ImagesFit
<1>3. CASE q # p
  <2>1. bdb'[q] = bdb[q] /\ lck'[q] = lck[q]
    BY <1>3 DEF Alone
  <2>2. Dirty(q, h)' <=> Dirty(q, h)
    BY <2>1 DEF Dirty, Has
  <2> QED BY <2>1, <2>2 DEF Caching, ImagesFit
<1> QED BY <1>1, <1>2, <1>3

\* The lock on the page of the window is there at last: level is what p has from now on.
Enters(p, g, read, level) ==
  /\ g = main[p].page /\ main[p].pc \in {"lock", "waiting"} /\ Entered(p, read)
  /\ Others(p, g, level) = {} /\ lck' = [lck EXCEPT ![p][g] = level]
  /\ level # LCK_none /\ (Has(p, g, "writer") \/ Dirty(p, g) => level = LCK_write)
  /\ read => ~Dirty(p, g)
  /\ ~read => lck[p][g] # LCK_none
  /\ posted' \in [Procs -> SUBSET Pages]
  /\ UNCHANGED <<disk, pre, ast, committed, lost, clock>>

LEMMA EnteredKeeps ==
  ASSUME IInv, NEW p \in Procs, NEW g \in Pages, NEW read \in BOOLEAN, NEW level \in Levels,
         Enters(p, g, read, level)
  PROVE  IInv'
<1> DEFINE fake == Has(p, g, "faked")
           u == main[p].number
           new == [has |-> disk[g].has \cup {u}, needs |-> {}]
           b == IF fake THEN [With(bdb[p][g], MarkFlags) EXCEPT !.img = new]
                ELSE IF read THEN [Without(bdb[p][g], {"not_valid"}) EXCEPT !.img = disk[g]]
                ELSE bdb[p][g]
           m == [main[p] EXCEPT !.pc = "held", !.want = LCK_none, !.number = 0]
           t == IF fake THEN [tra[p] EXCEPT !.made = @ \cup {u}] ELSE tra[p]
<1>1. /\ g = main[p].page /\ g # NoPage /\ main[p].pc \in {"lock", "waiting"}
      /\ main[p].stack = <<>> /\ main[p].back = "idle" /\ ~Taking(p)
      /\ bdb[p][g] \in Buffer /\ disk[g] \in Image
  <2>1. g = main[p].page /\ main[p].pc \in {"lock", "waiting"}
    BY DEF Enters
  <2>2. main[p].stack = <<>> /\ main[p].back = "idle" /\ ~Taking(p)
    BY <2>1, PlainLine
  <2>3. bdb[p][g] \in Buffer /\ disk[g] \in Image
    BY Parts DEF TypeOK
  <2> QED BY <2>1, <2>2, <2>3, ConstantAssumption
<1>2. fake => /\ u # 0 /\ ~Dirty(p, g) /\ level = LCK_write /\ u \in Updates
              /\ Unseen(u) /\ u \in Past
  <2>1. fake => u # 0 /\ ~Dirty(p, g) /\ Has(p, g, "writer")
    BY <1>1, Parts DEF CleanOf
  <2>2. u # 0 => u \in Updates
    BY Parts, ConstantAssumption DEF MainLine, Updates
  <2>3. u # 0 => Unseen(u) /\ u \in Past
    BY Parts DEF History, NumbersFit
  <2> QED BY <2>1, <2>2, <2>3 DEF Enters
<1>3. /\ b \in Buffer /\ b.use = bdb[p][g].use
      /\ fake => b.flags = bdb[p][g].flags \cup MarkFlags /\ b.img = new
      /\ ~fake /\ read => b.flags = bdb[p][g].flags \ {"not_valid"} /\ b.img = disk[g]
      /\ ~fake /\ ~read => b = bdb[p][g]
  <2>1. MarkFlags \in SUBSET Flags /\ {"not_valid"} \in SUBSET Flags
    BY DEF MarkFlags, Flags
  <2>2. CASE fake
    <3> DEFINE c == With(bdb[p][g], MarkFlags)
    <3>1. c \in Buffer /\ c.use = bdb[p][g].use /\ c.flags = bdb[p][g].flags \cup MarkFlags
      BY <1>1, <2>1, BufferOps
    <3>2. new \in Image
      BY <1>1, <1>2, <2>2 DEF Image
    <3>3. b = [c EXCEPT !.img = new]
      BY <2>2
    <3> HIDE DEF c, b, new, fake
    <3> QED BY <2>2, <3>1, <3>2, <3>3 DEF Buffer
  <2>3. CASE ~fake /\ read
    <3> DEFINE c == Without(bdb[p][g], {"not_valid"})
    <3>1. c \in Buffer /\ c.use = bdb[p][g].use /\ c.flags = bdb[p][g].flags \ {"not_valid"}
      BY <1>1, <2>1, BufferOps
    <3>2. b = [c EXCEPT !.img = disk[g]]
      BY <2>3
    <3> HIDE DEF c, b, fake
    <3> QED BY <1>1, <2>3, <3>1, <3>2 DEF Buffer
  <2>4. CASE ~fake /\ ~read
    BY <1>1, <2>4
  <2> QED BY <2>2, <2>3, <2>4
<1>4. m \in MainLine
  <2>1. 0 \in 0..MaxUpdate /\ LCK_none \in Levels
    BY ConstantAssumption DEF Levels, LCK_none, LCK_write
  <2> QED BY <2>1, Parts DEF MainLine
<1>5. m.pc = "held" /\ m.page = g /\ m.number = 0 /\ m.stack = <<>> /\ m.back = "idle"
  BY <1>1, Parts DEF MainLine
<1>6. t \in [made : SUBSET Updates, invalidated : BOOLEAN]
  BY <1>2, Parts
<1>7. t.invalidated = tra[p].invalidated /\ t.made = IF fake THEN tra[p].made \cup {u} ELSE tra[p].made
  BY Parts
<1>8. /\ main' = [main EXCEPT ![p] = m] /\ bdb' = [bdb EXCEPT ![p][g] = b]
      /\ tra' = [tra EXCEPT ![p] = t]
  <2>1. /\ bdb' = [bdb EXCEPT ![p][g] = b]
        /\ tra' = IF fake THEN [tra EXCEPT ![p].made = @ \cup {u}] ELSE tra
        /\ main' = [main EXCEPT ![p].pc = "held", ![p].want = LCK_none, ![p].number = 0]
    <3>1. Entered(p, read) /\ g = main[p].page
      BY DEF Enters
    <3> QED BY <3>1 DEF Entered
  <2>2. tra' = [tra EXCEPT ![p] = t]
    <3> HIDE DEF fake
    <3> QED BY <2>1, Parts DEF TypeOK
  <2>3. main' = [main EXCEPT ![p] = m]
    BY <2>1, Parts DEF TypeOK, MainLine
  <2> QED BY <2>1, <2>2, <2>3
<1> HIDE DEF b, m, t, new, fake, u
<1>9. lck' = [lck EXCEPT ![p][g] = level] /\ UNCHANGED <<disk, pre, ast, committed, lost, clock>>
      /\ posted' \in [Procs -> SUBSET Pages]
  BY DEF Enters
<1>10. /\ TypeOK' /\ Alone(p) /\ main'[p] = m /\ pre'[p] = pre[p] /\ tra'[p] = t
       /\ \A h \in Pages : bdb'[p][h] = IF h = g THEN b ELSE bdb[p][h]
       /\ \A h \in Pages : lck'[p][h] = IF h = g THEN level ELSE lck[p][h]
  <2>1. /\ bdb' = [bdb EXCEPT ![p] = [bdb[p] EXCEPT ![g] = b]]
        /\ [bdb[p] EXCEPT ![g] = b] \in [Pages -> Buffer]
    BY <1>3, <1>8, OneBuffer
  <2>2. TypeOK'
    BY <1>4, <1>6, <1>8, <1>9, <2>1, Parts DEF TypeOK
  <2> QED BY <1>8, <1>9, <2>2, Parts DEF TypeOK, Alone
<1>11. LocksFit'
  <2>1. TypeOK /\ LocksFit /\ level \in Levels /\ Others(p, g, level) = {}
    BY Parts DEF Caching, Enters
  <2> QED BY <1>9, <1>10, <2>1, GrantedKeep
<1>12. \A h \in Pages \ {g} :
         /\ bdb'[p][h].img = bdb[p][h].img /\ lck'[p][h] = lck[p][h]
         /\ (Dirty(p, h)' <=> Dirty(p, h)) /\ (Has(p, h, "changed")' <=> Has(p, h, "changed"))
  BY <1>10 DEF Dirty, Has
<1>13. ASSUME fake PROVE Caching' /\ History'
  <2>1. Dirty(p, g)' /\ Has(p, g, "changed")' /\ bdb'[p][g].img = new
    BY <1>3, <1>10, <1>13 DEF Dirty, Has, MarkFlags
  <2>2. Caching'
    <3>1. lck'[p][g] = LCK_write /\ disk[g].has \subseteq bdb'[p][g].img.has
      BY <1>2, <1>10, <1>13, <2>1 DEF new
    <3> QED BY <1>9, <1>10, <1>11, <1>12, <2>1, <3>1, Parts, ImagesKept
  <2>3. History'
    <3>0. PICK v \in Past' : v = u
      BY <1>2, <1>9, <1>13 DEF Past
    <3>1. Makes(p, g, v)
      <4>1. \A q \in Procs : main'[q].number # v
        BY <1>2, <1>5, <1>10, <1>13, <3>0, Parts DEF Alone, History, NumbersFit, u
      <4>2. tra'[p].made = tra[p].made \cup {v} /\ (tra[p].invalidated => tra'[p].invalidated)
        BY <1>7, <1>10, <1>13, <3>0
      <4>3. bdb'[p][g].img.has = disk[g].has \cup {v} /\ ~Dirty(p, g)
        BY <1>2, <1>13, <2>1, <3>0 DEF new
      <4> QED BY <1>5, <1>9, <1>10, <1>12, <2>1, <4>1, <4>2, <4>3 DEF Makes
    <3>2. clock \in Nat /\ clock' = clock
      BY <1>9, Parts, Numbers
    <3> QED BY <1>2, <1>13, <3>0, <3>1, <3>2, Parts, MakesKeeps
  <2> QED BY <2>2, <2>3
<1>14. ASSUME ~fake PROVE Caching' /\ History'
  <2>1. /\ Dirty(p, g)' <=> Dirty(p, g)
        /\ Has(p, g, "changed")' <=> Has(p, g, "changed")
        /\ read => bdb'[p][g].img = disk[g] /\ ~Dirty(p, g)
        /\ ~read => bdb'[p][g].img = bdb[p][g].img
    BY <1>3, <1>10, <1>14 DEF Dirty, Has, Enters
  <2>2. Caching'
    <3>1. level # LCK_none /\ (Dirty(p, g) => level = LCK_write) /\ (~read => lck[p][g] # LCK_none)
      BY DEF Enters
    <3>2. IF Dirty(p, g)' THEN lck'[p][g] = LCK_write /\ disk[g].has \subseteq bdb'[p][g].img.has
          ELSE bdb'[p][g].img = IF lck'[p][g] = LCK_none THEN Blank ELSE disk[g]
      BY <1>10, <2>1, <3>1, Parts DEF Caching, ImagesFit
    <3> QED BY <1>9, <1>10, <1>11, <1>12, <3>2, Parts, ImagesKept
  <2>3. Quiet(p)
    <3>1. tra'[p] = tra[p]
      BY <1>10, <1>14 DEF t
    <3>2. \A h \in Pages : Dirty(p, h)' => Dirty(p, h) /\ bdb'[p][h].img = bdb[p][h].img
      BY <1>12, <2>1
    <3>3. \A h \in Pages : Dirty(p, h) =>
            Dirty(p, h)' /\ (Has(p, h, "changed")' <=> Has(p, h, "changed"))
      BY <1>12, <2>1
    <3> QED BY <1>5, <1>9, <1>10, <3>1, <3>2, <3>3 DEF Quiet
  <2> QED BY <2>2, <2>3, Parts, QuietKeeps
<1>15. Caching' /\ History'
  BY <1>13, <1>14
<1>16. NoCycle'
  BY <1>10, Parts, FewerKeepNoCycle
<1>17. LatchesOf(p)'
  <2>1. \A h \in Pages : Line(p, h)' = Line(p, h)
    BY <1>1, <1>5, <1>10 DEF Line, One, Taking
  <2>2. ast' = ast /\ \A h \in Pages : bdb'[p][h].use = bdb[p][h].use
    BY <1>3, <1>9, <1>10
  <2> QED BY <2>1, <2>2, Parts DEF LatchesOf
<1>18. MainOf(p)'
  <2>1. Len(<<>>) = 0
    BY EmptySeq
  <2> QED BY <1>1, <1>5, <1>10, <2>1 DEF MainOf
<1>19. CleanOf(p)' /\ WindowOf(p)'
  <2>1. Has(p, g, "writer")' <=> Has(p, g, "writer")
    BY <1>3, <1>10 DEF Has, MarkFlags
  <2>2. level # LCK_none /\ (Has(p, g, "writer") => level = LCK_write)
    BY DEF Enters
  <2> QED BY <1>1, <1>5, <1>10, <2>1, <2>2 DEF CleanOf, WindowOf, Has
<1> QED BY <1>10, <1>15, <1>16, <1>17, <1>18, <1>19, Gather

\* A step of process p: its buffers, locks, precedence, main line, calls and transaction
\* become B, L, E, m, c and t.
Moves(p, B, L, E, m, c, t) ==
  /\ B \in [Pages -> Buffer] /\ L \in [Pages -> Levels] /\ E \in SUBSET Precedence
  /\ m \in MainLine /\ c \in Seq(Frame)
  /\ t \in [made : SUBSET Updates, invalidated : BOOLEAN]
  /\ bdb' = [bdb EXCEPT ![p] = B] /\ lck' = [lck EXCEPT ![p] = L]
  /\ pre' = [pre EXCEPT ![p] = E] /\ main' = [main EXCEPT ![p] = m]
  /\ ast' = [ast EXCEPT ![p] = c] /\ tra' = [tra EXCEPT ![p] = t]
  /\ posted' \in [Procs -> SUBSET Pages] /\ disk' \in [Pages -> Image]
  /\ committed' \subseteq Updates /\ lost' \subseteq Updates /\ clock' \in 0..MaxUpdate

LEMMA Moved ==
  ASSUME TypeOK, NEW p \in Procs, NEW B, NEW L, NEW E, NEW m, NEW c, NEW t,
         Moves(p, B, L, E, m, c, t)
  PROVE  /\ TypeOK' /\ Alone(p)
         /\ bdb'[p] = B /\ lck'[p] = L /\ pre'[p] = E /\ main'[p] = m /\ ast'[p] = c /\ tra'[p] = t
BY DEF Moves, TypeOK, Alone

\* What a process leaves as it is.
LEMMA Unmoved ==
  ASSUME TypeOK, NEW p \in Procs
  PROVE  /\ bdb = [bdb EXCEPT ![p] = bdb[p]] /\ lck = [lck EXCEPT ![p] = lck[p]]
         /\ pre = [pre EXCEPT ![p] = pre[p]] /\ main = [main EXCEPT ![p] = main[p]]
         /\ ast = [ast EXCEPT ![p] = ast[p]] /\ tra = [tra EXCEPT ![p] = tra[p]]
         /\ disk \in [Pages -> Image] /\ posted \in [Procs -> SUBSET Pages]
         /\ committed \subseteq Updates /\ lost \subseteq Updates /\ clock \in 0..MaxUpdate
BY DEF TypeOK

\* A lock that is held is in nobody's way.
LEMMA NobodyInTheWay ==
  ASSUME TypeOK, LocksFit, NEW p \in Procs, NEW g \in Pages
  PROVE  Others(p, g, lck[p][g]) = {}
<1> SUFFICES ASSUME NEW q \in Procs \ {p}, lck[q][g] + lck[p][g] > LCK_write
             PROVE  FALSE
  BY DEF Others
<1>1. lck[q][g] + lck[p][g] <= LCK_write /\ lck[q][g] \in 0..2 /\ lck[p][g] \in 0..2
  BY DEF LocksFit, TypeOK, Levels, LCK_none, LCK_write
<1> QED BY <1>1 DEF LCK_write

LEMMA LockBufferKeeps ==
  ASSUME IInv, NEW p \in Procs, lock_buffer(p)
  PROVE  IInv'
<1>0. PICK g \in Pages : g = main[p].page
  BY Parts DEF lock_buffer, Runs, MainOf, MainLine
<1> DEFINE level == LevelNeeded(p, g)
           Says(g_) ==
             \/ /\ lck[p][g_] >= LevelNeeded(p, g_)
                /\ Entered(p, FALSE)
                /\ UNCHANGED <<lck, posted>>
             \/ /\ lck[p][g_] = LCK_read /\ LevelNeeded(p, g_) = LCK_write
                /\ Others(p, g_, LCK_write) = {}
                /\ lck' = [lck EXCEPT ![p][g_] = LCK_write]
                /\ Entered(p, FALSE)
                /\ UNCHANGED posted
             \/ /\ lck[p][g_] < LevelNeeded(p, g_)
                /\ lck[p][g_] = LCK_read => Others(p, g_, LCK_write) # {}
                /\ lck' = [lck EXCEPT ![p][g_] = LCK_none]
                /\ bdb' = [bdb EXCEPT ![p][g_].img = Blank]
                /\ main' = [main EXCEPT ![p].pc = "waiting", ![p].want = LevelNeeded(p, g_)]
                /\ posted' = [BlockersPosted(p, g_, LevelNeeded(p, g_)) EXCEPT ![p] = @ \ {g_}]
                /\ UNCHANGED tra
<1>1. Says(g)
  <2>1. Says(main[p].page)
    BY DEF lock_buffer
  <2> HIDE DEF Says
  <2> QED BY <1>0, <2>1
<1>2. /\ main[p].pc = "lock" /\ ast[p] = <<>> /\ g # NoPage
      /\ main[p].stack = <<>> /\ main[p].back = "idle" /\ ~Taking(p)
      /\ \A h \in Pages : bdb[p][h].use = One(g = h)
      /\ UNCHANGED <<disk, pre, ast, committed, lost, clock>>
  <2>1. main[p].pc = "lock" /\ ast[p] = <<>>
    BY DEF lock_buffer, Runs
  <2> QED BY <1>0, <2>1, Parts, PlainLine, RunningLatches, ConstantAssumption DEF lock_buffer
<1>3. /\ level \in {LCK_read, LCK_write}
      /\ Has(p, g, "writer") \/ Dirty(p, g) => level = LCK_write
      /\ Dirty(p, g) => lck[p][g] = LCK_write
      /\ lck[p][g] \in Levels
  BY Parts DEF LevelNeeded, Caching, ImagesFit
<1> HIDE DEF level
<1>4. ASSUME lck[p][g] >= level, Entered(p, FALSE), UNCHANGED <<lck, posted>>
      PROVE  IInv'
  <2>1. lck' = [lck EXCEPT ![p][g] = lck[p][g]]
    BY <1>4, Parts DEF TypeOK
  <2>2. lck[p][g] # LCK_none /\ (level = LCK_write => lck[p][g] = LCK_write)
    BY <1>3, <1>4 DEF Levels, LCK_none, LCK_read, LCK_write
  <2>3. PICK now \in Levels : now = lck[p][g]
    BY <1>3
  <2>4. Enters(p, g, FALSE, now)
    BY <1>0, <1>2, <1>3, <1>4, <2>1, <2>2, <2>3, NobodyInTheWay, Parts DEF Enters, Caching, TypeOK
  <2> QED BY <2>4, EnteredKeeps
<1>5. ASSUME lck[p][g] = LCK_read, level = LCK_write, Others(p, g, LCK_write) = {},
             lck' = [lck EXCEPT ![p][g] = LCK_write], Entered(p, FALSE), UNCHANGED posted
      PROVE  IInv'
  <2>1. LCK_write \in Levels /\ LCK_write # LCK_none /\ LCK_read # LCK_none
    BY DEF Levels, LCK_none, LCK_read, LCK_write
  <2>2. Enters(p, g, FALSE, LCK_write)
    BY <1>0, <1>2, <1>5, <2>1, Parts DEF Enters, TypeOK
  <2> QED BY <2>1, <2>2, EnteredKeeps
<1>6. ASSUME lck[p][g] < level, lck' = [lck EXCEPT ![p][g] = LCK_none],
             bdb' = [bdb EXCEPT ![p][g].img = Blank],
             main' = [main EXCEPT ![p].pc = "waiting", ![p].want = level],
             posted' = [BlockersPosted(p, g, level) EXCEPT ![p] = @ \ {g}], UNCHANGED tra
      PROVE  IInv'
  <2> DEFINE b == [bdb[p][g] EXCEPT !.img = Blank]
             m == [main[p] EXCEPT !.pc = "waiting", !.want = level]
  <2>1. ~Dirty(p, g)
    BY <1>3, <1>6 DEF LCK_read, LCK_write
  <2>2. /\ b \in Buffer /\ b.use = bdb[p][g].use /\ b.flags = bdb[p][g].flags /\ b.img = Blank
    <3>1. bdb[p][g] \in Buffer /\ Blank \in Image
      BY Parts DEF Blank, Image
    <3> QED BY <3>1 DEF Buffer
  <2>3. m \in MainLine
    <3>1. level \in Levels
      BY <1>3 DEF Levels, LCK_none, LCK_read, LCK_write
    <3> QED BY <3>1, LineOf DEF MainLine
  <2>4. /\ m.pc = "waiting" /\ m.page = g /\ m.number = main[p].number /\ m.stack = <<>>
        /\ m.back = "idle" /\ m.want = level
    BY <1>0, <1>2, Parts DEF MainLine
  <2>5. main' = [main EXCEPT ![p] = m] /\ bdb' = [bdb EXCEPT ![p][g] = b]
    BY <1>6, Parts DEF TypeOK, MainLine
  <2>6. posted' \in [Procs -> SUBSET Pages]
    <3>1. posted' = [BlockersPosted(p, g, level) EXCEPT ![p] = @ \ {g}]
      BY <1>6
    <3>2. BlockersPosted(p, g, level) \in [Procs -> SUBSET Pages]
      BY Parts DEF BlockersPosted, TypeOK
    <3> QED BY <3>1, <3>2
  <2> HIDE DEF b, m
  <2>7. /\ TypeOK' /\ Alone(p) /\ main'[p] = m /\ pre'[p] = pre[p] /\ tra'[p] = tra[p]
        /\ \A h \in Pages : bdb'[p][h] = IF h = g THEN b ELSE bdb[p][h]
        /\ \A h \in Pages : lck'[p][h] = IF h = g THEN LCK_none ELSE lck[p][h]
    <3>1. /\ bdb' = [bdb EXCEPT ![p] = [bdb[p] EXCEPT ![g] = b]]
          /\ [bdb[p] EXCEPT ![g] = b] \in [Pages -> Buffer]
      BY <2>2, <2>5, OneBuffer
    <3>2. LCK_none \in Levels
      BY DEF Levels, LCK_none, LCK_write
    <3> DEFINE B == [bdb[p] EXCEPT ![g] = b]
               L == [lck[p] EXCEPT ![g] = LCK_none]
    <3>3. lck' = [lck EXCEPT ![p] = L] /\ L \in [Pages -> Levels]
      BY <1>6, <3>2, Parts DEF TypeOK
    <3>4. /\ \A h \in Pages : B[h] = IF h = g THEN b ELSE bdb[p][h]
          /\ \A h \in Pages : L[h] = IF h = g THEN LCK_none ELSE lck[p][h]
      BY Parts
    <3> HIDE DEF B, L
    <3>5. Moves(p, B, L, pre[p], m, ast[p], tra[p])
      <4>1. disk' = disk /\ pre' = pre /\ ast' = ast /\ committed' = committed /\ lost' = lost
            /\ clock' = clock /\ tra' = tra
        BY <1>2, <1>6
      <4> QED BY <2>3, <2>5, <2>6, <3>1, <3>3, <4>1, Parts, Unmoved DEF Moves, B
    <3> QED BY <3>4, <3>5, Parts, Moved
  <2>8. \A h \in Pages :
          /\ (Dirty(p, h)' <=> Dirty(p, h)) /\ (Has(p, h, "changed")' <=> Has(p, h, "changed"))
          /\ Has(p, h, "writer")' <=> Has(p, h, "writer")
          /\ Has(p, h, "faked")' <=> Has(p, h, "faked")
    BY <2>2, <2>7 DEF Dirty, Has
  <2>9. Caching'
    <3>1. \A h \in Pages : lck'[p][h] \in Levels /\ lck'[p][h] <= lck[p][h]
      BY <2>7, Parts DEF Levels, LCK_none, LCK_write
    <3>2. LocksFit'
      BY <2>7, <3>1, Parts, LoweredKeep DEF Caching
    <3> QED BY <1>2, <2>1, <2>2, <2>7, <2>8, <3>2, Parts, ImagesKept
  <2>10. History'
    <3>1. Quiet(p)
      BY <1>2, <2>1, <2>4, <2>7, <2>8 DEF Quiet
    <3> QED BY <2>9, <3>1, Parts, QuietKeeps
  <2>11. NoCycle'
    BY <2>7, Parts, FewerKeepNoCycle
  <2>12. LatchesOf(p)'
    <3>1. \A h \in Pages : Line(p, h)' = One(g = h)
      BY <2>4, <2>7 DEF Line, One, Taking
    <3> QED BY <1>2, <2>2, <2>7, <3>1, RunningLatchesKept
  <2>13. MainOf(p)'
    <3>1. Len(<<>>) = 0
      BY EmptySeq
    <3> QED BY <1>2, <2>4, <2>7, <3>1 DEF MainOf
  <2>14. CleanOf(p)' /\ WindowOf(p)'
    BY <1>0, <1>2, <1>3, <2>4, <2>7, <2>8, Parts
       DEF CleanOf, WindowOf, InWindow, LCK_read, LCK_write, LCK_none
  <2> QED BY <2>7, <2>9, <2>10, <2>11, <2>12, <2>13, <2>14, Gather
<1> QED BY <1>1, <1>4, <1>5, <1>6 DEF level

LEMMA GrantedKeeps ==
  ASSUME IInv, NEW p \in Procs, LockGranted(p)
  PROVE  IInv'
<1>0. PICK g \in Pages, level \in Levels : g = main[p].page /\ level = main[p].want
  BY Parts DEF LockGranted, MainOf, MainLine
<1>1. main[p].pc = "waiting" /\ lck[p][g] = LCK_none /\ level # LCK_none
      /\ (Has(p, g, "writer") => level = LCK_write)
  BY <1>0, Parts DEF LockGranted, WindowOf
<1>2. ~Dirty(p, g)
  BY <1>1, Parts DEF Caching, ImagesFit, LCK_none, LCK_write
<1>3. posted' \in [Procs -> SUBSET Pages]
  BY <1>0, Parts DEF LockGranted, TypeOK
<1>4. /\ Others(p, g, level) = {} /\ lck' = [lck EXCEPT ![p][g] = level]
      /\ Entered(p, TRUE) /\ UNCHANGED <<disk, pre, ast, committed, lost, clock>>
  <2>1. /\ Others(p, main[p].page, main[p].want) = {}
        /\ lck' = [lck EXCEPT ![p][main[p].page] = main[p].want]
        /\ Entered(p, TRUE) /\ UNCHANGED <<disk, pre, ast, committed, lost, clock>>
    BY DEF LockGranted
  <2> QED BY <1>0, <2>1
<1>5. Enters(p, g, TRUE, level)
  BY <1>0, <1>1, <1>2, <1>3, <1>4 DEF Enters
<1> QED BY <1>5, EnteredKeeps

LEMMA MarkKeeps ==
  ASSUME IInv, NEW p \in Procs, CCH_mark(p)
  PROVE  IInv'
<1>0. PICK g \in Pages : g = main[p].page
  BY Parts DEF CCH_mark, Runs, MainOf, MainLine
<1>1. /\ ast[p] = <<>> /\ main[p].pc = "held" /\ Has(p, g, "writer")
      /\ clock < MaxUpdate /\ clock' = clock + 1
      /\ UNCHANGED <<disk, lck, pre, ast, posted, committed, lost>>
      /\ lck[p][g] = LCK_write
      /\ main[p].stack = <<>> /\ main[p].back = "idle" /\ ~Taking(p)
      /\ \A h \in Pages : bdb[p][h].use = One(g = h)
  <2>1. main[p].pc = "held" /\ ast[p] = <<>> /\ Has(p, g, "writer")
    BY <1>0 DEF CCH_mark, Runs
  <2>2. lck[p][g] = LCK_write
    BY <1>0, <2>1, Parts, ConstantAssumption DEF WindowOf, InWindow
  <2>3. /\ main[p].stack = <<>> /\ main[p].back = "idle" /\ ~Taking(p)
        /\ \A h \in Pages : bdb[p][h].use = One(g = h)
    BY <1>0, <2>1, Parts, PlainLine, RunningLatches
  <2> QED BY <2>1, <2>2, <2>3 DEF CCH_mark
<1>2. PICK u \in Updates : u = clock'
  BY <1>1, Parts, ConstantAssumption DEF TypeOK, Updates
<1> DEFINE old == bdb[p][g]
           img == [has |-> old.img.has \cup {u}, needs |-> old.img.needs \cup main[p].needs]
           b == [With(old, MarkFlags) EXCEPT !.img = img]
           m == [main[p] EXCEPT !.needs = {}]
           t == [tra[p] EXCEPT !.made = @ \cup {u}]
<1>3. /\ b \in Buffer /\ b.use = old.use /\ b.flags = old.flags \cup MarkFlags
      /\ b.img.has = old.img.has \cup {u}
  <2>1. old \in Buffer /\ MarkFlags \in SUBSET Flags /\ old.img \in Image
    BY Parts DEF MarkFlags, Flags, Buffer
  <2> DEFINE c == With(old, MarkFlags)
  <2>2. c \in Buffer /\ c.use = old.use /\ c.flags = old.flags \cup MarkFlags
    BY <2>1, BufferOps
  <2>3. img \in Image /\ img.has = old.img.has \cup {u}
    BY <2>1, Parts DEF Image, MainLine
  <2>4. b = [c EXCEPT !.img = img]
    OBVIOUS
  <2> HIDE DEF c, img, b, old
  <2> QED BY <2>2, <2>3, <2>4 DEF Buffer
<1>4. m \in MainLine
  BY LineOf DEF MainLine
<1>5. m.pc = "held" /\ m.page = g /\ m.number = main[p].number /\ m.stack = <<>> /\ m.back = "idle"
  BY <1>0, <1>1, Parts DEF MainLine
<1>6. /\ t \in [made : SUBSET Updates, invalidated : BOOLEAN]
      /\ t.made = tra[p].made \cup {u} /\ t.invalidated = tra[p].invalidated
  BY Parts
<1>7. /\ main' = [main EXCEPT ![p] = m] /\ bdb' = [bdb EXCEPT ![p][g] = b]
      /\ tra' = [tra EXCEPT ![p] = t]
  <2>1. /\ bdb' = [bdb EXCEPT ![p][g] = b]
    <3> DEFINE Says(g_, u_) ==
                 LET was == bdb[p][g_].img
                     new == [has |-> was.has \cup {u_}, needs |-> was.needs \cup main[p].needs] IN
                 bdb' = [bdb EXCEPT ![p][g_] = [With(@, MarkFlags) EXCEPT !.img = new]]
    <3>1. Says(main[p].page, clock')
      BY DEF CCH_mark
    <3>2. Says(g, u)
      <4> HIDE DEF Says
      <4> QED BY <1>0, <1>2, <3>1
    <3> QED BY <3>2
  <2>2. tra' = [tra EXCEPT ![p] = t]
    <3>1. tra' = [tra EXCEPT ![p].made = @ \cup {u}]
      BY <1>2 DEF CCH_mark
    <3> QED BY <3>1, Parts DEF TypeOK
  <2>3. main' = [main EXCEPT ![p] = m]
    <3>1. main' = [main EXCEPT ![p].needs = {}]
      BY DEF CCH_mark
    <3> QED BY <3>1, Parts DEF TypeOK, MainLine
  <2> QED BY <2>1, <2>2, <2>3
<1> HIDE DEF b, m, t, img
<1>8. /\ TypeOK' /\ Alone(p) /\ main'[p] = m /\ pre'[p] = pre[p] /\ tra'[p] = t
      /\ \A h \in Pages : bdb'[p][h] = IF h = g THEN b ELSE bdb[p][h]
  <2> DEFINE B == [bdb[p] EXCEPT ![g] = b]
  <2>1. bdb' = [bdb EXCEPT ![p] = B] /\ B \in [Pages -> Buffer]
    BY <1>3, <1>7, OneBuffer
  <2>2. \A h \in Pages : B[h] = IF h = g THEN b ELSE bdb[p][h]
    BY Parts
  <2> HIDE DEF B
  <2>3. Moves(p, B, lck[p], pre[p], m, ast[p], t)
    <3>1. disk' = disk /\ lck' = lck /\ pre' = pre /\ ast' = ast /\ posted' = posted
          /\ committed' = committed /\ lost' = lost
      BY <1>1
    <3>2. clock' \in 0..MaxUpdate
      BY <1>1, Parts, ConstantAssumption DEF TypeOK
    <3> QED BY <1>4, <1>6, <1>7, <2>1, <3>1, <3>2, Parts, Unmoved DEF Moves
  <2> QED BY <2>2, <2>3, Parts, Moved
<1>9. /\ \A h \in Pages \ {g} :
            /\ bdb'[p][h].img = bdb[p][h].img /\ lck'[p][h] = lck[p][h]
            /\ (Dirty(p, h)' <=> Dirty(p, h)) /\ (Has(p, h, "changed")' <=> Has(p, h, "changed"))
      /\ Dirty(p, g)' /\ Has(p, g, "changed")'
      /\ bdb'[p][g].img.has = bdb[p][g].img.has \cup {u}
      /\ Has(p, g, "writer")' <=> Has(p, g, "writer")
  BY <1>1, <1>3, <1>8 DEF Dirty, Has, MarkFlags
<1>10. Caching'
  <2>1. disk[g].has \subseteq bdb[p][g].img.has
    BY <1>1, Parts DEF Caching, ImagesFit, LCK_write, LCK_none
  <2>2. LocksFit'
    BY <1>1, Parts DEF Caching, LocksFit
  <2> QED BY <1>1, <1>8, <1>9, <2>1, <2>2, Parts, ImagesKept
<1>11. History'
  <2>1. /\ clock \in Nat /\ clock' \in Nat /\ clock <= clock' /\ u # 0 /\ Unseen(u) /\ u \in Past'
        /\ \A q \in Procs : main[q].number # u
    BY <1>1, <1>2, Parts, Numbers DEF Past
  <2>2. Makes(p, g, u)
    BY <1>1, <1>5, <1>6, <1>8, <1>9, <2>1 DEF Makes, Alone
  <2> QED BY <2>1, <2>2, Parts, MakesKeeps
<1>12. NoCycle'
  BY <1>8, Parts, FewerKeepNoCycle
<1>13. LatchesOf(p)'
  <2>1. \A h \in Pages : Line(p, h)' = One(g = h)
    BY <1>5, <1>8, <1>1 DEF Line, One, Taking
  <2> QED BY <1>1, <1>3, <1>8, <2>1, RunningLatchesKept
<1>14. MainOf(p)'
  <2>1. Len(<<>>) = 0
    BY EmptySeq
  <2> QED BY <1>5, <1>8, <2>1, ConstantAssumption DEF MainOf
<1>15. CleanOf(p)' /\ WindowOf(p)'
  BY <1>1, <1>5, <1>8, <1>9 DEF CleanOf, WindowOf, LCK_none, LCK_write
<1> QED BY <1>8, <1>10, <1>11, <1>12, <1>13, <1>14, <1>15, Gather

-----------------------------------------------------------------------------
(* Buffers and transactions that are given up.                             *)

\* The buffer of page g is taken, and the main line goes on to m.
Takes(p, g, m) ==
  /\ Reuses(p, g) /\ ~Dirty(p, g) /\ m.number \in {0, main[p].number}
  /\ main' = [main EXCEPT ![p] = m]
  /\ UNCHANGED <<disk, ast, tra, committed, lost, clock>>

LEMMA ReuseStep ==
  ASSUME IInv, NEW p \in Procs, NEW g \in Pages, NEW m \in MainLine, Takes(p, g, m)
  PROVE  /\ TypeOK' /\ Alone(p) /\ Caching' /\ History' /\ NoCycle'
         /\ main'[p] = m /\ ast'[p] = ast[p]
         /\ \A h \in Pages : bdb'[p][h] = IF h = g THEN NewBuffer ELSE bdb[p][h]
         /\ \A h \in Pages : lck'[p][h] = IF h = g THEN LCK_none ELSE lck[p][h]
<1> DEFINE B == [bdb[p] EXCEPT ![g] = NewBuffer]
           L == [lck[p] EXCEPT ![g] = LCK_none]
           E == pre[p] \ (Above(p, g) \cup Below(p, g))
<1>1. NewBuffer \in Buffer /\ NewBuffer.img = Blank /\ NewBuffer.flags = {}
  BY DEF NewBuffer, Buffer, Blank, Image
<1>2. bdb' = [bdb EXCEPT ![p] = B] /\ B \in [Pages -> Buffer]
  BY <1>1, OneBuffer DEF Takes, Reuses
<1>3. lck' = [lck EXCEPT ![p] = L] /\ L \in [Pages -> Levels]
  <2>1. lck' = [lck EXCEPT ![p][g] = LCK_none] /\ LCK_none \in Levels
    BY DEF Takes, Reuses, Levels, LCK_none, LCK_write
  <2> QED BY <2>1, Parts DEF TypeOK
<1>4. pre' = [pre EXCEPT ![p] = E] /\ E \in SUBSET pre[p]
  BY DEF Takes, Reuses
<1>5. posted' \in [Procs -> SUBSET Pages]
  <2> DEFINE lows == {e.low : e \in {e \in Below(p, g) : ~e.cleared}}
  <2>1. lows \subseteq Pages
    BY Parts DEF Below, Precedence
  <2>2. posted' = [posted EXCEPT ![p] = (@ \ {g}) \cup Reposts(p, lows)]
    BY DEF Takes, Reuses
  <2> HIDE DEF lows
  <2> QED BY <2>1, <2>2, Parts DEF Reposts, TypeOK
<1>6. /\ \A h \in Pages : B[h] = IF h = g THEN NewBuffer ELSE bdb[p][h]
      /\ \A h \in Pages : L[h] = IF h = g THEN LCK_none ELSE lck[p][h]
  BY Parts
<1> HIDE DEF B, L, E
<1>7. /\ TypeOK' /\ Alone(p)
      /\ bdb'[p] = B /\ lck'[p] = L /\ pre'[p] = E /\ main'[p] = m /\ ast'[p] = ast[p]
      /\ tra'[p] = tra[p]
  <2>1. /\ main' = [main EXCEPT ![p] = m] /\ disk' = disk /\ ast' = ast /\ tra' = tra
        /\ committed' = committed /\ lost' = lost /\ clock' = clock
    BY DEF Takes
  <2>2. Moves(p, B, L, E, m, ast[p], tra[p])
    BY <1>2, <1>3, <1>4, <1>5, <2>1, Parts, Unmoved DEF Moves
  <2> QED BY <2>2, Parts, Moved
<1>8. /\ ~Dirty(p, g) /\ ~Dirty(p, g)' /\ disk' = disk
      /\ \A h \in Pages \ {g} :
           /\ bdb'[p][h].img = bdb[p][h].img /\ lck'[p][h] = lck[p][h]
           /\ (Dirty(p, h)' <=> Dirty(p, h)) /\ (Has(p, h, "changed")' <=> Has(p, h, "changed"))
      /\ bdb'[p][g].img = Blank /\ lck'[p][g] = LCK_none
  BY <1>1, <1>6, <1>7 DEF Dirty, Has, Takes
<1>9. Caching'
  <2>1. \A h \in Pages : lck'[p][h] \in Levels /\ lck'[p][h] <= lck[p][h]
    BY <1>6, <1>7, Parts DEF Levels, LCK_none, LCK_write
  <2>2. LocksFit'
    BY <1>7, <2>1, Parts, LoweredKeep DEF Caching
  <2> QED BY <1>7, <1>8, <2>2, Parts, ImagesKept
<1>10. History'
  <2>1. Quiet(p)
    BY <1>7, <1>8 DEF Quiet, Takes
  <2> QED BY <1>9, <2>1, Parts, QuietKeeps
<1>11. NoCycle'
  BY <1>4, <1>7, Parts, FewerKeepNoCycle
<1> QED BY <1>6, <1>7, <1>9, <1>10, <1>11

LEMMA TakenKeeps ==
  ASSUME IInv, NEW p \in Procs, NEW g \in Pages, get_buffer(p, g), ~Dirty(p, g)
  PROVE  IInv'
<1>1. /\ ast[p] = <<>> /\ main[p].pc \in {"idle", "held"} /\ ~(bdb[p][g].use > 0)
      /\ Reuses(p, g) /\ main' = main /\ UNCHANGED <<disk, ast, tra, committed, lost, clock>>
  BY DEF get_buffer, Runs, InUse
<1>2. /\ main[p].stack = <<>> /\ main[p].back = "idle" /\ ~Taking(p)
      /\ \A h \in Pages : bdb[p][h].use = One(main[p].page = h)
      /\ main[p].page # g
  <2>1. /\ main[p].stack = <<>> /\ main[p].back = "idle" /\ ~Taking(p)
        /\ \A h \in Pages : bdb[p][h].use = One(main[p].page = h)
    BY <1>1, Parts, PlainLine, RunningLatches
  <2> QED BY <1>1, <2>1 DEF One
<1>3. /\ TypeOK' /\ Alone(p) /\ Caching' /\ History' /\ NoCycle'
      /\ main'[p] = main[p] /\ ast'[p] = ast[p]
      /\ \A h \in Pages : bdb'[p][h] = IF h = g THEN NewBuffer ELSE bdb[p][h]
      /\ \A h \in Pages : lck'[p][h] = IF h = g THEN LCK_none ELSE lck[p][h]
  <2>1. PICK m \in MainLine : m = main[p]
    BY Parts
  <2>2. Takes(p, g, m)
    BY <1>1, <2>1, Parts, Unmoved DEF Takes
  <2> QED BY <2>1, <2>2, ReuseStep
<1>4. LatchesOf(p)'
  <2>1. \A h \in Pages : Line(p, h)' = One(main[p].page = h)
    BY <1>1, <1>2 DEF Line, One, Taking
  <2> QED BY <1>1, <1>2, <1>3, <2>1, RunningLatchesKept DEF One, NewBuffer
<1>5. MainOf(p)'
  BY <1>1, Parts DEF MainOf
<1>6. CleanOf(p)' /\ WindowOf(p)'
  <2>1. main[p].page # NoPage => main[p].page \in Pages
    BY Parts DEF MainLine
  <2>2. InWindow(p)' <=> InWindow(p)
    BY <1>3 DEF InWindow
  <2>3. InWindow(p) => main[p].page \in Pages
    BY <2>1 DEF InWindow
  <2> QED BY <1>1, <1>2, <1>3, <2>2, <2>3, Parts DEF CleanOf, WindowOf, Has
<1> QED BY <1>3, <1>4, <1>5, <1>6, Gather

LEMMA ReusedKeeps ==
  ASSUME IInv, NEW p \in Procs, BufferReused(p)
  PROVE  IInv'
<1>0. PICK g \in Pages : g = main[p].hi /\ g # main[p].page
  BY Parts DEF BufferReused, Runs, MainOf, MainLine
<1>1. /\ ast[p] = <<>> /\ main[p].pc = "reuse" /\ ~Dirty(p, g)
      /\ main[p].stack = <<>> /\ main[p].back = "idle" /\ Taking(p)
      /\ \A h \in Pages : bdb[p][h].use = One(main[p].page = h) + One(g = h)
  <2>1. ast[p] = <<>> /\ main[p].pc = "reuse"
    BY DEF BufferReused, Runs
  <2>2. ~Dirty(p, g) /\ main[p].stack = <<>> /\ main[p].back = "idle" /\ Taking(p)
    BY <1>0, <2>1, Parts DEF CleanOf, MainOf, Taking
  <2>3. \A h \in Pages : bdb[p][h].use = Line(p, h)
    BY <2>1, Parts, RunningLatches
  <2>4. \A h \in Pages : Line(p, h) = One(main[p].page = h) + One(g = h)
    BY <1>0, <2>2 DEF Line, One
  <2> QED BY <2>1, <2>2, <2>3, <2>4
<1> DEFINE pc == IF main[p].page = NoPage THEN "idle" ELSE "held"
           m == [main[p] EXCEPT !.hi = NoPage, !.pc = pc]
<1>2. /\ m \in MainLine /\ m.page = main[p].page /\ m.number = main[p].number
      /\ m.stack = <<>> /\ m.back = "idle" /\ m.pc = pc
  <2>1. pc \in {"idle", "held"}
    OBVIOUS
  <2> HIDE DEF pc
  <2>2. m \in MainLine
    BY <2>1, LineOf DEF MainLine
  <2>3. /\ m.page = main[p].page /\ m.number = main[p].number
        /\ m.stack = main[p].stack /\ m.back = main[p].back /\ m.pc = pc
    BY Parts DEF MainLine
  <2> QED BY <1>1, <2>2, <2>3
<1>3. Takes(p, g, m)
  <2>1. main' = [main EXCEPT ![p] = m]
    <3>1. main' = [main EXCEPT ![p].hi = NoPage, ![p].pc = pc]
      BY DEF BufferReused
    <3> HIDE DEF pc
    <3> QED BY <3>1, Parts DEF TypeOK, MainLine
  <2>2. Reuses(p, g) /\ UNCHANGED <<disk, ast, tra, committed, lost, clock>>
    <3>1. Reuses(p, main[p].hi) /\ UNCHANGED <<disk, ast, tra, committed, lost, clock>>
      BY DEF BufferReused
    <3> QED BY <1>0, <3>1
  <2> QED BY <1>1, <1>2, <2>1, <2>2 DEF Takes
<1> HIDE DEF m, pc
<1>4. /\ TypeOK' /\ Alone(p) /\ Caching' /\ History' /\ NoCycle'
      /\ main'[p] = m /\ ast'[p] = ast[p]
      /\ \A h \in Pages : bdb'[p][h] = IF h = g THEN NewBuffer ELSE bdb[p][h]
      /\ \A h \in Pages : lck'[p][h] = IF h = g THEN LCK_none ELSE lck[p][h]
  BY <1>2, <1>3, ReuseStep
<1>5. LatchesOf(p)'
  <2>1. \A h \in Pages : Line(p, h)' = One(main[p].page = h)
    BY <1>2, <1>4 DEF Line, One, Taking, pc
  <2> QED BY <1>0, <1>1, <1>4, <2>1, RunningLatchesKept DEF One, NewBuffer
<1>6. MainOf(p)'
  <2>1. Len(<<>>) = 0
    BY EmptySeq
  <2> QED BY <1>2, <1>4, <2>1 DEF MainOf, pc
<1>7. CleanOf(p)' /\ WindowOf(p)'
  <2>1. main[p].page # NoPage => main[p].page \in Pages /\ InWindow(p)
    BY <1>1, Parts DEF MainLine, InWindow
  <2>2. InWindow(p)' => main[p].page # NoPage
    BY <1>2, <1>4 DEF InWindow
  <2> QED BY <1>0, <1>2, <1>4, <2>1, <2>2, Parts DEF CleanOf, WindowOf, Has, pc
<1> QED BY <1>4, <1>5, <1>6, <1>7, Gather

LEMMA RollbackKeeps ==
  ASSUME IInv, NEW p \in Procs, TRA_rollback(p)
  PROVE  IInv'
<1> DEFINE B == [g \in Pages |-> Without(bdb[p][g], {"changed"})]
<1>1. /\ B \in [Pages -> Buffer]
      /\ \A h \in Pages : /\ B[h].img = bdb[p][h].img /\ B[h].use = bdb[p][h].use
                          /\ B[h].flags = bdb[p][h].flags \ {"changed"}
  <2>1. \A h \in Pages : bdb[p][h] \in Buffer
    BY Parts
  <2>2. {"changed"} \in SUBSET Flags
    BY DEF Flags
  <2> QED BY <2>1, <2>2, BufferOps
<1>2. /\ bdb' = [bdb EXCEPT ![p] = B] /\ tra' = [tra EXCEPT ![p] = NewTra]
      /\ UNCHANGED <<disk, lck, pre, main, ast, posted, committed, lost, clock>>
  BY DEF TRA_rollback
<1> HIDE DEF B
<1>3. NewTra \in [made : SUBSET Updates, invalidated : BOOLEAN] /\ NewTra.made = {}
  BY DEF NewTra
<1>4. /\ TypeOK' /\ Alone(p) /\ bdb'[p] = B /\ lck'[p] = lck[p] /\ pre'[p] = pre[p]
      /\ main'[p] = main[p] /\ ast'[p] = ast[p] /\ tra'[p] = NewTra
  <2>1. Moves(p, B, lck[p], pre[p], main[p], ast[p], NewTra)
    BY <1>1, <1>2, <1>3, Parts, Unmoved DEF Moves
  <2> QED BY <2>1, Parts, Moved
<1>5. \A h \in Pages : /\ (Dirty(p, h)' <=> Dirty(p, h)) /\ bdb'[p][h].img = bdb[p][h].img
                       /\ Has(p, h, "writer")' <=> Has(p, h, "writer")
                       /\ Has(p, h, "faked")' <=> Has(p, h, "faked")
                       /\ bdb'[p][h].use = bdb[p][h].use
  BY <1>1, <1>4 DEF Dirty, Has
<1>6. Caching'
  <2>1. \A q \in Procs, h \in Pages :
          /\ (Dirty(q, h)' <=> Dirty(q, h)) /\ bdb'[q][h].img = bdb[q][h].img
    BY <1>4, <1>5 DEF Alone, Dirty, Has
  <2> QED BY <1>2, <2>1, Parts DEF Caching, LocksFit, ImagesFit
<1>7. History'
  <2>1. Quiet(p)
    BY <1>2, <1>3, <1>4, <1>5 DEF Quiet
  <2> QED BY <1>6, <2>1, Parts, QuietKeeps
<1>8. NoCycle'
  BY <1>4, Parts, FewerKeepNoCycle
<1>9. LatchesOf(p)' /\ MainOf(p)' /\ CleanOf(p)' /\ WindowOf(p)'
  <2>1. main[p].page = NoPage /\ main[p].stack = <<>> /\ ~Taking(p) /\ main[p].back = "idle"
        /\ main[p].pc = "idle"
    BY IdleLatches DEF TRA_rollback, Runs
  <2>2. LatchesOf(p)'
    <3>1. \A h \in Pages : Line(p, h)' = Line(p, h)
      BY <1>2 DEF Line, One, Taking, Top
    <3> QED BY <1>2, <1>5, <3>1, Parts DEF LatchesOf
  <2>3. MainOf(p)'
    BY <1>2, Parts DEF MainOf
  <2>4. CleanOf(p)' /\ WindowOf(p)'
    BY <1>2, <2>1 DEF CleanOf, WindowOf, InWindow
  <2> QED BY <2>2, <2>3, <2>4
<1> QED BY <1>4, <1>6, <1>7, <1>8, <1>9, Gather

LEMMA GoneKeeps ==
  ASSUME IInv, NEW p \in Procs, Gone(p)
  PROVE  IInv'
<1> DEFINE B == [g \in Pages |-> NewBuffer]
           L == [g \in Pages |-> LCK_none]
<1>1. /\ bdb' = [bdb EXCEPT ![p] = B] /\ lck' = [lck EXCEPT ![p] = L]
      /\ pre' = [pre EXCEPT ![p] = {}] /\ main' = [main EXCEPT ![p] = Idle]
      /\ ast' = [ast EXCEPT ![p] = <<>>] /\ posted' = [posted EXCEPT ![p] = {}]
      /\ tra' = [tra EXCEPT ![p] = NewTra] /\ UNCHANGED <<disk, committed, lost, clock>>
  BY DEF Gone
<1>2. /\ B \in [Pages -> Buffer] /\ L \in [Pages -> Levels]
      /\ \A h \in Pages : B[h].use = 0 /\ B[h].img = Blank /\ B[h].flags = {} /\ L[h] = LCK_none
  <2>1. NewBuffer \in Buffer /\ NewBuffer.use = 0 /\ NewBuffer.img = Blank /\ NewBuffer.flags = {}
    BY DEF NewBuffer, Buffer, Blank, Image
  <2>2. LCK_none \in Levels
    BY DEF Levels, LCK_none, LCK_write
  <2> QED BY <2>1, <2>2
<1> HIDE DEF B, L
<1>3. Idle \in MainLine /\ Idle.number = 0 /\ <<>> \in Seq(Frame)
  BY EmptySeq, ConstantAssumption DEF Idle, MainLine, Levels, LCK_none, LCK_write
<1>4. NewTra \in [made : SUBSET Updates, invalidated : BOOLEAN] /\ NewTra.made = {}
  BY DEF NewTra
<1>5. /\ TypeOK' /\ Alone(p) /\ bdb'[p] = B /\ lck'[p] = L /\ pre'[p] = {}
      /\ main'[p] = Idle /\ ast'[p] = <<>> /\ tra'[p] = NewTra
  <2>1. posted' \in [Procs -> SUBSET Pages]
    BY <1>1, Parts DEF TypeOK
  <2>2. Moves(p, B, L, {}, Idle, <<>>, NewTra)
    BY <1>1, <1>2, <1>3, <1>4, <2>1, Parts, Unmoved DEF Moves
  <2> QED BY <2>2, Parts, Moved
<1>6. \A h \in Pages : ~Dirty(p, h)' /\ bdb'[p][h].img = Blank /\ lck'[p][h] = LCK_none
  BY <1>2, <1>5 DEF Dirty, Has
<1>7. Caching'
  <2>1. \A h \in Pages : lck'[p][h] \in Levels /\ lck'[p][h] <= lck[p][h]
    BY <1>6, Parts DEF Levels, LCK_none, LCK_write
  <2>2. LocksFit'
    BY <1>5, <2>1, Parts, LoweredKeep DEF Caching
  <2>3. ImagesFit'
    <3> SUFFICES ASSUME NEW q \in Procs, NEW h \in Pages
                 PROVE  IF Dirty(q, h)'
                        THEN lck'[q][h] = LCK_write /\ disk'[h].has \subseteq bdb'[q][h].img.has
                        ELSE bdb'[q][h].img = IF lck'[q][h] = LCK_none THEN Blank ELSE disk'[h]
      BY DEF ImagesFit
    <3>1. CASE q = p
      BY <1>6, <3>1
    <3>2. CASE q # p
      <4>1. bdb'[q] = bdb[q] /\ lck'[q] = lck[q] /\ disk' = disk
        BY <1>1, <1>5, <3>2 DEF Alone
      <4>2. Dirty(q, h)' <=> Dirty(q, h)
        BY <4>1 DEF Dirty, Has
      <4> QED BY <4>1, <4>2, Parts DEF Caching, ImagesFit
    <3> QED BY <3>1, <3>2
  <2> QED BY <2>2, <2>3 DEF Caching
<1>8. History'
  <2>1. Quiet(p)
    BY <1>1, <1>3, <1>4, <1>5, <1>6 DEF Quiet
  <2> QED BY <1>7, <2>1, Parts, QuietKeeps
<1>9. NoCycle'
  BY <1>5, Parts, FewerKeepNoCycle
<1>10. LatchesOf(p)'
  <2>1. \A h \in Pages : Line(p, h)' = 0
    BY <1>5, ConstantAssumption DEF Line, One, Taking, Idle
  <2> QED BY <1>2, <1>5, <2>1, RunningLatchesKept
<1>11. MainOf(p)'
  <2>1. Len(<<>>) = 0
    BY EmptySeq
  <2> QED BY <1>5, <2>1 DEF MainOf, Idle
<1>12. CleanOf(p)' /\ WindowOf(p)'
  BY <1>5 DEF CleanOf, WindowOf, InWindow, Idle
<1> QED BY <1>5, <1>7, <1>8, <1>9, <1>10, <1>11, <1>12, Gather

LEMMA FailsKeeps ==
  ASSUME IInv, NEW p \in Procs, WriteFails(p)
  PROVE  IInv'
BY GoneKeeps, UnwindKeeps DEF WriteFails, MayWrite, Runs

\* What a transaction commits is in the file, for no page is left to flush.
LEMMA CommittedKeeps ==
  ASSUME IInv, NEW p \in Procs, Committed(p)
  PROVE  IInv'
<1>1. /\ ToFlush(p) = {} /\ committed' = committed \cup tra[p].made
      /\ tra' = [tra EXCEPT ![p] = NewTra] /\ main' = [main EXCEPT ![p] = Idle]
      /\ UNCHANGED <<disk, lck, bdb, pre, ast, posted, lost, clock>>
      /\ ast[p] = <<>>
  BY DEF Committed, Runs
<1>2. Idle \in MainLine /\ Idle.number = 0
  BY EmptySeq, ConstantAssumption DEF Idle, MainLine, Levels, LCK_none, LCK_write
<1>3. NewTra \in [made : SUBSET Updates, invalidated : BOOLEAN] /\ NewTra.made = {}
  BY DEF NewTra
<1>4. /\ TypeOK' /\ Alone(p) /\ main'[p] = Idle /\ pre'[p] = pre[p] /\ tra'[p] = NewTra
  <2>1. committed' \subseteq Updates
    BY <1>1, Parts DEF TypeOK
  <2>2. Moves(p, bdb[p], lck[p], pre[p], Idle, ast[p], NewTra)
    BY <1>1, <1>2, <1>3, <2>1, Parts, Unmoved DEF Moves
  <2> QED BY <2>2, Parts, Moved
<1>5. Caching'
  BY <1>1, Parts DEF Caching, LocksFit, ImagesFit, Dirty, Has
<1>6. History'
  <2>1. \A q \in Procs : /\ main'[q].number \in {0, main[q].number}
                         /\ tra'[q].made \subseteq tra[q].made
                         /\ tra'[q] = tra[q] \/ tra'[q].made = {}
    BY <1>2, <1>3, <1>4 DEF Alone
  <2>2. \A q \in Procs, g \in Pages : /\ (Dirty(q, g)' <=> Dirty(q, g))
                                      /\ Has(q, g, "changed")' <=> Has(q, g, "changed")
    BY <1>1 DEF Dirty, Has
  <2>3. NumbersFit'
    <3>1. \A u : Unseen(u) => Unseen(u)'
      BY <1>1, <2>1 DEF Unseen
    <3>2. committed' \subseteq Past' /\ lost' \subseteq Past'
      BY <1>1, Parts DEF History, NumbersFit, Past
    <3>3. Past' = Past
      BY <1>1 DEF Past
    <3> QED BY <1>1, <2>1, <3>1, <3>2, <3>3, Parts DEF History, NumbersFit
  <2>4. UpdatesFit'
    BY <1>1, <2>1, <2>2, Parts DEF History, UpdatesFit
  <2>5. CommittedInFile'
    <3>1. \A g \in Pages : ~(Dirty(p, g) /\ Has(p, g, "changed"))
      BY <1>1 DEF ToFlush
    <3>2. \A u \in tra[p].made \ lost : \E g \in Pages : u \in disk[g].has
      BY <3>1, Parts DEF History, UpdatesFit
    <3> QED BY <1>1, <3>2, Parts DEF History, CommittedInFile, Durable
  <2>6. LossNoticed'
    BY <1>1, <2>1, Parts DEF History, LossNoticed
  <2> QED BY <2>3, <2>4, <2>5, <2>6 DEF History
<1>7. NoCycle'
  BY <1>4, Parts, FewerKeepNoCycle
<1>8. LatchesOf(p)'
  <2>1. \A h \in Pages : Line(p, h)' = 0
    BY <1>4, ConstantAssumption DEF Line, One, Taking, Idle
  <2>2. \A h \in Pages : bdb[p][h].use = 0
    BY IdleLatches DEF Committed
  <2> QED BY <1>1, <2>1, <2>2, RunningLatchesKept
<1>9. MainOf(p)'
  <2>1. Len(<<>>) = 0
    BY EmptySeq
  <2> QED BY <1>4, <2>1 DEF MainOf, Idle
<1>10. CleanOf(p)' /\ WindowOf(p)'
  BY <1>4 DEF CleanOf, WindowOf, InWindow, Idle
<1> QED BY <1>4, <1>5, <1>6, <1>7, <1>8, <1>9, <1>10, Gather

-----------------------------------------------------------------------------
(* The calls of down_grade.                                                *)

LEMMA CallsPopped ==
  ASSUME NEW s \in Seq(Frame), s # <<>>, Apart(s)
  PROVE  /\ Head(s) \in Frame /\ Tail(s) \in Seq(Frame) /\ Apart(Tail(s))
         /\ Head(s).page \in PagesOf(s) /\ Head(s).page \in Pages
         /\ PagesOf(Tail(s)) = PagesOf(s) \ {Head(s).page}
<1> DEFINE t == Tail(s)
<1>1. /\ Head(s) \in Frame /\ t \in Seq(Frame) /\ Len(t) = Len(s) - 1 /\ Head(s) = s[1]
      /\ \A i \in 1..Len(t) : t[i] = s[i + 1]
  BY Popped
<1>2. /\ Len(s) \in Nat \ {0} /\ DOMAIN s = 1..Len(s) /\ DOMAIN t = 1..Len(t)
  BY <1>1, EmptySeq, LenProperties
<1> HIDE DEF t
<1>3. \A i \in 1..Len(t) : i + 1 \in 1..Len(s) /\ i + 1 # 1
  BY <1>1, <1>2
<1>4. \A i \in 1..Len(s) : i # 1 => i - 1 \in 1..Len(t) /\ (i - 1) + 1 = i
  BY <1>1, <1>2
<1>5. Apart(t)
  <2> SUFFICES ASSUME NEW i \in 1..Len(t), NEW j \in 1..Len(t), t[i].page = t[j].page
               PROVE  i = j
    BY <1>2 DEF Apart
  <2>1. i + 1 \in DOMAIN s /\ j + 1 \in DOMAIN s /\ t[i] = s[i + 1] /\ t[j] = s[j + 1]
    BY <1>1, <1>2, <1>3
  <2>2. i + 1 = j + 1
    BY <2>1 DEF Apart
  <2> QED BY <2>2
<1>6. Head(s).page \in PagesOf(s) /\ Head(s).page \in Pages
  <2>1. 1 \in 1..Len(s)
    BY <1>2
  <2> QED BY <1>1, <1>2, <2>1 DEF PagesOf, Frame
<1>7. PagesOf(t) = PagesOf(s) \ {Head(s).page}
  <2>1. ASSUME NEW i \in 1..Len(t)
        PROVE  t[i].page \in PagesOf(s) \ {Head(s).page}
    <3>1. i + 1 \in DOMAIN s /\ 1 \in DOMAIN s /\ i + 1 # 1 /\ t[i] = s[i + 1]
      BY <1>1, <1>2, <1>3
    <3> QED BY <1>1, <3>1 DEF Apart, PagesOf
  <2>2. ASSUME NEW i \in 1..Len(s), s[i].page # Head(s).page
        PROVE  s[i].page \in PagesOf(t)
    <3>1. i # 1
      BY <1>1, <2>2
    <3>2. i - 1 \in DOMAIN t /\ t[i - 1] = s[i]
      <4>1. i - 1 \in 1..Len(t) /\ (i - 1) + 1 = i
        BY <1>4, <3>1
      <4>2. t[i - 1] = s[(i - 1) + 1]
        BY <1>1, <4>1
      <4> QED BY <1>2, <4>1, <4>2
    <3> QED BY <3>2 DEF PagesOf
  <2> QED BY <1>2, <2>1, <2>2 DEF PagesOf
<1> QED BY <1>1, <1>5, <1>6, <1>7 DEF t

LEMMA CallsPushed ==
  ASSUME NEW t \in Seq(Frame), Apart(t), NEW f \in Frame, f.page \notin PagesOf(t)
  PROVE  /\ <<f>> \o t \in Seq(Frame) /\ Apart(<<f>> \o t)
         /\ PagesOf(<<f>> \o t) = PagesOf(t) \cup {f.page}
<1> DEFINE c == <<f>> \o t
<1>1. <<f>> \in Seq(Frame) /\ Len(<<f>>) = 1 /\ <<f>>[1] = f
  OBVIOUS
<1>2. /\ c \in Seq(Frame) /\ Len(c) = Len(<<f>>) + Len(t)
      /\ \A i \in 1..Len(<<f>>) + Len(t) :
           c[i] = IF i <= Len(<<f>>) THEN <<f>>[i] ELSE t[i - Len(<<f>>)]
  BY <1>1, ConcatProperties
<1>3. Len(t) \in Nat /\ DOMAIN t = 1..Len(t) /\ DOMAIN c = 1..Len(c)
  BY <1>2, LenProperties
<1>4. Len(c) = Len(t) + 1 /\ c[1] = f /\ \A i \in 1..Len(t) : c[i + 1] = t[i]
  BY <1>1, <1>2, <1>3
<1> HIDE DEF c
<1>5. \A i \in 1..Len(c) : i = 1 \/ (i - 1 \in 1..Len(t) /\ (i - 1) + 1 = i)
  BY <1>3, <1>4
<1>6. \A i \in 1..Len(t) : i + 1 \in 1..Len(c)
  BY <1>3, <1>4
<1>7. \A i \in 1..Len(c) : i # 1 => c[i] = t[i - 1] /\ i - 1 \in DOMAIN t
  <2> SUFFICES ASSUME NEW i \in 1..Len(c), i # 1
               PROVE  c[i] = t[i - 1] /\ i - 1 \in DOMAIN t
    OBVIOUS
  <2>1. i - 1 \in 1..Len(t) /\ (i - 1) + 1 = i
    BY <1>5
  <2>2. c[(i - 1) + 1] = t[i - 1]
    BY <1>4, <2>1
  <2> QED BY <1>3, <2>1, <2>2
<1>8. Apart(c)
  <2> SUFFICES ASSUME NEW i \in 1..Len(c), NEW j \in 1..Len(c), c[i].page = c[j].page
               PROVE  i = j
    BY <1>3 DEF Apart
  <2>1. \A k \in DOMAIN t : t[k].page # f.page
    BY DEF PagesOf
  <2>2. CASE i = 1
    BY <1>4, <1>7, <2>1, <2>2
  <2>3. CASE j = 1
    BY <1>4, <1>7, <2>1, <2>3
  <2>4. CASE i # 1 /\ j # 1
    <3>1. i - 1 = j - 1
      BY <1>7, <2>4 DEF Apart
    <3> QED BY <3>1
  <2> QED BY <2>2, <2>3, <2>4
<1>9. PagesOf(c) = PagesOf(t) \cup {f.page}
  <2>1. ASSUME NEW i \in 1..Len(c)
        PROVE  c[i].page \in PagesOf(t) \cup {f.page}
    BY <1>4, <1>7 DEF PagesOf
  <2>2. 1 \in DOMAIN c /\ \A i \in DOMAIN t : i + 1 \in DOMAIN c
    BY <1>3, <1>4, <1>6
  <2>3. f.page \in PagesOf(c)
    BY <1>4, <2>2 DEF PagesOf
  <2>4. ASSUME NEW i \in DOMAIN t
        PROVE  t[i].page \in PagesOf(c)
    BY <1>3, <1>4, <2>2 DEF PagesOf
  <2> QED BY <1>3, <2>1, <2>3, <2>4 DEF PagesOf
<1> QED BY <1>2, <1>8, <1>9 DEF c

\* The innermost call goes on with a frame for the same page.
LEMMA CallsReplaced ==
  ASSUME NEW s \in Seq(Frame), s # <<>>, Apart(s), NEW f \in Frame, f.page = Head(s).page
  PROVE  /\ <<f>> \o Tail(s) \in Seq(Frame) /\ Apart(<<f>> \o Tail(s))
         /\ PagesOf(<<f>> \o Tail(s)) = PagesOf(s)
<1>1. /\ Tail(s) \in Seq(Frame) /\ Apart(Tail(s)) /\ Head(s).page \in PagesOf(s)
      /\ PagesOf(Tail(s)) = PagesOf(s) \ {Head(s).page}
  BY CallsPopped
<1>2. f.page \notin PagesOf(Tail(s))
  BY <1>1
<1> HIDE DEF PagesOf, Apart
<1>3. /\ <<f>> \o Tail(s) \in Seq(Frame) /\ Apart(<<f>> \o Tail(s))
      /\ PagesOf(<<f>> \o Tail(s)) = PagesOf(Tail(s)) \cup {f.page}
  BY <1>1, <1>2, CallsPushed
<1> QED BY <1>1, <1>3

\* An AST step of p: its calls become c, its buffers B, its locks L, its precedence E and
\* its transaction t. Latches come and go with the calls; flags for the main line stay.
Calls(p, B, L, E, c, t) ==
  /\ Moves(p, B, L, E, main[p], c, t) /\ Apart(c)
  /\ \A h \in Pages :
       /\ B[h].use = bdb[p][h].use - One(h \in PagesOf(ast[p])) + One(h \in PagesOf(c))
       /\ h \in PagesOf(c) => h \in PagesOf(ast[p]) \/ bdb[p][h].use = 0
       /\ "writer" \in B[h].flags <=> Has(p, h, "writer")
       /\ "faked" \in B[h].flags <=> Has(p, h, "faked")
       /\ "dirty" \in B[h].flags => Dirty(p, h)
       /\ L[h] # lck[p][h] => bdb[p][h].use = 0 \/ h \in PagesOf(ast[p])
  /\ \A e \in E : (~e.cleared => e \in pre[p]) /\ \E d \in pre[p] : d.hi = e.hi

LEMMA CallStep ==
  ASSUME IInv, NEW p \in Procs, NEW B, NEW L, NEW E, NEW c, NEW t, Calls(p, B, L, E, c, t)
  PROVE  /\ TypeOK' /\ Alone(p) /\ NoCycle'
         /\ LatchesOf(p)' /\ MainOf(p)' /\ CleanOf(p)' /\ WindowOf(p)'
         /\ bdb'[p] = B /\ lck'[p] = L /\ main'[p] = main[p] /\ tra'[p] = t
<1>1. /\ TypeOK' /\ Alone(p) /\ bdb'[p] = B /\ lck'[p] = L /\ pre'[p] = E /\ main'[p] = main[p]
      /\ ast'[p] = c /\ tra'[p] = t
  BY Parts, Moved DEF Calls
<1>2. NoCycle'
  BY <1>1, Parts, FewerKeepNoCycle DEF Calls
<1>3. \A h \in Pages : Line(p, h)' = Line(p, h)
  BY <1>1 DEF Line, Taking, Top
<1>4. LatchesOf(p)'
  <2>1. \A h \in Pages : Line(p, h) \in Nat /\ bdb[p][h].use \in 0..2
    BY Parts DEF Line, One, Buffer
  <2>2. ASSUME NEW h \in Pages
        PROVE  /\ bdb'[p][h].use = Line(p, h)' + One(h \in PagesOf(ast'[p]))
               /\ h \in PagesOf(ast'[p]) => Line(p, h)' = 0
    <3>1. bdb[p][h].use = Line(p, h) + One(h \in PagesOf(ast[p]))
          /\ (h \in PagesOf(ast[p]) => Line(p, h) = 0)
      BY Parts DEF LatchesOf
    <3>2. B[h].use = bdb[p][h].use - One(h \in PagesOf(ast[p])) + One(h \in PagesOf(c))
          /\ (h \in PagesOf(c) => h \in PagesOf(ast[p]) \/ bdb[p][h].use = 0)
      BY DEF Calls
    <3>3. One(h \in PagesOf(c)) \in {0, 1} /\ One(h \in PagesOf(ast[p])) \in {0, 1}
      BY DEF One
    <3>4. /\ bdb'[p][h].use = B[h].use /\ Line(p, h)' = Line(p, h) /\ PagesOf(ast'[p]) = PagesOf(c)
      BY <1>1, <1>3
    <3>5. h \in PagesOf(c) => Line(p, h) = 0
      BY <2>1, <3>1, <3>2, <3>3
    <3>6. B[h].use = Line(p, h) + One(h \in PagesOf(c))
      BY <2>1, <3>1, <3>2, <3>3
    <3> QED BY <3>4, <3>5, <3>6
  <2> QED BY <1>1, <2>2 DEF LatchesOf, Calls
<1>5. MainOf(p)'
  BY <1>1, Parts DEF MainOf
<1>6. \A h \in Pages : /\ Has(p, h, "writer")' <=> Has(p, h, "writer")
                       /\ Has(p, h, "faked")' <=> Has(p, h, "faked")
                       /\ Dirty(p, h)' => Dirty(p, h)
                       /\ Below(p, h) = {} => Below(p, h)' = {}
  BY <1>1 DEF Calls, Has, Dirty, Below
<1>7. main[p].page # NoPage => main[p].page \in Pages
  BY Parts DEF MainLine
<1>8. CleanOf(p)'
  <2>1. main[p].pc \in {"lock", "waiting", "insert", "fake"} => main[p].page \in Pages
    BY <1>7, Parts DEF MainOf
  <2>2. main[p].pc = "reuse" => main[p].hi \in Pages
    BY Parts DEF MainOf, MainLine
  <2> QED BY <1>1, <1>6, <2>1, <2>2, Parts DEF CleanOf
<1>9. WindowOf(p)'
  <2>1. \A h \in Pages : main[p].page = h => lck'[p][h] = lck[p][h]
    BY <1>1, Parts, LatchBounds DEF Calls
  <2>2. InWindow(p)' <=> InWindow(p)
    BY <1>1 DEF InWindow
  <2>3. InWindow(p) => main[p].page \in Pages
    BY <1>7 DEF InWindow
  <2>4. main[p].pc = "waiting" => main[p].page \in Pages
    BY <1>7, Parts DEF MainOf
  <2> QED BY <1>1, <1>6, <2>1, <2>2, <2>3, <2>4, Parts DEF WindowOf
<1> QED BY <1>1, <1>2, <1>4, <1>5, <1>8, <1>9

-----------------------------------------------------------------------------
(* The blocking AST.                                                       *)

LEMMA DowngradedLower ==
  ASSUME TypeOK, NEW p \in Procs, NEW g \in Pages
  PROVE  Downgraded(p, g) \in Levels /\ Downgraded(p, g) <= lck[p][g]
<1>1. lck[p][g] \in Levels
  BY DEF TypeOK
<1> QED BY <1>1 DEF Downgraded, Levels, LCK_none, LCK_read, LCK_write

\* Flags that decide about images and latches are as they were.
Resembles(b, c) ==
  b.img = c.img /\ b.flags \ {"not_valid", "blocking"} = c.flags \ {"not_valid", "blocking"}

\* down_grade is called for page g, in a step of p that makes its precedence E.
Downs(p, g, B, outer, E) ==
  /\ down_grade(p, g, B, outer)
  /\ B \in [Pages -> Buffer] /\ \A h \in Pages : Resembles(B[h], bdb[p][h]) /\ B[h].use = bdb[p][h].use
  /\ outer \in Seq(Frame) /\ Apart(outer) /\ PagesOf(outer) = PagesOf(ast[p])
  /\ E \in SUBSET Precedence /\ pre' = [pre EXCEPT ![p] = E]
  /\ \A e \in E : (~e.cleared => e \in pre[p]) /\ \E d \in pre[p] : d.hi = e.hi
  /\ posted' \in [Procs -> SUBSET Pages]
  /\ UNCHANGED <<disk, main, tra, committed, lost, clock>>

\* An AST step that changes no image and no lock.
LEMMA CallsOnly ==
  ASSUME IInv, NEW p \in Procs, NEW B, NEW E, NEW c, Calls(p, B, lck[p], E, c, tra[p]),
         UNCHANGED <<disk, committed, lost, clock>>,
         \A h \in Pages : Resembles(B[h], bdb[p][h])
  PROVE  IInv'
<1>1. /\ TypeOK' /\ Alone(p) /\ NoCycle'
      /\ LatchesOf(p)' /\ MainOf(p)' /\ CleanOf(p)' /\ WindowOf(p)'
      /\ bdb'[p] = B /\ main'[p] = main[p]
  BY CallStep
<1>2. lck' = lck /\ tra' = tra
  BY Parts, Unmoved DEF Calls, Moves
<1>3. \A h \in Pages : /\ bdb'[p][h].img = bdb[p][h].img /\ (Dirty(p, h)' <=> Dirty(p, h))
                       /\ Has(p, h, "changed")' <=> Has(p, h, "changed")
  BY <1>1 DEF Resembles, Dirty, Has
<1>4. Still(p)
  BY <1>1, <1>2, <1>3 DEF Still, SameImages
<1> QED BY <1>1, <1>4, Parts, StillKeeps, Gather

LEMMA DownKeeps ==
  ASSUME IInv, NEW p \in Procs, NEW g \in Pages, NEW B, NEW outer, NEW E,
         Downs(p, g, B, outer, E)
  PROVE  IInv'
<1>1. /\ B \in [Pages -> Buffer] /\ B[g] \in Buffer
      /\ \A h \in Pages :
           /\ B[h].use = bdb[p][h].use /\ Resembles(B[h], bdb[p][h])
           /\ "writer" \in B[h].flags <=> Has(p, h, "writer")
           /\ "faked" \in B[h].flags <=> Has(p, h, "faked")
           /\ "dirty" \in B[h].flags <=> Dirty(p, h)
           /\ "changed" \in B[h].flags <=> Has(p, h, "changed")
  BY DEF Downs, Resembles, Has, Dirty
<1>2. /\ E \in SUBSET Precedence /\ pre' = [pre EXCEPT ![p] = E]
      /\ \A e \in E : (~e.cleared => e \in pre[p]) /\ \E d \in pre[p] : d.hi = e.hi
      /\ outer \in Seq(Frame) /\ Apart(outer) /\ PagesOf(outer) = PagesOf(ast[p])
      /\ posted' \in [Procs -> SUBSET Pages]
      /\ disk' = disk /\ main' = main /\ tra' = tra /\ committed' = committed /\ lost' = lost
      /\ clock' = clock
  BY DEF Downs
<1>3. \A h \in Pages : bdb[p][h].use \in 0..2 /\ One(h \in PagesOf(ast[p])) \in {0, 1}
  BY Parts DEF Buffer, One
<1>4. ASSUME bdb' = [bdb EXCEPT ![p] = [B EXCEPT ![g] = With(@, {"blocking"})]],
             ast' = [ast EXCEPT ![p] = outer], UNCHANGED lck
      PROVE  IInv'
  <2> DEFINE b == With(B[g], {"blocking"})
             D == [B EXCEPT ![g] = b]
  <2>1. /\ b \in Buffer /\ b.use = B[g].use /\ b.img = B[g].img
        /\ b.flags = B[g].flags \cup {"blocking"}
    BY <1>1, BufferOps DEF Flags
  <2>2. /\ D \in [Pages -> Buffer] /\ \A h \in Pages : D[h] = IF h = g THEN b ELSE B[h]
    BY <1>1, <2>1
  <2>3. bdb' = [bdb EXCEPT ![p] = D]
    BY <1>4
  <2> HIDE DEF b, D
  <2>4. Moves(p, D, lck[p], E, main[p], outer, tra[p])
    BY <1>2, <1>4, <2>2, <2>3, Parts, Unmoved DEF Moves
  <2>5. \A h \in Pages :
          /\ D[h].use = bdb[p][h].use /\ Resembles(D[h], bdb[p][h])
          /\ "writer" \in D[h].flags <=> Has(p, h, "writer")
          /\ "faked" \in D[h].flags <=> Has(p, h, "faked")
          /\ "dirty" \in D[h].flags <=> Dirty(p, h)
    BY <1>1, <2>1, <2>2 DEF Resembles
  <2>6. Calls(p, D, lck[p], E, outer, tra[p])
    BY <1>2, <1>3, <2>4, <2>5 DEF Calls
  <2> QED BY <1>2, <2>5, <2>6, CallsOnly
<1>5. ASSUME B[g].use = 0, "dirty" \notin B[g].flags,
             lck' = [lck EXCEPT ![p][g] = Downgraded(p, g)],
             bdb' = [bdb EXCEPT ![p] =
                       [B EXCEPT ![g] = Kept(Without(@, {"blocking"}), Downgraded(p, g))]],
             ast' = [ast EXCEPT ![p] = outer]
      PROVE  IInv'
  <2>0. PICK level \in Levels : level = Downgraded(p, g) /\ level <= lck[p][g]
    BY Parts, DowngradedLower
  <2> DEFINE c == Without(B[g], {"blocking"})
             b == Kept(c, level)
             D == [B EXCEPT ![g] = b]
             L == [lck[p] EXCEPT ![g] = level]
  <2>1. /\ b \in Buffer /\ b.use = 0 /\ b.flags = B[g].flags \ {"blocking"}
        /\ b.img = IF level = LCK_none THEN Blank ELSE bdb[p][g].img
    <3>1. c \in Buffer /\ c.use = 0 /\ c.img = bdb[p][g].img /\ c.flags = B[g].flags \ {"blocking"}
      BY <1>1, <1>5, BufferOps DEF Flags, Resembles
    <3>2. Blank \in Image
      BY DEF Blank, Image
    <3> HIDE DEF c
    <3> QED BY <3>1, <3>2 DEF Kept, Buffer
  <2>2. /\ D \in [Pages -> Buffer] /\ \A h \in Pages : D[h] = IF h = g THEN b ELSE B[h]
        /\ L \in [Pages -> Levels] /\ \A h \in Pages : L[h] = IF h = g THEN level ELSE lck[p][h]
    BY <1>1, <2>1, Parts
  <2>3. bdb' = [bdb EXCEPT ![p] = D] /\ lck' = [lck EXCEPT ![p] = L]
    BY <1>5, <2>0, Parts DEF TypeOK
  <2> HIDE DEF b, D, L, c
  <2>4. Moves(p, D, L, E, main[p], outer, tra[p])
    BY <1>2, <1>5, <2>2, <2>3, Parts, Unmoved DEF Moves
  <2>5. \A h \in Pages :
          /\ D[h].use = bdb[p][h].use
          /\ "writer" \in D[h].flags <=> Has(p, h, "writer")
          /\ "faked" \in D[h].flags <=> Has(p, h, "faked")
          /\ "dirty" \in D[h].flags <=> Dirty(p, h)
          /\ "changed" \in D[h].flags <=> Has(p, h, "changed")
          /\ L[h] # lck[p][h] => bdb[p][h].use = 0
    BY <1>1, <1>5, <2>1, <2>2
  <2>6. Calls(p, D, L, E, outer, tra[p])
    BY <1>2, <1>3, <2>4, <2>5 DEF Calls
  <2>7. /\ TypeOK' /\ Alone(p) /\ NoCycle'
        /\ LatchesOf(p)' /\ MainOf(p)' /\ CleanOf(p)' /\ WindowOf(p)'
        /\ bdb'[p] = D /\ lck'[p] = L /\ main'[p] = main[p] /\ tra'[p] = tra[p]
    BY <2>6, CallStep
  <2>8. /\ \A h \in Pages : /\ (Dirty(p, h)' <=> Dirty(p, h))
                            /\ (Has(p, h, "changed")' <=> Has(p, h, "changed"))
        /\ \A h \in Pages \ {g} : bdb'[p][h].img = bdb[p][h].img /\ lck'[p][h] = lck[p][h]
        /\ ~Dirty(p, g)
        /\ bdb'[p][g].img = IF level = LCK_none THEN Blank ELSE bdb[p][g].img
        /\ lck'[p][g] = level
    BY <1>1, <1>5, <2>1, <2>2, <2>5, <2>7 DEF Resembles, Dirty, Has
  <2>9. Caching'
    <3>1. \A h \in Pages : lck'[p][h] \in Levels /\ lck'[p][h] <= lck[p][h]
      BY <2>0, <2>8, Parts DEF Levels, LCK_none, LCK_write
    <3>2. LocksFit'
      BY <2>7, <3>1, Parts, LoweredKeep DEF Caching
    <3>3. level # LCK_none => bdb[p][g].img = disk[g]
      BY <2>0, <2>8, Parts DEF Caching, ImagesFit, Levels, LCK_none, LCK_write
    <3> QED BY <1>2, <2>7, <2>8, <3>2, <3>3, Parts, ImagesKept
  <2>10. History'
    <3>1. Quiet(p)
      BY <1>2, <2>7, <2>8 DEF Quiet
    <3> QED BY <2>9, <3>1, Parts, QuietKeeps
  <2> QED BY <2>7, <2>9, <2>10, Gather
<1>6. ASSUME NEW f, B[g].use = 0,
             f = [page |-> g, at |-> "higher", todo |-> {e.hi : e \in Above(p, g)},
                  cur |-> NoPage, in_use |-> FALSE, invalid |-> "not_valid" \in B[g].flags],
             bdb' = [bdb EXCEPT ![p] = [B EXCEPT ![g] = With(Latched(@), {"blocking"})]],
             ast' = [ast EXCEPT ![p] = <<f>> \o outer], UNCHANGED lck
      PROVE  IInv'
  <2> DEFINE b == With(Latched(B[g]), {"blocking"})
             D == [B EXCEPT ![g] = b]
             c == <<f>> \o outer
  <2>1. /\ b \in Buffer /\ b.use = 1 /\ b.img = B[g].img
        /\ b.flags = B[g].flags \cup {"blocking"}
    <3>1. Latched(B[g]) \in Buffer /\ Latched(B[g]).use = 1 /\ Latched(B[g]).img = B[g].img
          /\ Latched(B[g]).flags = B[g].flags
      BY <1>1, <1>6, LatchOps
    <3> QED BY <3>1, BufferOps DEF Flags
  <2>2. /\ D \in [Pages -> Buffer] /\ \A h \in Pages : D[h] = IF h = g THEN b ELSE B[h]
    BY <1>1, <2>1
  <2>3. bdb' = [bdb EXCEPT ![p] = D]
    BY <1>6
  <2>4. f \in Frame /\ f.page = g
    <3>1. {e.hi : e \in Above(p, g)} \in SUBSET Pages
      BY Parts DEF Above, Precedence
    <3> QED BY <1>6, <3>1 DEF Frame
  <2>5. bdb[p][g].use = 0 /\ g \notin PagesOf(ast[p])
    BY <1>1, <1>6, Parts, LatchBounds
  <2>6. c \in Seq(Frame) /\ Apart(c) /\ PagesOf(c) = PagesOf(ast[p]) \cup {g}
    BY <1>2, <2>4, <2>5, CallsPushed
  <2>7. ast' = [ast EXCEPT ![p] = c]
    BY <1>6
  <2> HIDE DEF b, D, c
  <2>8. Moves(p, D, lck[p], E, main[p], c, tra[p])
    BY <1>2, <1>6, <2>2, <2>3, <2>6, <2>7, Parts, Unmoved DEF Moves
  <2>9. \A h \in Pages :
          /\ D[h].use = bdb[p][h].use - One(h \in PagesOf(ast[p])) + One(h \in PagesOf(c))
          /\ h \in PagesOf(c) => h \in PagesOf(ast[p]) \/ bdb[p][h].use = 0
    <3>1. \A h \in Pages \ {g} : h \in PagesOf(c) <=> h \in PagesOf(ast[p])
      BY <2>6
    <3>2. One(g \in PagesOf(ast[p])) = 0 /\ One(g \in PagesOf(c)) = 1
      BY <2>5, <2>6 DEF One
    <3>3. \A h \in Pages \ {g} : One(h \in PagesOf(ast[p])) = One(h \in PagesOf(c))
      BY <3>1 DEF One
    <3> QED BY <1>1, <1>3, <2>1, <2>2, <2>5, <3>1, <3>2, <3>3
  <2>10. \A h \in Pages :
          /\ Resembles(D[h], bdb[p][h])
          /\ "writer" \in D[h].flags <=> Has(p, h, "writer")
          /\ "faked" \in D[h].flags <=> Has(p, h, "faked")
          /\ "dirty" \in D[h].flags <=> Dirty(p, h)
    BY <1>1, <2>1, <2>2 DEF Resembles
  <2>11. Calls(p, D, lck[p], E, c, tra[p])
    BY <1>2, <2>6, <2>8, <2>9, <2>10 DEF Calls
  <2> QED BY <1>2, <2>10, <2>11, CallsOnly
<1> QED BY <1>4, <1>5, <1>6 DEF Downs, down_grade

LEMMA BlockingKeeps ==
  ASSUME IInv, NEW p \in Procs, NEW g \in Pages, blocking_ast_bdb(p, g)
  PROVE  IInv'
<1>1. /\ <<>> \in Seq(Frame) /\ Apart(<<>>) /\ PagesOf(<<>>) = {} /\ ast[p] = <<>>
  BY EmptySeq DEF Apart, PagesOf, blocking_ast_bdb
<1>2. posted' \in [Procs -> SUBSET Pages]
  BY Parts DEF blocking_ast_bdb, TypeOK
<1>3. \A h \in Pages : Resembles(bdb[p][h], bdb[p][h])
  BY DEF Resembles
<1>4. Downs(p, g, bdb[p], <<>>, pre[p])
  BY <1>1, <1>2, <1>3, Parts, Unmoved DEF Downs, blocking_ast_bdb
<1> QED BY <1>4, DownKeeps

\* The innermost call.
LEMMA CallOf ==
  ASSUME IInv, NEW p \in Procs, ast[p] # <<>>
  PROVE  /\ Call(p) \in Frame /\ Call(p).page \in Pages /\ Apart(ast[p])
         /\ bdb[p][Call(p).page].use = 1 /\ Call(p).page \in PagesOf(ast[p])
         /\ bdb[p][Call(p).page] \in Buffer
         /\ Tail(ast[p]) \in Seq(Frame) /\ Apart(Tail(ast[p]))
         /\ PagesOf(Tail(ast[p])) = PagesOf(ast[p]) \ {Call(p).page}
         /\ \A f \in Frame : f.page = Call(p).page =>
              /\ <<f>> \o Tail(ast[p]) \in Seq(Frame) /\ Apart(<<f>> \o Tail(ast[p]))
              /\ PagesOf(<<f>> \o Tail(ast[p])) = PagesOf(ast[p])
<1>1. ast[p] \in Seq(Frame) /\ Apart(ast[p])
  BY Parts DEF LatchesOf
<1>2. /\ Call(p) \in Frame /\ Call(p).page \in Pages /\ Call(p).page \in PagesOf(ast[p])
      /\ Tail(ast[p]) \in Seq(Frame) /\ Apart(Tail(ast[p]))
      /\ PagesOf(Tail(ast[p])) = PagesOf(ast[p]) \ {Call(p).page}
  BY <1>1, CallsPopped DEF Call
<1>3. bdb[p][Call(p).page].use = 1 /\ bdb[p][Call(p).page] \in Buffer
  BY <1>2, Parts, LatchBounds
<1>4. \A f \in Frame : f.page = Call(p).page =>
        /\ <<f>> \o Tail(ast[p]) \in Seq(Frame) /\ Apart(<<f>> \o Tail(ast[p]))
        /\ PagesOf(<<f>> \o Tail(ast[p])) = PagesOf(ast[p])
  BY <1>1, CallsReplaced DEF Call
<1> QED BY <1>1, <1>2, <1>3, <1>4

LEMMA DowngradesHigherKeeps ==
  ASSUME IInv, NEW p \in Procs, DowngradesHigher(p)
  PROVE  IInv'
<1>1. PICK x \in HigherLeft(p) :
        down_grade(p, x, bdb[p],
          <<[Call(p) EXCEPT !.at = "called", !.cur = x, !.todo = @ \ {x}]>> \o Tail(ast[p]))
  BY DEF DowngradesHigher
<1> DEFINE f == [Call(p) EXCEPT !.at = "called", !.cur = x, !.todo = @ \ {x}]
<1>2. ast[p] # <<>>
  BY DEF DowngradesHigher, At
<1>3. x \in Pages
  BY <1>2, CallOf DEF HigherLeft, Frame
<1>4. f \in Frame /\ f.page = Call(p).page
  BY <1>2, <1>3, CallOf DEF Frame
<1>5. \A h \in Pages : Resembles(bdb[p][h], bdb[p][h])
  BY DEF Resembles
<1> DEFINE c == <<f>> \o Tail(ast[p])
<1>6. down_grade(p, x, bdb[p], c)
  BY <1>1
<1> HIDE DEF f
<1>7. c \in Seq(Frame) /\ Apart(c) /\ PagesOf(c) = PagesOf(ast[p])
  BY <1>2, <1>4, CallOf
<1> HIDE DEF c
<1>8. UNCHANGED <<disk, pre, main, posted, tra, committed, lost, clock>>
  BY DEF DowngradesHigher
<1>9. Downs(p, x, bdb[p], c, pre[p])
  BY <1>5, <1>6, <1>7, <1>8, Parts, Unmoved DEF Downs
<1> QED BY <1>3, <1>9, DownKeeps

\* The innermost call goes on, and nothing else happens.
LEMMA ContinuesKeeps ==
  ASSUME IInv, NEW p \in Procs, ast[p] # <<>>, NEW f \in Frame, f.page = Call(p).page,
         Continues(p, f), NEW E \in SUBSET Precedence, pre' = [pre EXCEPT ![p] = E],
         \A e \in E : (~e.cleared => e \in pre[p]) /\ \E d \in pre[p] : d.hi = e.hi,
         UNCHANGED <<disk, lck, bdb, main, posted, tra, committed, lost, clock>>
  PROVE  IInv'
<1> DEFINE c == <<f>> \o Tail(ast[p])
<1>1. c \in Seq(Frame) /\ Apart(c) /\ PagesOf(c) = PagesOf(ast[p])
  BY CallOf
<1>2. ast' = [ast EXCEPT ![p] = c]
  BY DEF Continues
<1> HIDE DEF c
<1>3. Moves(p, bdb[p], lck[p], E, main[p], c, tra[p])
  BY <1>1, <1>2, Parts, Unmoved DEF Moves
<1>4. \A h \in Pages : /\ bdb[p][h].use \in 0..2 /\ One(h \in PagesOf(ast[p])) \in {0, 1}
                       /\ Resembles(bdb[p][h], bdb[p][h])
  BY Parts DEF Buffer, One, Resembles
<1>5. Calls(p, bdb[p], lck[p], E, c, tra[p])
  BY <1>1, <1>3, <1>4 DEF Calls, Has, Dirty
<1> QED BY <1>4, <1>5, CallsOnly

\* The call above goes on with a frame of its page, when the one it made has returned.
LEMMA HigherGoesOn ==
  ASSUME IInv, NEW p \in Procs, HigherDone(p)
  PROVE  \E f \in Frame : f.page = Call(p).page /\ Continues(p, f)
<1> DEFINE x == Call(p).cur
           above == {e.hi : e \in Above(p, Call(p).page)}
           back == [Call(p) EXCEPT !.at = "higher", !.cur = NoPage]
<1>1. /\ ast[p] # <<>>
      /\ IF Has(p, x, "not_valid")
         THEN \E first \in above :
                Continues(p, [back EXCEPT !.invalid = TRUE, !.in_use = FALSE,
                                          !.todo = above \ {first}])
         ELSE Continues(p, [back EXCEPT !.in_use = @ \/ Dirty(p, x)])
  BY DEF HigherDone, At
<1>2. back \in Frame /\ back.page = Call(p).page /\ back.in_use = Call(p).in_use
  BY <1>1, CallOf DEF Frame
<1>3. above \in SUBSET Pages
  BY Parts DEF Above, Precedence
<1> HIDE DEF x, above, back
<1>4. CASE Has(p, x, "not_valid")
  <2>1. PICK first \in above :
          Continues(p, [back EXCEPT !.invalid = TRUE, !.in_use = FALSE, !.todo = above \ {first}])
    BY <1>1, <1>4
  <2> DEFINE f == [back EXCEPT !.invalid = TRUE, !.in_use = FALSE, !.todo = above \ {first}]
  <2>2. f \in Frame /\ f.page = Call(p).page
    BY <1>2, <1>3 DEF Frame
  <2>3. Continues(p, f)
    BY <2>1
  <2> HIDE DEF f
  <2> QED BY <2>2, <2>3
<1>5. CASE ~Has(p, x, "not_valid")
  <2> DEFINE f == [back EXCEPT !.in_use = @ \/ Dirty(p, x)]
  <2>1. (back.in_use \/ Dirty(p, x)) \in BOOLEAN
    BY DEF Dirty, Has
  <2>2. f \in Frame /\ f.page = Call(p).page
    BY <1>2, <2>1 DEF Frame
  <2>3. Continues(p, f)
    BY <1>1, <1>5
  <2> HIDE DEF f
  <2> QED BY <2>2, <2>3
<1> QED BY <1>4, <1>5

LEMMA HigherDoneKeeps ==
  ASSUME IInv, NEW p \in Procs, HigherDone(p)
  PROVE  IInv'
<1>1. /\ ast[p] # <<>> /\ pre' = pre
      /\ UNCHANGED <<disk, lck, bdb, main, posted, tra, committed, lost, clock>>
  BY DEF HigherDone, At
<1>2. pre' = [pre EXCEPT ![p] = pre[p]] /\ pre[p] \in SUBSET Precedence
  BY <1>1, Parts, Unmoved
<1> QED BY <1>1, <1>2, HigherGoesOn, ContinuesKeeps

\* down_grade leaves the page to the call that waits for it, or is done with it.
LEMMA ReturnsCalls ==
  ASSUME IInv, NEW p \in Procs, ast[p] # <<>>, Returns(p), NEW g \in Pages, g = Call(p).page,
         NEW b \in Buffer, b.use = 0, Resembles(b, bdb[p][g]),
         bdb' = [bdb EXCEPT ![p][g] = b],
         UNCHANGED <<disk, lck, pre, main, posted, tra, committed, lost, clock>>
  PROVE  IInv'
<1> DEFINE D == [bdb[p] EXCEPT ![g] = b]
           c == Tail(ast[p])
<1>1. c \in Seq(Frame) /\ Apart(c) /\ PagesOf(c) = PagesOf(ast[p]) \ {g}
      /\ g \in PagesOf(ast[p]) /\ bdb[p][g].use = 1
  BY CallOf
<1>2. ast' = [ast EXCEPT ![p] = c]
  BY DEF Returns
<1>3. D \in [Pages -> Buffer] /\ \A h \in Pages : D[h] = IF h = g THEN b ELSE bdb[p][h]
  BY Parts
<1>4. bdb' = [bdb EXCEPT ![p] = D]
  BY Parts DEF TypeOK
<1> HIDE DEF D, c
<1>5. Moves(p, D, lck[p], pre[p], main[p], c, tra[p])
  BY <1>1, <1>2, <1>3, <1>4, Parts, Unmoved DEF Moves
<1>6. \A h \in Pages :
        /\ D[h].use = bdb[p][h].use - One(h \in PagesOf(ast[p])) + One(h \in PagesOf(c))
        /\ h \in PagesOf(c) => h \in PagesOf(ast[p])
  <2>1. ASSUME NEW h \in Pages, h # g
        PROVE  One(h \in PagesOf(ast[p])) = One(h \in PagesOf(c))
    BY <1>1, <2>1 DEF One
  <2>2. One(g \in PagesOf(ast[p])) = 1 /\ One(g \in PagesOf(c)) = 0
    BY <1>1 DEF One
  <2>3. \A h \in Pages : bdb[p][h].use \in 0..2 /\ One(h \in PagesOf(c)) \in {0, 1}
    BY Parts DEF Buffer, One
  <2> QED BY <1>1, <1>3, <2>1, <2>2, <2>3
<1>7. \A h \in Pages :
        /\ Resembles(D[h], bdb[p][h])
        /\ "writer" \in D[h].flags <=> Has(p, h, "writer")
        /\ "faked" \in D[h].flags <=> Has(p, h, "faked")
        /\ "dirty" \in D[h].flags <=> Dirty(p, h)
  BY <1>3 DEF Resembles, Has, Dirty
<1>8. Calls(p, D, lck[p], pre[p], c, tra[p])
  BY <1>1, <1>5, <1>6, <1>7 DEF Calls
<1> QED BY <1>7, <1>8, CallsOnly

LEMMA DeferredKeeps ==
  ASSUME IInv, NEW p \in Procs, DowngradeDeferred(p)
  PROVE  IInv'
<1>1. ast[p] # <<>> /\ Returns(p)
      /\ UNCHANGED <<disk, lck, pre, main, posted, tra, committed, lost, clock>>
  BY DEF DowngradeDeferred, At
<1>2. PICK g \in Pages : g = Call(p).page
  BY <1>1, CallOf
<1>3. bdb[p][g] \in Buffer /\ bdb[p][g].use = 1
  BY <1>1, <1>2, CallOf
<1> DEFINE b == Released(bdb[p][g])
<1>4. b \in Buffer /\ b.use = 0 /\ Resembles(b, bdb[p][g])
  BY <1>3, LatchOps DEF Resembles
<1>5. bdb' = [bdb EXCEPT ![p][g] = b]
  BY <1>2 DEF DowngradeDeferred
<1> HIDE DEF b
<1> QED BY <1>1, <1>2, <1>4, <1>5, ReturnsCalls

LEMMA LowerDoneKeeps ==
  ASSUME IInv, NEW p \in Procs, LowerDone(p)
  PROVE  IInv'
<1>1. ast[p] # <<>> /\ Returns(p)
      /\ UNCHANGED <<disk, lck, pre, main, posted, tra, committed, lost, clock>>
  BY DEF LowerDone, At
<1>2. PICK g \in Pages : g = Call(p).page
  BY <1>1, CallOf
<1>3. bdb[p][g] \in Buffer /\ bdb[p][g].use = 1
  BY <1>1, <1>2, CallOf
<1> DEFINE c == Released(bdb[p][g])
           b == Without(c, {"not_valid"})
<1>4. b \in Buffer /\ b.use = 0 /\ Resembles(b, bdb[p][g])
  <2>1. c \in Buffer /\ c.use = 0 /\ c.img = bdb[p][g].img /\ c.flags = bdb[p][g].flags
    BY <1>3, LatchOps
  <2>2. {"not_valid"} \in SUBSET Flags
    BY DEF Flags
  <2> HIDE DEF c
  <2> QED BY <2>1, <2>2, BufferOps DEF Resembles
<1>5. bdb' = [bdb EXCEPT ![p][g] = b]
  BY <1>2 DEF LowerDone
<1> HIDE DEF b, c
<1> QED BY <1>1, <1>2, <1>4, <1>5, ReturnsCalls

LEMMA LowerCleared ==
  ASSUME TypeOK, NEW p \in Procs, NEW E
  PROVE  /\ Cleared(p, E) \in SUBSET Precedence
         /\ \A e \in Cleared(p, E) : /\ ~e.cleared => e \in pre[p]
                                     /\ \E d \in pre[p] : d.hi = e.hi
<1>1. pre[p] \subseteq Precedence
  BY DEF TypeOK
<1>2. ASSUME NEW e \in Cleared(p, E)
      PROVE  /\ e \in Precedence /\ (~e.cleared => e \in pre[p])
             /\ \E d \in pre[p] : d.hi = e.hi
  <2>1. PICK d \in pre[p] : e = IF d \in E THEN [d EXCEPT !.cleared = TRUE] ELSE d
    BY DEF Cleared
  <2>2. d \in Precedence
    BY <1>1
  <2>3. CASE d \in E
    <3>1. e \in Precedence /\ e.cleared /\ e.hi = d.hi
      BY <2>1, <2>2, <2>3 DEF Precedence
    <3> QED BY <3>1
  <2>4. CASE d \notin E
    BY <2>1, <2>2, <2>4
  <2> QED BY <2>3, <2>4
<1> QED BY <1>2

LEMMA DowngradesLowerKeeps ==
  ASSUME IInv, NEW p \in Procs, DowngradesLower(p)
  PROVE  IInv'
<1> DEFINE invalid == Has(p, Call(p).page, "not_valid")
           Frm(x) == [Call(p) EXCEPT !.todo = @ \ {x}]
           Bs(x) == IF invalid THEN [bdb[p] EXCEPT ![x] = With(@, {"not_valid"})] ELSE bdb[p]
<1>1. PICK x \in Call(p).todo :
        /\ pre' = [pre EXCEPT ![p] = Cleared(p, {e \in Below(p, Call(p).page) : e.low = x})]
        /\ IF invalid \/ Has(p, x, "not_valid") \/ Has(p, x, "blocking")
           THEN down_grade(p, x, Bs(x), <<Frm(x)>> \o Tail(ast[p]))
           ELSE Continues(p, Frm(x)) /\ UNCHANGED <<bdb, lck>>
  BY DEF DowngradesLower
<1>2. ast[p] # <<>> /\ UNCHANGED <<disk, main, posted, tra, committed, lost, clock>>
  BY DEF DowngradesLower, At
<1>3. x \in Pages
  BY <1>2, CallOf DEF Frame
<1> DEFINE E == Cleared(p, {e \in Below(p, Call(p).page) : e.low = x})
           f == Frm(x)
           B == Bs(x)
           c == <<f>> \o Tail(ast[p])
<1>4. f \in Frame /\ f.page = Call(p).page
  BY <1>2, <1>3, CallOf DEF Frame
<1>5. /\ E \in SUBSET Precedence /\ pre' = [pre EXCEPT ![p] = E]
      /\ \A e \in E : (~e.cleared => e \in pre[p]) /\ \E d \in pre[p] : d.hi = e.hi
  BY <1>1, Parts, LowerCleared
<1>6. /\ B \in [Pages -> Buffer]
      /\ \A h \in Pages : Resembles(B[h], bdb[p][h]) /\ B[h].use = bdb[p][h].use
  <2>1. bdb[p] \in [Pages -> Buffer] /\ {"not_valid"} \in SUBSET Flags
    BY Parts DEF Flags
  <2> DEFINE b == With(bdb[p][x], {"not_valid"})
  <2>2. b \in Buffer /\ Resembles(b, bdb[p][x]) /\ b.use = bdb[p][x].use
    BY <1>3, <2>1, BufferOps DEF Resembles
  <2>3. B = IF invalid THEN [bdb[p] EXCEPT ![x] = b] ELSE bdb[p]
    OBVIOUS
  <2> HIDE DEF b, B
  <2> QED BY <1>3, <2>1, <2>2, <2>3 DEF Resembles
<1>7. CASE invalid \/ Has(p, x, "not_valid") \/ Has(p, x, "blocking")
  <2>1. down_grade(p, x, B, c)
    BY <1>1, <1>7
  <2> HIDE DEF f, B, E, Frm, Bs, invalid
  <2>2. c \in Seq(Frame) /\ Apart(c) /\ PagesOf(c) = PagesOf(ast[p])
    BY <1>2, <1>4, CallOf
  <2>3. posted' \in [Procs -> SUBSET Pages]
    BY <1>2, Parts DEF TypeOK
  <2> HIDE DEF c
  <2>4. Downs(p, x, B, c, E)
    BY <1>2, <1>5, <1>6, <2>1, <2>2, <2>3 DEF Downs
  <2> QED BY <1>3, <2>4, DownKeeps
<1>8. CASE ~(invalid \/ Has(p, x, "not_valid") \/ Has(p, x, "blocking"))
  <2>1. Continues(p, f) /\ UNCHANGED <<bdb, lck>>
    BY <1>1, <1>8
  <2> HIDE DEF f, B, E, Frm, Bs, invalid
  <2> QED BY <1>2, <1>4, <1>5, <2>1, ContinuesKeeps
<1> QED BY <1>7, <1>8

-----------------------------------------------------------------------------
(* down_grade writes its page, or gives it up.                             *)

\* The innermost call goes on to its lower pages, its buffer is b and its lock is lowered.
GoesOn(p, g, b, level, E, t) ==
  /\ ast[p] # <<>> /\ g = Call(p).page /\ GoesLower(p)
  /\ b \in Buffer /\ b.use = bdb[p][g].use /\ "dirty" \notin b.flags
  /\ "writer" \in b.flags <=> Has(p, g, "writer")
  /\ "faked" \in b.flags <=> Has(p, g, "faked")
  /\ bdb' = [bdb EXCEPT ![p][g] = b]
  /\ level \in Levels /\ level <= lck[p][g] /\ lck' = [lck EXCEPT ![p][g] = level]
  /\ E \in SUBSET Precedence /\ pre' = [pre EXCEPT ![p] = E]
  /\ \A e \in E : (~e.cleared => e \in pre[p]) /\ \E d \in pre[p] : d.hi = e.hi
  /\ t \in [made : SUBSET Updates, invalidated : BOOLEAN] /\ tra' = [tra EXCEPT ![p] = t]
  /\ posted' \in [Procs -> SUBSET Pages] /\ disk' \in [Pages -> Image]
  /\ lost' \subseteq Updates /\ UNCHANGED <<main, committed, clock>>

LEMMA GoesOnStep ==
  ASSUME IInv, NEW p \in Procs, NEW g \in Pages, NEW b, NEW level, NEW E, NEW t,
         GoesOn(p, g, b, level, E, t)
  PROVE  /\ TypeOK' /\ Alone(p) /\ NoCycle'
         /\ LatchesOf(p)' /\ MainOf(p)' /\ CleanOf(p)' /\ WindowOf(p)'
         /\ main'[p] = main[p] /\ tra'[p] = t
         /\ \A h \in Pages : bdb'[p][h] = IF h = g THEN b ELSE bdb[p][h]
         /\ \A h \in Pages : lck'[p][h] = IF h = g THEN level ELSE lck[p][h]
<1> DEFINE D == [bdb[p] EXCEPT ![g] = b]
           L == [lck[p] EXCEPT ![g] = level]
           f == [Call(p) EXCEPT !.at = "lower", !.todo = {e.low : e \in Below(p, g)}]
           c == <<f>> \o Tail(ast[p])
<1>0. ast[p] # <<>> /\ g = Call(p).page
  BY DEF GoesOn
<1>1. f \in Frame /\ f.page = g
  <2>1. {e.low : e \in Below(p, g)} \in SUBSET Pages
    BY Parts DEF Below, Precedence
  <2> QED BY <1>0, <2>1, CallOf DEF Frame
<1>2. ast' = [ast EXCEPT ![p] = c]
  BY <1>0 DEF GoesOn, GoesLower, Continues
<1> HIDE DEF f
<1>3. c \in Seq(Frame) /\ Apart(c) /\ PagesOf(c) = PagesOf(ast[p]) /\ g \in PagesOf(ast[p])
  BY <1>0, <1>1, CallOf
<1>4. /\ D \in [Pages -> Buffer] /\ \A h \in Pages : D[h] = IF h = g THEN b ELSE bdb[p][h]
      /\ L \in [Pages -> Levels] /\ \A h \in Pages : L[h] = IF h = g THEN level ELSE lck[p][h]
  BY Parts DEF GoesOn
<1>5. bdb' = [bdb EXCEPT ![p] = D] /\ lck' = [lck EXCEPT ![p] = L]
  BY Parts DEF GoesOn, TypeOK
<1> HIDE DEF D, L, c
<1>6. Moves(p, D, L, E, main[p], c, t)
  BY <1>2, <1>3, <1>4, <1>5, Parts, Unmoved DEF Moves, GoesOn
<1>7. \A h \in Pages :
        /\ D[h].use = bdb[p][h].use - One(h \in PagesOf(ast[p])) + One(h \in PagesOf(c))
        /\ "writer" \in D[h].flags <=> Has(p, h, "writer")
        /\ "faked" \in D[h].flags <=> Has(p, h, "faked")
        /\ "dirty" \in D[h].flags => Dirty(p, h)
        /\ L[h] # lck[p][h] => h \in PagesOf(ast[p])
  <2>1. \A h \in Pages : bdb[p][h].use \in 0..2 /\ One(h \in PagesOf(c)) \in {0, 1}
    BY Parts DEF Buffer, One
  <2>2. \A h \in Pages : D[h].use = bdb[p][h].use
    BY <1>4 DEF GoesOn
  <2>3. \A h \in Pages :
          D[h].use = bdb[p][h].use - One(h \in PagesOf(ast[p])) + One(h \in PagesOf(c))
    BY <1>3, <2>1, <2>2
  <2> QED BY <1>3, <1>4, <2>3 DEF GoesOn, Has, Dirty
<1>8. Calls(p, D, L, E, c, t)
  BY <1>3, <1>6, <1>7 DEF Calls, GoesOn
<1>9. /\ TypeOK' /\ Alone(p) /\ NoCycle'
      /\ LatchesOf(p)' /\ MainOf(p)' /\ CleanOf(p)' /\ WindowOf(p)'
      /\ bdb'[p] = D /\ lck'[p] = L /\ main'[p] = main[p] /\ tra'[p] = t
  BY <1>8, CallStep
<1> QED BY <1>4, <1>9

\* The page that down_grade writes is dirty.
LEMMA CallDirty ==
  ASSUME IInv, NEW p \in Procs, Unwritten(p), ast[p] # <<>>, Call(p).at # "lower"
  PROVE  Dirty(p, Call(p).page)
<1>1. ast[p] \in Seq(Frame) /\ Len(ast[p]) \in Nat \ {0} /\ Head(ast[p]) = ast[p][1]
      /\ DOMAIN ast[p] = 1..Len(ast[p])
  BY Parts, EmptySeq, LenProperties
<1>2. 1 \in DOMAIN ast[p] /\ Call(p) = ast[p][1]
  BY <1>1 DEF Call
<1> QED BY <1>2 DEF Unwritten, Early

LEMMA DowngradeWritesKeeps ==
  ASSUME IInv, NEW p \in Procs, Unwritten(p), DowngradeWrites(p)
  PROVE  IInv'
<1>1. /\ ast[p] # <<>> /\ Call(p).at = "higher" /\ GoesLower(p)
      /\ UNCHANGED <<pre, main, posted, tra, committed, lost, clock>>
  BY DEF DowngradeWrites, At
<1>2. PICK g \in Pages : g = Call(p).page
  BY <1>1, CallOf
<1>3. Dirty(p, g)
  BY <1>1, <1>2, CallDirty
<1>4. PICK level \in Levels : level = Downgraded(p, g) /\ level <= lck[p][g]
  BY Parts, DowngradedLower
<1>5. /\ disk' = [disk EXCEPT ![g] = bdb[p][g].img]
      /\ bdb' = [bdb EXCEPT ![p][g] = Kept(Without(@, {"dirty", "changed", "blocking"}), level)]
      /\ lck' = [lck EXCEPT ![p][g] = level]
  BY <1>2, <1>4 DEF DowngradeWrites
<1> DEFINE c == Without(bdb[p][g], {"dirty", "changed", "blocking"})
           b == Kept(c, level)
<1>6. /\ b \in Buffer /\ b.use = bdb[p][g].use
      /\ b.flags = bdb[p][g].flags \ {"dirty", "changed", "blocking"}
      /\ b.img = IF level = LCK_none THEN Blank ELSE bdb[p][g].img
  <2>1. {"dirty", "changed", "blocking"} \in SUBSET Flags /\ bdb[p][g] \in Buffer
    BY Parts DEF Flags
  <2>2. /\ c \in Buffer /\ c.use = bdb[p][g].use /\ c.img = bdb[p][g].img
        /\ c.flags = bdb[p][g].flags \ {"dirty", "changed", "blocking"}
    BY <2>1, BufferOps
  <2>3. Blank \in Image
    BY DEF Blank, Image
  <2> HIDE DEF c
  <2> QED BY <2>2, <2>3 DEF Kept, Buffer
<1>7. bdb' = [bdb EXCEPT ![p][g] = b]
  BY <1>5
<1> HIDE DEF b, c
<1>8. disk' \in [Pages -> Image] /\ posted' \in [Procs -> SUBSET Pages] /\ lost' \subseteq Updates
      /\ pre' = [pre EXCEPT ![p] = pre[p]] /\ tra' = [tra EXCEPT ![p] = tra[p]]
  <2>1. bdb[p][g].img \in Image
    BY Parts DEF Buffer
  <2> QED BY <1>1, <1>5, <2>1, Parts, Unmoved DEF TypeOK
<1>9. GoesOn(p, g, b, level, pre[p], tra[p])
  BY <1>1, <1>2, <1>5, <1>6, <1>7, <1>8, Parts, <1>4 DEF GoesOn, Has
<1>10. /\ TypeOK' /\ Alone(p) /\ NoCycle'
       /\ LatchesOf(p)' /\ MainOf(p)' /\ CleanOf(p)' /\ WindowOf(p)'
       /\ main'[p] = main[p] /\ tra'[p] = tra[p]
       /\ \A h \in Pages : bdb'[p][h] = IF h = g THEN b ELSE bdb[p][h]
       /\ \A h \in Pages : lck'[p][h] = IF h = g THEN level ELSE lck[p][h]
  BY <1>9, GoesOnStep
<1>11. Saves(p, g)
  BY <1>1, <1>3, <1>4, <1>5, <1>6, <1>10 DEF Saves, Dirty, Has
<1> QED BY <1>10, <1>11, Parts, SavesKeeps, Gather

\* What p has changed in page g and not written is given up; its transaction learns of it.
GivesUpPage(p, g) ==
  /\ Alone(p) /\ UNCHANGED <<disk, committed, clock>>
  /\ main'[p].number = main[p].number
  /\ lost' = lost \cup (bdb[p][g].img.has \ disk[g].has)
  /\ tra'[p].made = tra[p].made /\ (tra[p].invalidated => tra'[p].invalidated)
  /\ Has(p, g, "changed") => tra'[p].invalidated
  /\ ~Dirty(p, g)' /\ bdb'[p][g].img = Blank /\ lck'[p][g] = LCK_none
  /\ \A h \in Pages \ {g} :
       /\ bdb'[p][h].img = bdb[p][h].img /\ (Dirty(p, h)' <=> Dirty(p, h))
       /\ Has(p, h, "changed")' <=> Has(p, h, "changed")
       /\ lck'[p][h] = lck[p][h]

LEMMA GivesUpKeeps ==
  ASSUME TypeOK, TypeOK', NEW p \in Procs, NEW g \in Pages, Caching, History,
         GivesUpPage(p, g)
  PROVE  Caching' /\ History'
<1>1. Caching'
  <2>1. ASSUME NEW h \in Pages
        PROVE  lck'[p][h] \in Levels /\ lck'[p][h] <= lck[p][h]
    <3>1. lck[p][h] \in Levels
      BY DEF TypeOK
    <3> QED BY <3>1 DEF GivesUpPage, Levels, LCK_none, LCK_write
  <2>2. LocksFit'
    BY <2>1, LoweredKeep DEF GivesUpPage, Caching
  <2> QED BY <2>2, ImagesKept DEF GivesUpPage
<1>2. \A q \in Procs, h \in Pages : q # p \/ h # g =>
        /\ bdb'[q][h].img = bdb[q][h].img /\ (Dirty(q, h)' <=> Dirty(q, h))
        /\ Has(q, h, "changed")' <=> Has(q, h, "changed")
  BY DEF GivesUpPage, Alone, Dirty, Has
<1>3. \A q \in Procs : /\ tra'[q].made = tra[q].made
                       /\ tra[q].invalidated => tra'[q].invalidated
                       /\ main'[q].number = main[q].number
  BY DEF GivesUpPage, Alone
<1>4. \A q \in Procs, h \in Pages : bdb'[q][h].img.has \subseteq bdb[q][h].img.has
  BY <1>2 DEF GivesUpPage, Blank
<1>5. NumbersFit'
  <2>1. \A u : Unseen(u) => Unseen(u)'
    BY <1>3, <1>4 DEF Unseen, GivesUpPage
  <2>2. lost' \subseteq Past
    BY DEF GivesUpPage, History, NumbersFit
  <2> QED BY <1>3, <1>4, <2>1, <2>2 DEF History, NumbersFit, Past, GivesUpPage
<1>6. UpdatesFit'
  <2>1. ASSUME NEW q \in Procs, NEW r \in Procs, NEW h \in Pages, q # r
        PROVE  tra'[r].made \cap bdb'[q][h].img.has \subseteq disk'[h].has
    BY <1>3, <1>4, <2>1 DEF History, UpdatesFit, GivesUpPage
  <2>2. ASSUME NEW q \in Procs, NEW h \in Pages, Dirty(q, h)', ~Has(q, h, "changed")'
        PROVE  tra'[q].made \cap bdb'[q][h].img.has \subseteq disk'[h].has
    BY <1>2, <1>3, <2>2 DEF History, UpdatesFit, GivesUpPage
  <2>3. ASSUME NEW q \in Procs, NEW u \in tra'[q].made \ lost'
        PROVE  \/ \E h \in Pages : u \in disk'[h].has
               \/ \E h \in Pages : Dirty(q, h)' /\ Has(q, h, "changed")'
                                   /\ u \in bdb'[q][h].img.has
    <3>1. u \in tra[q].made \ lost
      BY <1>3, <2>3 DEF GivesUpPage
    <3>2. CASE \E h \in Pages : u \in disk[h].has
      BY <3>2 DEF GivesUpPage
    <3>3. ASSUME NEW h \in Pages, Dirty(q, h), Has(q, h, "changed"), u \in bdb[q][h].img.has
          PROVE  \/ \E i \in Pages : u \in disk'[i].has
                 \/ Dirty(q, h)' /\ Has(q, h, "changed")' /\ u \in bdb'[q][h].img.has
      <4>1. CASE q = p /\ h = g
        <5>1. u \in disk[g].has
          BY <2>3, <3>3, <4>1 DEF GivesUpPage
        <5> QED BY <5>1 DEF GivesUpPage
      <4>2. CASE q # p \/ h # g
        BY <1>2, <3>3, <4>2
      <4> QED BY <4>1, <4>2
    <3> QED BY <3>1, <3>2, <3>3 DEF History, UpdatesFit
  <2> QED BY <2>1, <2>2, <2>3 DEF UpdatesFit
<1>7. CommittedInFile'
  BY DEF GivesUpPage, History, CommittedInFile, Durable
<1>8. LossNoticed'
  <2> SUFFICES ASSUME NEW q \in Procs, NEW u \in tra'[q].made \cap lost'
               PROVE  tra'[q].invalidated
    BY DEF LossNoticed
  <2>1. CASE u \in lost
    BY <1>3, <2>1 DEF History, LossNoticed
  <2>2. CASE u \in bdb[p][g].img.has \ disk[g].has
    <3>1. u \in tra[q].made
      BY <1>3
    <3>2. q = p
      BY <2>2, <3>1 DEF History, UpdatesFit
    <3>3. Dirty(p, g)
      BY <2>2 DEF Caching, ImagesFit, Blank
    <3>4. Has(p, g, "changed")
      BY <2>2, <3>1, <3>2, <3>3 DEF History, UpdatesFit
    <3> QED BY <3>2, <3>4 DEF GivesUpPage
  <2> QED BY <2>1, <2>2 DEF GivesUpPage
<1> QED BY <1>1, <1>5, <1>6, <1>7, <1>8 DEF History

LEMMA DowngradeFailsKeeps ==
  ASSUME IInv, NEW p \in Procs, DowngradeFails(p)
  PROVE  IInv'
<1>1. ast[p] # <<>> /\ GoesLower(p) /\ UNCHANGED <<disk, main, committed, clock>>
  BY DEF DowngradeFails, At
<1>2. PICK g \in Pages : g = Call(p).page
  BY <1>1, CallOf
<1> DEFINE skipped == {e \in Above(p, g) : e.hi \in Call(p).todo}
           E == Cleared(p, IF Call(p).invalid THEN skipped ELSE {})
           c == With(Without(bdb[p][g], {"dirty", "changed", "blocking"}), {"not_valid"})
           b == Kept(c, LCK_none)
           t == IF Has(p, g, "changed") THEN [tra[p] EXCEPT !.invalidated = TRUE] ELSE tra[p]
<1>3. /\ pre' = [pre EXCEPT ![p] = E] /\ bdb' = [bdb EXCEPT ![p][g] = b]
      /\ lck' = [lck EXCEPT ![p][g] = LCK_none]
      /\ posted' = [posted EXCEPT ![p] = @ \ {g}]
      /\ tra' = IF Has(p, g, "changed") THEN [tra EXCEPT ![p].invalidated = TRUE] ELSE tra
      /\ lost' = lost \cup (bdb[p][g].img.has \ disk[g].has)
  BY <1>2 DEF DowngradeFails
<1>4. /\ E \in SUBSET Precedence
      /\ \A e \in E : (~e.cleared => e \in pre[p]) /\ \E d \in pre[p] : d.hi = e.hi
  BY Parts, LowerCleared
<1>5. /\ t \in [made : SUBSET Updates, invalidated : BOOLEAN] /\ tra' = [tra EXCEPT ![p] = t]
      /\ t.made = tra[p].made /\ (tra[p].invalidated => t.invalidated)
      /\ Has(p, g, "changed") => t.invalidated
  <2>1. tra[p] \in [made : SUBSET Updates, invalidated : BOOLEAN]
    BY Parts
  <2>2. CASE Has(p, g, "changed")
    <3>1. tra' = [tra EXCEPT ![p].invalidated = TRUE] /\ t = [tra[p] EXCEPT !.invalidated = TRUE]
      BY <1>3, <2>2
    <3> HIDE DEF t
    <3> QED BY <2>1, <3>1, Parts DEF TypeOK
  <2>3. CASE ~Has(p, g, "changed")
    <3>1. tra' = tra /\ t = tra[p]
      BY <1>3, <2>3
    <3> HIDE DEF t
    <3> QED BY <2>1, <2>3, <3>1, Parts, Unmoved
  <2> QED BY <2>2, <2>3
<1>6. /\ b \in Buffer /\ b.use = bdb[p][g].use /\ b.img = Blank
      /\ b.flags = (bdb[p][g].flags \ {"dirty", "changed", "blocking"}) \cup {"not_valid"}
  <2>1. /\ {"dirty", "changed", "blocking"} \in SUBSET Flags /\ {"not_valid"} \in SUBSET Flags
        /\ bdb[p][g] \in Buffer
    BY Parts DEF Flags
  <2>2. /\ c \in Buffer /\ c.use = bdb[p][g].use
        /\ c.flags = (bdb[p][g].flags \ {"dirty", "changed", "blocking"}) \cup {"not_valid"}
    BY <2>1, BufferOps
  <2>3. Blank \in Image
    BY DEF Blank, Image
  <2> HIDE DEF c
  <2> QED BY <2>2, <2>3 DEF Kept, Buffer
<1> HIDE DEF skipped, E, c, b, t
<1>7. /\ posted' \in [Procs -> SUBSET Pages] /\ disk' \in [Pages -> Image] /\ lost' \subseteq Updates
  <2>1. bdb[p][g].img.has \subseteq Updates
    BY Parts DEF Buffer, Image
  <2> QED BY <1>1, <1>3, <2>1, Parts, Unmoved DEF TypeOK
<1>8. LCK_none \in Levels /\ LCK_none <= lck[p][g]
  BY Parts DEF Levels, LCK_none, LCK_write
<1>9. GoesOn(p, g, b, LCK_none, E, t)
  BY <1>1, <1>2, <1>3, <1>4, <1>5, <1>6, <1>7, <1>8 DEF GoesOn, Has
<1>10. /\ TypeOK' /\ Alone(p) /\ NoCycle'
       /\ LatchesOf(p)' /\ MainOf(p)' /\ CleanOf(p)' /\ WindowOf(p)'
       /\ main'[p] = main[p] /\ tra'[p] = t
       /\ \A h \in Pages : bdb'[p][h] = IF h = g THEN b ELSE bdb[p][h]
       /\ \A h \in Pages : lck'[p][h] = IF h = g THEN LCK_none ELSE lck[p][h]
  BY <1>9, GoesOnStep
<1>11. GivesUpPage(p, g)
  BY <1>1, <1>3, <1>5, <1>6, <1>10 DEF GivesUpPage, Dirty, Has
<1> QED BY <1>10, <1>11, Parts, GivesUpKeeps, Gather

-----------------------------------------------------------------------------
(* What the calls of down_grade have still to write.                       *)

LEMMA EarlyOf ==
  ASSUME NEW s \in Seq(Frame), s # <<>>
  PROVE  /\ Early(Tail(s)) \subseteq Early(s)
         /\ Head(s).at # "lower" => Head(s).page \in Early(s)
         /\ Early(s) \subseteq PagesOf(s)
<1> DEFINE t == Tail(s)
<1>1. /\ t \in Seq(Frame) /\ Len(t) = Len(s) - 1 /\ Head(s) = s[1]
      /\ \A i \in 1..Len(t) : t[i] = s[i + 1]
  BY Popped
<1>2. /\ Len(s) \in Nat \ {0} /\ DOMAIN s = 1..Len(s) /\ DOMAIN t = 1..Len(t)
  BY <1>1, EmptySeq, LenProperties
<1> HIDE DEF t
<1>3. \A i \in DOMAIN t : i + 1 \in DOMAIN s /\ t[i] = s[i + 1]
  BY <1>1, <1>2
<1>4. 1 \in DOMAIN s
  BY <1>2
<1>5. Early(t) \subseteq Early(s)
  BY <1>3 DEF Early
<1> QED BY <1>1, <1>4, <1>5 DEF t, Early, PagesOf

LEMMA EarlyPushed ==
  ASSUME NEW t \in Seq(Frame), NEW f \in Frame
  PROVE  \A g \in Early(<<f>> \o t) : g \in Early(t) \/ (g = f.page /\ f.at # "lower")
<1> DEFINE c == <<f>> \o t
<1>1. <<f>> \in Seq(Frame) /\ Len(<<f>>) = 1 /\ <<f>>[1] = f
  OBVIOUS
<1>2. /\ c \in Seq(Frame) /\ Len(c) = Len(<<f>>) + Len(t)
      /\ \A i \in 1..Len(<<f>>) + Len(t) :
           c[i] = IF i <= Len(<<f>>) THEN <<f>>[i] ELSE t[i - Len(<<f>>)]
  BY <1>1, ConcatProperties
<1>3. Len(t) \in Nat /\ DOMAIN t = 1..Len(t) /\ DOMAIN c = 1..Len(c)
  BY <1>2, LenProperties
<1> HIDE DEF c
<1>4. \A i \in DOMAIN c : c[i] = f \/ \E j \in DOMAIN t : c[i] = t[j]
  <2> SUFFICES ASSUME NEW i \in 1..(Len(t) + 1)
               PROVE  c[i] = f \/ \E j \in DOMAIN t : c[i] = t[j]
    BY <1>1, <1>2, <1>3
  <2>1. CASE i = 1
    BY <1>1, <1>2, <1>3, <2>1
  <2>2. CASE i # 1
    <3>1. i - 1 \in DOMAIN t
      BY <1>3, <2>2
    <3>2. c[i] = t[i - 1]
      BY <1>1, <1>2, <1>3, <2>2
    <3> QED BY <3>1, <3>2
  <2> QED BY <2>1, <2>2
<1>5. \A g \in Early(c) : g \in Early(t) \/ (g = f.page /\ f.at # "lower")
  BY <1>4 DEF Early
<1> QED BY <1>5 DEF c

LEMMA PagesOfCalls ==
  ASSUME NEW s \in Seq(Frame)
  PROVE  PagesOf(s) \subseteq Pages
<1>1. \A i \in DOMAIN s : s[i] \in Frame
  BY ElementOfSeq, LenProperties
<1> QED BY <1>1 DEF PagesOf, Frame

LEMMA NothingEarly == Early(<<>>) = {}
<1>1. DOMAIN <<>> = {}
  OBVIOUS
<1> QED BY <1>1 DEF Early

\* A step of p leaves other processes with their calls and buffers.
LEMMA OthersUnwritten ==
  ASSUME NEW p \in Procs, \A q \in Procs : Unwritten(q), Unwritten(p)',
         \A q \in Procs \ {p} : bdb'[q] = bdb[q] /\ ast'[q] = ast[q]
  PROVE  \A q \in Procs : Unwritten(q)'
BY DEF Unwritten, Dirty, Has

\* A step of the main line, which has no call of down_grade on top of it.
LEMMA MainUnwritten ==
  ASSUME TypeOK, NEW p \in Procs, \A q \in Procs : Unwritten(q), ast[p] = <<>>, ast'[p] = <<>>,
         \A q \in Procs \ {p} : bdb'[q] = bdb[q] /\ ast'[q] = ast[q]
  PROVE  \A q \in Procs : Unwritten(q)'
<1>1. Unwritten(p)'
  BY NothingEarly DEF Unwritten
<1> QED BY <1>1, OthersUnwritten

LEMMA DownUnwritten ==
  ASSUME TypeOK, NEW p \in Procs, NEW g \in Pages, NEW B \in [Pages -> Buffer],
         NEW outer \in Seq(Frame), down_grade(p, g, B, outer),
         \A q \in Procs : Unwritten(q), \A h \in Pages : Dirty(p, h) => "dirty" \in B[h].flags,
         \A h \in Early(outer) : h \in Early(ast[p]) /\ h \in Pages
  PROVE  \A q \in Procs : Unwritten(q)'
<1>1. ASSUME NEW b \in Buffer, "dirty" \in B[g].flags => "dirty" \in b.flags,
             bdb' = [bdb EXCEPT ![p] = [B EXCEPT ![g] = b]], ast' = [ast EXCEPT ![p] = outer]
      PROVE  \A q \in Procs : Unwritten(q)'
  <2> DEFINE D == [B EXCEPT ![g] = b]
  <2>1. \A h \in Pages : D[h] = IF h = g THEN b ELSE B[h]
    OBVIOUS
  <2>2. bdb' = [bdb EXCEPT ![p] = D]
    BY <1>1
  <2> HIDE DEF D
  <2>3. /\ bdb'[p] = D /\ ast'[p] = outer
        /\ \A q \in Procs \ {p} : bdb'[q] = bdb[q] /\ ast'[q] = ast[q]
    BY <1>1, <2>2 DEF TypeOK
  <2>4. Unwritten(p)'
    BY <1>1, <2>1, <2>3 DEF Unwritten, Dirty, Has
  <2> QED BY <2>3, <2>4, OthersUnwritten
<1>2. ASSUME bdb' = [bdb EXCEPT ![p] = [B EXCEPT ![g] = With(@, {"blocking"})]],
             ast' = [ast EXCEPT ![p] = outer]
      PROVE  \A q \in Procs : Unwritten(q)'
  <2>1. With(B[g], {"blocking"}) \in Buffer
        /\ With(B[g], {"blocking"}).flags = B[g].flags \cup {"blocking"}
    BY BufferOps DEF Flags
  <2> QED BY <1>1, <1>2, <2>1
<1>3. ASSUME "dirty" \notin B[g].flags,
             bdb' = [bdb EXCEPT ![p] =
                       [B EXCEPT ![g] = Kept(Without(@, {"blocking"}), Downgraded(p, g))]],
             ast' = [ast EXCEPT ![p] = outer]
      PROVE  \A q \in Procs : Unwritten(q)'
  <2>1. Kept(Without(B[g], {"blocking"}), Downgraded(p, g)) \in Buffer
    <3>1. Without(B[g], {"blocking"}) \in Buffer /\ Blank \in Image
      BY BufferOps DEF Flags, Blank, Image
    <3> QED BY <3>1 DEF Kept, Buffer
  <2> QED BY <1>1, <1>3, <2>1
<1>4. ASSUME NEW f \in Frame, f.page = g, B[g].use = 0, "dirty" \in B[g].flags,
             bdb' = [bdb EXCEPT ![p] = [B EXCEPT ![g] = With(Latched(@), {"blocking"})]],
             ast' = [ast EXCEPT ![p] = <<f>> \o outer]
      PROVE  \A q \in Procs : Unwritten(q)'
  <2> DEFINE b == With(Latched(B[g]), {"blocking"})
             D == [B EXCEPT ![g] = b]
             c == <<f>> \o outer
  <2>1. "dirty" \in b.flags
    <3>1. Latched(B[g]) \in Buffer /\ Latched(B[g]).flags = B[g].flags
      BY <1>4, LatchOps
    <3> QED BY <1>4, <3>1, BufferOps DEF Flags
  <2>2. \A h \in Pages : D[h] = IF h = g THEN b ELSE B[h]
    OBVIOUS
  <2>3. bdb' = [bdb EXCEPT ![p] = D] /\ ast' = [ast EXCEPT ![p] = c]
    BY <1>4
  <2> HIDE DEF b, D, c
  <2>4. /\ bdb'[p] = D /\ ast'[p] = c
        /\ \A q \in Procs \ {p} : bdb'[q] = bdb[q] /\ ast'[q] = ast[q]
    BY <2>3 DEF TypeOK
  <2>5. \A h \in Early(c) : h \in Early(outer) \/ h = g
    BY <1>4, EarlyPushed DEF c
  <2>6. Unwritten(p)'
    BY <2>1, <2>2, <2>4, <2>5 DEF Unwritten, Dirty, Has
  <2> QED BY <2>4, <2>6, OthersUnwritten
<1>5. ASSUME "dirty" \in B[g].flags, B[g].use = 0,
             bdb' = [bdb EXCEPT ![p] = [B EXCEPT ![g] = With(Latched(@), {"blocking"})]],
             ast' = [ast EXCEPT ![p] =
               <<[page |-> g, at |-> "higher", todo |-> {e.hi : e \in Above(p, g)},
                  cur |-> NoPage, in_use |-> FALSE,
                  invalid |-> "not_valid" \in B[g].flags]>> \o outer]
      PROVE  \A q \in Procs : Unwritten(q)'
  <2> DEFINE f == [page |-> g, at |-> "higher", todo |-> {e.hi : e \in Above(p, g)},
                   cur |-> NoPage, in_use |-> FALSE, invalid |-> "not_valid" \in B[g].flags]
  <2>1. {e.hi : e \in Above(p, g)} \in SUBSET Pages
    BY DEF Above, Precedence, TypeOK
  <2>2. f \in Frame /\ f.page = g
    BY <2>1 DEF Frame
  <2>3. ast' = [ast EXCEPT ![p] = <<f>> \o outer]
    BY <1>5
  <2> HIDE DEF f
  <2> QED BY <1>4, <1>5, <2>2, <2>3
<1> QED BY <1>2, <1>3, <1>5 DEF down_grade

\* The innermost call goes on, and no buffer changes but its own.
LEMMA CallUnwritten ==
  ASSUME IInv, NEW p \in Procs, \A q \in Procs : Unwritten(q), ast[p] # <<>>,
         NEW f \in Frame, Continues(p, f), f.page = Call(p).page,
         f.at # "lower" => Call(p).at # "lower" /\ bdb' = bdb,
         \A q \in Procs \ {p} : bdb'[q] = bdb[q],
         \A h \in Pages \ {Call(p).page} : bdb'[p][h] = bdb[p][h]
  PROVE  \A q \in Procs : Unwritten(q)'
<1> DEFINE c == <<f>> \o Tail(ast[p])
<1>1. ast' = [ast EXCEPT ![p] = c]
  BY DEF Continues
<1>2. /\ Tail(ast[p]) \in Seq(Frame) /\ Early(Tail(ast[p])) \subseteq Early(ast[p])
      /\ Call(p).at # "lower" => Call(p).page \in Early(ast[p])
      /\ Early(Tail(ast[p])) \subseteq PagesOf(Tail(ast[p]))
      /\ PagesOf(Tail(ast[p])) = PagesOf(ast[p]) \ {Call(p).page}
  <2>1. /\ Tail(ast[p]) \in Seq(Frame) /\ Early(Tail(ast[p])) \subseteq Early(ast[p])
        /\ Call(p).at # "lower" => Call(p).page \in Early(ast[p])
    BY Parts, CallOf, EarlyOf DEF Call
  <2>2. Early(Tail(ast[p])) \subseteq PagesOf(Tail(ast[p]))
    BY DEF Early, PagesOf
  <2> QED BY <2>1, <2>2, CallOf
<1>3. \A h \in Early(c) : h \in Early(Tail(ast[p])) \/ (h = f.page /\ f.at # "lower")
  BY <1>2, EarlyPushed
<1> HIDE DEF c
<1>4. ast'[p] = c /\ \A q \in Procs \ {p} : ast'[q] = ast[q]
  BY <1>1, Parts DEF TypeOK
<1>5. \A h \in PagesOf(ast[p]) : h \in Pages
  BY Parts, PagesOfCalls
<1>6. Unwritten(p)'
  <2> SUFFICES ASSUME NEW h \in Early(c)
               PROVE  Dirty(p, h)'
    BY <1>4 DEF Unwritten
  <2>1. CASE h \in Early(Tail(ast[p]))
    <3>1. h \in Pages \ {Call(p).page} /\ Dirty(p, h)
      BY <1>2, <1>5, <2>1 DEF Unwritten
    <3> QED BY <3>1 DEF Dirty, Has
  <2>2. CASE h = f.page /\ f.at # "lower"
    BY <1>2, <2>2 DEF Unwritten, Dirty, Has
  <2> QED BY <1>3, <2>1, <2>2
<1> QED BY <1>4, <1>6, OthersUnwritten

\* The innermost call returns.
LEMMA ReturnUnwritten ==
  ASSUME IInv, NEW p \in Procs, \A q \in Procs : Unwritten(q), ast[p] # <<>>, Returns(p),
         \A q \in Procs \ {p} : bdb'[q] = bdb[q],
         \A h \in Pages : Dirty(p, h) => Dirty(p, h)'
  PROVE  \A q \in Procs : Unwritten(q)'
<1>1. ast' = [ast EXCEPT ![p] = Tail(@)]
  BY DEF Returns
<1>2. ast'[p] = Tail(ast[p]) /\ \A q \in Procs \ {p} : ast'[q] = ast[q]
  BY <1>1, Parts DEF TypeOK
<1>3. \A h \in Early(Tail(ast[p])) : h \in Early(ast[p]) /\ h \in Pages
  <2>1. \A h \in PagesOf(ast[p]) : h \in Pages
    BY Parts, PagesOfCalls
  <2> QED BY <2>1, Parts, EarlyOf
<1>4. Unwritten(p)'
  BY <1>2, <1>3 DEF Unwritten
<1> QED BY <1>2, <1>4, OthersUnwritten

LEMMA FetchUnwritten ==
  ASSUME Invariant, NEW p \in Procs, Fetch(p)
  PROVE  \A q \in Procs : Unwritten(q)'
<1>0. IInv /\ \A q \in Procs : Unwritten(q)
  BY DEF Invariant
<1>1. ASSUME NEW g \in Pages, CCH_fake(p, g)
      PROVE  \A q \in Procs : Unwritten(q)'
  <2>1. ast[p] = <<>> /\ ast' = ast /\ \A q \in Procs \ {p} : bdb'[q] = bdb[q]
    BY <1>1, <1>0, Parts DEF CCH_fake, Runs, TypeOK
  <2> QED BY <1>0, <2>1, Parts, MainUnwritten
<1>2. ASSUME NEW g \in Pages, NEW write \in BOOLEAN, CCH_fetch(p, g, write)
      PROVE  \A q \in Procs : Unwritten(q)'
  <2>1. ast[p] = <<>> /\ ast' = ast /\ \A q \in Procs \ {p} : bdb'[q] = bdb[q]
    BY <1>2, <1>0, Parts DEF CCH_fetch, Runs, TypeOK
  <2> QED BY <1>0, <2>1, Parts, MainUnwritten
<1>3. CASE FakeWritten(p)
  <2>1. ast[p] = <<>> /\ ast' = ast /\ \A q \in Procs \ {p} : bdb'[q] = bdb[q]
    BY <1>3, <1>0, Parts DEF FakeWritten, Runs, TypeOK
  <2> QED BY <1>0, <2>1, Parts, MainUnwritten
<1>4. CASE lock_buffer(p)
  <2>1. ast[p] = <<>> /\ ast' = ast
    BY <1>4 DEF lock_buffer, Runs
  <2>2. \A q \in Procs \ {p} : bdb'[q] = bdb[q]
    BY <1>4, <1>0, Parts DEF lock_buffer, Entered, TypeOK
  <2> QED BY <1>0, <2>1, <2>2, Parts, MainUnwritten
<1>5. CASE NoticeRepeated(p)
  <2>1. UNCHANGED <<ast, bdb>>
    BY <1>5 DEF NoticeRepeated
  <2> QED BY <1>0, <2>1 DEF Unwritten, Dirty, Has
<1>6. CASE LockGranted(p)
  <2>1. ast' = ast /\ Entered(p, TRUE)
    BY <1>6 DEF LockGranted
  <2>2. PICK g \in Pages : g = main[p].page
    BY <1>0, <1>6, Parts DEF LockGranted, MainOf, MainLine
  <2> DEFINE fake == Has(p, g, "faked")
             new == [has |-> disk[g].has \cup {main[p].number}, needs |-> {}]
             b == IF fake THEN [With(bdb[p][g], MarkFlags) EXCEPT !.img = new]
                  ELSE [Without(bdb[p][g], {"not_valid"}) EXCEPT !.img = disk[g]]
  <2>3. bdb' = [bdb EXCEPT ![p][g] = b]
    BY <2>1, <2>2 DEF Entered
  <2>4. "dirty" \in bdb[p][g].flags => "dirty" \in b.flags
    <3>1. bdb[p][g] \in Buffer /\ MarkFlags \in SUBSET Flags /\ {"not_valid"} \in SUBSET Flags
      BY <1>0, Parts DEF Flags, MarkFlags
    <3>2. /\ With(bdb[p][g], MarkFlags) \in Buffer
          /\ With(bdb[p][g], MarkFlags).flags = bdb[p][g].flags \cup MarkFlags
          /\ Without(bdb[p][g], {"not_valid"}) \in Buffer
          /\ Without(bdb[p][g], {"not_valid"}).flags = bdb[p][g].flags \ {"not_valid"}
      BY <3>1, BufferOps
    <3> QED BY <3>2 DEF Buffer
  <2> HIDE DEF b
  <2>5. /\ \A q \in Procs \ {p} : bdb'[q] = bdb[q]
        /\ \A h \in Pages : bdb'[p][h] = IF h = g THEN b ELSE bdb[p][h]
    BY <1>0, <2>3, Parts DEF TypeOK
  <2>6. \A h \in Early(ast[p]) : h \in Pages
    BY <1>0, Parts, PagesOfCalls DEF Early, PagesOf
  <2>7. Unwritten(p)'
    BY <1>0, <2>1, <2>4, <2>5, <2>6 DEF Unwritten, Dirty, Has
  <2> QED BY <1>0, <2>1, <2>5, <2>7, OthersUnwritten
<1> QED BY <1>1, <1>2, <1>3, <1>4, <1>5, <1>6 DEF Fetch

LEMMA ChangeUnwritten ==
  ASSUME Invariant, NEW p \in Procs, Change(p)
  PROVE  \A q \in Procs : Unwritten(q)'
<1>0. IInv /\ \A q \in Procs : Unwritten(q)
  BY DEF Invariant
<1>1. ASSUME NEW x \in Pages, CCH_precedence(p, x)
      PROVE  ast[p] = <<>> /\ ast' = ast /\ \A q \in Procs \ {p} : bdb'[q] = bdb[q]
  <2>1. ast[p] = <<>> /\ ast' = ast
    BY <1>1 DEF CCH_precedence, Runs
  <2>2. bdb' = bdb \/ \E w : bdb' = [bdb EXCEPT ![p][w] = Latched(@)]
    BY <1>1 DEF CCH_precedence
  <2>3. bdb \in [Procs -> [Pages -> Buffer]]
    BY <1>0, Parts DEF TypeOK
  <2> QED BY <2>1, <2>2, <2>3
<1>2. ASSUME CycleBroken(p)
      PROVE  ast[p] = <<>> /\ ast' = ast /\ bdb' = bdb
  BY <1>2 DEF CycleBroken, Runs
<1>3. ASSUME CCH_mark(p)
      PROVE  ast[p] = <<>> /\ ast' = ast /\ \A q \in Procs \ {p} : bdb'[q] = bdb[q]
  BY <1>3, <1>0, Parts DEF CCH_mark, Runs, TypeOK
<1>4. ast[p] = <<>> /\ ast' = ast /\ \A q \in Procs \ {p} : bdb'[q] = bdb[q]
  BY <1>1, <1>2, <1>3 DEF Change
<1> QED BY <1>0, <1>4, Parts, MainUnwritten

LEMMA WriteUnwritten ==
  ASSUME Invariant, NEW p \in Procs, Write(p)
  PROVE  \A q \in Procs : Unwritten(q)'
<1>0. IInv /\ \A q \in Procs : Unwritten(q)
  BY DEF Invariant
<1>1. ASSUME NEW F, WriteReturns(p, F)
      PROVE  \A q \in Procs \ {p} : bdb'[q] = bdb[q]
  BY <1>1, <1>0, Parts DEF WriteReturns, TypeOK
<1>2. CASE WriteFindsClean(p)
  <2>1. ast[p] = <<>> /\ ast' = ast
    BY <1>2 DEF WriteFindsClean, Runs
  <2>2. \A q \in Procs \ {p} : bdb'[q] = bdb[q]
    BY <1>1, <1>2 DEF WriteFindsClean
  <2> QED BY <1>0, <2>1, <2>2, Parts, MainUnwritten
<1>3. CASE PrecedenceDropped(p)
  <2>1. ast[p] = <<>> /\ ast' = ast /\ bdb' = bdb
    BY <1>3 DEF PrecedenceDropped, Runs
  <2> QED BY <1>0, <2>1, Parts, MainUnwritten
<1>4. CASE WritesHigher(p)
  <2>1. ast[p] = <<>> /\ ast' = ast /\ \A q \in Procs \ {p} : bdb'[q] = bdb[q]
    BY <1>4, <1>0, Parts DEF WritesHigher, Runs, TypeOK
  <2> QED BY <1>0, <2>1, Parts, MainUnwritten
<1>5. CASE write_page(p)
  <2>1. ast[p] = <<>> /\ ast' = ast
    BY <1>5 DEF write_page, MayWrite, Runs
  <2>2. \A q \in Procs \ {p} : bdb'[q] = bdb[q]
    BY <1>1, <1>5 DEF write_page
  <2> QED BY <1>0, <2>1, <2>2, Parts, MainUnwritten
<1>6. CASE WriteFails(p)
  <2>1. ast[p] = <<>>
    BY <1>6 DEF WriteFails, MayWrite, Runs
  <2>2. /\ ast'[p] = <<>>
        /\ \A q \in Procs \ {p} : bdb'[q] = bdb[q] /\ ast'[q] = ast[q]
    <3>1. CASE Gone(p)
      BY <1>0, <3>1, Parts DEF Gone, TypeOK
    <3>2. CASE CCH_unwind(p)
      BY <1>0, <2>1, <3>2, Parts DEF CCH_unwind, TypeOK
    <3> QED BY <1>6, <3>1, <3>2 DEF WriteFails
  <2> QED BY <1>0, <2>1, <2>2, Parts, MainUnwritten
<1> QED BY <1>2, <1>3, <1>4, <1>5, <1>6 DEF Write

LEMMA ReleaseUnwritten ==
  ASSUME Invariant, NEW p \in Procs, Release(p) \/ Transaction(p)
  PROVE  \A q \in Procs : Unwritten(q)'
<1>0. IInv /\ \A q \in Procs : Unwritten(q)
  BY DEF Invariant
<1>1. ASSUME CCH_release(p)
      PROVE  ast[p] = <<>> /\ ast' = ast /\ \A q \in Procs \ {p} : bdb'[q] = bdb[q]
  BY <1>1, <1>0, Parts DEF CCH_release, Runs, TypeOK
<1>2. ASSUME NEW g, Reuses(p, g)
      PROVE  \A q \in Procs \ {p} : bdb'[q] = bdb[q]
  BY <1>2, <1>0, Parts DEF Reuses, TypeOK
<1>3. ASSUME BufferReused(p)
      PROVE  ast[p] = <<>> /\ ast' = ast /\ \A q \in Procs \ {p} : bdb'[q] = bdb[q]
  BY <1>2, <1>3 DEF BufferReused, Runs
<1>4. ASSUME NEW g \in Pages, get_buffer(p, g)
      PROVE  ast[p] = <<>> /\ ast' = ast /\ \A q \in Procs \ {p} : bdb'[q] = bdb[q]
  <2>1. ast[p] = <<>> /\ ast' = ast
    BY <1>4 DEF get_buffer, Runs
  <2>2. CASE Reuses(p, g)
    BY <1>2, <2>1, <2>2
  <2>3. CASE bdb' = [bdb EXCEPT ![p][g] = Latched(Latched(@))]
    BY <1>0, <2>1, <2>3, Parts DEF TypeOK
  <2> QED BY <1>4, <2>2, <2>3 DEF get_buffer
<1>5. ASSUME Transaction(p)
      PROVE  ast[p] = <<>> /\ ast' = ast /\ \A q \in Procs \ {p} : bdb'[q] = bdb[q]
  <2>1. ast[p] = <<>> /\ ast' = ast
    BY <1>5 DEF Transaction, TRA_commit, btc_flush, Committed, TRA_rollback, Runs
  <2>2. CASE TRA_commit(p) \/ Committed(p)
    BY <2>1, <2>2 DEF TRA_commit, Committed
  <2>3. CASE btc_flush(p)
    BY <1>0, <2>1, <2>3, Parts DEF btc_flush, WriteStarts, TypeOK
  <2>4. CASE TRA_rollback(p)
    BY <1>0, <2>1, <2>4, Parts DEF TRA_rollback, TypeOK
  <2> QED BY <1>5, <2>2, <2>3, <2>4 DEF Transaction
<1>6. Reused \subseteq Pages
  BY ConstantAssumption
<1>7. ast[p] = <<>> /\ ast' = ast /\ \A q \in Procs \ {p} : bdb'[q] = bdb[q]
  BY <1>1, <1>3, <1>4, <1>5, <1>6 DEF Release
<1> QED BY <1>0, <1>7, Parts, MainUnwritten

LEMMA AstUnwritten ==
  ASSUME Invariant, NEW p \in Procs, Ast(p)
  PROVE  \A q \in Procs : Unwritten(q)'
<1>0. IInv /\ \A q \in Procs : Unwritten(q)
  BY DEF Invariant
<1>1. ASSUME NEW g \in Pages, blocking_ast_bdb(p, g)
      PROVE  \A q \in Procs : Unwritten(q)'
  <2>1. down_grade(p, g, bdb[p], <<>>) /\ <<>> \in Seq(Frame)
    BY <1>1, EmptySeq DEF blocking_ast_bdb
  <2> QED BY <1>0, <2>1, Parts, NothingEarly, DownUnwritten DEF Dirty, Has
<1>2. CASE DowngradesHigher(p)
  <2>1. PICK x \in HigherLeft(p) :
          down_grade(p, x, bdb[p],
            <<[Call(p) EXCEPT !.at = "called", !.cur = x, !.todo = @ \ {x}]>> \o Tail(ast[p]))
    BY <1>2 DEF DowngradesHigher
  <2> DEFINE f == [Call(p) EXCEPT !.at = "called", !.cur = x, !.todo = @ \ {x}]
             c == <<f>> \o Tail(ast[p])
  <2>2. ast[p] # <<>> /\ Call(p).at = "higher"
    BY <1>2 DEF DowngradesHigher, At
  <2>3. x \in Pages
    BY <1>0, <2>2, CallOf DEF HigherLeft, Frame
  <2>4. f \in Frame /\ f.page = Call(p).page
    BY <1>0, <2>2, <2>3, CallOf DEF Frame
  <2>5. down_grade(p, x, bdb[p], c)
    BY <2>1
  <2> HIDE DEF f
  <2>6. c \in Seq(Frame) /\ Tail(ast[p]) \in Seq(Frame)
    BY <1>0, <2>2, <2>4, CallOf
  <2>7. \A h \in Early(c) : h \in Early(Tail(ast[p])) \/ h = f.page
    BY <2>4, <2>6, EarlyPushed
  <2>8. \A h \in Early(c) : h \in Early(ast[p]) /\ h \in Pages
    <3>1. \A h \in Early(Tail(ast[p])) : h \in Early(ast[p])
      BY <1>0, <2>2, Parts, EarlyOf
    <3>2. Call(p).page \in Early(ast[p])
      BY <1>0, <2>2, Parts, EarlyOf DEF Call
    <3>3. Early(ast[p]) \subseteq Pages
      BY <1>0, <2>2, Parts, EarlyOf, PagesOfCalls
    <3> QED BY <2>4, <2>7, <3>1, <3>2, <3>3
  <2> HIDE DEF c
  <2> QED BY <1>0, <2>3, <2>5, <2>6, <2>8, Parts, DownUnwritten DEF Dirty, Has
<1>3. CASE HigherDone(p)
  <2>1. ast[p] # <<>> /\ Call(p).at = "called" /\ bdb' = bdb
    BY <1>3 DEF HigherDone, At
  <2> QED BY <1>0, <1>3, <2>1, HigherGoesOn, CallUnwritten
<1>4. CASE DowngradeDeferred(p)
  <2>1. /\ ast[p] # <<>> /\ Returns(p)
        /\ bdb' = [bdb EXCEPT ![p][Call(p).page] = Released(@)]
    BY <1>4 DEF DowngradeDeferred, At
  <2>2. Call(p).page \in Pages /\ bdb[p][Call(p).page] \in Buffer
    BY <1>0, <2>1, CallOf
  <2>3. Released(bdb[p][Call(p).page]).flags = bdb[p][Call(p).page].flags
    BY <2>2, LatchOps
  <2>4. /\ \A q \in Procs \ {p} : bdb'[q] = bdb[q]
        /\ \A h \in Pages : Dirty(p, h) => Dirty(p, h)'
    BY <1>0, <2>1, <2>2, <2>3, Parts DEF TypeOK, Dirty, Has
  <2> QED BY <1>0, <2>1, <2>4, ReturnUnwritten
<1>5. ASSUME NEW b, bdb' = [bdb EXCEPT ![p][Call(p).page] = b], ast[p] # <<>>, GoesLower(p)
      PROVE  \A q \in Procs : Unwritten(q)'
  <2> DEFINE f == [Call(p) EXCEPT !.at = "lower", !.todo = {e.low : e \in Below(p, Call(p).page)}]
  <2>1. Continues(p, f)
    BY <1>5 DEF GoesLower
  <2>2. f \in Frame /\ f.page = Call(p).page /\ f.at = "lower"
    <3>1. {e.low : e \in Below(p, Call(p).page)} \in SUBSET Pages
      BY <1>0, Parts DEF Below, Precedence
    <3> QED BY <1>0, <1>5, <3>1, CallOf DEF Frame
  <2>3. /\ \A q \in Procs \ {p} : bdb'[q] = bdb[q]
        /\ \A h \in Pages \ {Call(p).page} : bdb'[p][h] = bdb[p][h]
    BY <1>0, <1>5, Parts DEF TypeOK
  <2> HIDE DEF f
  <2> QED BY <1>0, <1>5, <2>1, <2>2, <2>3, CallUnwritten
<1>6. CASE DowngradeWrites(p)
  BY <1>5, <1>6 DEF DowngradeWrites, At
<1>7. CASE DowngradeFails(p)
  BY <1>5, <1>7 DEF DowngradeFails, At
<1>8. CASE DowngradesLower(p)
  <2> DEFINE invalid == Has(p, Call(p).page, "not_valid")
             Frm(y) == [Call(p) EXCEPT !.todo = @ \ {y}]
             Bs(y) == IF invalid THEN [bdb[p] EXCEPT ![y] = With(@, {"not_valid"})] ELSE bdb[p]
  <2>1. PICK x \in Call(p).todo :
          IF invalid \/ Has(p, x, "not_valid") \/ Has(p, x, "blocking")
          THEN down_grade(p, x, Bs(x), <<Frm(x)>> \o Tail(ast[p]))
          ELSE Continues(p, Frm(x)) /\ UNCHANGED <<bdb, lck>>
    BY <1>8 DEF DowngradesLower
  <2> DEFINE f == Frm(x)
             B == Bs(x)
             c == <<f>> \o Tail(ast[p])
  <2>2. ast[p] # <<>> /\ Call(p).at = "lower"
    BY <1>8 DEF DowngradesLower, At
  <2>3. x \in Pages
    BY <1>0, <2>2, CallOf DEF Frame
  <2>4. f \in Frame /\ f.page = Call(p).page /\ f.at = "lower"
    BY <1>0, <2>2, <2>3, CallOf DEF Frame
  <2>5. B \in [Pages -> Buffer] /\ \A h \in Pages : Dirty(p, h) => "dirty" \in B[h].flags
    <3>1. bdb[p] \in [Pages -> Buffer] /\ {"not_valid"} \in SUBSET Flags
      BY <1>0, Parts DEF Flags
    <3> DEFINE b == With(bdb[p][x], {"not_valid"})
    <3>2. b \in Buffer /\ b.flags = bdb[p][x].flags \cup {"not_valid"}
      BY <2>3, <3>1, BufferOps
    <3>3. B = IF invalid THEN [bdb[p] EXCEPT ![x] = b] ELSE bdb[p]
      OBVIOUS
    <3> HIDE DEF b, B
    <3> QED BY <2>3, <3>1, <3>2, <3>3 DEF Dirty, Has
  <2>6. CASE invalid \/ Has(p, x, "not_valid") \/ Has(p, x, "blocking")
    <3>1. down_grade(p, x, B, c)
      BY <2>1, <2>6
    <3> HIDE DEF f, B, Frm, Bs, invalid
    <3>2. c \in Seq(Frame) /\ Tail(ast[p]) \in Seq(Frame)
      BY <1>0, <2>2, <2>4, CallOf
    <3>3. \A h \in Early(c) : h \in Early(ast[p]) /\ h \in Pages
      <4>1. \A h \in Early(c) : h \in Early(Tail(ast[p]))
        BY <2>4, <3>2, EarlyPushed
      <4>2. Early(Tail(ast[p])) \subseteq Early(ast[p]) /\ Early(ast[p]) \subseteq Pages
        BY <1>0, <2>2, Parts, EarlyOf, PagesOfCalls
      <4> QED BY <4>1, <4>2
    <3> HIDE DEF c
    <3> QED BY <1>0, <2>3, <2>5, <3>1, <3>2, <3>3, Parts, DownUnwritten
  <2>7. CASE ~(invalid \/ Has(p, x, "not_valid") \/ Has(p, x, "blocking"))
    <3>1. Continues(p, f) /\ bdb' = bdb
      BY <2>1, <2>7
    <3> HIDE DEF f, B, Frm, Bs, invalid
    <3> QED BY <1>0, <2>2, <2>4, <3>1, CallUnwritten
  <2> QED BY <2>6, <2>7
<1>9. CASE LowerDone(p)
  <2>1. /\ ast[p] # <<>> /\ Returns(p)
        /\ bdb' = [bdb EXCEPT ![p][Call(p).page] = Without(Released(@), {"not_valid"})]
    BY <1>9 DEF LowerDone, At
  <2>2. Call(p).page \in Pages /\ bdb[p][Call(p).page] \in Buffer
        /\ bdb[p][Call(p).page].use = 1
    BY <1>0, <2>1, CallOf
  <2>3. Without(Released(bdb[p][Call(p).page]), {"not_valid"}).flags
          = bdb[p][Call(p).page].flags \ {"not_valid"}
    <3>1. /\ Released(bdb[p][Call(p).page]) \in Buffer
          /\ Released(bdb[p][Call(p).page]).flags = bdb[p][Call(p).page].flags
      BY <2>2, LatchOps
    <3> QED BY <3>1, BufferOps DEF Flags
  <2>4. /\ \A q \in Procs \ {p} : bdb'[q] = bdb[q]
        /\ \A h \in Pages : Dirty(p, h) => Dirty(p, h)'
    BY <1>0, <2>1, <2>2, <2>3, Parts DEF TypeOK, Dirty, Has
  <2> QED BY <1>0, <2>1, <2>4, ReturnUnwritten
<1> QED BY <1>1, <1>2, <1>3, <1>4, <1>6, <1>7, <1>8, <1>9 DEF Ast

-----------------------------------------------------------------------------
(* The invariant holds.                                                    *)

LEMMA InitKeeps ==
  ASSUME Init
  PROVE  Invariant
<1>1. /\ <<>> \in Seq(Pages) /\ <<>> \in Seq(Frame) /\ MaxUpdate \in Nat
      /\ LCK_none \in Levels /\ LCK_none + LCK_none <= LCK_write
  BY ConstantAssumption, EmptySeq DEF Levels, LCK_none, LCK_write
<1>2. TypeOK
  <2>1. Blank \in Image /\ NewBuffer \in Buffer
    BY DEF Blank, Image, NewBuffer, Buffer
  <2>2. Idle \in MainLine /\ NewTra \in [made : SUBSET Updates, invalidated : BOOLEAN]
    BY <1>1 DEF Idle, MainLine, NewTra
  <2> QED BY <1>1, <2>1, <2>2 DEF Init, TypeOK
<1>3. ASSUME NEW p \in Procs
      PROVE  Own(p) /\ Unwritten(p)
  <2>1. ast[p] = <<>> /\ main[p] = Idle /\ \A g \in Pages : bdb[p][g] = NewBuffer
    BY DEF Init
  <2>2. \A g \in Pages : Line(p, g) = 0
    BY <2>1, ConstantAssumption DEF Line, One, Taking, Idle
  <2>3. DOMAIN <<>> = {} /\ Len(<<>>) = 0
    BY EmptySeq
  <2>4. LatchesOf(p)
    BY <2>1, <2>2, <2>3 DEF LatchesOf, Apart, PagesOf, One, NewBuffer
  <2>5. MainOf(p) /\ CleanOf(p) /\ WindowOf(p)
    BY <2>1, <2>3 DEF MainOf, CleanOf, WindowOf, InWindow, Idle
  <2> QED BY <2>1, <2>4, <2>5, NothingEarly DEF Own, Unwritten
<1>4. Caching
  BY <1>1 DEF Init, Caching, LocksFit, ImagesFit, Dirty, Has, NewBuffer
<1>5. History
  BY DEF Init, History, NumbersFit, UpdatesFit, CommittedInFile, LossNoticed, Past, Blank,
         NewBuffer, NewTra, Idle
<1>6. NoCycle
  BY DEF Init, NoCycle
<1> QED BY <1>2, <1>3, <1>4, <1>5, <1>6 DEF Invariant, IInv, Control

LEMMA StepKeeps ==
  ASSUME Invariant, NEW p \in Procs,
         Fetch(p) \/ Change(p) \/ Write(p) \/ Release(p) \/ Transaction(p) \/ Ast(p)
  PROVE  Invariant'
<1>1. IInv /\ Unwritten(p)
  BY DEF Invariant
<1>2. ASSUME Fetch(p)
      PROVE  IInv' /\ \A q \in Procs : Unwritten(q)'
  <2>1. IInv'
    BY <1>1, <1>2, FakeKeeps, FetchKeeps, FakeWrittenKeeps, LockBufferKeeps, NoticeKeeps,
       GrantedKeeps DEF Fetch
  <2> QED BY <1>2, <2>1, FetchUnwritten
<1>3. ASSUME Change(p)
      PROVE  IInv' /\ \A q \in Procs : Unwritten(q)'
  <2>1. IInv'
    BY <1>1, <1>3, PrecedenceKeeps, BrokenKeeps, MarkKeeps DEF Change
  <2> QED BY <1>3, <2>1, ChangeUnwritten
<1>4. ASSUME Write(p)
      PROVE  IInv' /\ \A q \in Procs : Unwritten(q)'
  <2>1. IInv'
    BY <1>1, <1>4, FindsCleanKeeps, DroppedKeeps, HigherKeeps, WriteKeeps, FailsKeeps DEF Write
  <2> QED BY <1>4, <2>1, WriteUnwritten
<1>5. ASSUME Release(p) \/ Transaction(p)
      PROVE  IInv' /\ \A q \in Procs : Unwritten(q)'
  <2>1. ASSUME NEW g \in Reused, get_buffer(p, g)
        PROVE  IInv'
    <3>1. g \in Pages
      BY ConstantAssumption
    <3> QED BY <1>1, <2>1, <3>1, TakingKeeps, TakenKeeps
  <2>2. ASSUME Release(p)
        PROVE  IInv'
    BY <1>1, <2>1, <2>2, ReleaseKeeps, ReusedKeeps DEF Release
  <2>3. ASSUME Transaction(p)
        PROVE  IInv'
    BY <1>1, <2>3, CommitKeeps, FlushKeeps, CommittedKeeps, RollbackKeeps DEF Transaction
  <2> QED BY <1>5, <2>2, <2>3, ReleaseUnwritten
<1>6. ASSUME Ast(p)
      PROVE  IInv' /\ \A q \in Procs : Unwritten(q)'
  <2>1. IInv'
    BY <1>1, <1>6, BlockingKeeps, DowngradesHigherKeeps, HigherDoneKeeps, DeferredKeeps,
       DowngradeWritesKeeps, DowngradeFailsKeeps, DowngradesLowerKeeps, LowerDoneKeeps DEF Ast
  <2> QED BY <1>6, <2>1, AstUnwritten
<1>7. IInv' /\ \A q \in Procs : Unwritten(q)'
  BY <1>2, <1>3, <1>4, <1>5, <1>6
<1> QED BY <1>7 DEF Invariant

LEMMA StutterKeeps ==
  ASSUME Invariant, UNCHANGED vars
  PROVE  Invariant'
<1>1. /\ disk' = disk /\ lck' = lck /\ bdb' = bdb /\ pre' = pre /\ main' = main /\ ast' = ast
      /\ posted' = posted /\ tra' = tra /\ committed' = committed /\ lost' = lost
      /\ clock' = clock
  BY DEF vars
<1>2. TypeOK' /\ NoCycle' /\ Caching'
  BY <1>1 DEF Invariant, IInv, Control, TypeOK, NoCycle, Over, Caching, LocksFit, ImagesFit,
              Dirty, Has
<1>3. History'
  BY <1>1 DEF Invariant, IInv, History, NumbersFit, UpdatesFit, CommittedInFile, LossNoticed,
              Past, Unseen, Durable, Dirty, Has
<1>4. ASSUME NEW p \in Procs
      PROVE  Own(p)' /\ Unwritten(p)'
  <2>1. Own(p) /\ Unwritten(p)
    BY DEF Invariant, IInv, Control
  <2>2. Own(p)'
    BY <1>1, <2>1, SameOwn
  <2>3. Unwritten(p)'
    BY <1>1, <2>1 DEF Unwritten, Dirty, Has
  <2> QED BY <2>2, <2>3
<1> QED BY <1>2, <1>3, <1>4 DEF Invariant, IInv, Control

\* Every state the caches get into satisfies the inductive invariant: latches are the
\* use counts of main line and AST calls together, locks say which images are good.
THEOREM Invariance == Spec => []Invariant
<1>1. Init => Invariant
  BY InitKeeps
<1>2. Invariant /\ [Next]_vars => Invariant'
  BY StepKeeps, StutterKeeps DEF Next
<1> QED BY <1>1, <1>2, PTL DEF Spec

\* The state has its type: no buffer is latched more than twice, however many calls of
\* down_grade are on top of a main line (cch.c counts bdb_use_count without a bound).
THEOREM TypeCorrect == Spec => []TypeOK
<1>1. Invariant => TypeOK
  BY DEF Invariant, IInv, Control
<1> QED BY <1>1, Invariance, PTL

LEMMA HeldCurrent ==
  ASSUME Invariant
  PROVE  HeldIsCurrent
<1>1. IInv /\ TypeOK /\ Caching /\ \A p \in Procs : WindowOf(p)
  BY DEF Invariant, IInv, Control, Own
<1>2. ASSUME NEW p \in Procs, NEW q \in Procs, NEW g \in Pages, Dirty(p, g), Dirty(q, g)
      PROVE  p = q
  BY <1>1, <1>2, DirtyAlone
<1>3. ASSUME NEW p \in Procs, main[p].pc = "held"
      PROVE  bdb[p][main[p].page].img = Current(main[p].page)
  <2>1. PICK g \in Pages : g = main[p].page
    BY <1>1, <1>3, Parts DEF MainOf, MainLine
  <2>2. lck[p][g] # LCK_none
    BY <1>1, <1>3, <2>1, ConstantAssumption DEF WindowOf, InWindow
  <2>3. CASE \E q \in Procs : Dirty(q, g)
    <3>1. PICK q \in Procs : q = (CHOOSE r \in Procs : Dirty(r, g)) /\ Dirty(q, g)
      BY <2>3
    <3>2. q = p
      BY <1>1, <2>2, <3>1, DirtyAlone
    <3> QED BY <2>1, <2>3, <3>1, <3>2 DEF Current
  <2>4. CASE ~\E q \in Procs : Dirty(q, g)
    BY <1>1, <2>1, <2>2, <2>4 DEF Current, Caching, ImagesFit
  <2> QED BY <2>3, <2>4
<1> QED BY <1>2, <1>3 DEF HeldIsCurrent

\* A window shows the current image of its page, and one process at most has the page
\* dirty: down_grade lowers no lock under a latched buffer, lock_buffer reads again.
THEOREM HeldIsAlwaysCurrent == Spec => []HeldIsCurrent
<1>1. Invariant => HeldIsCurrent
  BY HeldCurrent
<1> QED BY <1>1, Invariance, PTL

\* Precedence that counts never has a cycle, whatever ASTs write or mark while the main
\* line of check_precedence breaks one.
THEOREM NeverACycle == Spec => []NoCycle
<1>1. Invariant => NoCycle
  BY DEF Invariant, IInv
<1> QED BY <1>1, Invariance, PTL

\* All that btc_flush and the ASTs leave behind a commit is in the file, but for what a
\* failed write lost.
THEOREM CommitsAreInFile == Spec => []CommittedInFile
<1>1. Invariant => CommittedInFile
  BY DEF Invariant, IInv, History
<1> QED BY <1>1, Invariance, PTL

\* Whose update down_grade gives up is told of it: no other transaction's update is in
\* the buffer, and a dirty buffer without "changed" has nothing of its own.
THEOREM LossIsNoticed == Spec => []LossNoticed
<1>1. Invariant => LossNoticed
  BY DEF Invariant, IInv, History
<1> QED BY <1>1, Invariance, PTL
=============================================================================
