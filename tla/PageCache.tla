----------------------------- MODULE PageCache -----------------------------
(***************************************************************************)
(* The page caches of InterBase processes (jrd/cch.c): buffers, the locks  *)
(* on pages and their blocking ASTs, and the precedence between pages.     *)
(* The build is Classic on UNIX: a process has one thread, latches are use *)
(* counts, and an AST routine runs on top of whatever the process does.    *)
(*                                                                         *)
(* The image of a page is the set of updates it contains and of those it   *)
(* refers to. Every update is numbered; Updates bounds an instance.        *)
(***************************************************************************)
EXTENDS Naturals, FiniteSets, Sequences

CONSTANTS
  Procs,      \* processes attached to the database
  Updaters,   \* those of them that change pages
  Pages,      \* page numbers
  NoPage,
  MaxUpdate,  \* updates are numbered up to it
  Low,        \* pages that are made to point to others
  Anew,       \* pages that are freed and allocated anew
  Reused,     \* pages whose buffers are taken for other pages
  GivesUp,    \* may related give up its search (PRE_SEARCH_LIMIT)?
  Failing     \* pages whose write may fail

Updates == 1..MaxUpdate

ASSUME ConstantAssumption ==
  /\ NoPage \notin Pages /\ MaxUpdate \in Nat
  /\ Low \subseteq Pages /\ Anew \subseteq Pages /\ Reused \subseteq Pages
  /\ Failing \subseteq Pages
  /\ Updaters \subseteq Procs /\ GivesUp \subseteq BOOLEAN

VARIABLES
  disk,       \* the database file
  lck,        \* lck_logical of the lock on each page, by process
  bdb,        \* the buffers of each process
  pre,        \* its precedence blocks
  main,       \* its main line
  ast,        \* the calls of down_grade that are on its stack
  posted,     \* blocking ASTs not yet delivered
  tra,        \* its transaction
  committed,  \* updates of committed transactions (history)
  lost,       \* updates given up because a page could not be written (history)
  clock       \* number of the last update (history)

vars == <<disk, lck, bdb, pre, main, ast, posted, tra, committed, lost, clock>>

Image == [has : SUBSET Updates, needs : SUBSET Updates]
Blank == [has |-> {}, needs |-> {}]

LCK_none == 0
LCK_read == 1
LCK_write == 2
Levels == LCK_none..LCK_write

\* bdb_flags, with BDB_blocking of bdb_ast_flags and "changed" for bdb_transactions.
Flags == {"dirty", "writer", "marked", "faked", "not_valid", "blocking", "changed"}
Buffer == [img : Image, flags : SUBSET Flags, use : 0..2]
Precedence == [hi : Pages, low : Pages, cleared : BOOLEAN]
MainLine ==
  [pc : {"idle", "lock", "waiting", "held", "write", "insert", "flush",
         "fake", "reuse"},
   page : Pages \cup {NoPage}, want : Levels, needs : SUBSET Updates,
   number : 0..MaxUpdate, hi : Pages \cup {NoPage}, stack : Seq(Pages),
   back : {"idle", "held", "insert", "flush", "fake", "reuse"}]
Frame ==
  [page : Pages, at : {"higher", "called", "lower"}, todo : SUBSET Pages,
   cur : Pages \cup {NoPage}, in_use : BOOLEAN, invalid : BOOLEAN]

NewBuffer == [img |-> Blank, flags |-> {}, use |-> 0]
Idle == [pc |-> "idle", page |-> NoPage, want |-> LCK_none, needs |-> {},
         number |-> 0, hi |-> NoPage, stack |-> <<>>, back |-> "idle"]
NewTra == [made |-> {}, invalidated |-> FALSE]

TypeOK ==
  /\ disk \in [Pages -> Image]
  /\ lck \in [Procs -> [Pages -> Levels]]
  /\ bdb \in [Procs -> [Pages -> Buffer]]
  /\ pre \in [Procs -> SUBSET Precedence]
  /\ main \in [Procs -> MainLine]
  /\ ast \in [Procs -> Seq(Frame)]
  /\ posted \in [Procs -> SUBSET Pages]
  /\ tra \in [Procs -> [made : SUBSET Updates, invalidated : BOOLEAN]]
  /\ committed \subseteq Updates /\ lost \subseteq Updates /\ clock \in 0..MaxUpdate

Init ==
  /\ disk = [g \in Pages |-> Blank]
  /\ lck = [p \in Procs |-> [g \in Pages |-> LCK_none]]
  /\ bdb = [p \in Procs |-> [g \in Pages |-> NewBuffer]]
  /\ pre = [p \in Procs |-> {}]
  /\ main = [p \in Procs |-> Idle]
  /\ ast = [p \in Procs |-> <<>>]
  /\ posted = [p \in Procs |-> {}]
  /\ tra = [p \in Procs |-> NewTra]
  /\ committed = {} /\ lost = {} /\ clock = 0

-----------------------------------------------------------------------------
(* Helpers.                                                                *)

Has(p, g, f) == f \in bdb[p][g].flags
Dirty(p, g) == Has(p, g, "dirty")
InUse(p, g) == bdb[p][g].use > 0
Durable == UNION {disk[g].has : g \in Pages}

Above(p, g) == {e \in pre[p] : e.low = g}
Below(p, g) == {e \in pre[p] : e.hi = g}

\* bdb is a buffer at the moment it is latched once more, or released once.
Latched(b) == [b EXCEPT !.use = @ + 1]
ReleasedNot(b) == b
Released(b) == [b EXCEPT !.use = @ - 1]
Without(b, F) == [b EXCEPT !.flags = @ \ F]
With(b, F) == [b EXCEPT !.flags = @ \cup F]

\* The locks of other processes on a page, and the levels they wait for.
Others(p, g, level) == {q \in Procs \ {p} : lck[q][g] + level > LCK_write}
Wanted(p, g) == {main[q].want : q \in {q \in Procs \ {p} :
                                         main[q].pc = "waiting" /\ main[q].page = g}}

\* LCK_downgrade: the highest level that coexists with what others wait for.
Downgraded(p, g) ==
  IF \A w \in Wanted(p, g) : lck[p][g] + w <= LCK_write THEN lck[p][g]
  ELSE IF lck[p][g] = LCK_write /\ LCK_write \notin Wanted(p, g) THEN LCK_read
  ELSE LCK_none

\* Those in the way of a lock are sent a blocking notice.
BlockersPosted(p, g, level) ==
  [q \in Procs |-> IF q \in Others(p, g, level)
                   THEN posted[q] \cup {g} ELSE posted[q]]

\* The main line goes on when no AST routine is on top of it.
Runs(p, pc) == ast[p] = <<>> /\ main[p].pc = pc

\* release_bdb with repost: the AST is called again for a buffer that it found in use.
Reposts(p, G) == {g \in G : Has(p, g, "blocking")}

-----------------------------------------------------------------------------
(* Fetching a page.                                                        *)

\* get_buffer: the buffer is latched before the lock is looked at.
CCH_fetch(p, g, write) ==
  /\ Runs(p, "idle") /\ (write => p \in Updaters)
  /\ bdb' = [bdb EXCEPT ![p][g] =
               With(Without(Latched(@), {"faked"}), IF write THEN {"writer"} ELSE {})]
  /\ main' = [main EXCEPT ![p].pc = "lock", ![p].page = g]
  /\ UNCHANGED <<disk, lck, pre, ast, posted, tra, committed, lost, clock>>

\* CCH_fake: a page is allocated anew. A dirty buffer is written first, a clean one
\* loses the precedence that an AST left over.
Faking(b) == [b EXCEPT !.flags = {"writer", "faked"} \cup (@ \cap {"blocking"})]
CCH_fake(p, g) ==
  /\ Runs(p, "idle") /\ p \in Updaters /\ g \in Anew
  /\ clock < MaxUpdate /\ clock' = clock + 1
  /\ LET at == [main[p] EXCEPT !.page = g, !.number = clock'] IN
     IF Dirty(p, g)
     THEN /\ bdb' = [bdb EXCEPT ![p][g] = Latched(Latched(@))]
          /\ main' = [main EXCEPT ![p] =
                        [at EXCEPT !.pc = "write", !.stack = <<g>>, !.back = "fake"]]
          /\ UNCHANGED pre
     ELSE /\ bdb' = [bdb EXCEPT ![p][g] = Faking(Latched(@))]
          /\ main' = [main EXCEPT ![p] = [at EXCEPT !.pc = "lock"]]
          /\ pre' = [pre EXCEPT ![p] = @ \ Below(p, g)]
  /\ UNCHANGED <<disk, lck, ast, posted, tra, committed, lost>>
FakeWritten(p) ==
  /\ Runs(p, "fake")
  /\ bdb' = [bdb EXCEPT ![p][main[p].page] = Faking(@)]
  /\ main' = [main EXCEPT ![p].pc = "lock"]
  /\ UNCHANGED <<disk, lck, pre, ast, posted, tra, committed, lost, clock>>

MarkFlagsUnchanged == {"dirty", "marked"}
MarkFlags == {"dirty", "marked", "changed"}

\* The lock is there: the page is read unless it is in the buffer (CCH_fetch_page), or
\* it is allocated anew, with an image that refers to nothing.
Entered(p, read) ==
  LET g == main[p].page
      fake == Has(p, g, "faked")
      new == [has |-> disk[g].has \cup {main[p].number}, needs |-> {}] IN
  /\ bdb' = [bdb EXCEPT ![p][g] =
               IF fake THEN [With(@, MarkFlags) EXCEPT !.img = new]
               ELSE IF read THEN [Without(@, {"not_valid"}) EXCEPT !.img = disk[g]]
               ELSE @]
  /\ tra' = IF fake THEN [tra EXCEPT ![p].made = @ \cup {main[p].number}] ELSE tra
  /\ main' = [main EXCEPT ![p].pc = "held", ![p].want = LCK_none, ![p].number = 0]

\* lock_buffer: what is held suffices, or a conversion is tried without waiting,
\* or the lock is given up and asked for anew.
LevelNeededToRead(p, g) == IF Dirty(p, g) THEN LCK_write ELSE LCK_read
LevelNeeded(p, g) == IF Dirty(p, g) \/ Has(p, g, "writer") THEN LCK_write ELSE LCK_read
lock_buffer(p) ==
  /\ Runs(p, "lock")
  /\ LET g == main[p].page
         level == LevelNeeded(p, g) IN
     \/ /\ lck[p][g] >= level
        /\ Entered(p, FALSE)
        /\ UNCHANGED <<lck, posted>>
     \/ /\ lck[p][g] = LCK_read /\ level = LCK_write /\ Others(p, g, LCK_write) = {}
        /\ lck' = [lck EXCEPT ![p][g] = LCK_write]
        /\ Entered(p, FALSE)
        /\ UNCHANGED posted
     \/ /\ lck[p][g] < level
        /\ lck[p][g] = LCK_read => Others(p, g, LCK_write) # {}
        /\ lck' = [lck EXCEPT ![p][g] = LCK_none]
        /\ bdb' = [bdb EXCEPT ![p][g].img = Blank]
        /\ main' = [main EXCEPT ![p].pc = "waiting", ![p].want = level]
        /\ posted' = [BlockersPosted(p, g, level) EXCEPT ![p] = @ \ {g}]
        /\ UNCHANGED tra
  /\ UNCHANGED <<disk, pre, ast, committed, lost, clock>>

\* wait_for_request posts its blockers again when it has waited for a while.
NoticeRepeated(p) ==
  /\ main[p].pc = "waiting"
  /\ posted' = BlockersPosted(p, main[p].page, main[p].want)
  /\ UNCHANGED <<disk, lck, bdb, pre, main, ast, tra, committed, lost, clock>>

\* The lock is granted, whatever runs on top of the main line; who waits for the
\* same page now waits for this process.
LockGranted(p) ==
  /\ main[p].pc = "waiting"
  /\ LET g == main[p].page IN
     /\ Others(p, g, main[p].want) = {}
     /\ lck' = [lck EXCEPT ![p][g] = main[p].want]
     /\ posted' = [posted EXCEPT ![p] =
          IF \E w \in Wanted(p, g) : w + main[p].want > LCK_write
          THEN @ \cup {g} ELSE @]
  /\ Entered(p, TRUE)
  /\ UNCHANGED <<disk, pre, ast, committed, lost, clock>>

-----------------------------------------------------------------------------
(* Precedence, and the update of a page.                                   *)

\* There is a way from hi down to low over precedence that is not cleared.
Over(p, hi, low) ==
  \A S \in SUBSET Pages :
    hi \in S /\ (\A e \in pre[p] : ~e.cleared /\ e.hi \in S => e.low \in S) => low \in S

\* related finds the way, finds none, or gives up.
RelatedNever(p, hi, low, unknown) == FALSE
Related(p, hi, low, unknown) == (hi # low /\ Over(p, hi, low)) \/ unknown

InsertedCleared(p, hi, low) ==
  [pre EXCEPT ![p] = @ \cup {[hi |-> hi, low |-> low, cleared |-> TRUE]}]
Inserted(p, hi, low) ==
  [pre EXCEPT ![p] = @ \cup {[hi |-> hi, low |-> low, cleared |-> FALSE]}]

\* check_precedence: the page in the window is to be written after page x, which it
\* is made to point to. A cycle is broken by writing the page itself.
CCH_precedence(p, x) ==
  /\ Runs(p, "held")
  /\ LET g == main[p].page IN
     /\ g \in Low /\ x # g /\ Has(p, g, "writer")
     /\ ~Has(p, g, "marked")
     /\ \E unknown \in GivesUp :
          LET known == Over(p, x, g)
              gaveUp == unknown /\ Below(p, x) # {} /\ ~known
              cycle == Related(p, g, x, unknown) /\ Below(p, g) # {}
              writes == IF gaveUp THEN x ELSE g
              next == IF ~Dirty(p, x) \/ known \/ gaveUp THEN "held" ELSE "insert"
              write == Dirty(p, x) /\ (gaveUp \/ (~known /\ cycle)) IN
          /\ main' = [main EXCEPT ![p].needs = @ \cup bdb[p][x].img.has,
                        ![p].hi = IF write /\ next = "insert" THEN x ELSE NoPage,
                        ![p].pc = IF write THEN "write" ELSE "held",
                        ![p].stack = IF write THEN <<writes>> ELSE <<>>,
                        ![p].back = IF write THEN next ELSE "idle"]
          /\ bdb' = IF write THEN [bdb EXCEPT ![p][writes] = Latched(@)] ELSE bdb
          /\ pre' = IF write \/ next = "held" THEN pre ELSE Inserted(p, x, g)
  /\ UNCHANGED <<disk, lck, ast, posted, tra, committed, lost, clock>>
CycleBroken(p) ==
  /\ Runs(p, "insert")
  /\ pre' = Inserted(p, main[p].hi, main[p].page)
  /\ main' = [main EXCEPT ![p].pc = "held", ![p].hi = NoPage]
  /\ UNCHANGED <<disk, lck, bdb, ast, posted, tra, committed, lost, clock>>

\* CCH_mark, and the change that follows.
CCH_mark(p) ==
  /\ Runs(p, "held")
  /\ LET g == main[p].page
         old == bdb[p][g].img
         new == [has |-> old.has \cup {clock'}, needs |-> old.needs \cup main[p].needs] IN
     /\ Has(p, g, "writer") /\ ~Has(p, g, "marked")
     /\ clock < MaxUpdate /\ clock' = clock + 1
     /\ bdb' = [bdb EXCEPT ![p][g] = [With(@, MarkFlags) EXCEPT !.img = new]]
  /\ tra' = [tra EXCEPT ![p].made = @ \cup {clock'}]
  /\ main' = [main EXCEPT ![p].needs = {}]
  /\ UNCHANGED <<disk, lck, pre, ast, posted, committed, lost>>

-----------------------------------------------------------------------------
(* Writing a buffer.                                                       *)

Top(p) == Head(main[p].stack)

\* write_buffer is about to write page g, and to go on at back.
WriteStarts(p, g, back, B) ==
  /\ bdb' = [bdb EXCEPT ![p] = [B EXCEPT ![g] = Latched(@)]]
  /\ main' = [main EXCEPT ![p].pc = "write", ![p].stack = <<g>>, ![p].back = back]

\* It is done with the page on top: precedence over lower pages is cleared, an AST
\* that was put off is posted again, and the page below has its turn.
WriteReturns(p, flags) ==
  LET b == Top(p)
      below == Tail(main[p].stack)
      left == [Released(bdb[p][b]) EXCEPT !.flags = flags]
      lows == {e.low : e \in {e \in Below(p, b) : ~e.cleared}} IN
  /\ bdb' = [bdb EXCEPT ![p] =
               [g \in Pages |-> IF g = b THEN left
                               ELSE IF below # <<>> /\ g = Head(below) THEN Latched(@[g])
                               ELSE @[g]]]
  /\ pre' = [pre EXCEPT ![p] = @ \ Below(p, b)]
  /\ posted' = [posted EXCEPT ![p] = @ \cup Reposts(p, lows)
                  \cup (IF left.use = 0 /\ "blocking" \in flags THEN {b} ELSE {})]
  /\ main' = [main EXCEPT ![p].stack = below, ![p].pc = IF below = <<>> THEN main[p].back ELSE "write",
                ![p].back = IF below = <<>> THEN "idle" ELSE @]

\* Somebody else has written it meanwhile.
WriteFindsClean(p) ==
  /\ Runs(p, "write")
  /\ ~Dirty(p, Top(p))
  /\ WriteReturns(p, bdb[p][Top(p)].flags)
  /\ UNCHANGED <<disk, lck, ast, tra, committed, lost, clock>>

PrecedenceDropped(p) ==
  /\ Runs(p, "write")
  /\ Dirty(p, Top(p))
  /\ \E e \in Above(p, Top(p)) : e.cleared /\ pre' = [pre EXCEPT ![p] = @ \ {e}]
  /\ UNCHANGED <<disk, lck, bdb, main, ast, posted, tra, committed, lost, clock>>

WritesHigher(p) ==
  /\ Runs(p, "write")
  /\ Dirty(p, Top(p))
  /\ \E e \in Above(p, Top(p)) :
       /\ ~e.cleared
       /\ bdb' = [bdb EXCEPT ![p][Top(p)] = Released(@), ![p][e.hi] = Latched(@)]
       /\ main' = [main EXCEPT ![p].stack = <<e.hi>> \o @]
  /\ UNCHANGED <<disk, lck, pre, ast, posted, tra, committed, lost, clock>>

\* write_page; the page is latched until it is released below.
MayWrite(p) ==
  /\ Runs(p, "write")
  /\ Dirty(p, Top(p)) /\ Above(p, Top(p)) = {}
write_page(p) ==
  /\ MayWrite(p) /\ ~Has(p, Top(p), "not_valid")
  /\ disk' = [disk EXCEPT ![Top(p)] = bdb[p][Top(p)].img]
  /\ WriteReturns(p, bdb[p][Top(p)].flags \ {"dirty", "changed"})
  /\ UNCHANGED <<lck, ast, tra, committed, lost, clock>>

\* A process is gone, with its caches and locks.
Gone(p) ==
  /\ bdb' = [bdb EXCEPT ![p] = [g \in Pages |-> NewBuffer]]
  /\ lck' = [lck EXCEPT ![p] = [g \in Pages |-> LCK_none]]
  /\ pre' = [pre EXCEPT ![p] = {}]
  /\ main' = [main EXCEPT ![p] = Idle]
  /\ ast' = [ast EXCEPT ![p] = <<>>]
  /\ posted' = [posted EXCEPT ![p] = {}]
  /\ tra' = [tra EXCEPT ![p] = NewTra]
  /\ UNCHANGED <<disk, committed, lost, clock>>

\* CCH_unwind: all buffers are released.
CCH_unwind(p) ==
  LET held == {g \in Pages : InUse(p, g)} IN
  /\ bdb' = [bdb EXCEPT ![p] = [g \in Pages |->
               IF g \in held THEN [Without(@[g], {"writer"}) EXCEPT !.use = 0] ELSE @[g]]]
  /\ posted' = [posted EXCEPT ![p] = @ \cup Reposts(p, held)]
  /\ main' = [main EXCEPT ![p] = Idle]
  /\ UNCHANGED <<disk, lck, pre, ast, tra, committed, lost, clock>>

\* The write fails: an error to the caller, or a bugcheck if a page is marked.
WriteFails(p) ==
  /\ MayWrite(p) /\ (Has(p, Top(p), "not_valid") \/ Top(p) \in Failing)
  /\ IF \E g \in Pages : InUse(p, g) /\ Has(p, g, "marked") THEN Gone(p) ELSE CCH_unwind(p)

-----------------------------------------------------------------------------
(* Releasing, reusing and flushing.                                        *)

CCH_release(p) ==
  /\ Runs(p, "held")
  /\ LET g == main[p].page IN
     /\ bdb' = [bdb EXCEPT ![p][g] = Released(Without(@, {"writer", "marked", "faked"}))]
     /\ posted' = [posted EXCEPT ![p] = @ \cup Reposts(p, {g})]
  /\ main' = [main EXCEPT ![p] = Idle]
  /\ UNCHANGED <<disk, lck, pre, ast, tra, committed, lost, clock>>

\* get_buffer takes the buffer of page g for another page: neither it nor anything
\* to be written before it is marked.
writeable(p, g) == \A h \in Pages : Over(p, h, g) => ~Has(p, h, "marked")
Reuses(p, g) ==
  /\ pre' = [pre EXCEPT ![p] = @ \ (Above(p, g) \cup Below(p, g))]
  /\ posted' = [posted EXCEPT ![p] =
       (@ \ {g}) \cup Reposts(p, {e.low : e \in {e \in Below(p, g) : ~e.cleared}})]
  /\ bdb' = [bdb EXCEPT ![p][g] = NewBuffer]
  /\ lck' = [lck EXCEPT ![p][g] = LCK_none]
get_buffer(p, g) ==
  /\ Runs(p, "idle") \/ Runs(p, "held")
  /\ ~InUse(p, g) /\ writeable(p, g)
  /\ \/ /\ Dirty(p, g)
        /\ bdb' = [bdb EXCEPT ![p][g] = Latched(Latched(@))]
        /\ main' = [main EXCEPT ![p].pc = "write", ![p].stack = <<g>>,
                      ![p].back = "reuse", ![p].hi = g]
        /\ UNCHANGED <<lck, pre, posted>>
     \/ /\ ~Dirty(p, g) /\ lck[p][g] # LCK_none
        /\ Reuses(p, g)
        /\ UNCHANGED main
  /\ UNCHANGED <<disk, ast, tra, committed, lost, clock>>
BufferReused(p) ==
  /\ Runs(p, "reuse")
  /\ Reuses(p, main[p].hi)
  /\ main' = [main EXCEPT ![p].hi = NoPage,
                ![p].pc = IF main[p].page = NoPage THEN "idle" ELSE "held"]
  /\ UNCHANGED <<disk, ast, tra, committed, lost, clock>>

\* TRA_commit: the transaction is looked at first, then its pages are flushed.
TRA_commit(p) ==
  /\ Runs(p, "idle") /\ tra[p].made # {} /\ ~tra[p].invalidated
  /\ main' = [main EXCEPT ![p].pc = "flush"]
  /\ UNCHANGED <<disk, lck, bdb, pre, ast, posted, tra, committed, lost, clock>>
ToFlushUnposted(p) == {g \in Pages : Dirty(p, g) /\ Has(p, g, "changed") /\ ~Has(p, g, "blocking")}
ToFlush(p) == {g \in Pages : Dirty(p, g) /\ Has(p, g, "changed")}
btc_flush(p) ==
  /\ Runs(p, "flush")
  /\ \E g \in ToFlush(p) : WriteStarts(p, g, "flush", bdb[p])
  /\ UNCHANGED <<disk, lck, pre, ast, posted, tra, committed, lost, clock>>
Committed(p) ==
  /\ Runs(p, "flush") /\ ToFlush(p) = {}
  /\ committed' = committed \cup tra[p].made
  /\ tra' = [tra EXCEPT ![p] = NewTra]
  /\ main' = [main EXCEPT ![p] = Idle]
  /\ UNCHANGED <<disk, lck, bdb, pre, ast, posted, lost, clock>>
\* What an invalidated transaction wrote is left to the versions of its records (vio.c).
TRA_rollback(p) ==
  /\ Runs(p, "idle") /\ tra[p].invalidated
  /\ tra' = [tra EXCEPT ![p] = NewTra]
  /\ bdb' = [bdb EXCEPT ![p] = [g \in Pages |-> Without(@[g], {"changed"})]]
  /\ UNCHANGED <<disk, lck, pre, main, ast, posted, committed, lost, clock>>

-----------------------------------------------------------------------------
(* The blocking AST. Its routine down_grade calls itself for the pages to  *)
(* be written first and for the pages that wait for this one.              *)

\* The innermost call of process p, and the point it has come to.
Call(p) == Head(ast[p])
At(p, at) == ast[p] # <<>> /\ Call(p).at = at

Continues(p, frame) == ast' = [ast EXCEPT ![p] = <<frame>> \o Tail(@)]
Returns(p) == ast' = [ast EXCEPT ![p] = Tail(@)]

\* A clean buffer that lost its lock will be read again.
Kept(b, level) == IF level = LCK_none THEN [b EXCEPT !.img = Blank] ELSE b

\* down_grade is called for page g, with buffers B, on top of the calls outer: a buffer
\* in use is left alone, a clean one gives way at once.
down_grade(p, g, B, outer) ==
  \/ /\ B[g].use > 0
     /\ bdb' = [bdb EXCEPT ![p] = [B EXCEPT ![g] = With(@, {"blocking"})]]
     /\ ast' = [ast EXCEPT ![p] = outer]
     /\ UNCHANGED lck
  \/ /\ B[g].use = 0 /\ "dirty" \notin B[g].flags
     /\ lck' = [lck EXCEPT ![p][g] = Downgraded(p, g)]
     /\ bdb' = [bdb EXCEPT ![p] =
                  [B EXCEPT ![g] = Kept(Without(@, {"blocking"}), Downgraded(p, g))]]
     /\ ast' = [ast EXCEPT ![p] = outer]
  \/ /\ B[g].use = 0 /\ "dirty" \in B[g].flags
     /\ bdb' = [bdb EXCEPT ![p] = [B EXCEPT ![g] = With(Latched(@), {"blocking"})]]
     /\ ast' = [ast EXCEPT ![p] =
                  <<[page |-> g, at |-> "higher", todo |-> {e.hi : e \in Above(p, g)},
                     cur |-> NoPage, in_use |-> FALSE,
                     invalid |-> "not_valid" \in B[g].flags]>> \o outer]
     /\ UNCHANGED lck

blocking_ast_bdb(p, g) ==
  /\ g \in posted[p] /\ ast[p] = <<>>
  /\ posted' = [posted EXCEPT ![p] = @ \ {g}]
  /\ down_grade(p, g, bdb[p], <<>>)
  /\ UNCHANGED <<disk, pre, main, tra, committed, lost, clock>>

\* Precedence that counts; some of it is left over although it is cleared.
Live(p, hi, low) == [hi |-> hi, low |-> low, cleared |-> FALSE] \in pre[p]
Cleared(p, E) == {IF e \in E THEN [e EXCEPT !.cleared = TRUE] ELSE e : e \in pre[p]}

\* The dirty pages to be written first, not yet tried.
HigherLeftNone(p) == {}
HigherLeft(p) ==
  IF Call(p).invalid THEN {}
  ELSE {x \in Call(p).todo : Live(p, x, Call(p).page) /\ Dirty(p, x)}

DowngradesHigher(p) ==
  /\ At(p, "higher")
  /\ \E x \in HigherLeft(p) :
       down_grade(p, x, bdb[p],
         <<[Call(p) EXCEPT !.at = "called", !.cur = x, !.todo = @ \ {x}]>> \o Tail(ast[p]))
  /\ UNCHANGED <<disk, pre, main, posted, tra, committed, lost, clock>>

\* A page that turned out invalid makes this one invalid, and the queue is gone
\* through again behind its first element.
HigherDone(p) ==
  /\ At(p, "called")
  /\ LET x == Call(p).cur
         above == {e.hi : e \in Above(p, Call(p).page)}
         back == [Call(p) EXCEPT !.at = "higher", !.cur = NoPage] IN
     IF Has(p, x, "not_valid")
     THEN \E first \in above :
            Continues(p, [back EXCEPT !.invalid = TRUE, !.in_use = FALSE,
                                      !.todo = above \ {first}])
     ELSE Continues(p, [back EXCEPT !.in_use = @ \/ Dirty(p, x)])
  /\ UNCHANGED <<disk, lck, bdb, pre, main, posted, tra, committed, lost, clock>>

\* A page to be written first stays dirty: this one stays blocking, until the other
\* is released or written.
DowngradeDeferred(p) ==
  /\ At(p, "higher") /\ HigherLeft(p) = {} /\ Call(p).in_use
  /\ bdb' = [bdb EXCEPT ![p][Call(p).page] = Released(@)]
  /\ Returns(p)
  /\ UNCHANGED <<disk, lck, pre, main, posted, tra, committed, lost, clock>>

GoesLower(p) ==
  LET g == Call(p).page IN
  Continues(p, [Call(p) EXCEPT !.at = "lower", !.todo = {e.low : e \in Below(p, g)}])
DowngradeWrites(p) ==
  /\ At(p, "higher") /\ HigherLeft(p) = {} /\ ~Call(p).in_use
  /\ LET g == Call(p).page IN
     /\ ~Call(p).invalid /\ ~Has(p, g, "not_valid")
     /\ disk' = [disk EXCEPT ![g] = bdb[p][g].img]
     /\ bdb' = [bdb EXCEPT ![p][g] =
                  Kept(Without(@, {"dirty", "changed", "blocking"}),
                       Downgraded(p, g))]
     /\ lck' = [lck EXCEPT ![p][g] = Downgraded(p, g)]
  /\ GoesLower(p)
  /\ UNCHANGED <<pre, main, posted, tra, committed, lost, clock>>

\* TRA_invalidate: the transaction that changed the page is told.
DowngradeFails(p) ==
  /\ At(p, "higher") /\ HigherLeft(p) = {} /\ ~Call(p).in_use
  /\ LET g == Call(p).page
         skipped == {e \in Above(p, g) : e.hi \in Call(p).todo} IN
     /\ Call(p).invalid \/ Has(p, g, "not_valid") \/ g \in Failing
     /\ pre' = [pre EXCEPT ![p] = Cleared(p, IF Call(p).invalid THEN skipped ELSE {})]
     /\ bdb' = [bdb EXCEPT ![p][g] =
                  Kept(With(Without(@, {"dirty", "changed", "blocking"}), {"not_valid"}),
                       LCK_none)]
     /\ lck' = [lck EXCEPT ![p][g] = LCK_none]
     /\ posted' = [posted EXCEPT ![p] = @ \ {g}]
     /\ tra' = IF Has(p, g, "changed") THEN [tra EXCEPT ![p].invalidated = TRUE] ELSE tra
     /\ lost' = lost \cup (bdb[p][g].img.has \ disk[g].has)
  /\ GoesLower(p)
  /\ UNCHANGED <<disk, main, committed, clock>>

\* The precedence is marked, not taken away, and a lower page that is invalid or
\* blocking has its turn.
DowngradesLower(p) ==
  /\ At(p, "lower")
  /\ \E x \in Call(p).todo :
       LET g == Call(p).page
           invalid == Has(p, g, "not_valid")
           frame == [Call(p) EXCEPT !.todo = @ \ {x}] IN
       /\ pre' = [pre EXCEPT ![p] = Cleared(p, {e \in Below(p, g) : e.low = x})]
       /\ IF invalid \/ Has(p, x, "not_valid") \/ Has(p, x, "blocking")
          THEN down_grade(p, x,
                 IF invalid THEN [bdb[p] EXCEPT ![x] = With(@, {"not_valid"})] ELSE bdb[p],
                 <<frame>> \o Tail(ast[p]))
          ELSE Continues(p, frame) /\ UNCHANGED <<bdb, lck>>
  /\ UNCHANGED <<disk, main, posted, tra, committed, lost, clock>>
LowerDone(p) ==
  /\ At(p, "lower") /\ Call(p).todo = {}
  /\ bdb' = [bdb EXCEPT ![p][Call(p).page] = Without(Released(@), {"not_valid"})]
  /\ Returns(p)
  /\ UNCHANGED <<disk, lck, pre, main, posted, tra, committed, lost, clock>>

-----------------------------------------------------------------------------

Fetch(p) ==
  \/ \E g \in Pages : CCH_fake(p, g) \/ \E write \in BOOLEAN : CCH_fetch(p, g, write)
  \/ FakeWritten(p) \/ lock_buffer(p)
  \/ NoticeRepeated(p) \/ LockGranted(p)
Change(p) ==
  (\E x \in Pages : CCH_precedence(p, x)) \/ CycleBroken(p) \/ CCH_mark(p)
Write(p) ==
  \/ WriteFindsClean(p) \/ PrecedenceDropped(p) \/ WritesHigher(p)
  \/ write_page(p) \/ WriteFails(p)
Release(p) ==
  CCH_release(p) \/ BufferReused(p) \/ \E g \in Reused : get_buffer(p, g)
Transaction(p) == TRA_commit(p) \/ btc_flush(p) \/ Committed(p) \/ TRA_rollback(p)
Ast(p) ==
  \/ \E g \in Pages : blocking_ast_bdb(p, g)
  \/ DowngradesHigher(p) \/ HigherDone(p) \/ DowngradeDeferred(p)
  \/ DowngradeWrites(p) \/ DowngradeFails(p) \/ DowngradesLower(p) \/ LowerDone(p)

Next ==
  \E p \in Procs :
    Fetch(p) \/ Change(p) \/ Write(p) \/ Release(p) \/ Transaction(p) \/ Ast(p)

Spec == Init /\ [][Next]_vars

-----------------------------------------------------------------------------
(* Properties.                                                             *)

\* The current image of a page is in the buffer of the process that has it dirty, or
\* in the file.
Current(g) ==
  IF \E p \in Procs : Dirty(p, g)
  THEN bdb[CHOOSE p \in Procs : Dirty(p, g)][g].img ELSE disk[g]

\* No page of the file refers to an update that could still be written and is not: only
\* the order of the writes (write_buffer, down_grade) keeps the file consistent for
\* whoever opens it after a crash. It holds for two pages; of three, one of them clean,
\* check_precedence takes a way over the clean one for a precedence (MCPageCache).
WriteOrder == \A g \in Pages : disk[g].needs \ lost \subseteq Durable

\* At most one process has a page dirty, and a window shows the current image whoever
\* had the page before: an AST never lowers a lock under a latched buffer, and
\* lock_buffer has a page read again whose lock was given up.
HeldIsCurrent ==
  /\ \A p, q \in Procs, g \in Pages : Dirty(p, g) /\ Dirty(q, g) => p = q
  /\ \A p \in Procs : main[p].pc = "held" => bdb[p][main[p].page].img = Current(main[p].page)

\* The precedence that counts has no cycle (check_precedence), although ASTs mark and
\* write pages while the main line breaks one: write_buffer and down_grade end.
NoCycle ==
  \A p \in Procs : \A e \in pre[p] : ~e.cleared => ~Over(p, e.low, e.hi)

\* What a transaction has committed is in the file, unless a page could not be
\* written: btc_flush finds every page that TRA_commit owes it, also one that an AST
\* wrote, marked or gave up meanwhile.
CommittedInFile == committed \ lost \subseteq Durable

\* A transaction that lost an update to a failed write is marked as invalidated
\* (TRA_invalidate), whichever page the write failed for and however the failure was
\* handed down to lower pages.
LossNoticed ==
  \A p \in Procs : tra[p].made \cap lost # {} => tra[p].invalidated

\* The caches of all processes keep one current image of each page, and write a page
\* after all it refers to (CarefulWrite), as far as WriteOrder holds.
Wholes == INSTANCE CarefulWrite WITH store <- [g \in Pages |-> Current(g)]
Implements == Wholes!Spec
=============================================================================
