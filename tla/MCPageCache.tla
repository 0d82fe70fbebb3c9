---------------------------- MODULE MCPageCache ----------------------------
(***************************************************************************)
(* One schedule of PageCache over three pages. A page high comes to be     *)
(* written after a page of lower precedence: the two races of              *)
(* check_precedence with an AST that it takes are too far apart for a      *)
(* search of all interleavings of three pages.                             *)
(***************************************************************************)
EXTENDS PageCache

CONSTANTS p, q, high, mid, low

VARIABLE at  \* how far the schedule has come

\* The call or step of a process, on a page.
Step(by, name, g) ==
  CASE name = "fetch"   -> CCH_fetch(by, g, by \in Updaters)
    [] name = "lock"    -> lock_buffer(by)
    [] name = "granted" -> LockGranted(by)
    [] name = "after"   -> CCH_precedence(by, g)
    [] name = "write"   -> write_page(by) /\ Top(by) = g
    [] name = "insert"  -> CycleBroken(by)
    [] name = "mark"    -> CCH_mark(by)
    [] name = "release" -> CCH_release(by)
    [] name = "ast"     -> blocking_ast_bdb(by, g)
    [] name = "down"    -> DowngradeWrites(by) /\ Call(by).page = g
    [] name = "lower"   -> DowngradesLower(by)
    [] name = "done"    -> LowerDone(by)

Calls(by, g, names) == [i \in DOMAIN names |-> <<by, names[i], g>>]

\* p has page g, and q asks to read it; p goes on when it is written.
ReadBy(g) ==
  Calls(q, g, <<"fetch", "lock">>) \o Calls(p, g, <<"ast", "down", "done">>)
    \o Calls(q, g, <<"granted", "release">>)

Schedule ==
  \* mid and low are dirty; high refers to mid
  Calls(p, mid, <<"fetch", "lock", "granted", "mark", "release">>)
    \o Calls(p, low, <<"fetch", "lock", "granted", "mark", "release">>)
    \o Calls(p, high, <<"fetch", "lock", "granted">>)
    \o Calls(p, mid, <<"after", "mark", "release">>)
  \* mid is to refer to high: mid is written, and meanwhile high by an AST
    \o Calls(p, mid, <<"fetch", "lock">>)
    \o Calls(p, high, <<"after">>) \o Calls(p, mid, <<"write">>)
    \o ReadBy(high)
    \o Calls(p, low, <<"insert", "after", "mark", "release">>)
  \* low is to refer to mid: low is written, and meanwhile mid by an AST
    \o Calls(p, low, <<"fetch", "lock">>)
    \o Calls(p, mid, <<"after">>) \o Calls(p, low, <<"write">>)
    \o ReadBy(mid)
    \o Calls(p, low, <<"insert", "mark", "release">>)
  \* high is changed again, and low refers to it: there is a way over mid already
    \o Calls(p, high, <<"fetch", "lock">>) \o Calls(q, high, <<"ast">>)
    \o Calls(p, high, <<"granted", "mark", "release">>)
    \o Calls(p, low, <<"fetch", "lock">>)
    \o Calls(p, high, <<"after", "mark", "release">>)
    \o ReadBy(low)

Follows ==
  /\ at < Len(Schedule) /\ at' = at + 1
  /\ Step(Schedule[at'][1], Schedule[at'][2], Schedule[at'][3])

\* What the schedule does are steps of PageCache.
Scheduled == Init /\ at = 0 /\ [][Next /\ Follows]_<<vars, at>>
=============================================================================
