--------------------------- MODULE TwoPhaseCommit ---------------------------
(***************************************************************************)
(* A transaction over several databases: the calls of the Y-valve that     *)
(* prepare, commit and roll back its sub-transactions one database after   *)
(* the other (jrd/why.c), what the engine of each database does for them   *)
(* (jrd/tra.c, jrd/met.e), and the recovery of what a failure leaves in    *)
(* limbo (gfix -two_phase, alice/tdr.c).                                   *)
(*                                                                         *)
(* Databases are numbered in the order of the sub-transactions.            *)
(***************************************************************************)
EXTENDS Naturals

CONSTANTS
  N,            \* number of databases
  Severable,    \* databases the application may lose without ending
  Torn,         \* may an engine process die inside a call?
  Unreachable,  \* databases that gfix may fail to attach
  Messages,     \* what isc_prepare_transaction2 is given: a description (TRUE)?
  Careless,     \* what the application may do when a call failed half way
  Answers,      \* what the user of gfix answers when asked
  Deaths        \* how often gfix may die

Databases == 1..N

ASSUME ConstantAssumption ==
  /\ N \in Nat \ {0} /\ Deaths \in Nat
  /\ Severable \subseteq Databases /\ Unreachable \subseteq Databases
  /\ Torn \in BOOLEAN /\ Messages \subseteq BOOLEAN
  /\ Careless \subseteq {"undo", "retry"}
  /\ Answers \subseteq {"commit", "rollback", "neither"}

VARIABLES
  tip,      \* the sub-transaction on the inventory page of each database
  record,   \* its record in RDB$TRANSACTIONS, as whoever reads it finds it
  saved,    \* that record in the file
  dirty,    \* whose cache has the page of the record and not written it
  link,     \* does the attachment that runs it live?
  flags,    \* its tra_flags
  handle,   \* is the Y-valve's handle of it not NULL?
  call,     \* what its engine does for the Y-valve
  limbo,    \* HANDLE_TRANSACTION_limbo
  app,      \* the call of the application
  gfix,     \* the recovery
  deaths    \* how often gfix has died

pages == <<record, saved, dirty>>
engine == <<tip, pages, flags>>
coordinator == <<handle, limbo, app>>
vars == <<tip, pages, link, flags, handle, call, limbo, app, gfix, deaths>>

\* The outcome "dead" is also that of a rollback that undoes its work and leaves
\* the transaction committed on the inventory page.
TraStates == {"active", "limbo", "committed", "dead"}
TRA_states == {"none", "limbo", "commit", "rollback"}
TdrStates == TRA_states \cup {"unknown"}

AppType ==
  [op : {"idle", "prepare2", "commit", "rollback", "done", "gone"},
   phase : {"prepare", "commit", "rollback"}, at : 0..N + 1, message : BOOLEAN]
GfixType ==
  [step : {"idle", "read", "decide", "check", "record", "state", "shutdown"},
   at : 0..N + 1, todo : {"commit", "rollback"}, seen : [Databases -> TdrStates]]

TypeOK ==
  /\ tip \in [Databases -> TraStates]
  /\ record \in [Databases -> TRA_states] /\ saved \in [Databases -> TRA_states]
  /\ dirty \in [Databases -> {"nobody", "engine", "gfix"}]
  /\ link \in [Databases -> BOOLEAN]
  /\ flags \in [Databases -> SUBSET {"prepared", "prepare2"}]
  /\ handle \in [Databases -> BOOLEAN]
  /\ call \in [Databases -> {"none", "prepare", "commit", "rollback", "answered"}]
  /\ limbo \in BOOLEAN /\ app \in AppType /\ gfix \in GfixType
  /\ deaths \in 0..Deaths

Idle == [op |-> "idle", phase |-> "prepare", at |-> 0, message |-> TRUE]
Unseen == [d \in Databases |-> "unknown"]
Resting == [step |-> "idle", at |-> 0, todo |-> "commit", seen |-> Unseen]

Init ==
  /\ tip = [d \in Databases |-> "active"]
  /\ record = [d \in Databases |-> "none"] /\ saved = record
  /\ dirty = [d \in Databases |-> "nobody"]
  /\ link = [d \in Databases |-> TRUE]
  /\ flags = [d \in Databases |-> {}]
  /\ handle = [d \in Databases |-> TRUE]
  /\ call = [d \in Databases |-> "none"]
  /\ limbo = FALSE /\ app = Idle /\ gfix = Resting /\ deaths = 0

-----------------------------------------------------------------------------
(* The record, and the page caches it is changed in. *)

\* A process that changes the page takes it from the cache of another one, which
\* writes it before.
Writes(d, state, who) ==
  /\ record' = [record EXCEPT ![d] = state]
  /\ IF state = record[d] THEN UNCHANGED <<saved, dirty>>
     ELSE /\ saved' = [saved EXCEPT ![d] = IF dirty[d] = who THEN @ ELSE record[d]]
          /\ dirty' = [dirty EXCEPT ![d] = who]

\* The cache of a process is flushed, or has to give the page to who reads it.
Flushed(d, who) ==
  /\ saved' = [saved EXCEPT ![d] = IF dirty[d] = who THEN record[d] ELSE @]
  /\ dirty' = [dirty EXCEPT ![d] = IF @ = who THEN "nobody" ELSE @]
  /\ UNCHANGED record

\* A cache may write a page at any time.
CCH_write(d) ==
  /\ dirty[d] # "nobody" /\ Flushed(d, dirty[d])
  /\ UNCHANGED <<tip, link, flags, handle, call, limbo, app, gfix, deaths>>

\* What a process that dies has not written is lost.
LosesPages(who, lost) ==
  /\ record' = [d \in Databases |->
       IF d \in lost /\ dirty[d] = who THEN saved[d] ELSE record[d]]
  /\ dirty' = [d \in Databases |->
       IF d \in lost /\ dirty[d] = who THEN "nobody" ELSE dirty[d]]
  /\ UNCHANGED saved

-----------------------------------------------------------------------------
(* The calls of the application, and what the Y-valve does between the calls
   of the engines. *)

Calls(op, phase, message) ==
  /\ app.op = "idle"
  /\ app' = [op |-> op, phase |-> phase, at |-> 1, message |-> message]

\* Two things the code leaves to the application, which cannot know: not to roll back
\* when a commit failed after it had erased the record of the first part, and not to
\* have a part prepared again whose flag is set and whose page is not.
MayUndo ==
  "undo" \in Careless \/ ~(handle[1] /\ "prepare2" \in flags[1] /\ record[1] = "none")
MayRetry ==
  "retry" \in Careless \/ \A d \in Databases : "prepared" \in flags[d] => tip[d] # "active"

GDS_PREPARE2 ==
  /\ MayRetry
  /\ \E message \in Messages : Calls("prepare2", "prepare", message)
  /\ UNCHANGED <<engine, link, handle, call, limbo, gfix, deaths>>

\* Everybody is put into limbo first, unless the handle says they are.
CommitBeginsAtOnce == "commit"
CommitBegins == IF limbo THEN "commit" ELSE "prepare"

GDS_COMMIT ==
  /\ MayRetry /\ Calls("commit", CommitBegins, TRUE)
  /\ UNCHANGED <<engine, link, handle, call, limbo, gfix, deaths>>

GDS_ROLLBACK ==
  /\ MayUndo /\ Calls("rollback", "rollback", TRUE)
  /\ UNCHANGED <<engine, link, handle, call, limbo, gfix, deaths>>

\* The call returns when all databases had their turn; a commit goes on with its
\* second phase.
AllServed ==
  /\ app.at = N + 1
  /\ limbo' = (limbo \/ app.op = "prepare2")
  /\ app' = CASE app.op = "prepare2" -> Idle
              [] app.op = "commit" /\ app.phase = "prepare" ->
                   [app EXCEPT !.phase = "commit", !.at = 1]
              [] OTHER -> [app EXCEPT !.op = "done", !.at = 0]
  /\ UNCHANGED <<engine, link, handle, call, gfix, deaths>>

Calling(d, phase) == app.at = d /\ app.phase = phase /\ call[d] = "none"

\* An engine is called with a handle that is not NULL over a living attachment.
Reached(d) == handle[d] /\ link[d]

\* The first error ends the call. An engine may refuse any call before it changes
\* anything: the transaction was invalidated, the database is shut down.
RefusedSkips(d) ==
  /\ app.at = d /\ call[d] = "none"
  /\ app' = [app EXCEPT !.at = @ + 1]
  /\ UNCHANGED <<engine, link, handle, call, limbo, gfix, deaths>>
Refused(d) ==
  /\ app.at = d /\ call[d] = "none"
  /\ app' = Idle
  /\ UNCHANGED <<engine, link, handle, call, limbo, gfix, deaths>>

\* The engine has answered.
Answered(d) ==
  /\ app.at = d /\ call[d] = "answered"
  /\ call' = [call EXCEPT ![d] = "none"]
  /\ handle' = [handle EXCEPT ![d] = @ /\ app.phase = "prepare"]
  /\ app' = [app EXCEPT !.at = @ + 1]
  /\ UNCHANGED <<engine, link, limbo, gfix, deaths>>

\* The application ends, with a call or without.
Exit ==
  /\ app.op # "gone"
  /\ app' = [Idle EXCEPT !.op = "gone"]
  /\ call' = [d \in Databases |-> IF call[d] = "answered" THEN "none" ELSE call[d]]
  /\ UNCHANGED <<engine, link, handle, limbo, gfix, deaths>>

-----------------------------------------------------------------------------
(* The engine of a database for the application. Each of TRA_prepare,
   TRA_commit and TRA_rollback first changes the record in RDB$TRANSACTIONS and
   then the inventory page, which is written at once. The first two flush the
   record in between, the last one need not. *)

Owns(d) == [call EXCEPT ![d] = IF app.op = "gone" THEN "none" ELSE "answered"]

TRA_prepare_again(d) ==
  /\ Calling(d, "prepare") /\ Reached(d) /\ "prepared" \in flags[d]
  /\ call' = Owns(d)
  /\ UNCHANGED <<engine, coordinator, link, gfix, deaths>>

\* MET_prepare, when there is a description; the unique index takes no second record.
TRA_prepare(d) ==
  /\ Calling(d, "prepare") /\ Reached(d) /\ "prepared" \notin flags[d]
  /\ IF app.message
       THEN /\ record[d] = "none" /\ Writes(d, "limbo", "engine")
            /\ flags' = [flags EXCEPT ![d] = @ \cup {"prepare2"}]
       ELSE UNCHANGED <<pages, flags>>
  /\ call' = [call EXCEPT ![d] = "prepare"]
  /\ UNCHANGED <<tip, coordinator, link, gfix, deaths>>

\* The flag is set before the page.
SetLimbo(d) ==
  /\ call[d] = "prepare"
  /\ Flushed(d, "engine")
  /\ tip' = [tip EXCEPT ![d] = "limbo"]
  /\ flags' = [flags EXCEPT ![d] = @ \cup {"prepared"}]
  /\ call' = Owns(d)
  /\ UNCHANGED <<coordinator, link, gfix, deaths>>

\* MET_update_transaction: a commit erases the record of a transaction that wrote
\* it itself; otherwise the record tells the outcome, if there is one.
Updated(d, outcome, own) ==
  IF (outcome = "commit" /\ own) \/ record[d] = "none" THEN "none" ELSE outcome

MET_update_transaction(d, outcome) ==
  IF "prepare2" \in flags[d] THEN Writes(d, Updated(d, outcome, TRUE), "engine")
  ELSE UNCHANGED pages

TRA_commit(d) ==
  /\ Calling(d, "commit") /\ Reached(d)
  /\ MET_update_transaction(d, "commit")
  /\ call' = [call EXCEPT ![d] = "commit"]
  /\ UNCHANGED <<tip, flags, coordinator, link, gfix, deaths>>

TRA_rollback(d) ==
  /\ Calling(d, "rollback") /\ Reached(d)
  /\ MET_update_transaction(d, "rollback")
  /\ call' = [call EXCEPT ![d] = "rollback"]
  /\ UNCHANGED <<tip, flags, coordinator, link, gfix, deaths>>

\* TRA_set_state looks at nothing.
SetOutcome(d) ==
  /\ call[d] \in {"commit", "rollback"}
  /\ IF call[d] = "commit" THEN Flushed(d, "engine") ELSE UNCHANGED pages
  /\ tip' = [tip EXCEPT ![d] = IF call[d] = "commit" THEN "committed" ELSE "dead"]
  /\ call' = Owns(d)
  /\ UNCHANGED <<flags, coordinator, link, gfix, deaths>>

\* The deferred work, the flush or the change of the inventory page fails: the
\* record stays as it was changed, and the application, which keeps its handle,
\* gets the error.
Failed(d) ==
  /\ call[d] \in {"prepare", "commit", "rollback"}
  /\ call' = [call EXCEPT ![d] = "none"]
  /\ app' = IF app.op = "gone" THEN app ELSE Idle
  /\ UNCHANGED <<tip, link, handle, limbo, gfix, deaths>>

CallFails(d) == Failed(d) /\ UNCHANGED <<pages, flags>>

\* It is the page that fails, and the flag is set already.
LimboFails(d) ==
  /\ call[d] = "prepare" /\ Failed(d)
  /\ Flushed(d, "engine")
  /\ flags' = [flags EXCEPT ![d] = @ \cup {"prepared"}]

\* So may what comes after the commit is on the page (the post commit work).
PostCommitFails(d) ==
  /\ app.at = d /\ app.phase = "commit" /\ call[d] = "answered"
  /\ call' = [call EXCEPT ![d] = "none"]
  /\ app' = Idle
  /\ UNCHANGED <<engine, link, handle, limbo, gfix, deaths>>

\* The attachment ends. A transaction with the flag stays as its page says, another
\* one is rolled back (purge_attachment); the cache is flushed.
Unfinished(d) == handle[d] /\ (tip[d] \in {"active", "limbo"} \/ call[d] = "answered")
MayLose(d) == link[d] /\ (app.op = "gone" \/ d \in Severable)

Detached(d) ==
  /\ MayLose(d) /\ Unfinished(d) /\ call[d] \in {"none", "answered"}
  /\ link' = [link EXCEPT ![d] = FALSE]
  /\ call' = [call EXCEPT ![d] = "none"]
  /\ IF tip[d] = "active" /\ {"prepared", "prepare2"} \cap flags[d] = {"prepare2"}
       THEN /\ record' = [record EXCEPT ![d] = Updated(d, "rollback", TRUE)]
            /\ saved' = [saved EXCEPT ![d] = record'[d]]
            /\ dirty' = [dirty EXCEPT ![d] = "nobody"]
       ELSE Flushed(d, "engine")
  /\ tip' = [tip EXCEPT ![d] = IF @ = "active" THEN "dead" ELSE @]
  /\ UNCHANGED <<flags, coordinator, gfix, deaths>>

\* The process of the engine dies, with a call under way or later: whoever meets an
\* active transaction without its lock takes it for dead.
EngineDies(d) ==
  /\ Torn /\ MayLose(d) /\ (Unfinished(d) \/ dirty[d] = "engine")
  /\ link' = [link EXCEPT ![d] = FALSE]
  /\ call' = [call EXCEPT ![d] = "none"]
  /\ tip' = [tip EXCEPT ![d] = IF @ = "active" THEN "dead" ELSE @]
  /\ LosesPages("engine", {d})
  /\ UNCHANGED <<flags, coordinator, gfix, deaths>>

-----------------------------------------------------------------------------
(* Recovery. *)

\* TDR_analyze: what to do, from the states found. "none" leaves it to the user,
\* as does "unknown".
FirstAsFound(seen) == seen[1]
First(seen) == IF seen[1] = "none" THEN "commit" ELSE seen[1]

\* The advice after the state s of a further sub-transaction.
WeighedWithoutLimbo(first, s, advice) ==
  CASE s = "commit" /\ first = "rollback" -> "inconsistent"
    [] s = "commit" /\ first # "rollback" -> "commit"
    [] s = "rollback" /\ first = "commit" -> "inconsistent"
    [] s = "rollback" /\ first # "commit" -> "rollback"
    [] s = "none" /\ first = "commit" -> "commit"
    [] s = "none" /\ first = "limbo" -> "rollback"
    [] s = "unknown" /\ advice = "none" -> "unknown"
    [] OTHER -> advice
Weighed(first, s, advice) ==
  CASE s = "commit" /\ first = "rollback" -> "inconsistent"
    [] s = "commit" /\ first # "rollback" -> "commit"
    [] s = "limbo" /\ first \in {"commit", "rollback"} -> first
    [] s = "rollback" /\ first = "commit" -> "inconsistent"
    [] s = "rollback" /\ first # "commit" -> "rollback"
    [] s = "none" /\ first = "commit" -> "commit"
    [] s = "none" /\ first = "limbo" -> "rollback"
    [] s = "unknown" /\ advice = "none" -> "unknown"
    [] OTHER -> advice

TDR_analyze(seen) ==
  LET advice[d \in Databases] ==
        IF d = 1 THEN IF seen[1] = "unknown" THEN "unknown" ELSE "none"
        ELSE IF advice[d - 1] = "inconsistent" THEN "inconsistent"
        ELSE Weighed(First(seen), seen[d], advice[d - 1])
  IN IF advice[N] = "inconsistent" THEN "none" ELSE advice[N]

UnchangedByGfix == UNCHANGED <<link, flags, coordinator, call, deaths>>

ResolveAsToldBlindly(todo, seen) == [step |-> "check", at |-> 1, todo |-> todo, seen |-> seen]
Resolve(todo, seen) ==
  IF todo = "neither" THEN Resting
  ELSE [step |-> "check", at |-> 1, todo |-> todo, seen |-> seen]

\* A transaction is listed when it is in limbo and its owner is gone (TRA_wait).
\* Without a description it is resolved alone, as the user answers.
TDR_list_limbo(d) ==
  /\ gfix.step = "idle" /\ tip[d] = "limbo" /\ ~link[d]
  /\ IF record[d] # "none"
       THEN gfix' = [Resting EXCEPT !.step = "read", !.at = 1]
       ELSE \E answer \in Answers :
              gfix' = Resolve(answer, [Unseen EXCEPT ![d] = "limbo"])
  /\ UNCHANGED <<tip, pages>> /\ UnchangedByGfix

\* TDR_get_states reads one database after the other.
Sees(d, state) ==
  gfix' = [gfix EXCEPT !.seen[d] = state, !.at = d + 1, !.step = IF d = N THEN "decide" ELSE @]

MET_get_state(d) ==
  /\ gfix.step = "read" /\ gfix.at = d
  /\ \/ Sees(d, record[d]) /\ Flushed(d, "engine")
     \/ d \in Unreachable /\ Sees(d, "unknown") /\ UNCHANGED pages
  /\ UNCHANGED tip /\ UnchangedByGfix

TDR_reconnect_multiple ==
  /\ gfix.step = "decide"
  /\ LET advice == TDR_analyze(gfix.seen)
         Asked == IF advice \in {"commit", "rollback"} THEN {advice} ELSE Answers
     IN \E todo \in Asked : gfix' = Resolve(todo, gfix.seen)
  /\ UNCHANGED <<tip, pages>> /\ UnchangedByGfix

\* Those that were seen in limbo are reconnected in turn: what limbo_transaction
\* finds on the inventory page decides.
NextResolved ==
  IF gfix.at = N THEN [Resting EXCEPT !.step = "shutdown"]
  ELSE [gfix EXCEPT !.step = "check", !.at = @ + 1]

TRA_reconnect(d) ==
  /\ gfix.step = "check" /\ gfix.at = d
  /\ gfix' = IF gfix.seen[d] = "limbo" /\ tip[d] = "limbo"
               THEN [gfix EXCEPT !.step = "record"] ELSE NextResolved
  /\ UNCHANGED <<tip, pages>> /\ UnchangedByGfix

\* TRA_commit or TRA_rollback of a reconnected transaction; only the first flushes.
UpdateReconnected(d) ==
  /\ gfix.step = "record" /\ gfix.at = d
  /\ Writes(d, Updated(d, gfix.todo, FALSE), "gfix")
  /\ gfix' = [gfix EXCEPT !.step = "state"]
  /\ UNCHANGED tip /\ UnchangedByGfix

SetReconnected(d) ==
  /\ gfix.step = "state" /\ gfix.at = d
  /\ IF gfix.todo = "commit" THEN Flushed(d, "gfix") ELSE UNCHANGED pages
  /\ tip' = [tip EXCEPT ![d] = IF gfix.todo = "commit" THEN "committed" ELSE "dead"]
  /\ gfix' = NextResolved
  /\ UnchangedByGfix

\* An error is printed, and gfix goes on to the next database.
ReconnectFails(d) ==
  /\ gfix.step \in {"check", "record", "state"} /\ gfix.at = d
  /\ gfix' = NextResolved
  /\ UNCHANGED <<tip, pages>> /\ UnchangedByGfix

\* It detaches from all databases in the end.
TDR_shutdown_databases ==
  /\ gfix.step = "shutdown"
  /\ saved' = [d \in Databases |-> IF dirty[d] = "gfix" THEN record[d] ELSE saved[d]]
  /\ dirty' = [d \in Databases |-> IF dirty[d] = "gfix" THEN "nobody" ELSE dirty[d]]
  /\ gfix' = Resting
  /\ UNCHANGED <<tip, record>> /\ UnchangedByGfix

\* What it had reconnected stays in limbo.
GfixDies ==
  /\ gfix.step # "idle" /\ deaths < Deaths
  /\ gfix' = Resting /\ deaths' = deaths + 1
  /\ LosesPages("gfix", Databases)
  /\ UNCHANGED <<tip, flags, link, coordinator, call>>

-----------------------------------------------------------------------------
Recover(d) ==
  \/ TDR_list_limbo(d) \/ MET_get_state(d) \/ TRA_reconnect(d)
  \/ UpdateReconnected(d) \/ SetReconnected(d) \/ ReconnectFails(d)

Engine(d) ==
  \/ TRA_prepare_again(d) \/ TRA_prepare(d) \/ SetLimbo(d) \/ LimboFails(d)
  \/ TRA_commit(d) \/ TRA_rollback(d) \/ SetOutcome(d) \/ CallFails(d)
  \/ PostCommitFails(d) \/ Detached(d) \/ EngineDies(d)

Next ==
  \/ GDS_PREPARE2 \/ GDS_COMMIT \/ GDS_ROLLBACK \/ AllServed \/ Exit
  \/ TDR_reconnect_multiple \/ TDR_shutdown_databases \/ GfixDies
  \/ \E d \in Databases :
       Refused(d) \/ Answered(d) \/ Engine(d) \/ Recover(d) \/ CCH_write(d)

\* The engines end their calls, and notice in the end that their client is gone; gfix
\* goes on, and is run again whenever something may be left in limbo; what fails does
\* not fail for ever.
Fairness ==
  /\ WF_vars(\E d \in Databases : SetLimbo(d) \/ SetOutcome(d) \/ CallFails(d))
  /\ WF_vars(\E d \in Databases : Detached(d))
  /\ SF_vars(\E d \in Databases : TDR_list_limbo(d))
  /\ WF_vars(\E d \in Databases : MET_get_state(d))
  /\ WF_vars(TDR_reconnect_multiple) /\ WF_vars(TDR_shutdown_databases)
  /\ WF_vars(\E d \in Databases : SetReconnected(d) \/ ReconnectFails(d))
  /\ \A d \in Databases : SF_vars(TRA_reconnect(d)) /\ SF_vars(UpdateReconnected(d))

Spec == Init /\ [][Next]_vars
FairSpec == Spec /\ Fairness

-----------------------------------------------------------------------------
(* Properties. *)

\* The parts of the transaction end all the same way: none is committed before all
\* are prepared, none is rolled back once one is committed, and none ends twice,
\* whatever dies and whatever gfix finds out.
Atomic == INSTANCE AtomicCommit WITH fate <- tip
Implements == Atomic!Spec

\* What isc_commit_transaction reports as committed is committed everywhere,
\* though recovery was at work at the same time.
SuccessIsEverywhere ==
  app.op = "done" =>
    \/ \A d \in Databases : tip[d] = "committed"
    \/ \A d \in Databases : tip[d] = "dead"

\* Once nobody is at work, the advice of the recovery is never against what is
\* done already, and where something is committed it is to commit the rest.
Quiet ==
  /\ app.op = "gone" /\ gfix.step = "idle"
  /\ \A d \in Databases : ~Unfinished(d) \/ ~link[d]
AdviceAgrees ==
  LET advice == TDR_analyze(record)
      Is(state) == \E d \in Databases : tip[d] = state
      ToResolve == \E d \in Databases : tip[d] = "limbo" /\ record[d] = "limbo"
  IN Quiet /\ ToResolve =>
       /\ advice = "commit" => ~Is("dead")
       /\ advice = "rollback" => ~Is("committed")
       /\ Is("committed") => advice = "commit"

\* When the application is gone and a part is committed, recovery commits every part
\* whose record still shows it in limbo.
CommitSpreads ==
  \A d \in Databases \ Unreachable :
    /\ app.op = "gone"
    /\ tip[d] = "limbo" /\ record[d] = "limbo"
    /\ \E e \in Databases : tip[e] = "committed"
    ~> tip[d] = "committed" \/ record[d] # "limbo"

\* "If the tdr for the first transaction is missing, we can assume it was committed"
\* (TDR_analyze): where recovery finds work and no first record, the first part was
\* at least not rolled back.
MissingMeansCommitted ==
  Quiet /\ record[1] = "none" /\ (\E d \in Databases : tip[d] = "limbo" /\ record[d] = "limbo")
    => tip[1] # "dead"

\* "Everybody is in limbo, now commit everybody" (GDS_COMMIT): no part is still active.
EverybodyInLimbo ==
  app.op = "commit" /\ app.phase = "commit" => \A d \in Databases : tip[d] # "active"
=============================================================================
