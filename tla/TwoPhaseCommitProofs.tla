----------------------- MODULE TwoPhaseCommitProofs -----------------------
(***************************************************************************)
(* Theorems about TwoPhaseCommit, for any number of databases: the parts   *)
(* of a transaction end all the same way, whatever fails, as long as only  *)
(* the first attachment may be lost under a living application, every part *)
(* is described, the application neither rolls back after a commit failed  *)
(* on the erased record of the first part nor has a part prepared again    *)
(* whose preparation failed on the inventory page, and the user of gfix    *)
(* follows its advice.                                                     *)
(***************************************************************************)
EXTENDS TwoPhaseCommit, FiniteSetTheorems, TLAPS

\* What the theorems about the outcome need of the surroundings.
AdviceFollowed ==
  /\ Severable \subseteq {1} /\ Messages \subseteq {TRUE}
  /\ Careless = {} /\ Answers \subseteq {"neither"}

-----------------------------------------------------------------------------
(* Types. *)

LEMMA OneIsDatabase ==
  /\ 1 \in Databases /\ N \in Nat \ {0} /\ Databases \subseteq Nat \ {0}
  /\ \A d \in Databases : d <= N
BY ConstantAssumption DEF Databases

LEMMA Places == 0 \in 0..N + 1 /\ 1 \in 0..N + 1 /\ \A d \in Databases : d + 1 \in 0..N + 1
BY OneIsDatabase

LEMMA RestIsTyped == Idle \in AppType /\ Resting \in GfixType
<1>1. Unseen \in [Databases -> TdrStates]
  BY DEF Unseen, TdrStates
<1> QED
  BY <1>1, Places DEF Idle, AppType, Resting, GfixType

PagesFit ==
  /\ record \in [Databases -> TRA_states] /\ saved \in [Databases -> TRA_states]
  /\ dirty \in [Databases -> {"nobody", "engine", "gfix"}]

\* What the caches do with the pages of the records.
LEMMA PagesTyped ==
  ASSUME TypeOK, NEW d \in Databases, NEW who \in {"nobody", "engine", "gfix"}
  PROVE  /\ \A state \in TRA_states : Writes(d, state, who) => PagesFit'
         /\ Flushed(d, who) => PagesFit'
         /\ \A lost : LosesPages(who, lost) => PagesFit'
BY DEF TypeOK, PagesFit, Writes, Flushed, LosesPages

LEMMA UpdatedTyped ==
  ASSUME TypeOK, NEW d \in Databases, NEW outcome \in {"commit", "rollback"}, NEW own \in BOOLEAN
  PROVE  Updated(d, outcome, own) \in TRA_states
BY DEF TypeOK, Updated, TRA_states

LEMMA UpdateTyped ==
  ASSUME TypeOK, NEW d \in Databases, NEW outcome \in {"commit", "rollback"},
         MET_update_transaction(d, outcome)
  PROVE  PagesFit'
<1>1. CASE "prepare2" \in flags[d]
  BY <1>1, PagesTyped, UpdatedTyped DEF MET_update_transaction
<1>2. CASE "prepare2" \notin flags[d]
  BY <1>2 DEF MET_update_transaction, TypeOK, PagesFit, pages
<1> QED
  BY <1>1, <1>2

LEMMA TypeKept == TypeOK /\ [Next]_vars => TypeOK'
<1> SUFFICES ASSUME TypeOK, [Next]_vars PROVE TypeOK'
  OBVIOUS
<1> USE OneIsDatabase DEF TypeOK
<1>1. [Idle EXCEPT !.op = "gone"] \in AppType
  BY RestIsTyped DEF AppType
<1>2. ASSUME NEW op \in {"prepare2", "commit", "rollback"}, NEW message \in BOOLEAN,
             NEW phase \in {"prepare", "commit", "rollback"}, Calls(op, phase, message)
      PROVE  app' \in AppType
  BY <1>2 DEF Calls, AppType
<1>3. ASSUME NEW d \in Databases, app.at = d PROVE [app EXCEPT !.at = @ + 1] \in AppType
  BY <1>3 DEF AppType
<1>4. CASE GDS_PREPARE2
  <2>1. app' \in AppType
    BY <1>2, <1>4, ConstantAssumption DEF GDS_PREPARE2
  <2> QED
    BY <1>4, <2>1 DEF GDS_PREPARE2, engine, pages
<1>5. CASE GDS_COMMIT \/ GDS_ROLLBACK
  <2>1. app' \in AppType
    BY <1>2, <1>5 DEF GDS_COMMIT, GDS_ROLLBACK, CommitBegins
  <2> QED
    BY <1>5, <2>1 DEF GDS_COMMIT, GDS_ROLLBACK, engine, pages
<1>6. CASE AllServed
  <2>1. app' \in AppType
    <3>1. /\ [app EXCEPT !.phase = "commit", !.at = 1] \in AppType
          /\ [app EXCEPT !.op = "done", !.at = 0] \in AppType
      BY Places DEF AppType
    <3> QED
      BY RestIsTyped, <1>6, <3>1 DEF AllServed
  <2>2. limbo' \in BOOLEAN
    BY <1>6 DEF AllServed
  <2> QED
    BY <1>6, <2>1, <2>2 DEF AllServed, engine, pages
<1>7. CASE Exit
  BY <1>1, <1>7 DEF Exit, engine, pages
<1>8. ASSUME NEW d \in Databases, Refused(d) PROVE TypeOK'
  BY RestIsTyped, <1>8 DEF Refused, engine, pages
<1>9. ASSUME NEW d \in Databases, Answered(d) PROVE TypeOK'
  <2>1. app' \in AppType
    BY <1>3, <1>9 DEF Answered
  <2>2. handle' \in [Databases -> BOOLEAN]
    BY <1>9 DEF Answered
  <2> QED
    BY <1>9, <2>1, <2>2 DEF Answered, engine, pages
<1>10. ASSUME NEW d \in Databases, Engine(d) PROVE TypeOK'
  <2> USE DEF TraStates, TRA_states
  <2>1. CASE TRA_prepare_again(d)
    BY <1>10, <2>1 DEF TRA_prepare_again, Owns, engine, pages, coordinator
  <2>2. CASE TRA_prepare(d)
    <3>1. PagesFit'
      <4>1. CASE app.message
        BY <2>2, <4>1, PagesTyped DEF TRA_prepare
      <4>2. CASE ~app.message
        BY <2>2, <4>2 DEF TRA_prepare, PagesFit, pages
      <4> QED
        BY <4>1, <4>2
    <3>2. flags' \in [Databases -> SUBSET {"prepared", "prepare2"}]
      BY <2>2 DEF TRA_prepare
    <3> QED
      BY <2>2, <3>1, <3>2 DEF TRA_prepare, PagesFit, coordinator
  <2>3. CASE CallFails(d) \/ LimboFails(d)
    <3>1. PagesFit'
      BY <2>3, PagesTyped DEF CallFails, LimboFails, PagesFit, pages
    <3>2. app' \in AppType
      BY <2>3, RestIsTyped DEF CallFails, LimboFails, Failed
    <3>3. flags' \in [Databases -> SUBSET {"prepared", "prepare2"}]
      BY <2>3 DEF CallFails, LimboFails
    <3> QED
      BY <2>3, <3>1, <3>2, <3>3 DEF CallFails, LimboFails, Failed, PagesFit
  <2>4. CASE SetLimbo(d)
    <3>1. PagesFit'
      BY <2>4, PagesTyped DEF SetLimbo
    <3> QED
      BY <2>4, <3>1 DEF SetLimbo, Owns, PagesFit, coordinator
  <2>5. CASE TRA_commit(d) \/ TRA_rollback(d)
    <3>1. PagesFit'
      BY <2>5, UpdateTyped DEF TRA_commit, TRA_rollback
    <3> QED
      BY <2>5, <3>1 DEF TRA_commit, TRA_rollback, PagesFit, coordinator
  <2>6. CASE SetOutcome(d)
    <3>1. PagesFit'
      BY <2>6, PagesTyped DEF SetOutcome, PagesFit, pages
    <3> QED
      BY <2>6, <3>1 DEF SetOutcome, Owns, PagesFit, coordinator
  <2>7. CASE Detached(d)
    <3>1. PagesFit'
      <4>1. CASE Flushed(d, "engine")
        BY <4>1, PagesTyped
      <4>2. CASE ~Flushed(d, "engine")
        <5>1. record' = [record EXCEPT ![d] = Updated(d, "rollback", TRUE)]
          BY <2>7, <4>2 DEF Detached
        <5>2. record' \in [Databases -> TRA_states]
          BY <5>1, UpdatedTyped
        <5>3. saved' = [saved EXCEPT ![d] = record'[d]] /\ dirty' = [dirty EXCEPT ![d] = "nobody"]
          BY <2>7, <4>2 DEF Detached
        <5> QED
          BY <5>2, <5>3 DEF PagesFit
      <4> QED
        BY <4>1, <4>2
    <3> QED
      BY <2>7, <3>1 DEF Detached, PagesFit, coordinator
  <2>8. CASE PostCommitFails(d)
    BY <2>8, RestIsTyped DEF PostCommitFails, engine, pages
  <2>9. CASE EngineDies(d)
    <3>1. PagesFit'
      BY <2>9, PagesTyped DEF EngineDies
    <3> QED
      BY <2>9, <3>1 DEF EngineDies, PagesFit, coordinator
  <2> QED
    BY <1>10, <2>1, <2>2, <2>3, <2>4, <2>5, <2>6, <2>7, <2>8, <2>9 DEF Engine
<1>11. ASSUME NEW todo \in Answers \cup {"commit", "rollback"}
       PROVE  Resolve(todo, gfix.seen) \in GfixType
  BY RestIsTyped, ConstantAssumption DEF Resolve, GfixType
<1>12. CASE TDR_reconnect_multiple
  <2>1. PICK todo \in Answers \cup {"commit", "rollback"} : gfix' = Resolve(todo, gfix.seen)
    BY <1>12 DEF TDR_reconnect_multiple
  <2>2. gfix' \in GfixType
    BY <1>11, <2>1
  <2> QED
    BY <1>12, <2>2 DEF TDR_reconnect_multiple, UnchangedByGfix, coordinator, pages
<1>13. CASE GfixDies \/ TDR_shutdown_databases
  <2>1. PagesFit'
    BY <1>13, PagesTyped DEF GfixDies, TDR_shutdown_databases, PagesFit
  <2>2. deaths' \in 0..Deaths
    BY <1>13, ConstantAssumption DEF GfixDies, TDR_shutdown_databases, UnchangedByGfix
  <2> QED
    BY RestIsTyped, <1>13, <2>1, <2>2 DEF GfixDies, TDR_shutdown_databases, UnchangedByGfix,
       PagesFit, coordinator
<1>14. ASSUME NEW d \in Databases, Recover(d) PROVE TypeOK'
  <2>1. gfix' \in GfixType
    <3>1. CASE TDR_list_limbo(d)
      <4>1. [Resting EXCEPT !.step = "read", !.at = 1] \in GfixType
        BY RestIsTyped, Places DEF GfixType
      <4>2. [Unseen EXCEPT ![d] = "limbo"] \in [Databases -> TdrStates]
        BY DEF Unseen, TdrStates, TRA_states
      <4>3. ASSUME NEW answer \in Answers
            PROVE  Resolve(answer, [Unseen EXCEPT ![d] = "limbo"]) \in GfixType
        BY RestIsTyped, <4>2, ConstantAssumption DEF Resolve, GfixType
      <4> QED
        BY <3>1, <4>1, <4>3 DEF TDR_list_limbo
    <3>2. CASE MET_get_state(d)
      <4>1. PICK state \in TdrStates : Sees(d, state)
        BY <3>2 DEF MET_get_state, TdrStates
      <4>2. [gfix.seen EXCEPT ![d] = state] \in [Databases -> TdrStates]
        BY DEF GfixType
      <4> QED
        BY <4>1, <4>2, Places DEF Sees, GfixType
    <3>3. ASSUME gfix.at = d PROVE NextResolved \in GfixType
      <4>1. [gfix EXCEPT !.step = "check", !.at = @ + 1] \in GfixType
        BY <3>3, Places DEF GfixType
      <4>2. [Resting EXCEPT !.step = "shutdown"] \in GfixType
        BY RestIsTyped DEF GfixType
      <4> QED
        BY <4>1, <4>2 DEF NextResolved
    <3>4. CASE TRA_reconnect(d)
      BY <3>3, <3>4 DEF TRA_reconnect, GfixType
    <3>5. CASE UpdateReconnected(d)
      BY <3>5 DEF UpdateReconnected, GfixType
    <3>6. CASE SetReconnected(d) \/ ReconnectFails(d)
      BY <3>3, <3>6 DEF SetReconnected, ReconnectFails
    <3> QED
      BY <1>14, <3>1, <3>2, <3>4, <3>5, <3>6 DEF Recover
  <2>2. tip' \in [Databases -> TraStates]
    BY <1>14 DEF Recover, TDR_list_limbo, MET_get_state, TRA_reconnect, UpdateReconnected,
       SetReconnected, ReconnectFails, TraStates
  <2>3. PagesFit'
    <3>1. CASE UpdateReconnected(d)
      <4>1. gfix.todo \in {"commit", "rollback"}
        BY DEF GfixType
      <4> QED
        BY <3>1, <4>1, PagesTyped, UpdatedTyped DEF UpdateReconnected
    <3>2. CASE Flushed(d, "engine") \/ Flushed(d, "gfix")
      BY <3>2, PagesTyped
    <3>3. CASE UNCHANGED pages
      BY <3>3 DEF PagesFit, pages
    <3> QED
      BY <1>14, <3>1, <3>2, <3>3 DEF Recover, TDR_list_limbo, MET_get_state, TRA_reconnect,
         SetReconnected, ReconnectFails
  <2>4. UnchangedByGfix
    BY <1>14 DEF Recover, TDR_list_limbo, MET_get_state, TRA_reconnect, UpdateReconnected,
       SetReconnected, ReconnectFails
  <2> QED
    BY <2>1, <2>2, <2>3, <2>4 DEF UnchangedByGfix, PagesFit, coordinator
<1>15. ASSUME NEW d \in Databases, CCH_write(d) PROVE TypeOK'
  <2>1. PagesFit'
    BY <1>15, PagesTyped DEF CCH_write
  <2> QED
    BY <1>15, <2>1 DEF CCH_write, PagesFit
<1>16. CASE UNCHANGED vars
  BY <1>16 DEF vars, pages
<1> QED
  BY <1>4, <1>5, <1>6, <1>7, <1>8, <1>9, <1>10, <1>12, <1>13, <1>14, <1>15, <1>16 DEF Next

LEMMA InitIsTyped == Init => TypeOK
<1> SUFFICES ASSUME Init PROVE TypeOK
  OBVIOUS
<1>1. tip \in [Databases -> TraStates] /\ PagesFit
  BY DEF Init, TraStates, TRA_states, PagesFit
<1>2. /\ link \in [Databases -> BOOLEAN] /\ handle \in [Databases -> BOOLEAN]
      /\ flags \in [Databases -> SUBSET {"prepared", "prepare2"}]
      /\ call \in [Databases -> {"none", "prepare", "commit", "rollback", "answered"}]
  BY DEF Init
<1>3. limbo \in BOOLEAN /\ app \in AppType /\ gfix \in GfixType
  BY RestIsTyped, Zenon DEF Init
<1>4. deaths \in 0..Deaths
  BY ConstantAssumption DEF Init
<1> QED
  BY <1>1, <1>2, <1>3, <1>4 DEF TypeOK, PagesFit

\* Every variable keeps its type, whatever may be lost and whatever is answered.
THEOREM TypeCorrect == Spec => []TypeOK
BY InitIsTyped, TypeKept, PTL DEF Spec

-----------------------------------------------------------------------------
(* The inductive invariant. *)

Flagged(d) == "prepared" \in flags[d]
Prepared(d) == Flagged(d) /\ tip[d] # "active"
AllPrepared == \A d \in Databases : Prepared(d)

\* TRA_commit of the first part erases its record: once that is in the file the
\* transaction commits, and before, it does unless the engine dies.
Erased == Flagged(1) /\ record[1] = "none"
Settled == Erased /\ saved[1] = "none"

\* One call at a time, that of the database whose turn it is.
AppFits ==
  /\ app.op \in {"idle", "done", "gone"} <=> app.at = 0
  /\ app.op = "prepare2" => app.phase = "prepare"
  /\ app.op = "commit" => app.phase \in {"prepare", "commit"}
  /\ app.op = "rollback" => app.phase = "rollback"
  /\ app.message = TRUE

CallFits ==
  \A d \in Databases : call[d] # "none" =>
    /\ link[d]
    /\ IF app.op = "gone" THEN call[d] # "answered"
       ELSE app.at = d /\ call[d] \in {app.phase, "answered"}

\* What the databases that had their turn have done.
Progress ==
  /\ app.at > 0 /\ app.phase = "prepare" => \A e \in Databases : e < app.at => Prepared(e)
  /\ app.op = "commit" /\ app.phase = "commit" => AllPrepared
  /\ app.op \in {"commit", "rollback"} /\ app.phase # "prepare" =>
       \A e \in Databases : e < app.at => ~handle[e]
  /\ app.op = "commit" /\ app.phase = "commit" =>
       \A e \in Databases : e < app.at \/ call[e] = "answered" => tip[e] = "committed"
  /\ app.op = "rollback" =>
       \A e \in Databases : e < app.at \/ call[e] = "answered" => tip[e] = "dead"
  /\ app.at > 0 /\ app.phase = "prepare" =>
       \A e \in Databases : call[e] = "answered" => Prepared(e)
  /\ app.op = "done" =>
       \/ \A d \in Databases : tip[d] = "committed"
       \/ \A d \in Databases : tip[d] = "dead"
  /\ limbo => AllPrepared

\* Parts are prepared in their order, each with its record.
PreparedFits ==
  /\ \A d, e \in Databases : d < e /\ Flagged(e) => Prepared(d)
  /\ \A d \in Databases :
       /\ Flagged(d) => "prepare2" \in flags[d]
       /\ ~Flagged(d) => tip[d] \in {"active", "dead"}
       /\ call[d] = "prepare" =>
            ~Flagged(d) /\ tip[d] = "active" /\ record[d] = "limbo" /\ "prepare2" \in flags[d]
       /\ call[d] = "prepare" => \A e \in Databases : e < d => Prepared(e)
       /\ call[d] = "commit" => Prepared(d)

\* The page of a record is in the cache of a living process, and what is erased does
\* not come back from the file.
RecordFits ==
  \A d \in Databases :
    /\ dirty[d] = "nobody" => saved[d] = record[d]
    /\ dirty[d] = "engine" => link[d]
    /\ dirty[d] = "gfix" => record[d] \in {"commit", "rollback"}
    /\ Flagged(d) => saved[d] # "none" \/ record[d] = "none"

\* Only the first attachment is lost under a living application.
LostFits ==
  \A d \in Databases : ~link[d] => app.op = "gone" \/ d = 1

\* A part that was rolled back unprepared cannot be called any more.
UndoneFits ==
  \A d \in Databases :
    app.op # "gone" /\ link[d] /\ handle[d] /\ tip[d] = "dead" /\ ~Flagged(d)
      => call[d] = "answered"

\* Who is committed, or told so, is so because the transaction commits, and for good,
\* but for the first part in its call; and then nobody is rolled back.
OutcomeFits ==
  \A d \in Databases :
    /\ tip[d] = "committed" \/ record[d] = "commit" \/ saved[d] = "commit" => Settled
    /\ call[d] = "commit" => Erased
    /\ d # 1 /\ (call[d] = "commit" \/ (Flagged(d) /\ record[d] = "none")) => Settled
    /\ Erased => /\ Prepared(d) /\ tip[d] # "dead"
                 /\ record[d] # "rollback" /\ call[d] # "rollback"
                 /\ d = 1 \/ saved[d] # "rollback"

\* While the first database may still be called nobody else is rolled back.
FirstDecides ==
  app.op # "gone" /\ link[1] /\ handle[1] =>
    \A d \in Databases :
      /\ tip[d] = "dead" => d = 1 /\ call[1] = "answered" /\ app.op = "rollback"
      /\ d # 1 => record[d] # "rollback" /\ saved[d] # "rollback" /\ call[d] # "rollback"

\* What is left to the application.
HeedFits ==
  /\ app.op = "rollback" /\ handle[1] => ~Erased
  /\ app.at > 0 /\ app.phase = "prepare" => \A d \in Databases : Flagged(d) => Prepared(d)

\* While gfix is at work the first database cannot be called; what it has read and
\* what it does agree with the outcome.
GfixFits ==
  gfix.step \notin {"idle", "shutdown"} =>
    /\ Prepared(1) /\ (app.op = "gone" \/ ~link[1])
    /\ gfix.step \in {"read", "decide"} =>
         /\ gfix.seen[1] = "none" => Settled
         /\ gfix.seen[1] = "limbo" => ~Erased
         /\ \A d \in Databases :
              /\ gfix.seen[d] = "commit" => Settled
              /\ gfix.seen[d] = "rollback" => ~Erased
    /\ gfix.step = "read" => gfix.at \in Databases
    /\ gfix.step \in {"check", "record", "state"} =>
         /\ gfix.at \in Databases
         /\ IF gfix.todo = "commit" THEN Settled ELSE ~Erased
    /\ gfix.step \in {"record", "state"} => Prepared(gfix.at)

IInv ==
  /\ TypeOK /\ AppFits /\ CallFits /\ Progress /\ PreparedFits /\ RecordFits
  /\ LostFits /\ UndoneFits /\ OutcomeFits /\ FirstDecides /\ HeedFits /\ GfixFits

-----------------------------------------------------------------------------
(* Every step keeps the invariant. *)

LEMMA GDS_PREPARE2Keeps ==
  ASSUME IInv, TypeOK', AdviceFollowed, GDS_PREPARE2
  PROVE  IInv'
<1> USE OneIsDatabase DEF IInv, TypeOK
<1>1. PreparedFits' /\ OutcomeFits'
  BY DEF GDS_PREPARE2, engine, pages, coordinator, PreparedFits, OutcomeFits, Prepared, Flagged,
     Erased, Settled
<1>2. AppFits'
  <2>1. PICK message \in Messages : Calls("prepare2", "prepare", message)
    BY DEF GDS_PREPARE2
  <2> QED
    BY <2>1 DEF Calls, AppFits, AdviceFollowed
<1>3. CallFits'
  BY DEF GDS_PREPARE2, Calls, CallFits, AppFits
<1>4. Progress'
  BY DEF GDS_PREPARE2, Calls, engine, pages, Prepared, Flagged, AllPrepared, Progress, AppFits,
     CallFits
<1>5. LostFits'
  BY DEF GDS_PREPARE2, Calls, LostFits
<1>6. UndoneFits'
  BY DEF GDS_PREPARE2, Calls, engine, pages, Prepared, Flagged, UndoneFits
<1>7. FirstDecides'
  BY DEF GDS_PREPARE2, Calls, engine, pages, Prepared, Flagged, Erased, Settled, FirstDecides,
     AppFits
<1>8. GfixFits'
  BY DEF GDS_PREPARE2, Calls, engine, pages, Prepared, Flagged, Erased, Settled, GfixFits
<1>9. RecordFits'
  BY DEF GDS_PREPARE2, engine, pages, Flagged, RecordFits
<1>10. HeedFits'
  BY DEF GDS_PREPARE2, engine, pages, Prepared, Flagged, Erased, Calls, MayRetry, AdviceFollowed,
     AppFits, HeedFits
<1> QED
  BY <1>1, <1>2, <1>3, <1>4, <1>5, <1>6, <1>7, <1>8, <1>9, <1>10 DEF IInv

LEMMA GDS_COMMITKeeps ==
  ASSUME IInv, TypeOK', AdviceFollowed, GDS_COMMIT
  PROVE  IInv'
<1> USE OneIsDatabase DEF IInv, TypeOK
<1>1. PreparedFits' /\ OutcomeFits'
  BY DEF GDS_COMMIT, engine, pages, PreparedFits, OutcomeFits, Prepared, Flagged, Erased, Settled
<1>2. AppFits'
  BY DEF GDS_COMMIT, Calls, CommitBegins, AppFits
<1>3. CallFits'
  BY DEF GDS_COMMIT, Calls, CallFits, AppFits
<1>4. Progress'
  BY DEF GDS_COMMIT, Calls, CommitBegins, engine, pages, Prepared, Flagged, AllPrepared, Progress,
     AppFits, CallFits
<1>5. LostFits'
  BY DEF GDS_COMMIT, Calls, LostFits
<1>6. UndoneFits'
  BY DEF GDS_COMMIT, Calls, engine, pages, Prepared, Flagged, UndoneFits
<1>7. FirstDecides'
  BY DEF GDS_COMMIT, Calls, engine, pages, Prepared, Flagged, Erased, Settled, FirstDecides, AppFits
<1>8. GfixFits'
  BY DEF GDS_COMMIT, Calls, engine, pages, Prepared, Flagged, Erased, Settled, GfixFits
<1>9. RecordFits'
  BY DEF GDS_COMMIT, engine, pages, Flagged, RecordFits
<1>10. HeedFits'
  BY DEF GDS_COMMIT, engine, pages, Prepared, Flagged, Erased, Calls, MayRetry, CommitBegins,
     AdviceFollowed, AppFits, HeedFits
<1> QED
  BY <1>1, <1>2, <1>3, <1>4, <1>5, <1>6, <1>7, <1>8, <1>9, <1>10 DEF IInv

LEMMA GDS_ROLLBACKKeeps ==
  ASSUME IInv, TypeOK', AdviceFollowed, GDS_ROLLBACK
  PROVE  IInv'
<1> USE OneIsDatabase DEF IInv, TypeOK
<1>1. PreparedFits' /\ OutcomeFits'
  BY DEF GDS_ROLLBACK, engine, pages, PreparedFits, OutcomeFits, Prepared, Flagged, Erased, Settled
<1>2. AppFits'
  BY DEF GDS_ROLLBACK, Calls, AppFits
<1>3. CallFits'
  BY DEF GDS_ROLLBACK, Calls, CallFits, AppFits
<1>4. Progress'
  BY DEF GDS_ROLLBACK, Calls, engine, pages, Prepared, Flagged, AllPrepared, Progress, AppFits,
     CallFits
<1>5. LostFits'
  BY DEF GDS_ROLLBACK, Calls, LostFits
<1>6. UndoneFits'
  BY DEF GDS_ROLLBACK, Calls, engine, pages, Prepared, Flagged, UndoneFits
<1>7. FirstDecides'
  BY DEF GDS_ROLLBACK, Calls, engine, pages, Prepared, Flagged, Erased, Settled, FirstDecides,
     AppFits
<1>8. GfixFits'
  BY DEF GDS_ROLLBACK, Calls, engine, pages, Prepared, Flagged, Erased, Settled, GfixFits
<1>9. RecordFits'
  BY DEF GDS_ROLLBACK, engine, pages, Flagged, RecordFits
<1>10. HeedFits'
  BY DEF GDS_ROLLBACK, engine, pages, Prepared, Flagged, Erased, Calls, MayUndo, AdviceFollowed,
     AppFits, PreparedFits, HeedFits
<1> QED
  BY <1>1, <1>2, <1>3, <1>4, <1>5, <1>6, <1>7, <1>8, <1>9, <1>10 DEF IInv

LEMMA AllServedKeeps ==
  ASSUME IInv, TypeOK', AdviceFollowed, AllServed
  PROVE  IInv'
<1> USE OneIsDatabase DEF IInv, TypeOK
<1>1. PreparedFits' /\ OutcomeFits'
  BY DEF AllServed, engine, pages, PreparedFits, OutcomeFits, Prepared, Flagged, Erased, Settled
<1>2. AppFits'
  BY DEF AllServed, Idle, AppFits
<1>3. CallFits'
  BY DEF AllServed, CallFits, AppFits
<1>4. Progress'
  BY DEF AllServed, Idle, engine, pages, Prepared, Flagged, AllPrepared, AppType, Progress, AppFits,
     CallFits
<1>5. LostFits'
  BY DEF AllServed, LostFits, AppFits
<1>6. UndoneFits'
  BY DEF AllServed, engine, pages, Prepared, Flagged, UndoneFits, AppFits
<1>7. FirstDecides'
  BY DEF AllServed, engine, pages, Prepared, Flagged, Erased, Settled, FirstDecides, AppFits,
     Progress
<1>8. GfixFits'
  BY DEF AllServed, engine, pages, Prepared, Flagged, Erased, Settled, GfixFits, AppFits
<1>9. RecordFits'
  BY DEF AllServed, engine, pages, Flagged, RecordFits
<1>10. HeedFits'
  BY DEF AllServed, engine, pages, Prepared, Flagged, Erased, Idle, AppType, AppFits, HeedFits
<1> QED
  BY <1>1, <1>2, <1>3, <1>4, <1>5, <1>6, <1>7, <1>8, <1>9, <1>10 DEF IInv

LEMMA RefusedKeeps ==
  ASSUME IInv, TypeOK', AdviceFollowed, NEW d \in Databases, Refused(d)
  PROVE  IInv'
<1> USE OneIsDatabase DEF IInv, TypeOK
<1>1. PreparedFits' /\ OutcomeFits'
  BY DEF Refused, engine, pages, PreparedFits, OutcomeFits, Prepared, Flagged, Erased, Settled
<1>2. AppFits'
  BY DEF Refused, Idle, AppFits
<1>3. CallFits'
  BY DEF Refused, CallFits, AppFits
<1>4. Progress'
  BY DEF Refused, Idle, engine, pages, Prepared, Flagged, AllPrepared, Progress
<1>5. LostFits'
  BY DEF Refused, LostFits, AppFits
<1>6. UndoneFits'
  BY DEF Refused, engine, pages, Prepared, Flagged, UndoneFits, AppFits
<1>7. FirstDecides'
  BY DEF Refused, engine, pages, Prepared, Flagged, Erased, Settled, FirstDecides,
     AppFits, Progress
<1>8. GfixFits'
  BY DEF Refused, engine, pages, Prepared, Flagged, Erased, Settled, GfixFits, AppFits
<1>9. RecordFits'
  BY DEF Refused, engine, pages, Flagged, RecordFits
<1>10. HeedFits'
  BY DEF Refused, engine, pages, Prepared, Flagged, Erased, Idle, AppFits, HeedFits
<1> QED
  BY <1>1, <1>2, <1>3, <1>4, <1>5, <1>6, <1>7, <1>8, <1>9, <1>10 DEF IInv

LEMMA AnsweredKeeps ==
  ASSUME IInv, TypeOK', AdviceFollowed, NEW d \in Databases, Answered(d)
  PROVE  IInv'
<1> USE OneIsDatabase DEF IInv, TypeOK
<1>1. AppFits'
  BY DEF Answered, AppFits
<1>2. CallFits'
  BY DEF Answered, CallFits
<1>3. Progress'
  <2>1. /\ app.at = d /\ call[d] = "answered" /\ UNCHANGED <<tip, flags, limbo>>
        /\ app'.op = app.op /\ app'.phase = app.phase /\ app'.at = d + 1
    BY DEF Answered, engine, pages, AppType
  <2>2. \A e \in Databases : /\ e < app'.at => e < app.at \/ e = d
                             /\ call'[e] = "answered" => call[e] = "answered"
    BY <2>1 DEF Answered
  <2>3. /\ \A e \in Databases : ~handle[e] => ~handle'[e]
        /\ app.phase # "prepare" => ~handle'[d]
    BY DEF Answered
  <2> QED
    BY <2>1, <2>2, <2>3 DEF Progress, AppFits, AllPrepared, Prepared, Flagged
<1>4. PreparedFits'
  BY DEF Answered, engine, pages, Prepared, Flagged, PreparedFits
<1>5. LostFits'
  BY DEF Answered, LostFits, CallFits
<1>6. UndoneFits'
  BY DEF Answered, engine, pages, Prepared, Flagged, AllPrepared, UndoneFits, Progress
<1>7. OutcomeFits'
  BY DEF Answered, engine, pages, Prepared, Flagged, Erased, Settled, OutcomeFits
<1>8. FirstDecides'
  <2>1. /\ app.at = d /\ call[d] = "answered" /\ app.op # "gone"
        /\ UNCHANGED <<link, tip, flags, record, saved>>
        /\ app'.op = app.op /\ app'.phase = app.phase /\ app'.at = d + 1
    BY DEF Answered, engine, pages, AppType, AppFits
  <2>2. ASSUME handle'[1], link[1]
        PROVE  handle[1] /\ \A e \in Databases : tip[e] # "dead"
    <3>1. handle[1] /\ (d = 1 => app.phase = "prepare")
      BY <2>2 DEF Answered
    <3>2. call[1] = "answered" => d = 1
      BY <2>1 DEF CallFits
    <3>3. app.op = "rollback" => app.phase = "rollback"
      BY DEF AppFits
    <3> QED
      BY <2>1, <2>2, <3>1, <3>2, <3>3 DEF FirstDecides
  <2>3. \A e \in Databases : call'[e] = "rollback" => call[e] = "rollback"
    BY DEF Answered
  <2> QED
    BY <2>1, <2>2, <2>3 DEF FirstDecides
<1>9. GfixFits'
  BY DEF Answered, engine, pages, Prepared, Flagged, Erased, Settled, GfixFits
<1>10. RecordFits'
  BY DEF Answered, engine, pages, Flagged, RecordFits
<1>11. HeedFits'
  BY DEF Answered, engine, pages, Prepared, Flagged, Erased, AppType, AppFits, HeedFits
<1> QED
  BY <1>1, <1>2, <1>3, <1>4, <1>5, <1>6, <1>7, <1>8, <1>9, <1>10, <1>11 DEF IInv

LEMMA ExitKeeps ==
  ASSUME IInv, TypeOK', AdviceFollowed, Exit
  PROVE  IInv'
<1> USE OneIsDatabase DEF IInv, TypeOK
<1>1. AppFits'
  BY DEF Exit, Idle, AppFits
<1>2. CallFits'
  BY DEF Exit, CallFits
<1>3. Progress'
  BY DEF Exit, Idle, engine, pages, Prepared, Flagged, AllPrepared, Progress
<1>4. PreparedFits'
  BY DEF Exit, engine, pages, Prepared, Flagged, PreparedFits
<1>5. LostFits'
  BY DEF Exit, LostFits
<1>6. UndoneFits'
  BY DEF Exit, UndoneFits
<1>7. OutcomeFits'
  BY DEF Exit, engine, pages, Prepared, Flagged, Erased, Settled, OutcomeFits
<1>8. FirstDecides'
  BY DEF Exit, FirstDecides
<1>9. GfixFits'
  BY DEF Exit, engine, pages, Prepared, Flagged, Erased, Settled, GfixFits
<1>10. RecordFits'
  BY DEF Exit, engine, pages, Flagged, RecordFits
<1>11. HeedFits'
  BY DEF Exit, engine, pages, Prepared, Flagged, Erased, Idle, AppFits, HeedFits
<1> QED
  BY <1>1, <1>2, <1>3, <1>4, <1>5, <1>6, <1>7, <1>8, <1>9, <1>10, <1>11 DEF IInv

LEMMA TRA_prepare_againKeeps ==
  ASSUME IInv, TypeOK', AdviceFollowed, NEW d \in Databases, TRA_prepare_again(d)
  PROVE  IInv'
<1> USE OneIsDatabase DEF IInv, TypeOK
<1>1. AppFits' /\ LostFits' /\ GfixFits'
  BY DEF TRA_prepare_again, engine, pages, coordinator, AppFits, LostFits, GfixFits, Prepared,
     Flagged,
     Erased, Settled
<1>2. CallFits'
  BY DEF TRA_prepare_again, Calling, Reached, Owns, coordinator, CallFits
<1>3. Progress'
  BY DEF TRA_prepare_again, Calling, Owns, engine, pages, coordinator, Prepared, Flagged,
     AllPrepared,
     Progress, AppFits, HeedFits
<1>4. PreparedFits'
  BY DEF TRA_prepare_again, Owns, engine, pages, Prepared, Flagged, AllPrepared, PreparedFits
<1>5. UndoneFits'
  BY DEF TRA_prepare_again, Reached, Owns, engine, pages, coordinator, Prepared, Flagged, UndoneFits
<1>6. OutcomeFits'
  BY DEF TRA_prepare_again, Owns, engine, pages, Prepared, Flagged, Erased, Settled, OutcomeFits
<1>7. FirstDecides'
  BY DEF TRA_prepare_again, Owns, engine, pages, coordinator, Prepared, Flagged, Erased, Settled,
     FirstDecides
<1>8. RecordFits'
  BY DEF TRA_prepare_again, coordinator, engine, pages, Flagged, RecordFits
<1>9. HeedFits'
  BY DEF TRA_prepare_again, coordinator, engine, pages, Prepared, Flagged, Erased, AppFits, HeedFits
<1> QED
  BY <1>1, <1>2, <1>3, <1>4, <1>5, <1>6, <1>7, <1>8, <1>9 DEF IInv

LEMMA TRA_prepareKeeps ==
  ASSUME IInv, TypeOK', AdviceFollowed, NEW d \in Databases, TRA_prepare(d)
  PROVE  IInv'
<1> USE OneIsDatabase DEF IInv, TypeOK
<1>1. app.message = TRUE
  BY DEF AppFits
<1>2. /\ Calling(d, "prepare") /\ Reached(d) /\ ~Flagged(d)
      /\ record[d] = "none" /\ Writes(d, "limbo", "engine")
      /\ flags' = [flags EXCEPT ![d] = @ \cup {"prepare2"}]
      /\ call' = [call EXCEPT ![d] = "prepare"]
      /\ UNCHANGED <<tip, link, handle, limbo, app, gfix>>
  BY <1>1 DEF TRA_prepare, coordinator, Flagged
<1>3. /\ record' = [record EXCEPT ![d] = "limbo"]
      /\ saved' = [saved EXCEPT ![d] = IF dirty[d] = "engine" THEN @ ELSE "none"]
      /\ dirty' = [dirty EXCEPT ![d] = "engine"]
  BY <1>2 DEF Writes
<1>4. \A e \in Databases : (Flagged(e)' <=> Flagged(e)) /\ (Prepared(e)' <=> Prepared(e))
  BY <1>2 DEF Flagged, Prepared
<1>5. (Erased' <=> Erased) /\ (Settled' <=> Settled)
  BY <1>2, <1>3, <1>4 DEF Erased, Settled
<1>6. AppFits' /\ LostFits'
  BY <1>2 DEF AppFits, LostFits
<1>7. CallFits'
  BY <1>2 DEF Calling, Reached, CallFits
<1>8. Progress'
  BY <1>2, <1>4 DEF Progress, AllPrepared
<1>9. PreparedFits'
  <2>1. tip[d] = "active"
    BY <1>2 DEF Calling, Reached, UndoneFits, PreparedFits, AppFits
  <2>2. \A e \in Databases : e < d => Prepared(e)
    BY <1>2 DEF Calling, Progress
  <2> QED
    BY <2>1, <2>2, <1>2, <1>3, <1>4 DEF PreparedFits
<1>10. UndoneFits'
  BY <1>2, <1>4 DEF Calling, UndoneFits
<1>11. OutcomeFits'
  <2>1. ~Erased /\ ~Settled
    BY <1>2 DEF OutcomeFits, Prepared, Settled
  <2> QED
    BY <2>1, <1>2, <1>3, <1>4, <1>5 DEF OutcomeFits
<1>12. FirstDecides'
  BY <1>2, <1>3 DEF Calling, FirstDecides
<1>13. GfixFits'
  BY <1>2, <1>4, <1>5 DEF GfixType, GfixFits
<1>14. RecordFits'
  <2>1. ASSUME NEW e \in Databases, e # d
        PROVE  /\ record'[e] = record[e] /\ saved'[e] = saved[e] /\ dirty'[e] = dirty[e]
               /\ Flagged(e)' <=> Flagged(e)
    BY <2>1, <1>3, <1>4
  <2>2. record'[d] = "limbo" /\ dirty'[d] = "engine" /\ link[d] /\ ~Flagged(d)'
    BY <1>2, <1>3, <1>4 DEF Reached
  <2> QED
    BY <2>1, <2>2, <1>2 DEF RecordFits
<1>15. HeedFits'
  BY <1>2, <1>4, <1>5 DEF HeedFits
<1> QED
  BY <1>6, <1>7, <1>8, <1>9, <1>10, <1>11, <1>12, <1>13, <1>14, <1>15 DEF IInv

LEMMA CallFailsKeeps ==
  ASSUME IInv, TypeOK', AdviceFollowed, NEW d \in Databases, CallFails(d)
  PROVE  IInv'
<1> USE OneIsDatabase DEF IInv, TypeOK
<1>1. AppFits'
  BY DEF CallFails, Failed, Idle, AppFits
<1>2. CallFits'
  BY DEF CallFails, Failed, CallFits
<1>3. Progress'
  BY DEF CallFails, Failed, Idle, engine, pages, Prepared, Flagged, AllPrepared, Progress
<1>4. PreparedFits'
  BY DEF CallFails, Failed, engine, pages, Prepared, Flagged, PreparedFits
<1>5. LostFits'
  BY DEF CallFails, Failed, LostFits
<1>6. UndoneFits'
  BY DEF CallFails, Failed, Idle, engine, pages, Prepared, Flagged, UndoneFits
<1>7. OutcomeFits'
  BY DEF CallFails, Failed, engine, pages, Prepared, Flagged, Erased, Settled, OutcomeFits
<1>8. FirstDecides'
  <2>1. ASSUME app.op # "gone", link[1], handle[1] PROVE \A e \in Databases : tip[e] # "dead"
    BY <2>1 DEF CallFails, Failed, FirstDecides, CallFits
  <2> QED
    BY <2>1 DEF CallFails, Failed, pages, FirstDecides
<1>9. GfixFits'
  BY DEF CallFails, Failed, engine, pages, Prepared, Flagged, Erased, Settled, GfixFits
<1>10. RecordFits'
  BY DEF CallFails, Failed, Idle, engine, pages, Flagged, RecordFits
<1>11. HeedFits'
  BY DEF CallFails, Failed, Idle, engine, pages, Prepared, Flagged, Erased, AppFits, HeedFits
<1> QED
  BY <1>1, <1>2, <1>3, <1>4, <1>5, <1>6, <1>7, <1>8, <1>9, <1>10, <1>11 DEF IInv

LEMMA PostCommitFailsKeeps ==
  ASSUME IInv, TypeOK', AdviceFollowed, NEW d \in Databases, PostCommitFails(d)
  PROVE  IInv'
<1> USE OneIsDatabase DEF IInv, TypeOK
<1>1. /\ app.at = d /\ app.phase = "commit" /\ call[d] = "answered"
      /\ call' = [call EXCEPT ![d] = "none"] /\ app' = Idle
      /\ UNCHANGED <<tip, record, saved, dirty, flags, link, handle, limbo, gfix>>
  BY DEF PostCommitFails, engine, pages
<1>2. app.op = "commit" /\ tip[d] = "committed"
  BY <1>1 DEF AppFits, AppType, Progress
<1>3. \A e \in Databases : tip[e] # "dead"
  BY <1>2 DEF OutcomeFits, Settled
<1>4. /\ \A e \in Databases : (Flagged(e)' <=> Flagged(e)) /\ (Prepared(e)' <=> Prepared(e))
      /\ (Erased' <=> Erased) /\ (Settled' <=> Settled)
  BY <1>1 DEF Prepared, Flagged, Erased, Settled
<1>5. AppFits' /\ CallFits' /\ Progress'
  BY <1>1, <1>4 DEF Idle, AppFits, CallFits, Progress, AllPrepared
<1>6. PreparedFits' /\ RecordFits'
  BY <1>1, <1>4 DEF PreparedFits, RecordFits
<1>7. LostFits' /\ UndoneFits'
  BY <1>1, <1>2, <1>3 DEF LostFits, UndoneFits
<1>8. OutcomeFits'
  BY <1>1, <1>4 DEF OutcomeFits
<1>9. FirstDecides'
  BY <1>1, <1>2, <1>3 DEF FirstDecides
<1>10. GfixFits'
  BY <1>1, <1>2, <1>4 DEF GfixFits
<1>11. HeedFits'
  BY <1>1 DEF Idle, HeedFits
<1> QED
  BY <1>5, <1>6, <1>7, <1>8, <1>9, <1>10, <1>11 DEF IInv

\* A page that is written loses nothing of the record.
PagesWritten ==
  /\ record' = record
  /\ \A d \in Databases : /\ saved'[d] \in {saved[d], record[d]}
                          /\ dirty'[d] \in {dirty[d], "nobody"}
                          /\ dirty'[d] = "nobody" => saved'[d] = record[d]

LEMMA FlushWrites ==
  ASSUME TypeOK, RecordFits, NEW d \in Databases, NEW who \in {"engine", "gfix"}
  PROVE  /\ UNCHANGED pages => PagesWritten
         /\ Flushed(d, who) => PagesWritten /\ dirty'[d] # who
BY DEF TypeOK, RecordFits, Flushed, PagesWritten, pages

\* What a write leaves as it is.
LEMMA WrittenFits ==
  ASSUME TypeOK, RecordFits, PagesWritten, UNCHANGED <<link, flags>>
  PROVE  RecordFits' /\ (Erased' <=> Erased) /\ (Settled => Settled')
BY OneIsDatabase DEF TypeOK, RecordFits, PagesWritten, Flagged, Erased, Settled

LEMMA LimboFlagged ==
  ASSUME IInv, NEW d \in Databases, call[d] = "prepare", Flushed(d, "engine"),
         flags' = [flags EXCEPT ![d] = @ \cup {"prepared"}], UNCHANGED link
  PROVE  /\ ~Flagged(d) /\ tip[d] = "active" /\ record[d] = "limbo"
         /\ \A e \in Databases : Flagged(e)' <=> e = d \/ Flagged(e)
         /\ PagesWritten /\ RecordFits'
         /\ ~Erased /\ ~Settled /\ ~Erased' /\ ~Settled'
<1> USE OneIsDatabase DEF IInv, TypeOK
<1>1. ~Flagged(d) /\ tip[d] = "active" /\ record[d] = "limbo"
  BY DEF PreparedFits
<1>2. \A e \in Databases : Flagged(e)' <=> e = d \/ Flagged(e)
  BY DEF Flagged
<1>3. PagesWritten /\ dirty'[d] # "engine"
  BY FlushWrites
<1>4. saved'[d] = "limbo"
  BY <1>1, <1>3 DEF PagesWritten, RecordFits
<1>5. RecordFits'
  <2>1. ASSUME NEW e \in Databases, e # d
        PROVE  /\ dirty'[e] = "nobody" => saved'[e] = record'[e]
               /\ dirty'[e] = "engine" => link'[e]
               /\ dirty'[e] = "gfix" => record'[e] \in {"commit", "rollback"}
               /\ Flagged(e)' => saved'[e] # "none" \/ record'[e] = "none"
    BY <2>1, <1>2, <1>3 DEF RecordFits, PagesWritten
  <2>2. record'[d] = "limbo" /\ saved'[d] = "limbo" /\ dirty'[d] = "nobody"
    BY <1>1, <1>3, <1>4 DEF RecordFits, PagesWritten
  <2> QED
    BY <2>1, <2>2 DEF RecordFits
<1>6. ~Erased
  BY <1>1 DEF OutcomeFits, Prepared
<1>7. ~Erased'
  BY <1>1, <1>2, <1>3, <1>6 DEF PagesWritten, Erased
<1> QED
  BY <1>1, <1>2, <1>3, <1>5, <1>6, <1>7 DEF Settled

LEMMA SetLimboKeeps ==
  ASSUME IInv, TypeOK', AdviceFollowed, NEW d \in Databases, SetLimbo(d)
  PROVE  IInv'
<1> USE OneIsDatabase DEF IInv, TypeOK
<1>1. /\ call[d] = "prepare" /\ Flushed(d, "engine")
      /\ tip' = [tip EXCEPT ![d] = "limbo"] /\ call' = Owns(d)
      /\ flags' = [flags EXCEPT ![d] = @ \cup {"prepared"}]
      /\ UNCHANGED <<link, handle, limbo, app, gfix>>
  BY DEF SetLimbo, coordinator
<1>2. /\ ~Flagged(d) /\ tip[d] = "active" /\ record[d] = "limbo"
      /\ \A e \in Databases : Flagged(e)' <=> e = d \/ Flagged(e)
      /\ PagesWritten /\ RecordFits'
      /\ ~Erased /\ ~Settled /\ ~Erased' /\ ~Settled'
  BY <1>1, LimboFlagged
<1>3. \A e \in Databases : Prepared(e)' <=> e = d \/ Prepared(e)
  BY <1>1, <1>2 DEF Prepared
<1>4. AppFits' /\ LostFits'
  BY <1>1 DEF AppFits, LostFits
<1>5. CallFits'
  BY <1>1 DEF Owns, CallFits
<1>6. Progress'
  BY DEF SetLimbo, Owns, coordinator, Prepared, Flagged, AllPrepared, Progress, AppFits, CallFits
<1>7. PreparedFits'
  BY DEF SetLimbo, Owns, Flushed, Prepared, Flagged, PreparedFits
<1>8. UndoneFits'
  BY DEF SetLimbo, Owns, engine, pages, coordinator, Prepared, Flagged, UndoneFits
<1>9. OutcomeFits'
  <2>1. ASSUME NEW e \in Databases
        PROVE  /\ tip'[e] # "committed" /\ record'[e] # "commit" /\ saved'[e] # "commit"
               /\ call'[e] # "commit"
    BY <1>1, <1>2 DEF OutcomeFits, PagesWritten, Owns
  <2>2. \A e \in Databases : e # 1 /\ Flagged(e)' => record'[e] # "none"
    BY <1>2 DEF OutcomeFits, PagesWritten
  <2> QED
    BY <2>1, <2>2, <1>2 DEF OutcomeFits
<1>10. FirstDecides'
  BY <1>1, <1>2 DEF Owns, PagesWritten, FirstDecides
<1>11. GfixFits'
  BY <1>1, <1>2, <1>3 DEF GfixFits
<1>12. HeedFits'
  BY <1>1, <1>2, <1>3 DEF HeedFits
<1> QED
  BY <1>2, <1>4, <1>5, <1>6, <1>7, <1>8, <1>9, <1>10, <1>11, <1>12 DEF IInv

LEMMA LimboFailsKeeps ==
  ASSUME IInv, TypeOK', AdviceFollowed, NEW d \in Databases, LimboFails(d)
  PROVE  IInv'
<1> USE OneIsDatabase DEF IInv, TypeOK
<1>1. /\ call[d] = "prepare" /\ Flushed(d, "engine")
      /\ call' = [call EXCEPT ![d] = "none"]
      /\ flags' = [flags EXCEPT ![d] = @ \cup {"prepared"}]
      /\ app' = IF app.op = "gone" THEN app ELSE Idle
      /\ UNCHANGED <<tip, link, handle, limbo, gfix>>
  BY DEF LimboFails, Failed
<1>2. /\ ~Flagged(d) /\ tip[d] = "active" /\ record[d] = "limbo"
      /\ \A e \in Databases : Flagged(e)' <=> e = d \/ Flagged(e)
      /\ PagesWritten /\ RecordFits'
      /\ ~Erased /\ ~Settled /\ ~Erased' /\ ~Settled'
  BY <1>1, LimboFlagged
<1>3. \A e \in Databases : Prepared(e)' <=> Prepared(e)
  BY <1>1, <1>2 DEF Prepared
<1>4. AppFits' /\ CallFits' /\ LostFits'
  BY <1>1 DEF Idle, AppFits, CallFits, LostFits
<1>5. Progress'
  BY <1>1, <1>3 DEF Idle, AllPrepared, Progress
<1>6. PreparedFits'
  BY <1>1, <1>2, <1>3 DEF PagesWritten, PreparedFits
<1>7. UndoneFits'
  BY <1>1, <1>2 DEF Idle, UndoneFits
<1>8. OutcomeFits'
  <2>1. ASSUME NEW e \in Databases
        PROVE  /\ tip'[e] # "committed" /\ record'[e] # "commit" /\ saved'[e] # "commit"
               /\ call'[e] # "commit"
    BY <1>1, <1>2 DEF OutcomeFits, PagesWritten
  <2>2. \A e \in Databases : e # 1 /\ Flagged(e)' => record'[e] # "none"
    BY <1>2 DEF OutcomeFits, PagesWritten
  <2> QED
    BY <2>1, <2>2, <1>2 DEF OutcomeFits
<1>9. FirstDecides'
  <2>1. ASSUME app.op # "gone", link[1], handle[1] PROVE \A e \in Databases : tip[e] # "dead"
    BY <2>1, <1>1 DEF FirstDecides, CallFits
  <2>2. app'.op # "gone" => app.op # "gone"
    BY <1>1
  <2>3. ASSUME app.op # "gone", link[1], handle[1], NEW e \in Databases, e # 1
        PROVE  record'[e] # "rollback" /\ saved'[e] # "rollback" /\ call'[e] # "rollback"
    BY <2>3, <1>1, <1>2 DEF PagesWritten, FirstDecides
  <2> QED
    BY <2>1, <2>2, <2>3, <1>1 DEF FirstDecides
<1>10. GfixFits'
  BY <1>1, <1>2, <1>3 DEF GfixFits
<1>11. HeedFits'
  BY <1>1, <1>2 DEF Idle, AppFits, HeedFits
<1> QED
  BY <1>2, <1>4, <1>5, <1>6, <1>7, <1>8, <1>9, <1>10, <1>11 DEF IInv

LEMMA TRA_commitKeeps ==
  ASSUME IInv, TypeOK', AdviceFollowed, NEW d \in Databases, TRA_commit(d)
  PROVE  IInv'
<1> USE OneIsDatabase DEF IInv, TypeOK
<1>1. /\ Calling(d, "commit") /\ Reached(d) /\ MET_update_transaction(d, "commit")
      /\ call' = [call EXCEPT ![d] = "commit"]
      /\ UNCHANGED <<tip, flags, link, handle, limbo, app, gfix>>
  BY DEF TRA_commit, coordinator
<1>2. app.op = "commit" /\ app.phase = "commit" /\ app.at = d
  BY <1>1 DEF Calling, AppFits, AppType
<1>3. \A e \in Databases : Prepared(e) /\ Prepared(e)' /\ Flagged(e) /\ Flagged(e)'
  BY <1>1, <1>2 DEF Progress, AllPrepared, Prepared, Flagged
<1>4. \A e \in Databases : call[e] = "none"
  BY <1>1, <1>2 DEF Calling, CallFits
<1>5. Writes(d, "none", "engine")
  BY <1>1, <1>3 DEF MET_update_transaction, Updated, PreparedFits
<1>6. /\ \A e \in Databases : e # d =>
           record'[e] = record[e] /\ saved'[e] = saved[e] /\ dirty'[e] = dirty[e]
      /\ record'[d] = "none" /\ saved'[d] \in {saved[d], record[d]}
      /\ record[d] = "none" => saved'[d] = saved[d] /\ dirty'[d] = dirty[d]
      /\ record[d] # "none" => dirty'[d] = "engine"
  BY <1>5 DEF Writes
<1>7. d # 1 => Settled
  BY <1>2 DEF Progress, OutcomeFits
<1>8. Erased' /\ (Settled => Settled')
  BY <1>3, <1>6, <1>7 DEF Erased, Settled
<1>9. ASSUME NEW e \in Databases
      PROVE  tip[e] # "dead" /\ (e # 1 => record[e] # "rollback" /\ saved[e] # "rollback")
  <2>1. CASE d = 1
    BY <1>1, <1>2, <2>1 DEF Reached, FirstDecides
  <2>2. CASE d # 1
    BY <1>7, <2>2 DEF Settled, OutcomeFits
  <2> QED
    BY <2>1, <2>2
<1>10. AppFits' /\ LostFits'
  BY <1>1 DEF AppFits, LostFits
<1>11. CallFits'
  BY <1>1 DEF Calling, Reached, CallFits
<1>12. Progress'
  BY <1>1, <1>3 DEF AllPrepared, Progress
<1>13. PreparedFits'
  BY <1>1, <1>3, <1>4 DEF PreparedFits
<1>14. UndoneFits'
  BY <1>1, <1>3 DEF UndoneFits
<1>15. OutcomeFits'
  <2>1. ASSUME NEW e \in Databases, tip[e] = "committed" \/ record'[e] = "commit" \/ saved'[e] = "commit"
        PROVE  Settled'
    BY <2>1, <1>6, <1>8 DEF OutcomeFits
  <2>2. ASSUME NEW e \in Databases, e # 1, call'[e] = "commit" \/ record'[e] = "none"
        PROVE  Settled'
    BY <2>2, <1>1, <1>3, <1>4, <1>6, <1>7, <1>8 DEF OutcomeFits
  <2>3. ASSUME NEW e \in Databases
        PROVE  /\ record'[e] # "rollback" /\ call'[e] # "rollback"
               /\ e = 1 \/ saved'[e] # "rollback"
    BY <1>1, <1>4, <1>6, <1>8, <1>9 DEF Erased
  <2> QED
    BY <2>1, <2>2, <2>3, <1>1, <1>3, <1>8, <1>9 DEF OutcomeFits
<1>16. FirstDecides'
  BY <1>1, <1>4, <1>6, <1>9 DEF FirstDecides
<1>17. GfixFits'
  <2>1. ASSUME d = 1 PROVE gfix.step \in {"idle", "shutdown"}
    BY <2>1, <1>1, <1>2 DEF Reached, GfixFits
  <2>2. ASSUME d # 1 PROVE (Erased' <=> Erased) /\ (Settled => Settled')
    BY <2>2, <1>7, <1>8 DEF Settled
  <2> QED
    BY <2>1, <2>2, <1>1, <1>3 DEF GfixFits
<1>18. RecordFits'
  BY <1>1, <1>3, <1>6 DEF Reached, RecordFits
<1>19. HeedFits'
  BY <1>1, <1>2 DEF HeedFits
<1> QED
  BY <1>10, <1>11, <1>12, <1>13, <1>14, <1>15, <1>16, <1>17, <1>18, <1>19 DEF IInv

LEMMA TRA_rollbackKeeps ==
  ASSUME IInv, TypeOK', AdviceFollowed, NEW d \in Databases, TRA_rollback(d)
  PROVE  IInv'
<1> USE OneIsDatabase DEF IInv, TypeOK
<1>1. /\ Calling(d, "rollback") /\ Reached(d) /\ MET_update_transaction(d, "rollback")
      /\ call' = [call EXCEPT ![d] = "rollback"]
      /\ UNCHANGED <<tip, flags, link, handle, limbo, app, gfix>>
  BY DEF TRA_rollback, coordinator
<1>2. app.op = "rollback" /\ app.at = d
  BY <1>1 DEF Calling, AppFits, AppType
<1>3. \A e \in Databases : (Prepared(e)' <=> Prepared(e)) /\ (Flagged(e)' <=> Flagged(e))
  BY <1>1 DEF Prepared, Flagged
<1>4. \A e \in Databases : call[e] = "none"
  BY <1>1, <1>2 DEF Calling, CallFits
<1>5. /\ \A e \in Databases : e # d =>
           record'[e] = record[e] /\ saved'[e] = saved[e] /\ dirty'[e] = dirty[e]
      /\ record'[d] \in {record[d], "rollback"} /\ saved'[d] \in {saved[d], record[d]}
      /\ record'[d] = record[d] => saved'[d] = saved[d] /\ dirty'[d] = dirty[d]
      /\ record'[d] # record[d] => record[d] # "none" /\ dirty'[d] = "engine"
  <2>1. CASE "prepare2" \notin flags[d]
    BY <1>1, <2>1 DEF MET_update_transaction, pages
  <2>2. CASE record[d] = "none" /\ "prepare2" \in flags[d]
    BY <1>1, <2>2 DEF MET_update_transaction, Updated, Writes
  <2>3. CASE record[d] # "none" /\ "prepare2" \in flags[d]
    BY <1>1, <2>3 DEF MET_update_transaction, Updated, Writes
  <2> QED
    BY <2>1, <2>2, <2>3
<1>6. ~Erased /\ ~Settled
  <2>1. CASE d = 1
    BY <2>1, <1>1, <1>2 DEF Reached, HeedFits, Settled
  <2>2. CASE d # 1
    BY <2>2, <1>2 DEF Progress, OutcomeFits, Settled
  <2> QED
    BY <2>1, <2>2
<1>7. ~Erased' /\ ~Settled'
  BY <1>3, <1>5, <1>6 DEF Erased, Settled
<1>8. AppFits' /\ LostFits'
  BY <1>1 DEF AppFits, LostFits
<1>9. CallFits'
  BY <1>1 DEF Calling, Reached, CallFits
<1>10. Progress'
  BY <1>1, <1>3 DEF AllPrepared, Progress
<1>11. PreparedFits'
  BY <1>1, <1>3, <1>4 DEF PreparedFits
<1>12. UndoneFits'
  BY <1>1, <1>3 DEF Calling, UndoneFits
<1>13. OutcomeFits'
  <2>1. ASSUME NEW e \in Databases
        PROVE  /\ tip[e] # "committed" /\ record'[e] # "commit" /\ saved'[e] # "commit"
               /\ call'[e] # "commit" /\ ~(e # 1 /\ Flagged(e) /\ record'[e] = "none")
    BY <1>1, <1>4, <1>5, <1>6 DEF OutcomeFits
  <2> QED
    BY <2>1, <1>1, <1>3, <1>7 DEF OutcomeFits
<1>14. FirstDecides'
  <2>1. CASE d = 1
    BY <2>1, <1>1, <1>4, <1>5 DEF FirstDecides
  <2>2. CASE d # 1
    <3>1. 1 < app.at /\ app.phase # "prepare"
      BY <2>2, <1>1, <1>2 DEF Calling
    <3>2. ~handle[1]
      BY <3>1, <1>2 DEF Progress
    <3> QED
      BY <3>2, <1>1 DEF FirstDecides
  <2> QED
    BY <2>1, <2>2
<1>15. GfixFits'
  BY <1>1, <1>3, <1>6, <1>7 DEF GfixFits
<1>16. RecordFits'
  BY <1>1, <1>3, <1>5 DEF Reached, RecordFits
<1>17. HeedFits'
  BY <1>1, <1>3, <1>7 DEF HeedFits
<1> QED
  BY <1>8, <1>9, <1>10, <1>11, <1>12, <1>13, <1>14, <1>15, <1>16, <1>17 DEF IInv

LEMMA SetOutcomeKeeps ==
  ASSUME IInv, TypeOK', AdviceFollowed, NEW d \in Databases, SetOutcome(d)
  PROVE  IInv'
<1> USE OneIsDatabase DEF IInv, TypeOK
<1>1. /\ call[d] \in {"commit", "rollback"} /\ call' = Owns(d)
      /\ tip' = [tip EXCEPT ![d] = IF call[d] = "commit" THEN "committed" ELSE "dead"]
      /\ UNCHANGED <<flags, link, handle, limbo, app, gfix>>
  BY DEF SetOutcome, coordinator
<1>2. PagesWritten
  BY FlushWrites DEF SetOutcome
<1>3. RecordFits' /\ (Erased' <=> Erased) /\ (Settled => Settled')
  BY <1>1, <1>2, WrittenFits
<1>4. /\ \A e \in Databases : (Flagged(e)' <=> Flagged(e)) /\ (Prepared(e) => Prepared(e)')
  BY <1>1 DEF Prepared, Flagged
<1>5. call[d] = "commit" => Settled'
  <2>1. CASE d = 1 /\ call[1] = "commit"
    <3>1. Erased /\ dirty'[1] # "engine"
      BY <2>1, FlushWrites DEF SetOutcome, OutcomeFits
    <3>2. dirty'[1] = "nobody"
      BY <3>1, <1>2 DEF PagesWritten, RecordFits, Erased
    <3> QED
      BY <3>1, <3>2, <1>2, <1>3 DEF PagesWritten, Erased, Settled
  <2>2. CASE d # 1
    BY <2>2, <1>3 DEF OutcomeFits
  <2> QED
    BY <2>1, <2>2
<1>6. call[d] = "rollback" => ~Erased
  BY DEF OutcomeFits
<1>7. AppFits' /\ LostFits'
  BY <1>1 DEF AppFits, LostFits
<1>8. CallFits'
  BY <1>1 DEF Owns, CallFits
<1>9. Progress'
  BY DEF SetOutcome, Owns, coordinator, Prepared, Flagged, AllPrepared, Progress, AppFits, CallFits
<1>10. PreparedFits'
  <2>1. \A e \in Databases : call'[e] \in {"prepare", "commit"} => call'[e] = call[e] /\ e # d
    BY <1>1 DEF Owns
  <2>2. ~Flagged(d) => call[d] = "rollback"
    BY <1>1 DEF PreparedFits, Prepared
  <2>3. \A e \in Databases : e # d => tip'[e] = tip[e]
    BY <1>1
  <2>4. ~Flagged(d) => tip'[d] = "dead"
    BY <2>2, <1>1
  <2> QED
    BY <2>1, <2>3, <2>4, <1>1, <1>2, <1>4 DEF PagesWritten, PreparedFits
<1>11. UndoneFits'
  BY DEF SetOutcome, Owns, coordinator, Prepared, Flagged, UndoneFits
<1>12. OutcomeFits'
  <2>1. ASSUME NEW e \in Databases, tip'[e] = "committed" \/ record'[e] = "commit" \/ saved'[e] = "commit"
        PROVE  Settled'
    BY <2>1, <1>1, <1>2, <1>3, <1>5 DEF PagesWritten, OutcomeFits
  <2>2. ASSUME NEW e \in Databases
        PROVE  /\ call'[e] = "commit" => Erased'
               /\ e # 1 /\ (call'[e] = "commit" \/ (Flagged(e)' /\ record'[e] = "none")) => Settled'
    BY <1>1, <1>2, <1>3, <1>4 DEF Owns, PagesWritten, OutcomeFits
  <2>3. ASSUME NEW e \in Databases, Erased'
        PROVE  /\ Prepared(e)' /\ tip'[e] # "dead"
               /\ record'[e] # "rollback" /\ call'[e] # "rollback"
               /\ e = 1 \/ saved'[e] # "rollback"
    BY <2>3, <1>1, <1>2, <1>3, <1>4, <1>6 DEF Owns, PagesWritten, OutcomeFits
  <2> QED
    BY <2>1, <2>2, <2>3 DEF OutcomeFits
<1>13. FirstDecides'
  <2> SUFFICES ASSUME app.op # "gone", link[1], handle[1] PROVE FirstDecides'
    BY <1>1 DEF FirstDecides
  <2>1. /\ app.at = d /\ app.phase = call[d] /\ call'[d] = "answered"
        /\ \A e \in Databases : e # d => call[e] = "none" /\ call'[e] = "none"
    BY <1>1 DEF CallFits, Owns
  <2>2. \A e \in Databases : tip[e] # "dead"
    BY <2>1, <1>1 DEF FirstDecides
  <2>3. call[d] = "rollback" => d = 1 /\ app.op = "rollback"
    BY <2>1, <1>1 DEF FirstDecides, AppFits, AppType
  <2> QED
    BY <2>1, <2>2, <2>3, <1>1, <1>2 DEF PagesWritten, FirstDecides
<1>14. GfixFits'
  BY <1>1, <1>3, <1>4 DEF GfixFits
<1>15. HeedFits'
  BY <1>1, <1>3, <1>4 DEF HeedFits
<1> QED
  BY <1>3, <1>7, <1>8, <1>9, <1>10, <1>11, <1>12, <1>13, <1>14, <1>15 DEF IInv

LEMMA DetachedKeeps ==
  ASSUME IInv, TypeOK', AdviceFollowed, NEW d \in Databases, Detached(d)
  PROVE  IInv'
<1> USE OneIsDatabase DEF IInv, TypeOK
<1>1. /\ MayLose(d) /\ call[d] \in {"none", "answered"}
      /\ link' = [link EXCEPT ![d] = FALSE] /\ call' = [call EXCEPT ![d] = "none"]
      /\ tip' = [tip EXCEPT ![d] = IF @ = "active" THEN "dead" ELSE @]
      /\ UNCHANGED <<flags, handle, limbo, app, gfix>>
  BY DEF Detached, coordinator
<1>2. \A e \in Databases : (Flagged(e)' <=> Flagged(e)) /\ (Prepared(e) => Prepared(e)')
  BY <1>1 DEF Prepared, Flagged
<1>3. /\ \A e \in Databases : e # d =>
           record'[e] = record[e] /\ saved'[e] = saved[e] /\ dirty'[e] = dirty[e]
      /\ \/ record'[d] = record[d] /\ saved'[d] \in {saved[d], record[d]}
         \/ ~Flagged(d) /\ record'[d] = saved'[d] /\ record'[d] \in {"none", "rollback"}
      /\ dirty'[d] \in {"nobody", dirty[d]} /\ dirty'[d] # "engine"
      /\ dirty'[d] = "nobody" => saved'[d] = record'[d]
      /\ dirty'[d] = "gfix" => record'[d] = record[d]
  <2>1. CASE Flushed(d, "engine")
    BY <2>1 DEF Flushed, RecordFits
  <2>2. CASE ~Flushed(d, "engine")
    BY <2>2 DEF Detached, Updated, Flagged
  <2> QED
    BY <2>1, <2>2
<1>4. RecordFits'
  BY <1>1, <1>2, <1>3 DEF RecordFits
<1>5. ~Flagged(d) => ~Erased /\ ~Erased'
  BY <1>2, <1>3 DEF OutcomeFits, Prepared, Erased
<1>6. (Erased' <=> Erased) /\ (Settled => Settled')
  BY <1>2, <1>3, <1>5 DEF Erased, Settled
<1>7. AppFits'
  BY <1>1 DEF AppFits
<1>8. CallFits'
  BY <1>1 DEF CallFits
<1>9. Progress'
  BY DEF Detached, Updated, coordinator, Prepared, Flagged, AllPrepared, Progress
<1>10. PreparedFits'
  BY <1>1, <1>2, <1>3 DEF PreparedFits
<1>11. LostFits'
  BY <1>1 DEF MayLose, AdviceFollowed, LostFits
<1>12. UndoneFits'
  BY <1>1, <1>2 DEF UndoneFits
<1>13. OutcomeFits'
  <2>1. ASSUME NEW e \in Databases, tip'[e] = "committed" \/ record'[e] = "commit" \/ saved'[e] = "commit"
        PROVE  Settled'
    BY <2>1, <1>1, <1>3, <1>6 DEF OutcomeFits
  <2>2. ASSUME NEW e \in Databases
        PROVE  /\ call'[e] = "commit" => Erased'
               /\ e # 1 /\ (call'[e] = "commit" \/ (Flagged(e)' /\ record'[e] = "none")) => Settled'
    BY <1>1, <1>2, <1>3, <1>6 DEF OutcomeFits
  <2>3. ASSUME NEW e \in Databases, Erased'
        PROVE  /\ Prepared(e)' /\ tip'[e] # "dead"
               /\ record'[e] # "rollback" /\ call'[e] # "rollback"
               /\ e = 1 \/ saved'[e] # "rollback"
    <3>1. /\ Prepared(e) /\ tip[e] # "dead" /\ call[e] # "rollback" /\ record[e] # "rollback"
          /\ e = 1 \/ saved[e] # "rollback"
      BY <2>3, <1>6 DEF OutcomeFits
    <3>2. Flagged(d)
      BY <2>3, <1>5
    <3> QED
      BY <3>1, <3>2, <1>1, <1>2, <1>3 DEF Prepared
  <2> QED
    BY <2>1, <2>2, <2>3 DEF OutcomeFits
<1>14. FirstDecides'
  BY <1>1 DEF MayLose, AdviceFollowed, FirstDecides
<1>15. GfixFits'
  BY <1>1, <1>2, <1>6 DEF GfixFits
<1>16. HeedFits'
  BY <1>1, <1>2, <1>6 DEF HeedFits
<1> QED
  BY <1>4, <1>7, <1>8, <1>9, <1>10, <1>11, <1>12, <1>13, <1>14, <1>15, <1>16 DEF IInv

\* The first part may come back from an erased record that is not in the file; nobody
\* has acted upon it then.
LEMMA EngineDiesKeeps ==
  ASSUME IInv, TypeOK', AdviceFollowed, NEW d \in Databases, EngineDies(d)
  PROVE  IInv'
<1> USE OneIsDatabase DEF IInv, TypeOK
<1>1. /\ MayLose(d) /\ LosesPages("engine", {d})
      /\ link' = [link EXCEPT ![d] = FALSE] /\ call' = [call EXCEPT ![d] = "none"]
      /\ tip' = [tip EXCEPT ![d] = IF @ = "active" THEN "dead" ELSE @]
      /\ UNCHANGED <<flags, handle, limbo, app, gfix>>
  BY DEF EngineDies, coordinator
<1>2. \A e \in Databases : (Flagged(e)' <=> Flagged(e)) /\ (Prepared(e) => Prepared(e)')
  BY <1>1 DEF Prepared, Flagged
<1>3. /\ \A e \in Databases : e # d => record'[e] = record[e] /\ dirty'[e] = dirty[e]
      /\ \/ dirty[d] = "engine" /\ record'[d] = saved[d] /\ dirty'[d] = "nobody"
         \/ dirty[d] # "engine" /\ record'[d] = record[d] /\ dirty'[d] = dirty[d]
      /\ saved' = saved
  BY <1>1 DEF LosesPages
<1>4. RecordFits'
  <2>1. ASSUME NEW e \in Databases, e # d
        PROVE  /\ record'[e] = record[e] /\ saved'[e] = saved[e] /\ dirty'[e] = dirty[e]
               /\ link'[e] = link[e] /\ (Flagged(e)' <=> Flagged(e))
    BY <2>1, <1>1, <1>2, <1>3
  <2>2. /\ dirty'[d] = "nobody" => saved'[d] = record'[d]
        /\ dirty'[d] = "engine" => link'[d]
        /\ dirty'[d] = "gfix" => record'[d] \in {"commit", "rollback"}
        /\ Flagged(d)' => saved'[d] # "none" \/ record'[d] = "none"
    BY <1>1, <1>2, <1>3 DEF RecordFits
  <2> QED
    BY <2>1, <2>2 DEF RecordFits
<1>5. \A e \in Databases : Flagged(e) /\ record'[e] = "none" => record[e] = "none"
  BY <1>3 DEF RecordFits
<1>6. (Erased' => Erased) /\ (Settled => Settled')
  BY <1>2, <1>3, <1>5 DEF Erased, Settled
<1>7. AppFits'
  BY <1>1 DEF AppFits
<1>8. CallFits'
  BY <1>1 DEF CallFits
<1>9. Progress'
  BY DEF EngineDies, coordinator, Prepared, Flagged, AllPrepared, Progress
<1>10. PreparedFits'
  BY <1>1, <1>2, <1>3 DEF PreparedFits
<1>11. LostFits'
  BY <1>1 DEF MayLose, AdviceFollowed, LostFits
<1>12. UndoneFits'
  BY <1>1, <1>2 DEF UndoneFits
<1>13. OutcomeFits'
  <2>1. ASSUME NEW e \in Databases, tip'[e] = "committed" \/ record'[e] = "commit" \/ saved'[e] = "commit"
        PROVE  Settled'
    BY <2>1, <1>1, <1>3, <1>6 DEF OutcomeFits
  <2>2. ASSUME NEW e \in Databases, e # 1, call'[e] = "commit" \/ (Flagged(e)' /\ record'[e] = "none")
        PROVE  Settled'
    BY <2>2, <1>1, <1>2, <1>5, <1>6 DEF OutcomeFits
  <2>3. ASSUME NEW e \in Databases, call'[e] = "commit" PROVE Erased'
    <3>1. e # d /\ call[e] = "commit" /\ Erased
      BY <2>3, <1>1 DEF OutcomeFits
    <3>2. CASE d # 1
      BY <3>1, <3>2, <1>2, <1>3 DEF Erased
    <3>3. CASE d = 1
      BY <3>1, <3>3, <1>6 DEF OutcomeFits, Settled
    <3> QED
      BY <3>2, <3>3
  <2>4. ASSUME NEW e \in Databases, Erased'
        PROVE  /\ Prepared(e)' /\ tip'[e] # "dead"
               /\ record'[e] # "rollback" /\ call'[e] # "rollback"
               /\ e = 1 \/ saved'[e] # "rollback"
    <3>1. /\ Prepared(e) /\ tip[e] # "dead" /\ call[e] # "rollback" /\ record[e] # "rollback"
          /\ e = 1 \/ saved[e] # "rollback"
      BY <2>4, <1>6 DEF OutcomeFits
    <3>2. e = 1 => record'[e] = "none"
      BY <2>4 DEF Erased
    <3> QED
      BY <3>1, <3>2, <1>1, <1>2, <1>3 DEF Prepared
  <2> QED
    BY <2>1, <2>2, <2>3, <2>4 DEF OutcomeFits
<1>14. FirstDecides'
  BY <1>1 DEF MayLose, AdviceFollowed, FirstDecides
<1>15. GfixFits'
  BY <1>1, <1>2, <1>6 DEF GfixFits
<1>16. HeedFits'
  BY <1>1, <1>2, <1>6 DEF HeedFits
<1> QED
  BY <1>4, <1>7, <1>8, <1>9, <1>10, <1>11, <1>12, <1>13, <1>14, <1>15, <1>16 DEF IInv

-----------------------------------------------------------------------------
(* What gfix finds out. TDR_analyze goes over the states one after the other; that
   its loop is well defined, and what it comes to, needs an induction, which goes by
   the least counterexample. *)

LEMMA Least ==
  ASSUME NEW S \in SUBSET Databases, S # {}
  PROVE  \E x \in S : \A y \in S : x <= y
<1> DEFINE T == {1..y : y \in S}
           R == StrictSubsetOrdering(Databases)
<1>1. T \subseteq FiniteSubsetsOf(Databases)
  BY FS_Interval, FS_FiniteSubsetsOfFinite, OneIsDatabase DEF Databases
<1>2. T # {}
  OBVIOUS
<1>3. PICK x \in T : \A y \in T : ~(<<y, x>> \in R)
  BY <1>1, <1>2, WFMin, FS_StrictSubsetOrderingWellFounded
<1>4. PICK m \in S : x = 1..m
  OBVIOUS
<1>5. ASSUME NEW y \in S, ~(m <= y) PROVE FALSE
  <2>1. 1..y \subseteq 1..m /\ m \in 1..m /\ m \notin 1..y
    BY <1>5, OneIsDatabase
  <2>2. 1..y \in SUBSET Databases /\ 1..m \in SUBSET Databases
    <3>1. 1..y \in T /\ 1..m \in T
      OBVIOUS
    <3>2. 1..y \in FiniteSubsetsOf(Databases) /\ 1..m \in FiniteSubsetsOf(Databases)
      BY <1>1, <3>1
    <3> QED
      BY <3>2 DEF FiniteSubsetsOf
  <2>3. <<1..y, 1..m>> \in StrictSubsetOrdering(Databases)
    BY <2>1, <2>2 DEF StrictSubsetOrdering
  <2>4. 1..y \in T
    OBVIOUS
  <2> QED
    BY <1>3, <1>4, <2>3, <2>4
<1> QED
  BY <1>5

\* The outcomes TDR_analyze knows between two databases.
Advice == {"none", "unknown", "commit", "rollback", "inconsistent"}

FirstAdvice(seen) == IF seen[1] = "unknown" THEN "unknown" ELSE "none"
NextAdvice(seen, d, advice) ==
  IF advice = "inconsistent" THEN "inconsistent" ELSE Weighed(First(seen), seen[d], advice)

\* The advice after each of the databases 1..n.
IsAdvice(seen, n, f) ==
  /\ f \in [1..n -> Advice]
  /\ f = [d \in 1..n |-> IF d = 1 THEN FirstAdvice(seen) ELSE NextAdvice(seen, d, f[d - 1])]

LEMMA NextIsAdvice ==
  ASSUME NEW seen \in [Databases -> TdrStates], NEW d \in Databases, NEW advice \in Advice
  PROVE  NextAdvice(seen, d, advice) \in Advice
BY DEF NextAdvice, Weighed, First, Advice, TdrStates, TRA_states

LEMMA AdviceExists ==
  ASSUME NEW seen \in [Databases -> TdrStates]
  PROVE  \E f : IsAdvice(seen, N, f)
<1> DEFINE Without == {n \in Databases : ~ \E f : IsAdvice(seen, n, f)}
<1>1. CASE Without = {}
  <2>1. N \in Databases
    BY ConstantAssumption DEF Databases
  <2> QED
    BY <1>1, <2>1
<1>2. CASE Without # {}
  <2>1. PICK n \in Without : \A y \in Without : n <= y
    <3> HIDE DEF Without
    <3>1. Without \subseteq Databases
      BY DEF Without
    <3> QED
      BY <1>2, <3>1, Least
  <2>2. CASE n = 1
    <3> DEFINE f == [d \in 1..1 |-> FirstAdvice(seen)]
    <3>1. IsAdvice(seen, 1, f)
      BY DEF IsAdvice, Advice, FirstAdvice
    <3> QED
      BY <2>1, <2>2, <3>1
  <2>3. CASE n # 1
    <3>1. n - 1 \in Databases /\ n \in Nat /\ n - 1 \in Nat /\ n \in Databases
      BY <2>1, <2>3, ConstantAssumption DEF Databases
    <3>2. PICK f : IsAdvice(seen, n - 1, f)
      BY <2>1, <3>1
    <3> DEFINE g == [d \in 1..n |-> IF d = n THEN NextAdvice(seen, n, f[n - 1]) ELSE f[d]]
    <3>3. f[n - 1] \in Advice
      BY <3>1, <3>2, OneIsDatabase DEF IsAdvice
    <3>4. NextAdvice(seen, n, f[n - 1]) \in Advice
      BY <3>1, <3>3, NextIsAdvice
    <3>5. \A d \in 1..n : g[d] = IF d = 1 THEN FirstAdvice(seen) ELSE NextAdvice(seen, d, g[d - 1])
      BY <2>3, <3>1, <3>2 DEF IsAdvice
    <3>6. g \in [1..n -> Advice]
      BY <3>1, <3>2, <3>4 DEF IsAdvice
    <3>7. IsAdvice(seen, n, g)
      BY <3>5, <3>6 DEF IsAdvice
    <3> QED
      BY <2>1, <3>7
  <2> QED
    BY <2>2, <2>3
<1> QED
  BY <1>1, <1>2

LEMMA AnalyzeIs ==
  ASSUME NEW seen \in [Databases -> TdrStates]
  PROVE  \E f : /\ IsAdvice(seen, N, f)
                /\ TDR_analyze(seen) = IF f[N] = "inconsistent" THEN "none" ELSE f[N]
<1> DEFINE Loop(f) == [d \in Databases |->
              IF d = 1 THEN IF seen[1] = "unknown" THEN "unknown" ELSE "none"
              ELSE IF f[d - 1] = "inconsistent" THEN "inconsistent"
              ELSE Weighed(First(seen), seen[d], f[d - 1])]
           advice == CHOOSE f : f = Loop(f)
<1>1. \E f : f = Loop(f)
  <2>1. PICK f : IsAdvice(seen, N, f)
    BY AdviceExists
  <2>2. f = Loop(f)
    BY <2>1 DEF IsAdvice, FirstAdvice, NextAdvice, Databases
  <2> QED
    BY <2>2
<1>2. advice = Loop(advice)
  BY <1>1
<1>3. TDR_analyze(seen) = IF advice[N] = "inconsistent" THEN "none" ELSE advice[N]
  BY DEF TDR_analyze
<1> HIDE DEF advice
<1>4. \A n \in Databases : advice[n] \in Advice
  <2> DEFINE Bad == {n \in Databases : advice[n] \notin Advice}
  <2>1. ASSUME Bad # {} PROVE FALSE
    <3>1. PICK n \in Bad : \A y \in Bad : n <= y
      <4> HIDE DEF Bad
      <4>1. Bad \subseteq Databases
        BY DEF Bad
      <4> QED
        BY <2>1, <4>1, Least
    <3>2. n # 1
      BY <1>2, <3>1 DEF Advice
    <3>3. n - 1 \in Databases /\ n - 1 \notin Bad
      BY <3>1, <3>2, ConstantAssumption DEF Databases
    <3>4. advice[n] = NextAdvice(seen, n, advice[n - 1])
      BY <1>2, <3>1, <3>2 DEF NextAdvice
    <3> QED
      BY <3>1, <3>3, <3>4, NextIsAdvice
  <2> QED
    BY <2>1
<1>5. IsAdvice(seen, N, advice)
  <2>1. advice \in [1..N -> Advice]
    BY <1>2, <1>4 DEF Databases
  <2>2. advice = [d \in 1..N |-> IF d = 1 THEN FirstAdvice(seen) ELSE NextAdvice(seen, d, advice[d - 1])]
    BY <1>2 DEF FirstAdvice, NextAdvice, Databases
  <2> QED
    BY <2>1, <2>2 DEF IsAdvice
<1> QED
  BY <1>3, <1>5

LEMMA WeighedHasReason ==
  ASSUME NEW first \in TdrStates, NEW s \in TdrStates, NEW advice \in Advice
  PROVE  /\ Weighed(first, s, advice) = "commit" => "commit" \in {s, first, advice}
         /\ Weighed(first, s, advice) = "rollback" =>
              "rollback" \in {s, first, advice} \/ first = "limbo"
BY DEF Weighed, TdrStates, TRA_states, Advice

\* TDR_analyze advises to commit only if a record tells so or the first one is missing,
\* and to roll back only if a record tells so or the first one is in limbo.
LEMMA AdviceHasReason ==
  ASSUME NEW seen \in [Databases -> TdrStates]
  PROVE  /\ TDR_analyze(seen) = "commit" =>
              seen[1] = "none" \/ \E d \in Databases : seen[d] = "commit"
         /\ TDR_analyze(seen) = "rollback" =>
              seen[1] = "limbo" \/ \E d \in Databases : seen[d] = "rollback"
<1>1. PICK f : /\ IsAdvice(seen, N, f)
               /\ TDR_analyze(seen) = IF f[N] = "inconsistent" THEN "none" ELSE f[N]
  BY AnalyzeIs
<1> DEFINE Commit == seen[1] = "none" \/ \E d \in Databases : seen[d] = "commit"
           Rollback == seen[1] = "limbo" \/ \E d \in Databases : seen[d] = "rollback"
           Bad == {n \in Databases : (f[n] = "commit" /\ ~Commit) \/ (f[n] = "rollback" /\ ~Rollback)}
<1>2. ASSUME Bad # {} PROVE FALSE
  <2>1. PICK n \in Bad : \A y \in Bad : n <= y
    <3> HIDE DEF Bad
    <3>1. Bad \subseteq Databases
      BY DEF Bad
    <3> QED
      BY <1>2, <3>1, Least
  <2>2. n # 1
    BY <1>1, <2>1, OneIsDatabase DEF IsAdvice, FirstAdvice, Databases
  <2>3. n - 1 \in Databases /\ n - 1 \notin Bad
    BY <2>1, <2>2, ConstantAssumption DEF Databases
  <2>4. f[n] = NextAdvice(seen, n, f[n - 1])
    BY <1>1, <2>1, <2>2 DEF IsAdvice, Databases
  <2>5. f[n] \in {"inconsistent", Weighed(First(seen), seen[n], f[n - 1])}
    BY <2>4 DEF NextAdvice
  <2>6. (f[n - 1] = "commit" => Commit) /\ (f[n - 1] = "rollback" => Rollback)
    BY <2>3
  <2>7. /\ n \in Databases /\ f[n - 1] \in Advice /\ First(seen) \in TdrStates
        /\ First(seen) = "commit" => Commit
        /\ First(seen) \in {"limbo", "rollback"} => Rollback
    BY <1>1, <2>1, <2>3, OneIsDatabase DEF IsAdvice, First, TdrStates, TRA_states, Databases
  <2>8. (f[n] = "commit" => Commit) /\ (f[n] = "rollback" => Rollback)
    BY <2>5, <2>6, <2>7, WeighedHasReason
  <2> QED
    BY <2>1, <2>8
<1>3. N \in Databases
  BY ConstantAssumption DEF Databases
<1> QED
  BY <1>1, <1>2, <1>3

-----------------------------------------------------------------------------
(* gfix, and the caches. *)

Elsewhere == <<tip, flags, link, coordinator, call>>

LEMMA OnlyWritten ==
  ASSUME IInv, TypeOK', PagesWritten, GfixFits', UNCHANGED Elsewhere
  PROVE  IInv'
<1> USE OneIsDatabase DEF IInv, TypeOK
<1>1. UNCHANGED <<tip, flags, link, handle, limbo, app, call>>
  BY DEF Elsewhere, coordinator
<1>2. RecordFits' /\ (Erased' <=> Erased) /\ (Settled => Settled')
  BY <1>1, WrittenFits
<1>3. \A e \in Databases : (Flagged(e)' <=> Flagged(e)) /\ (Prepared(e)' <=> Prepared(e))
  BY <1>1 DEF Prepared, Flagged
<1>4. AppFits' /\ CallFits' /\ Progress' /\ LostFits' /\ UndoneFits' /\ HeedFits'
  BY <1>1, <1>2, <1>3 DEF AppFits, CallFits, Progress, AllPrepared, LostFits, UndoneFits, HeedFits
<1>5. PreparedFits' /\ FirstDecides'
  <2>1. PreparedFits'
    BY <1>1, <1>3 DEF PagesWritten, PreparedFits
  <2>2. FirstDecides'
    BY <1>1 DEF PagesWritten, FirstDecides
  <2> QED
    BY <2>1, <2>2
<1>6. OutcomeFits'
  <2>1. ASSUME NEW e \in Databases, tip'[e] = "committed" \/ record'[e] = "commit" \/ saved'[e] = "commit"
        PROVE  Settled'
    BY <2>1, <1>1, <1>2 DEF PagesWritten, OutcomeFits
  <2>2. ASSUME NEW e \in Databases
        PROVE  /\ call'[e] = "commit" => Erased'
               /\ e # 1 /\ (call'[e] = "commit" \/ (Flagged(e)' /\ record'[e] = "none")) => Settled'
    BY <1>1, <1>2, <1>3 DEF PagesWritten, OutcomeFits
  <2>3. ASSUME NEW e \in Databases, Erased'
        PROVE  /\ Prepared(e)' /\ tip'[e] # "dead"
               /\ record'[e] # "rollback" /\ call'[e] # "rollback"
               /\ e = 1 \/ saved'[e] # "rollback"
    BY <2>3, <1>1, <1>2, <1>3 DEF PagesWritten, OutcomeFits
  <2> QED
    BY <2>1, <2>2, <2>3 DEF OutcomeFits
<1> QED
  BY <1>2, <1>4, <1>5, <1>6 DEF IInv

LEMMA GfixAlone ==
  ASSUME IInv, TypeOK', GfixFits', UNCHANGED <<Elsewhere, pages>>
  PROVE  IInv'
BY OnlyWritten, FlushWrites, OneIsDatabase DEF IInv

LEMMA RestFits ==
  ASSUME gfix'.step \in {"idle", "shutdown"}
  PROVE  GfixFits'
BY DEF GfixFits

LEMMA CCH_writeKeeps ==
  ASSUME IInv, TypeOK', NEW d \in Databases, CCH_write(d)
  PROVE  IInv'
<1> USE OneIsDatabase DEF IInv, TypeOK
<1>1. dirty[d] \in {"engine", "gfix"} /\ Flushed(d, dirty[d]) /\ UNCHANGED <<Elsewhere, gfix>>
  BY DEF CCH_write, Elsewhere, coordinator
<1>2. PagesWritten
  BY <1>1, FlushWrites
<1>3. /\ (Erased' <=> Erased) /\ (Settled => Settled')
      /\ \A e \in Databases : Prepared(e)' <=> Prepared(e)
  BY <1>1, <1>2, WrittenFits DEF Elsewhere, Prepared, Flagged
<1>4. GfixFits'
  BY <1>1, <1>3 DEF Elsewhere, coordinator, GfixFits
<1> QED
  BY <1>1, <1>2, <1>4, OnlyWritten

LEMMA TDR_shutdown_databasesKeeps ==
  ASSUME IInv, TypeOK', TDR_shutdown_databases
  PROVE  IInv'
<1>1. PagesWritten
  BY DEF IInv, TypeOK, RecordFits, TDR_shutdown_databases, PagesWritten
<1>2. GfixFits'
  BY RestFits DEF TDR_shutdown_databases, Resting
<1> QED
  BY <1>1, <1>2, OnlyWritten DEF TDR_shutdown_databases, UnchangedByGfix, Elsewhere

\* What gfix has told the records and not written is undone.
LEMMA GfixDiesKeeps ==
  ASSUME IInv, TypeOK', GfixDies
  PROVE  IInv'
<1> USE OneIsDatabase DEF IInv, TypeOK
<1>1. UNCHANGED <<tip, flags, link, handle, limbo, app, call, saved>> /\ gfix' = Resting
  BY DEF GfixDies, LosesPages, coordinator
<1>2. \A e \in Databases :
        \/ dirty[e] = "gfix" /\ record'[e] = saved[e] /\ dirty'[e] = "nobody"
        \/ dirty[e] # "gfix" /\ record'[e] = record[e] /\ dirty'[e] = dirty[e]
  BY DEF GfixDies, LosesPages
<1>3. \A e \in Databases : (Flagged(e)' <=> Flagged(e)) /\ (Prepared(e)' <=> Prepared(e))
  BY <1>1 DEF Prepared, Flagged
<1>4. \A e \in Databases : Flagged(e) => (record'[e] = "none" <=> record[e] = "none")
  BY <1>2 DEF RecordFits
<1>5. (Erased' <=> Erased) /\ (Settled' <=> Settled)
  BY <1>1, <1>3, <1>4 DEF Erased, Settled
<1>6. AppFits' /\ CallFits' /\ Progress' /\ LostFits' /\ UndoneFits' /\ HeedFits'
  BY <1>1, <1>3, <1>5 DEF AppFits, CallFits, Progress, AllPrepared, LostFits, UndoneFits, HeedFits
<1>7. PreparedFits' /\ FirstDecides'
  <2>1. \A e \in Databases : record[e] = "limbo" => record'[e] = "limbo"
    BY <1>2 DEF RecordFits
  <2>2. PreparedFits'
    BY <2>1, <1>1, <1>3 DEF PreparedFits
  <2>3. FirstDecides'
    BY <1>1, <1>2 DEF FirstDecides
  <2> QED
    BY <2>2, <2>3
<1>8. RecordFits'
  BY <1>1, <1>2, <1>3, <1>4 DEF RecordFits
<1>9. OutcomeFits'
  <2>1. ASSUME NEW e \in Databases
        PROVE  record'[e] \in {record[e], saved[e]} /\ (Erased /\ e = 1 => record'[e] = "none")
    BY <1>2, <1>5 DEF Erased
  <2> QED
    BY <2>1, <1>1, <1>3, <1>4, <1>5 DEF OutcomeFits
<1>10. GfixFits'
  BY <1>1, RestFits DEF Resting
<1> QED
  BY <1>6, <1>7, <1>8, <1>9, <1>10 DEF IInv

\* gfix goes on to the next database.
LEMMA NextFits ==
  ASSUME IInv, TypeOK', NEW d \in Databases, gfix.at = d, gfix.step \in {"check", "record", "state"},
         gfix' = NextResolved, UNCHANGED <<flags, link, app>>,
         Prepared(1)', Erased' <=> Erased, Settled => Settled'
  PROVE  GfixFits'
<1> USE OneIsDatabase DEF IInv, TypeOK
<1>1. CASE d = N
  BY <1>1, RestFits DEF NextResolved, Resting
<1>2. CASE d # N
  <2>1. d + 1 \in Databases
    BY <1>2, ConstantAssumption DEF Databases
  <2>2. gfix'.step = "check" /\ gfix'.at = d + 1 /\ gfix'.todo = gfix.todo
    BY <1>2 DEF NextResolved, GfixType
  <2> QED
    BY <2>1, <2>2 DEF GfixFits
<1> QED
  BY <1>1, <1>2

LEMMA UpdateReconnectedKeeps ==
  ASSUME IInv, TypeOK', AdviceFollowed, NEW d \in Databases, UpdateReconnected(d)
  PROVE  IInv'
<1> USE OneIsDatabase DEF IInv, TypeOK
<1>1. /\ gfix.step = "record" /\ gfix.at = d /\ gfix'.step = "state" /\ gfix'.at = d
      /\ gfix'.todo = gfix.todo /\ gfix.todo \in {"commit", "rollback"}
      /\ Writes(d, Updated(d, gfix.todo, FALSE), "gfix")
      /\ UNCHANGED <<tip, flags, link, handle, limbo, app, call>>
  BY DEF UpdateReconnected, UnchangedByGfix, coordinator, GfixType
<1>2. /\ Prepared(1) /\ Prepared(d) /\ (app.op = "gone" \/ ~link[1])
      /\ IF gfix.todo = "commit" THEN Settled ELSE ~Erased
  BY <1>1 DEF GfixFits
<1>3. \A e \in Databases : (Prepared(e)' <=> Prepared(e)) /\ (Flagged(e)' <=> Flagged(e))
  BY <1>1 DEF Prepared, Flagged
<1>4. /\ \A e \in Databases : e # d =>
           record'[e] = record[e] /\ saved'[e] = saved[e] /\ dirty'[e] = dirty[e]
      /\ record'[d] = (IF record[d] = "none" THEN "none" ELSE gfix.todo)
      /\ saved'[d] \in {saved[d], record[d]}
      /\ record'[d] = record[d] => saved'[d] = saved[d] /\ dirty'[d] = dirty[d]
      /\ record'[d] # record[d] => dirty'[d] = "gfix"
  BY <1>1 DEF Updated, Writes
<1>5. (Erased' <=> Erased) /\ (Settled => Settled')
  BY <1>1, <1>3, <1>4 DEF Erased, Settled
<1>6. AppFits' /\ CallFits' /\ Progress' /\ LostFits' /\ UndoneFits' /\ HeedFits'
  BY <1>1, <1>3, <1>5 DEF AppFits, CallFits, Progress, AllPrepared, LostFits, UndoneFits, HeedFits
<1>7. PreparedFits'
  BY <1>1, <1>2, <1>3, <1>4 DEF Prepared, PreparedFits
<1>8. RecordFits'
  BY <1>1, <1>3, <1>4 DEF RecordFits
<1>9. OutcomeFits'
  <2>1. ASSUME NEW e \in Databases, tip'[e] = "committed" \/ record'[e] = "commit" \/ saved'[e] = "commit"
        PROVE  Settled'
    BY <2>1, <1>1, <1>2, <1>4, <1>5 DEF OutcomeFits
  <2>2. ASSUME NEW e \in Databases
        PROVE  /\ call'[e] = "commit" => Erased'
               /\ e # 1 /\ (call'[e] = "commit" \/ (Flagged(e)' /\ record'[e] = "none")) => Settled'
    BY <1>1, <1>3, <1>4, <1>5 DEF OutcomeFits
  <2>3. ASSUME NEW e \in Databases, Erased'
        PROVE  /\ Prepared(e)' /\ tip'[e] # "dead"
               /\ record'[e] # "rollback" /\ call'[e] # "rollback"
               /\ e = 1 \/ saved'[e] # "rollback"
    BY <2>3, <1>1, <1>2, <1>3, <1>4, <1>5 DEF OutcomeFits
  <2> QED
    BY <2>1, <2>2, <2>3 DEF OutcomeFits
<1>10. FirstDecides'
  BY <1>1, <1>2 DEF FirstDecides
<1>11. GfixFits'
  BY <1>1, <1>2, <1>3, <1>5 DEF GfixFits
<1> QED
  BY <1>6, <1>7, <1>8, <1>9, <1>10, <1>11 DEF IInv

LEMMA SetReconnectedKeeps ==
  ASSUME IInv, TypeOK', AdviceFollowed, NEW d \in Databases, SetReconnected(d)
  PROVE  IInv'
<1> USE OneIsDatabase DEF IInv, TypeOK
<1>1. /\ gfix.step = "state" /\ gfix.at = d /\ gfix' = NextResolved
      /\ tip' = [tip EXCEPT ![d] = IF gfix.todo = "commit" THEN "committed" ELSE "dead"]
      /\ UNCHANGED <<flags, link, handle, limbo, app, call>>
  BY DEF SetReconnected, UnchangedByGfix, coordinator
<1>2. PagesWritten
  BY FlushWrites DEF SetReconnected
<1>3. RecordFits' /\ (Erased' <=> Erased) /\ (Settled => Settled')
  BY <1>1, <1>2, WrittenFits
<1>4. /\ Prepared(1) /\ Prepared(d) /\ (app.op = "gone" \/ ~link[1])
      /\ IF gfix.todo = "commit" THEN Settled ELSE ~Erased
  BY <1>1 DEF GfixFits
<1>5. \A e \in Databases : (Prepared(e)' <=> Prepared(e)) /\ (Flagged(e)' <=> Flagged(e))
  BY <1>1, <1>4 DEF Prepared, Flagged
<1>6. AppFits' /\ CallFits' /\ LostFits' /\ HeedFits'
  BY <1>1, <1>3, <1>5 DEF AppFits, CallFits, LostFits, HeedFits
<1>7. Progress'
  <2>1. IF gfix.todo = "commit" THEN \A e \in Databases : tip[e] # "dead"
        ELSE \A e \in Databases : tip[e] # "committed"
    BY <1>4 DEF OutcomeFits, Settled
  <2> QED
    BY <2>1, <1>1, <1>5 DEF Progress, AllPrepared
<1>8. PreparedFits'
  BY <1>1, <1>2, <1>4, <1>5 DEF PagesWritten, Prepared, PreparedFits
<1>9. UndoneFits'
  BY <1>1, <1>4, <1>5 DEF Prepared, UndoneFits
<1>10. OutcomeFits'
  <2>1. ASSUME NEW e \in Databases, tip'[e] = "committed" \/ record'[e] = "commit" \/ saved'[e] = "commit"
        PROVE  Settled'
    BY <2>1, <1>1, <1>2, <1>3, <1>4 DEF PagesWritten, OutcomeFits
  <2>2. ASSUME NEW e \in Databases
        PROVE  /\ call'[e] = "commit" => Erased'
               /\ e # 1 /\ (call'[e] = "commit" \/ (Flagged(e)' /\ record'[e] = "none")) => Settled'
    BY <1>1, <1>2, <1>3, <1>5 DEF PagesWritten, OutcomeFits
  <2>3. ASSUME NEW e \in Databases, Erased'
        PROVE  /\ Prepared(e)' /\ tip'[e] # "dead"
               /\ record'[e] # "rollback" /\ call'[e] # "rollback"
               /\ e = 1 \/ saved'[e] # "rollback"
    BY <2>3, <1>1, <1>2, <1>3, <1>4, <1>5 DEF PagesWritten, OutcomeFits
  <2> QED
    BY <2>1, <2>2, <2>3 DEF OutcomeFits
<1>11. FirstDecides'
  BY <1>1, <1>4 DEF FirstDecides
<1>12. GfixFits'
  BY <1>1, <1>3, <1>4, <1>5, NextFits
<1> QED
  BY <1>3, <1>6, <1>7, <1>8, <1>9, <1>10, <1>11, <1>12 DEF IInv

LEMMA ReconnectFailsKeeps ==
  ASSUME IInv, TypeOK', NEW d \in Databases, ReconnectFails(d)
  PROVE  IInv'
<1>1. /\ gfix.at = d /\ gfix.step \in {"check", "record", "state"} /\ gfix' = NextResolved
      /\ UNCHANGED <<Elsewhere, pages>>
  BY DEF ReconnectFails, UnchangedByGfix, Elsewhere
<1>2. Prepared(1)' /\ (Erased' <=> Erased) /\ (Settled => Settled')
  BY <1>1, OneIsDatabase DEF IInv, GfixFits, Elsewhere, pages, Prepared, Flagged, Erased, Settled
<1>3. GfixFits'
  BY <1>1, <1>2, NextFits DEF Elsewhere, coordinator
<1> QED
  BY <1>1, <1>3, GfixAlone

LEMMA TDR_list_limboKeeps ==
  ASSUME IInv, TypeOK', AdviceFollowed, NEW d \in Databases, TDR_list_limbo(d)
  PROVE  IInv'
<1> USE OneIsDatabase DEF IInv, TypeOK
<1>1. UNCHANGED <<Elsewhere, pages>>
  BY DEF TDR_list_limbo, UnchangedByGfix, Elsewhere
<1>2. CASE record[d] # "none"
  <2>1. gfix' = [Resting EXCEPT !.step = "read", !.at = 1]
    BY <1>2 DEF TDR_list_limbo
  <2>2. gfix'.step = "read" /\ gfix'.at = 1 /\ gfix'.seen = Unseen
    BY <2>1 DEF Resting
  <2>3. Prepared(1) /\ (app.op = "gone" \/ ~link[1])
    <3>1. tip[d] = "limbo" /\ ~link[d]
      BY DEF TDR_list_limbo
    <3>2. Flagged(d) /\ (app.op = "gone" \/ d = 1)
      BY <3>1 DEF PreparedFits, LostFits
    <3>3. d # 1 => 1 < d
      OBVIOUS
    <3> QED
      BY <3>1, <3>2, <3>3 DEF PreparedFits, Prepared
  <2>4. GfixFits'
    BY <1>1, <2>2, <2>3 DEF Elsewhere, pages, coordinator, GfixFits, Prepared, Flagged, Unseen
  <2> QED
    BY <1>1, <2>4, GfixAlone
<1>3. CASE record[d] = "none"
  <2>1. gfix' = Resting
    BY <1>3 DEF TDR_list_limbo, Resolve, AdviceFollowed
  <2> QED
    BY <1>1, <2>1, GfixAlone, RestFits DEF Resting
<1> QED
  BY <1>2, <1>3

LEMMA MET_get_stateKeeps ==
  ASSUME IInv, TypeOK', AdviceFollowed, NEW d \in Databases, MET_get_state(d)
  PROVE  IInv'
<1> USE OneIsDatabase DEF IInv, TypeOK
<1>1. UNCHANGED Elsewhere
  BY DEF MET_get_state, UnchangedByGfix, Elsewhere
<1>2. PICK state \in TdrStates :
        /\ Sees(d, state)
        /\ \/ state = record[d] /\ Flushed(d, "engine")
           \/ state = "unknown" /\ UNCHANGED pages
  BY DEF MET_get_state, TdrStates
<1>3. /\ gfix.step = "read" /\ gfix.at = d /\ gfix'.at = d + 1
      /\ gfix'.seen = [gfix.seen EXCEPT ![d] = state]
      /\ gfix'.step = IF d = N THEN "decide" ELSE "read"
  BY <1>2 DEF Sees, MET_get_state, GfixType
<1>4. d # N => d + 1 \in Databases
  BY ConstantAssumption DEF Databases
<1>5. PagesWritten /\ (state # "unknown" => state = record[d] /\ dirty'[d] # "engine")
  BY <1>2, FlushWrites
<1>6. (Erased' <=> Erased) /\ (Settled => Settled')
  BY <1>1, <1>5, WrittenFits DEF Elsewhere
<1>7. \A e \in Databases : Prepared(e)' <=> Prepared(e)
  BY <1>1 DEF Elsewhere, Prepared, Flagged
<1>8. /\ d = 1 /\ state = "none" => Settled'
      /\ d = 1 /\ state = "limbo" => ~Erased'
      /\ state = "commit" => Settled'
      /\ state = "rollback" => ~Erased'
  <2>1. ASSUME d = 1, state = "none" PROVE Settled'
    <3>1. Erased
      BY <2>1, <1>3, <1>5 DEF GfixFits, Prepared, Erased
    <3>2. dirty'[1] = "nobody"
      BY <2>1, <1>5 DEF PagesWritten, RecordFits
    <3> QED
      BY <2>1, <3>1, <3>2, <1>5, <1>6 DEF PagesWritten, Settled
  <2>2. d = 1 /\ state = "limbo" => ~Erased
    BY <1>5 DEF Erased
  <2>3. (state = "commit" => Settled) /\ (state = "rollback" => ~Erased)
    BY <1>5 DEF OutcomeFits
  <2> QED
    BY <2>1, <2>2, <2>3, <1>6
<1>9. GfixFits'
  <2>1. /\ Prepared(1) /\ (app.op = "gone" \/ ~link[1])
        /\ gfix.seen[1] = "none" => Settled
        /\ gfix.seen[1] = "limbo" => ~Erased
        /\ \A e \in Databases : /\ gfix.seen[e] = "commit" => Settled
                                /\ gfix.seen[e] = "rollback" => ~Erased
    BY <1>3 DEF GfixFits
  <2>2. gfix'.seen[d] = state /\ \A e \in Databases : e # d => gfix'.seen[e] = gfix.seen[e]
    BY <1>3 DEF GfixType
  <2> QED
    BY <2>1, <2>2, <1>1, <1>3, <1>4, <1>6, <1>7, <1>8 DEF Elsewhere, coordinator, GfixFits
<1> QED
  BY <1>1, <1>5, <1>9, OnlyWritten

LEMMA TDR_reconnect_multipleKeeps ==
  ASSUME IInv, TypeOK', AdviceFollowed, TDR_reconnect_multiple
  PROVE  IInv'
<1> USE OneIsDatabase DEF IInv, TypeOK
<1> DEFINE advice == TDR_analyze(gfix.seen)
<1>1. UNCHANGED <<Elsewhere, pages>>
  BY DEF TDR_reconnect_multiple, UnchangedByGfix, Elsewhere
<1>2. PICK todo \in {advice, "neither"} :
        /\ gfix' = Resolve(todo, gfix.seen)
        /\ todo \in {"commit", "rollback", "neither"}
  BY DEF TDR_reconnect_multiple, AdviceFollowed
<1>3. CASE todo = "neither"
  BY <1>1, <1>2, <1>3, GfixAlone, RestFits DEF Resolve, Resting
<1>4. CASE todo # "neither"
  <2>1. gfix'.step = "check" /\ gfix'.at = 1 /\ gfix'.todo = advice
    BY <1>2, <1>4 DEF Resolve
  <2>2. gfix.seen \in [Databases -> TdrStates] /\ gfix.step = "decide"
    BY DEF GfixType, TDR_reconnect_multiple
  <2>3. /\ advice = "commit" => Settled
        /\ advice = "rollback" => ~Erased
    BY <2>2, AdviceHasReason DEF GfixFits
  <2>4. GfixFits'
    BY <1>1, <1>2, <1>4, <2>1, <2>2, <2>3 DEF Elsewhere, pages, coordinator, GfixFits, Prepared,
       Flagged, Erased, Settled
  <2> QED
    BY <1>1, <2>4, GfixAlone
<1> QED
  BY <1>3, <1>4

LEMMA TRA_reconnectKeeps ==
  ASSUME IInv, TypeOK', NEW d \in Databases, TRA_reconnect(d)
  PROVE  IInv'
<1> USE OneIsDatabase DEF IInv, TypeOK
<1>1. UNCHANGED <<Elsewhere, pages>> /\ gfix.step = "check" /\ gfix.at = d
  BY DEF TRA_reconnect, UnchangedByGfix, Elsewhere
<1>2. CASE gfix.seen[d] = "limbo" /\ tip[d] = "limbo"
  <2>1. gfix'.step = "record" /\ gfix'.at = d /\ gfix'.todo = gfix.todo
    BY <1>1, <1>2 DEF TRA_reconnect, GfixType
  <2>2. Prepared(d)
    BY <1>2 DEF PreparedFits, Prepared
  <2>3. GfixFits'
    BY <1>1, <2>1, <2>2 DEF Elsewhere, pages, coordinator, GfixFits, Prepared, Flagged, Erased,
       Settled
  <2> QED
    BY <1>1, <2>3, GfixAlone
<1>3. CASE ~(gfix.seen[d] = "limbo" /\ tip[d] = "limbo") /\ d = N
  BY <1>1, <1>3, GfixAlone, RestFits DEF TRA_reconnect, NextResolved, Resting
<1>4. CASE ~(gfix.seen[d] = "limbo" /\ tip[d] = "limbo") /\ d # N
  <2>1. gfix'.step = "check" /\ gfix'.at = d + 1 /\ gfix'.todo = gfix.todo
    BY <1>1, <1>4 DEF TRA_reconnect, NextResolved, GfixType
  <2>2. d + 1 \in Databases
    BY <1>4, ConstantAssumption DEF Databases
  <2>3. GfixFits'
    BY <1>1, <2>1, <2>2 DEF Elsewhere, pages, coordinator, GfixFits, Prepared, Flagged, Erased,
       Settled
  <2> QED
    BY <1>1, <2>3, GfixAlone
<1> QED
  BY <1>2, <1>3, <1>4

-----------------------------------------------------------------------------
(* The theorems. *)

LEMMA InitIsFine == Init => IInv
<1> SUFFICES ASSUME Init PROVE IInv
  OBVIOUS
<1>1. TypeOK
  BY InitIsTyped
<1> QED
  BY <1>1, OneIsDatabase DEF Init, IInv, Idle, Resting, Unseen, AppFits, CallFits, Progress,
     PreparedFits,
     LostFits, UndoneFits, OutcomeFits, FirstDecides, HeedFits, RecordFits, GfixFits,
     Prepared, Flagged, AllPrepared, Erased, Settled

LEMMA NextKeeps == AdviceFollowed /\ IInv /\ [Next]_vars => IInv'
<1> SUFFICES ASSUME AdviceFollowed, IInv, [Next]_vars PROVE IInv'
  OBVIOUS
<1>1. TypeOK'
  BY TypeKept DEF IInv
<1>2. CASE GDS_PREPARE2 \/ GDS_COMMIT \/ GDS_ROLLBACK \/ AllServed \/ Exit
  BY <1>1, <1>2, GDS_PREPARE2Keeps, GDS_COMMITKeeps, GDS_ROLLBACKKeeps, AllServedKeeps, ExitKeeps
<1>3. CASE TDR_reconnect_multiple \/ TDR_shutdown_databases \/ GfixDies
  BY <1>1, <1>3, TDR_reconnect_multipleKeeps, TDR_shutdown_databasesKeeps, GfixDiesKeeps
<1>4. ASSUME NEW d \in Databases, Refused(d) \/ Answered(d) \/ CCH_write(d) PROVE IInv'
  BY <1>1, <1>4, RefusedKeeps, AnsweredKeeps, CCH_writeKeeps
<1>5. ASSUME NEW d \in Databases, Engine(d) PROVE IInv'
  BY <1>1, <1>5, TRA_prepare_againKeeps, TRA_prepareKeeps, CallFailsKeeps, PostCommitFailsKeeps,
     SetLimboKeeps,
     LimboFailsKeeps,
     TRA_commitKeeps, TRA_rollbackKeeps, SetOutcomeKeeps, DetachedKeeps, EngineDiesKeeps DEF Engine
<1>6. ASSUME NEW d \in Databases, Recover(d) PROVE IInv'
  BY <1>1, <1>6, TDR_list_limboKeeps, MET_get_stateKeeps, TRA_reconnectKeeps,
     UpdateReconnectedKeeps, SetReconnectedKeeps, ReconnectFailsKeeps DEF Recover
<1>7. CASE UNCHANGED vars
  <2>1. UNCHANGED <<Elsewhere, pages, gfix>>
    BY <1>7 DEF vars, Elsewhere, pages, coordinator
  <2>2. GfixFits'
    BY <2>1 DEF IInv, Elsewhere, pages, coordinator, GfixFits, Prepared, Flagged, Erased, Settled
  <2> QED
    BY <1>1, <2>1, <2>2, GfixAlone
<1> QED
  BY <1>2, <1>3, <1>4, <1>5, <1>6, <1>7 DEF Next

\* The inductive invariant.
THEOREM Invariance == AdviceFollowed => (Spec => []IInv)
<1> SUFFICES ASSUME AdviceFollowed PROVE Spec => []IInv
  OBVIOUS
<1>1. IInv /\ [Next]_vars => IInv'
  BY NextKeeps
<1> QED
  BY <1>1, InitIsFine, PTL DEF Spec

\* A transaction that isc_commit_transaction or isc_rollback_transaction reports as
\* ended has ended that way in every database, though recovery was at work meanwhile.
THEOREM SuccessHolds == AdviceFollowed => (Spec => []SuccessIsEverywhere)
<1> SUFFICES ASSUME AdviceFollowed PROVE Spec => []SuccessIsEverywhere
  OBVIOUS
<1>1. IInv => SuccessIsEverywhere
  BY DEF IInv, Progress, SuccessIsEverywhere
<1> QED
  BY <1>1, Invariance, PTL

\* Every step of an engine or of gfix is one of AtomicCommit, or none of it.
LEMMA StepsAreAtomic == AdviceFollowed /\ IInv /\ [Next]_vars => [Atomic!Next]_tip
<1> SUFFICES ASSUME AdviceFollowed, IInv, [Next]_vars, tip' # tip PROVE Atomic!Next
  OBVIOUS
<1> USE OneIsDatabase DEF IInv, TypeOK
<1>1. PICK d \in Databases :
        SetLimbo(d) \/ SetOutcome(d) \/ Detached(d) \/ EngineDies(d) \/ SetReconnected(d)
  BY DEF Next, vars, engine, pages, coordinator, UnchangedByGfix, GDS_PREPARE2, GDS_COMMIT,
     GDS_ROLLBACK,
     AllServed, Exit, Refused, Answered, Engine, TRA_prepare_again, TRA_prepare, CallFails,
     LimboFails, Failed, PostCommitFails, TRA_commit, TRA_rollback, Recover, TDR_list_limbo,
     MET_get_state, TDR_reconnect_multiple,
     TRA_reconnect, UpdateReconnected, ReconnectFails, TDR_shutdown_databases, GfixDies, CCH_write
<1>2. CASE SetLimbo(d)
  <2>1. Atomic!Prepare(d)
    BY <1>2 DEF SetLimbo, PreparedFits, Atomic!Prepare
  <2> QED
    BY <2>1 DEF Atomic!Next
<1>3. ASSUME Erased, tip' = [tip EXCEPT ![d] = "committed"] PROVE Atomic!Commit(d)
  <2>1. \A e \in Databases : tip[e] \in {"limbo", "committed"}
    BY <1>3 DEF OutcomeFits, Prepared, TraStates
  <2>2. tip[d] = "limbo"
    BY <1>3, <2>1
  <2> QED
    BY <1>3, <2>1, <2>2 DEF Atomic!Commit
<1>4. ASSUME ~Erased, tip' = [tip EXCEPT ![d] = "dead"] PROVE Atomic!Rollback(d)
  <2>1. \A e \in Databases : tip[e] # "committed"
    BY <1>4 DEF OutcomeFits, Settled
  <2>2. tip[d] \in {"active", "limbo"}
    BY <1>4, <2>1 DEF TraStates
  <2> QED
    BY <1>4, <2>1, <2>2 DEF Atomic!Rollback
<1>5. CASE SetOutcome(d)
  BY <1>3, <1>4, <1>5 DEF SetOutcome, OutcomeFits, Atomic!Next
<1>6. CASE Detached(d) \/ EngineDies(d)
  <2>1. tip[d] = "active" /\ tip' = [tip EXCEPT ![d] = "dead"]
    BY <1>6 DEF Detached, EngineDies
  <2>2. ~Erased
    BY <2>1 DEF OutcomeFits, Prepared
  <2> QED
    BY <1>4, <2>1, <2>2 DEF Atomic!Next
<1>7. CASE SetReconnected(d)
  <2>1. IF gfix.todo = "commit" THEN Erased ELSE ~Erased
    BY <1>7 DEF SetReconnected, GfixFits, Settled
  <2> QED
    BY <2>1, <1>3, <1>4, <1>7 DEF SetReconnected, Atomic!Next
<1> QED
  BY <1>1, <1>2, <1>5, <1>6, <1>7

\* The parts of the transaction end all the same way: what why.c, tra.c and tdr.c do
\* together implements the atomic commit, for any number of databases.
THEOREM CommitIsAtomic == AdviceFollowed => (Spec => Implements)
<1> SUFFICES ASSUME AdviceFollowed PROVE Spec => Implements
  OBVIOUS
<1>1. Init => Atomic!Init
  BY DEF Init, Atomic!Init
<1>2. IInv /\ [Next]_vars => [Atomic!Next]_tip
  BY StepsAreAtomic
<1> QED
  BY <1>1, <1>2, Invariance, PTL DEF Spec, Implements, Atomic!Spec

\* Where the first record is missing and none tells of a rollback, the advice is to
\* commit.
LEMMA CommitIsAdvised ==
  ASSUME NEW seen \in [Databases -> TdrStates], N # 1, seen[1] = "none",
         \A d \in Databases : seen[d] \in {"none", "limbo", "commit"}
  PROVE  TDR_analyze(seen) = "commit"
<1>1. PICK f : /\ IsAdvice(seen, N, f)
               /\ TDR_analyze(seen) = IF f[N] = "inconsistent" THEN "none" ELSE f[N]
  BY AnalyzeIs
<1>2. ASSUME NEW n \in Databases, n # 1, f[n - 1] # "inconsistent" PROVE f[n] = "commit"
  <2>1. f[n] = Weighed("commit", seen[n], f[n - 1])
    BY <1>1, <1>2 DEF IsAdvice, NextAdvice, First, Databases
  <2>2. seen[n] \in {"none", "limbo", "commit"}
    OBVIOUS
  <2> QED
    BY <2>1, <2>2 DEF Weighed
<1> DEFINE Bad == {n \in Databases : f[n] = "inconsistent"}
<1>3. ASSUME Bad # {} PROVE FALSE
  <2>1. PICK n \in Bad : \A y \in Bad : n <= y
    <3> HIDE DEF Bad
    <3>1. Bad \subseteq Databases
      BY DEF Bad
    <3> QED
      BY <1>3, <3>1, Least
  <2>2. n # 1
    BY <1>1, <2>1, OneIsDatabase DEF IsAdvice, FirstAdvice, Databases
  <2>3. n \in Databases /\ n - 1 \in Databases /\ n - 1 \notin Bad
    BY <2>1, <2>2, ConstantAssumption DEF Databases
  <2>4. f[n - 1] # "inconsistent"
    BY <2>3
  <2>5. f[n] = "commit"
    BY <1>2, <2>2, <2>3, <2>4
  <2> QED
    BY <2>1, <2>5
<1>4. N \in Databases /\ N - 1 \in Databases
  BY ConstantAssumption DEF Databases
<1>5. f[N - 1] # "inconsistent"
  BY <1>3, <1>4
<1> QED
  BY <1>1, <1>2, <1>4, <1>5

\* Where a part is in limbo the first one has the flag.
LEMMA LimboIsFlagged ==
  ASSUME IInv, NEW d \in Databases, tip[d] = "limbo"
  PROVE  Flagged(1)
<1> USE OneIsDatabase DEF IInv
<1>1. Flagged(d)
  BY DEF PreparedFits
<1>2. d # 1 => 1 < d
  OBVIOUS
<1> QED
  BY <1>1, <1>2 DEF PreparedFits, Prepared

\* The advice of gfix is never against what is done, and where a part is committed it
\* is to commit the rest.
THEOREM AdviceIsRight == AdviceFollowed => (Spec => []AdviceAgrees)
<1> SUFFICES ASSUME AdviceFollowed PROVE Spec => []AdviceAgrees
  OBVIOUS
<1>1. IInv => AdviceAgrees
  <2> SUFFICES ASSUME IInv, NEW d \in Databases, tip[d] = "limbo", record[d] = "limbo"
               PROVE  /\ TDR_analyze(record) = "commit" => \A e \in Databases : tip[e] # "dead"
                      /\ TDR_analyze(record) = "rollback" => \A e \in Databases : tip[e] # "committed"
                      /\ (\E e \in Databases : tip[e] = "committed") => TDR_analyze(record) = "commit"
    BY DEF AdviceAgrees
  <2> USE OneIsDatabase DEF IInv, TypeOK
  <2>1. record \in [Databases -> TdrStates]
    BY DEF TdrStates
  <2>2. Flagged(1)
    BY LimboIsFlagged
  <2>3. ASSUME TDR_analyze(record) = "commit" PROVE Erased
    BY <2>1, <2>2, <2>3, AdviceHasReason DEF OutcomeFits, Erased, Settled
  <2>4. ASSUME TDR_analyze(record) = "rollback" PROVE ~Erased
    BY <2>1, <2>4, AdviceHasReason DEF OutcomeFits, Erased
  <2>5. ASSUME Erased PROVE TDR_analyze(record) = "commit"
    <3>1. record[1] = "none" /\ \A e \in Databases : record[e] \in {"none", "limbo", "commit"}
      BY <2>5 DEF OutcomeFits, Erased, TRA_states
    <3>2. N # 1
      BY <3>1 DEF Databases
    <3> QED
      BY <2>1, <3>1, <3>2, CommitIsAdvised
  <2> QED
    BY <2>3, <2>4, <2>5 DEF OutcomeFits, Settled
<1> QED
  BY <1>1, Invariance, PTL

\* What the comment of TDR_analyze assumes: where recovery finds work and no record of
\* the first part, that part was not rolled back.
THEOREM MissingHolds == AdviceFollowed => (Spec => []MissingMeansCommitted)
<1> SUFFICES ASSUME AdviceFollowed PROVE Spec => []MissingMeansCommitted
  OBVIOUS
<1>1. IInv => MissingMeansCommitted
  <2> SUFFICES ASSUME IInv, record[1] = "none", NEW d \in Databases, tip[d] = "limbo"
               PROVE  tip[1] # "dead"
    BY DEF MissingMeansCommitted
  <2>1. Erased
    BY LimboIsFlagged DEF Erased
  <2> QED
    BY <2>1, OneIsDatabase DEF IInv, OutcomeFits
<1> QED
  BY <1>1, Invariance, PTL

\* What the comment of GDS_COMMIT assumes: when the second phase of a commit begins no
\* part is active.
THEOREM EverybodyIsInLimbo == AdviceFollowed => (Spec => []EverybodyInLimbo)
<1> SUFFICES ASSUME AdviceFollowed PROVE Spec => []EverybodyInLimbo
  OBVIOUS
<1>1. IInv => EverybodyInLimbo
  BY DEF IInv, Progress, AllPrepared, Prepared, EverybodyInLimbo
<1> QED
  BY <1>1, Invariance, PTL
===========================================================================
