---------------------------- MODULE CarefulWrite ----------------------------
(***************************************************************************)
(* What the page caches of all processes promise together: there is one    *)
(* current image of every page, an update is made to the current image,    *)
(* and a page goes to the file only after everything its image refers to.  *)
(*                                                                         *)
(* An image is known by the updates it contains (has) and by the updates   *)
(* of other pages it refers to (needs).                                    *)
(***************************************************************************)
EXTENDS Naturals

CONSTANTS Pages, Updates

Image == [has : SUBSET Updates, needs : SUBSET Updates]
Blank == [has |-> {}, needs |-> {}]

VARIABLES
  store,  \* the current image of each page, wherever it is
  disk    \* its image in the file

Durable == UNION {disk[g].has : g \in Pages}
Known == UNION {store[g].has : g \in Pages}

Init == store = [g \in Pages |-> Blank] /\ disk = store

\* An update is made to the current image, and may refer to other updates. A page
\* that is allocated anew refers to nothing any more.
Update(g, u) ==
  /\ u \in Updates \ Known
  /\ \E needs \in SUBSET Updates, old \in {store[g].needs, {}} :
       store' = [store EXCEPT ![g] = [has |-> @.has \cup {u}, needs |-> old \cup needs]]
  /\ UNCHANGED disk

\* A page is written when all it refers to is in the file, or lost.
Write(g) ==
  /\ store[g].needs \cap Known \subseteq Durable
  /\ disk' = [disk EXCEPT ![g] = store[g]]
  /\ UNCHANGED store

\* What is not in the file is lost with a process, or with a failed write.
Lose(G) ==
  /\ store' = [g \in Pages |-> IF g \in G THEN disk[g] ELSE store[g]]
  /\ UNCHANGED disk

Next ==
  \/ \E g \in Pages : Write(g) \/ \E u \in Updates : Update(g, u)
  \/ \E G \in SUBSET Pages : Lose(G)

Spec == Init /\ [][Next]_<<store, disk>>
=============================================================================
