CONSTANTS
  Procs = {p, q}
  Updaters = {p}
  Pages = {a, b}
  NoPage = NoPage
  MaxUpdate = 2
  Low = {a, b}
  Anew = {a}
  Reused = {b}
  GivesUp = {FALSE, TRUE}
  Failing = {b}
SPECIFICATION Spec
INVARIANTS TypeOK WriteOrder HeldIsCurrent NoCycle CommittedInFile LossNoticed
PROPERTIES Implements
