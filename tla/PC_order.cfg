CONSTANTS
  p = p
  q = q
  high = high
  mid = mid
  low = low
  Procs = {p, q}
  Updaters = {p}
  Pages = {high, mid, low}
  NoPage = NoPage
  MaxUpdate = 7
  Low = {high, mid, low}
  Anew = {}
  Reused = {}
  GivesUp = {FALSE}
  Failing = {}
SPECIFICATION Scheduled
INVARIANTS WriteOrder
CHECK_DEADLOCK FALSE
