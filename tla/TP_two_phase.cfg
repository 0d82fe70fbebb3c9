CONSTANTS
  N = 3
  Severable = {1}
  Torn = TRUE
  Unreachable = {2}
  Messages = {TRUE}
  Careless = {}
  Answers = {"neither"}
  Deaths = 1
SPECIFICATION FairSpec
INVARIANTS TypeOK SuccessIsEverywhere AdviceAgrees
PROPERTIES Implements CommitSpreads
CHECK_DEADLOCK FALSE
