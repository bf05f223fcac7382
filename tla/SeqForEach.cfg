CONSTANTS
  w1 = w1
  w2 = w2
  w3 = w3
  Workers = {w1, w2}
  NumItems = 3
  PanicsAt = 0
  OuterEvents = {"stopping", "canceled"}
  Grace = "later"
  FnGraces = {"now", "later"}
  Expires = TRUE
SPECIFICATION FairSpec
INVARIANTS
  ErrorsArrive
  NilIsComplete
PROPERTIES
  StopEndsForEach
CHECK_DEADLOCK FALSE
