CONSTANTS
  w1 = w1
  w2 = w2
  w3 = w3
  Workers = {w1, w2}
  NumItems = 3
  PanicsAt = 0
  OuterEvents = {"stopping", "canceled"}
  Grace = "later"
  FnGraces = {"later"}
  Expires = TRUE
  Yields = {"more", "break"}
SPECIFICATION FairSpec
INVARIANTS
  EachOnce
  NoneLost
PROPERTIES
  StopEndsSequence
CHECK_DEADLOCK FALSE
