CONSTANTS
  w1 = w1
  w2 = w2
  w3 = w3
  Workers = {w1, w2}
  NumItems = 3
  PanicsAt = 0
  OuterEvents = {}
  Grace = "later"
  FnGraces = {"now", "later"}
  Expires = TRUE
  Yields = {"more"}
SPECIFICATION ReturnSpec
PROPERTIES EndsOnceStopped
CHECK_DEADLOCK FALSE
