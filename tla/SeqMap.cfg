CONSTANTS
  w1 = w1
  w2 = w2
  w3 = w3
  Workers = {w1, w2}
  NumItems = 4
  PanicsAt = 2
  OuterEvents = {"stopping", "canceled"}
  Grace = "later"
  FnGraces = {"now", "later"}
  Expires = FALSE
  Yields = {"more", "break", "panic"}
SPECIFICATION ReturnSpec
INVARIANTS
  Ordered
  NthIsNth
  PromisesKept
  ClosedUnderNoWorker
  CompleteOrError
PROPERTIES
  UsesContext
  MapReturns
CHECK_DEADLOCK FALSE
