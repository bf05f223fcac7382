CONSTANTS
  t1 = t1
  t2 = t2
  t3 = t3
  Tasks = {t1, t2, t3}
  Chain <- RetryAroundSlot
  Limit = 1
  MaxAttempts = 2
SPECIFICATION Spec
INVARIANTS
  ConcurrencyBound
CHECK_DEADLOCK FALSE
