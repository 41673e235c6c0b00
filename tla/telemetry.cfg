SPECIFICATION Spec
CONSTANTS
  h1 = h1
  h2 = h2
  Hashes = {h1, H1, h2}
  LowerCase <- MCLowerCase
  Triggers = {t1}
  Workers = {w1, w2}
  DayLength = 2
  MaxTime = 3
INVARIANTS OneRowPerDay AcknowledgedKept
CHECK_DEADLOCK FALSE
