SPECIFICATION Spec
CONSTANTS
  a1 = a1 a2 = a2 a3 = a3 i1 = i1 i2 = i2 m1 = m1 m2 = m2
  None = None
  Attempts = {a1, a2, a3}
  RequestIds = {i1, i2}
  Models = {m1}
  Limits <- OneOrTwoSlots
  MaxReplays = 2
  MaxUpdates = 1
  MaxTime = 1
PROPERTY StartsWithinLimit
CHECK_DEADLOCK FALSE
