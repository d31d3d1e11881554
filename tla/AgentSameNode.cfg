SPECIFICATION Spec
CONSTANTS
  a1 = a1 a2 = a2 a3 = a3 i1 = i1 i2 = i2 m1 = m1 m2 = m2
  None = None
  Attempts = {a1, a2}
  RequestIds = {i1}
  Models = {m1, m2}
  Limits <- OneSlot
  MaxReplays = 2
  MaxUpdates = 0
  MaxTime = 0
INVARIANT OnlyReplaysRefused
CHECK_DEADLOCK FALSE
