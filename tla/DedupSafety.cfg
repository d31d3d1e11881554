SPECIFICATION Spec
CONSTANTS
  c1 = c1 c2 = c2 c3 = c3 k1 = k1 k2 = k2
  None = None
  Keys = {k1, k2}
  Callers = {c1, c2, c3}
  MaxEntries = 1
  Windows = {1}
  MaxTime = 3
INVARIANTS TypeOK SingleFlight SizeBound
PROPERTIES ReuseIsSound EveryCallerAnswered ImplementsCoalescing
CHECK_DEADLOCK FALSE
