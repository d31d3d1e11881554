SPECIFICATION Spec
CONSTANTS
  h1 = h1 h2 = h2 h3 = h3 p1 = p1 p2 = p2
  None = None
  Providers = {p1}
  LocalProviders = {}
  Handlers = {h1, h2}
  Threshold = 3
  OpenDurations <- ShortWindows
  ProbeStale = 2
  ProbeHold = 1
  CooldownLengths = {1}
  OperatorJobs = {}
  MaxOverlap = 2
  MaxArrivals = 5
  MaxStoreErrors = 0
  MaxCrashes = 0
  MaxTime = 4
INVARIANT OneProbe
CHECK_DEADLOCK FALSE
