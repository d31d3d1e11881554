SPECIFICATION Spec
CONSTANTS
  h1 = h1 h2 = h2 h3 = h3 p1 = p1 p2 = p2
  None = None
  Providers = {p1, p2}
  LocalProviders = {p1}
  Handlers = {h1}
  Threshold = 2
  OpenDurations <- ShortWindows
  ProbeStale = 2
  ProbeHold = 1
  CooldownLengths = {1}
  OperatorJobs = {"retry", "reset"}
  MaxOverlap = 1
  MaxArrivals = 4
  MaxStoreErrors = 0
  MaxCrashes = 0
  MaxTime = 4
INVARIANTS TypeOK ThreeFailuresOpen
PROPERTY FollowsLifecycle
CHECK_DEADLOCK FALSE
