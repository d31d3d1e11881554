SPECIFICATION Spec
CONSTANTS
  h1 = h1 h2 = h2 h3 = h3 p1 = p1 p2 = p2
  None = None
  Providers = {p1}
  LocalProviders = {}
  Handlers = {h1, h2}
  Threshold = 2
  OpenDurations <- ShortWindows
  ProbeStale = 2
  ProbeHold = 1
  CooldownLengths = {1}
  OperatorJobs = {"reset", "clearCooldown"}
  MaxOverlap = 1
  MaxArrivals = 5
  MaxStoreErrors = 1
  MaxCrashes = 1
  MaxTime = 5
SYMMETRY HandlerSymmetry
INVARIANTS StatsCoherent OneProbe
CHECK_DEADLOCK FALSE
