SPECIFICATION Spec
CONSTANTS
  Providers = {1, 2, 3}
  Quota = 10
  Threshold = 80
  Requests <- SomeRequests
  MaxTime = 5
  MaxFaults = 1
INVARIANTS TypeOK CallsBounded DeadlineHolds StopReasonTrue AbortedRequestStops SuccessIsFinal RecordedOnce
PROPERTIES RankedCandidates EveryRequestAnswered
CHECK_DEADLOCK FALSE
