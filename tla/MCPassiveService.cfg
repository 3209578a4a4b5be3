CONSTANTS
  a1 = a1
  a2 = a2
  Alerts = {a1, a2}
  MaxQueue = 1
  MaxRestarts = 1
  FailureThreshold = 1
  SuccessThreshold = 1
  Timeout = 1
SPECIFICATION PassiveFairSpec
INVARIANTS
  FloorStandsForAlert
PROPERTIES
  FiringGoesDown
  ResolvedRecovers
