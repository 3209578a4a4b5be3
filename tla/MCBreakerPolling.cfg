CONSTANTS
  p1 = p1
  p2 = p2
  Polls = {p1, p2}
  FailureThreshold = 2
  SuccessThreshold = 2
  Timeout = 2
  MaxResets = 1
SPECIFICATION FairSpec
INVARIANTS
  NoCheckBehindOpen
  HalfOpenIsEarned
PROPERTIES
  OpensOnlyOnRun
  ClosesOnlyOnRun
  RecoversWhenUp
  ProbesWhileDown
