CONSTANTS
  h1 = h1
  h2 = h2
  Heals = {h1, h2}
  Actions <- RestartThenFallback
  Cooldown = 2
  MaxAttempts = 2
SPECIFICATION HealFairSpec
INVARIANTS
  AttemptsBounded
  QuickHealsLeaveNoReroute
PROPERTIES
  RefusedOnlyWhenUsedUp
  HealedAgainAndAgain
