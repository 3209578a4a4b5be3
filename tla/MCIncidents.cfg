CONSTANTS
  Interval = 3
  WriteTimeout = 2
  MaxFaults = 1
  MaxOpen = 2
  MaxChanges = 9
SPECIFICATION SpecViews
INVARIANTS
  AtMostOneOpen
  HealthyHasNone
  DeadHasOne
  HistoryIsCurrent
  OneOutageTwoViews
  TimelineEndsWithRecovery
