CONSTANTS
  MaxLen = 2
  MaxAge = 1
SPECIFICATION FairSpec
INVARIANTS
  AnchoredIsCurrent
PROPERTIES
  NeverBackwards
  ReplayConverges
