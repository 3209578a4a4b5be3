CONSTANTS
  MaxLen = 2
  MaxAge = 2
SPECIFICATION Spec
INVARIANT SeededIsCurrent
