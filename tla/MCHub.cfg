CONSTANTS
  c1 = c1
  c2 = c2
  Clients = {c1, c2}
  RegisterCap = 1
  BroadcastCap = 1
  SendCap = 1
  MaxMessages = 4
SPECIFICATION FairSpec
INVARIANTS
  NoSilentGap
  NeverPanics
PROPERTY MembersLeave
CHECK_DEADLOCK FALSE
