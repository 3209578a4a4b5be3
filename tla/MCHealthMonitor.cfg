CONSTANTS
  db = db
  web = web
  slack = slack
  loopDb = loopDb
  loopWeb = loopWeb
  Services = {db, web}
  Deps <- ChainDeps
  Polls = {loopDb, loopWeb}
  Target <- LoopTarget
  Followed <- FollowWeb
  Channels = {slack}
  Enabled = {slack}
  StateRules <- Rules
  Escalate = FALSE
  FailureThreshold = 2
  SuccessThreshold = 1
  Timeout = 1
SPECIFICATION FairSpec
INVARIANTS
  SinksAgree
  CircuitViewAgrees
PROPERTIES
  EventsChain
  AllRecover
  OutageSpreads
