CONSTANTS
  db = db
  web = web
  slack = slack
  loopDb = loopDb
  loopWeb = loopWeb
  Services = {db, web}
  Deps <- CycleDeps
  Polls = {loopDb, loopWeb}
  Target <- LoopTarget
  Followed <- FollowNone
  Channels = {slack}
  Enabled = {slack}
  StateRules <- Rules
  Escalate = FALSE
  FailureThreshold = 2
  SuccessThreshold = 1
  Timeout = 1
SPECIFICATION FairSpec
PROPERTY AllRecover
