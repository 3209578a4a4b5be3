CONSTANTS
  slack = slack
  pagerduty = pagerduty
  email = email
  Channels = {slack, pagerduty, email}
  Enabled = {slack, pagerduty}
  StateRules <- Rules
  Escalate = TRUE
  Interval = 3
  SendTimeout = 2
SPECIFICATION Spec
INVARIANTS
  StateIsEarned
  NoStaleAlarm
  RuledChannelsKnow
PROPERTIES
  NoRepeats
  RecoveryReachesTheAlerted
  KeepsPromise
