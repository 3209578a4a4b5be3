CONSTANTS
  slack = slack
  pagerduty = pagerduty
  email = email
  Channels = {slack, pagerduty, email}
  Enabled = {slack, pagerduty}
  StateRules <- DefaultRules
  Escalate = FALSE
  Interval = 3
  SendTimeout = 2
SPECIFICATION Spec
INVARIANT RuledChannelsKnow
