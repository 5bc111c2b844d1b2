\* Two requests, one sent again after a failure, one kill or loss of power.
SPECIFICATION NotifyFairSpec
CONSTANTS
  named = named  plain = plain
  Requests = {named, plain}
  ServiceCount <- Services
  RetryAttempts = 1
  MaxSends <- Sends
  MaxKills = 1
INVARIANTS NotifyTypeOK ServedBeforeGone NoneForgotten
PROPERTIES RequestsServed
CHECK_DEADLOCK FALSE
