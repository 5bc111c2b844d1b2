\* The power is lost once, while rsync writes.
SPECIFICATION NotifyFairSpec
CONSTANTS
  named = named  plain = plain
  Requests = {named, plain}
  ServiceCount <- Services
  RetryAttempts = 1
  MaxSends <- Sends
  MaxKills = 1
PROPERTIES PendingProcessed
CHECK_DEADLOCK FALSE
