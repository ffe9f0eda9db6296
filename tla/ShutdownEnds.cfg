SPECIFICATION FairSpec
CONSTANTS
  NCSAMaxCrashes = 1
  EventCap = 2
  Drain = TRUE
  Polls = TRUE
  Escalates = TRUE
  MaxReloads = 0
  MaxSignals = 2
CHECK_DEADLOCK FALSE
PROPERTIES Ends DrainInterruptible
