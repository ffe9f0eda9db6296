SPECIFICATION Spec
CONSTANTS
  NCSAMaxCrashes = 1
  EventCap = 2
  Drain = TRUE
  Polls = TRUE
  Escalates = TRUE
  MaxReloads = 1
  MaxSignals = 2
CHECK_DEADLOCK FALSE
INVARIANTS Reaped SuccessMeansAsked ServedToTheEnd CrashExplained
