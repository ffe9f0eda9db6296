SPECIFICATION FairSpec
CONSTANTS
  Certs = {c1, c2}
  Material = {"none", "m1", "m2", "broken"}
  Malformed = {"broken"}
  Empty = "none"
  Backlog = 1
  Retries = TRUE
  Faults = {"file", "list", "load", "load late", "commit", "commit late",
            "rollback", "discard", "discard late"}
  MaxFaults = 3
  MaxChanges = 2
CHECK_DEADLOCK FALSE
INVARIANTS ServesLoaded NothingForgotten
PROPERTY CertsConverge
