SPECIFICATION Spec
CONSTANTS
  Names = {"web"}
  EndpointSets = {"none", "pods"}
  Empty = "none"
  Nil = Nil
  Watchers = {1, 2}
  Services = {1}
  NameOf <- MCNameOf
  Explicit = {}
  NoValue = NoValue
  Free = Free
  MaxGen = 2
  MaxChanges = 2
  ChanCap = 1
  CalmStartup = FALSE
  PromptLoop = TRUE
CHECK_DEADLOCK FALSE
INVARIANT NoLost
