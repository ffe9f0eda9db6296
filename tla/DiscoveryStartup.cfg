SPECIFICATION FairSpec
CONSTANTS
  Names = {"web", "explicit"}
  EndpointSets = {"none", "pods"}
  Empty = "none"
  Nil = Nil
  Watchers = {1}
  Services = {1, 3}
  NameOf <- MCNameOf
  Explicit = {"explicit"}
  NoValue = NoValue
  Free = Free
  MaxGen = 3
  MaxChanges = 3
  ChanCap = 2
  CalmStartup = FALSE
  PromptLoop = TRUE
CHECK_DEADLOCK FALSE
PROPERTIES StartupCompletes Settles
