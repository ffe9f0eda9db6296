SPECIFICATION MCSpec
CONSTANTS
  Names = {"web"}
  EndpointSets = {"none", "pods"}
  Empty = "none"
  Nil = Nil
  Watchers = {1, 2}
  Services = {1, 2}
  NameOf <- MCNameOf
  Explicit = {}
  NoValue = NoValue
  Free = Free
  MaxGen = 3
  MaxChanges = 2
  ChanCap = 1
  CalmStartup = TRUE
  PromptLoop = TRUE
INVARIANTS OneOwner TableExact MirrorsAtRest
PROPERTY ViewSpec
