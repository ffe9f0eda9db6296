SPECIFICATION PartsSpec
CONSTANTS
  NCSAMaxCrashes = 3
  EventCap = 3
  KeptLimits = {0, 1}
  ReloadRetries = 1
  MaxCalls = 3
  MaxVclFaults = 2
  Conns = {1, 2}
  FrontendLists <- MCFrontendLists
  Groups = {"frontend", "backend"}
  DebounceTime = 2
  Caps = {0, 1, 3}
  Files = {"a", "b"}
  Lasting = {"a"}
  MaxScanAttempts = 3
  MaxDirChanges = 2
  MaxReadFaults = 1
  Bytes = {"a", "b", "n"}
  NL = "n"
  TargetSets <- MCTargetSets
  Chunk = 2
  MaxInput = 6
  maxRedactBuffer = 4
  maxBufferedLine = 4
  MaxLines = 5
  OwnTags <- MCTags
  ForeignTags <- MCTags
  MaxHeld = 3
  NumSources = 2
  NumCerts = 2
INVARIANTS MonitorSound NewestKept BroadcastSound DueInTime Untorn OutputSound DrainInPlace ScrapeSound NoOrphan
PROPERTIES StopReturns ReloadContract NeverWiped DirectoryDelivered StartConcluded
CHECK_DEADLOCK FALSE
