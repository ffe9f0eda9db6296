SPECIFICATION Spec
CONSTANTS
  Templates <- MCTemplates
  Parseable <- MCParseable
  Readable <- MCTemplates
  Inputs <- MCInputs
  Output <- MCOutput
  Vcls <- MCVcls
  Compiles <- MCCompiles
  RenderError = "error"
  InitialTemplate = "t0"
  None = None
  RecoveryInitial = 1
  RecoveryMax = 3
  Faults = {"tempFile", "load", "use"}
  SlowEdits = FALSE
INVARIANTS
  ProvenBaseline
  RetryScheduled
  SettledIsApplied
  RunningIsRecorded
PROPERTIES
  RollbackOnEvidence
