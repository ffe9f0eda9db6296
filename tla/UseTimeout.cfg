SPECIFICATION Spec
CONSTANTS
  Templates <- LiveTemplates
  Parseable <- LiveTemplates
  Readable <- LiveTemplates
  Inputs <- LiveInputs
  Output <- LiveOutput
  Vcls <- MCVcls
  Compiles <- MCCompiles
  RenderError = "error"
  InitialTemplate = "t0"
  None = None
  RecoveryInitial = 1
  RecoveryMax = 2
  Faults = {"useApplied"}
  SlowEdits = TRUE
INVARIANTS
  RunningIsRecorded
CHECK_DEADLOCK FALSE
