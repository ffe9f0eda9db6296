SPECIFICATION FairSpec
CONSTANTS
  Templates <- LiveTemplates
  Parseable <- LiveTemplates
  Readable <- LiveTemplates
  Inputs <- LiveInputs
  Output <- LiveOutput
  Vcls <- MCVcls
  Compiles <- MCCompiles
  RenderError = "error"
  InitialTemplate = "t0"
  None = None
  RecoveryInitial = 1
  RecoveryMax = 2
  Faults = {"load", "use"}
  SlowEdits = TRUE
PROPERTIES
  GoodTemplateAdopted
  Converges
  SignalHonoured
CHECK_DEADLOCK FALSE
