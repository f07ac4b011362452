SPECIFICATION ExecSpec
CONSTANTS
  r1 = r1
  r2 = r2
  Runs <- OneRun
  NoRun = NoRun
  Foreign = Foreign
  Total = 3
  Settings <- EveryKind
INVARIANTS ReportIsTrue SuccessIsComplete
PROPERTIES CancelHonoured
CHECK_DEADLOCK FALSE
