\* As MCTuningExecutor.cfg.
SPECIFICATION TuningSpec
CONSTANTS
  MaxOperations = 2
  MaxChanges = 1
INVARIANTS RolledBackIsBefore
CHECK_DEADLOCK FALSE
