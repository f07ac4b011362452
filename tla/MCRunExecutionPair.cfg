SPECIFICATION ExecSpec
CONSTANTS
  r1 = r1
  r2 = r2
  Runs <- TwoRuns
  NoRun = NoRun
  Foreign = Foreign
  Total = 1
  Settings <- MixedPair
INVARIANTS RunsAreApart ChannelCurrent
PROPERTIES RunsEnd ImplementsOneSlot
CHECK_DEADLOCK FALSE
