SPECIFICATION HostSpec
CONSTANTS
  Runs = {r1, r2}
  NoRun = NoRun
  Total = 1
  Changes = {c1, c2}
  NoChange = NoChange
INVARIANTS FlagsProtect
PROPERTIES ShutdownResolves
CHECK_DEADLOCK FALSE
