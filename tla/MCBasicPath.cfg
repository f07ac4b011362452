\* Descriptors for two workers at a time, four jobs.
SPECIFICATION BasicSpec
CONSTANTS
  Jobs = 4
  MaxOutstanding = 3
  Descriptors = 70
  PingCount = 2
  MaxHops = 2
  PathpingProbes = 2
INVARIANTS RunIsAccounted ReportIsWhole
PROPERTIES OutstandingIsBounded PathEnds
CHECK_DEADLOCK FALSE
