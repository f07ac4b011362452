\* Two cycles to a target one hop away or out of reach.
SPECIFICATION TraceSpec
CONSTANTS
  Cycles = 2
  FirstTtl = 1
  MaxTtl = 2
  MaxUnknown = 0
  MaxOutstandingProbes = 3
  MaxFailedCycles = 2
  MaxDnsQueries = 1
  Distances = {1, 3}
  Resolvers = 2
INVARIANTS TraceIsWhole
PROPERTIES TraceEnds
CHECK_DEADLOCK FALSE
