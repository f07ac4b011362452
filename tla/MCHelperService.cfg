SPECIFICATION MCSpec
CONSTANTS
  c1 = c1
  c2 = c2
  i1 = i1
  i2 = i2
  Conns <- TwoConns
  RunIds = {i1, i2}
  Requests <- EveryPair
  m1 = m1
  m2 = m2
  Removers <- TwoRemovers
  NoConn = NoConn
  Removal = Removal
  MaxPending = 1
  MaxStarts = 2
INVARIANTS OneOperation AdmissionHolds
PROPERTIES QuarantineHolds CancelledNeverStarts CancelResolves
CHECK_DEADLOCK FALSE
