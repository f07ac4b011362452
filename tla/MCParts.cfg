SPECIFICATION Spec
CONSTANTS
  None = None
  MaxMeddling = 2
  Processes = {p1, p2}
  Names = {home, office}
  NoProcess = NoProcess
  MaxWrites = 3
  Callers = {c1, c2, c3}
  first = c1
  second = c2
  third = c3
  Users = {u1, u2}
  NoUser = NoUser
  Frames = {f1, f2, f3}
  MAX_NONCES = 2
  FRAME_VALIDITY = 2
  CLOCK_SKEW = 1
  NONCE_TTL = 3
  Offsets <- ClockOffsets
  MaxTime = 4
  Interval = 2
  MaxBacklog = 3
  Window = 3
  MaxTtl = 3
  Scenarios <- AllScenarios
  MaxErrors = 1
  FRAME_TIMEOUT = 1
  CANCELLATION_GRACE = 2
  SERVER_CLEANUP_GRACE = 3
  OPERATION_TIMEOUT = 5
  Horizon = 12
  TestEnd = 8
  MaxSequence = 5
INVARIANTS BackupSurvives OutcomeIsDurable
INVARIANTS RestoreIsOneBackup  NothingIsLeft
INVARIANTS SavedSurvives ServedIsRecorded TakenOnce
INVARIANTS StreamIsTrue LeftIsStopped SamplesAreTrue
PROPERTIES ForeignNeverDeleted ImplementsNameStore RemovalSparesOperation
CHECK_DEADLOCK FALSE
