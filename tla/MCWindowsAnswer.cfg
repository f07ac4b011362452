\* A day stands for five ticks.
SPECIFICATION ExchangeSpec
CONSTANTS
  FRAME_TIMEOUT = 1
  CANCELLATION_GRACE = 2
  SERVER_CLEANUP_GRACE = 3
  OPERATION_TIMEOUT = 5
  Horizon = 12
INVARIANTS OperationIsAwaited
CHECK_DEADLOCK FALSE
