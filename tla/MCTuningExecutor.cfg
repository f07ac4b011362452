\* Two operations, the second after a change of the user.
SPECIFICATION TuningSpec
CONSTANTS
  MaxOperations = 2
  MaxChanges = 1
INVARIANTS BackupsHold ResultIsTrue
PROPERTIES OthersAreUntouched
CHECK_DEADLOCK FALSE
