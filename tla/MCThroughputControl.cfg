SPECIFICATION ThroughputSpec
CONSTANTS
  Specs <- TestSpecs
  MaxRetries = 1
  Addresses = 2
  MaxFaults = 2
INVARIANTS OutcomeIsTrue
PROPERTIES EndsAndReleases HealthySucceeds
CHECK_DEADLOCK FALSE
