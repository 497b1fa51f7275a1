SPECIFICATION Spec
CONSTANTS
  d1 = d1
  d2 = d2
  p1 = p1
  p2 = p2
  Devices <- OneDevice
  Reporting <- OneDevice
  Partitions <- OnePartition
  PartitionOf <- AllToP1
  InFlight = 2
  Limit = 0
  MaxRetries = 2
  MaxCreates = 1
  MaxTicks = 1
  FailureKinds <- AnyFailure
  MaxFailures = 1
CHECK_DEADLOCK FALSE
INVARIANTS CompensatedIsGone OutcomeWasDecided
