SPECIFICATION FairSpec
CONSTANTS
  d1 = d1
  d2 = d2
  p1 = p1
  p2 = p2
  Devices <- OneDevice
  Reporting <- NoDevice
  Partitions <- OnePartition
  PartitionOf <- AllToP1
  InFlight = 1
  Limit = 1
  MaxRetries = 2
  MaxCreates = 1
  MaxTicks = 2
  FailureKinds <- CrashOnly
  MaxFailures = 1
CHECK_DEADLOCK FALSE
PROPERTY EverySagaEnds
