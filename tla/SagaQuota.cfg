SPECIFICATION FairSpec
CONSTANTS
  d1 = d1
  d2 = d2
  p1 = p1
  p2 = p2
  Devices <- TwoDevices
  Reporting <- NoDevice
  Partitions <- TwoPartitions
  PartitionOf <- OneEach
  InFlight = 2
  Limit = 1
  MaxRetries = 2
  MaxCreates = 2
  MaxTicks = 0
  FailureKinds <- AnyFailure
  MaxFailures = 0
CHECK_DEADLOCK FALSE
INVARIANTS QuotaRespected DeletedWasRefused CompletedIsRegistered
PROPERTIES ProvisioningSettles
