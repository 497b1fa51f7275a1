SPECIFICATION Spec
CONSTANTS
    r1 = r1
    r2 = r2
    d1 = d1
    w1 = w1
    w2 = w2
    Readings = {r1, r2}
    Devices = {d1}
    DeviceOf <- MCDeviceOf
    RecordedAt <- MCRecordedAt
    Workers = {w1, w2}
    BatchSize = 2
    MaxAttempts = 2
    Threshold = 2
    Budgets <- TwoWorkersCrash
CHECK_DEADLOCK FALSE
INVARIANTS
    CommittedWasHandled
