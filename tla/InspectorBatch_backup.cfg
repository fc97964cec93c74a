\* Three devices, two workers, the backup mode.
SPECIFICATION BatchSpec
CONSTANTS
    Total = 3
    Devices = {1, 2, 3}
    VendorPath = {1}
    HasBackup = {1, 2, 3}
    Mode = "backup"
    MaxWorkers = 2
    MaxRetries = 1
    NInspect = 0
    NCustom = 1
INVARIANTS
    ReturnedListIsRight
    NothingRunsAfterReturn
PROPERTIES
    PromiseKept
    BatchReturns
