SPECIFICATION LiveSpec
CONSTANTS
    w1 = w1
    w2 = w2
    Job = {"reused"}
    Import = {}
    Twin = {"reused"}
    Other = {"old", "other"}
    InitialHead <- MCInitialHead
    Worker = {w1}
    PageSize = 1
    Batches = 1
    Lease = 2
    RetryWait = 1
    Absent = Absent
    Idle = Idle
    MaxFaults = 1
PROPERTIES
    ReusedIdentityIsRefused
