SPECIFICATION OneJobSpec
CONSTANTS
    w1 = w1
    w2 = w2
    Job = {"import", "cmd"}
    Import = {"import"}
    Twin = {"cmd"}
    Other = {"old"}
    InitialHead <- MCInitialHead
    Worker = {w1, w2}
    PageSize = 1
    Batches = 2
    Lease = 2
    RetryWait = 1
    Absent = Absent
    Idle = Idle
    MaxFaults = 3
INVARIANTS
    UndoneNeverPublished
    PublishedContentComplete
PROPERTIES
    ImplementsLedger
    JobsSettle
