SPECIFICATION PartsSpec
CONSTANTS
    j1 = j1
    j2 = j2
    w1 = w1
    w2 = w2
    Job = {j1, j2}
    Worker = {w1, w2}
    Point = {"start", "saved"}
    Start = "start"
    Result = {0}
    NoResult = 0
    Lease = 2
    RetryWait = 1
    Never = 3
    None = None
    CacheJob = {"clear", "fill", "new", "report"}
    Kind <- MCKind
    Supersedes <- MCSupersedes
    Dates = 2
    Bars = {{1, 2}}
    Loads = {{"clear", "fill"}, {"fill", "new"}, {"clear", "report"}}
    CacheLease = 1
    CacheWait = 1
    MaxFaults = 1
    Upload = {"book"}
    Command = {"c1", "c2"}
    Chunks = 2
    Slot = {1, 2}
    Absent = Absent
    Idle = Idle
INVARIANTS
    OneWriter
    DueIndexIsExact
    ScanStaysTrue
    GenerationsComplete
    NothingToReconcile
    WholeOrGone
    RegisteredOnce
PROPERTIES
    CancelStopsProgress
    CacheJobsEnd
