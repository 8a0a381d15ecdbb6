\* One job through everything that can befall it.  Deadlock is not checked: the
\* job has ended, and after SIGTERM the workers are gone.
SPECIFICATION FairSpec
CONSTANTS
    Jobs = {j1}
    Kinds = {"upload", "overwrite", "download"}
    Gateway = TRUE
    Workers = {w1}
    Users = {u1, u2}
    NoJobId = NoJobId
    NoWorker = NoWorker
    MaxAttempts = 2
    QueueCap = 1
    Records = {1, 2, 3}
    MaxCrashes = 1
    Faults = {"fail", "unreachable", "save", "power", "remove", "replace", "refuse", "signal", "full"}
INVARIANTS
    TypeOK
    OrphansAreNamed
PROPERTIES
    SucceededIsUpstream
    WholeFilesAreKept
    ContractKept
    JobsEnd
    StopReturns
CHECK_DEADLOCK FALSE
