\* A queue of one, a temporary failure, a refused object, leftovers of an earlier
\* run, a flush and a listing, and a stop at any point.
SPECIFICATION LiveSpec
CONSTANTS
    Workers = {w1, w2}
    Paths = {p1, p2}
    Refused = {p1}
    Capacity = 1
    Batch = 2
    MaxWrites = 2
    MaxFailures = 1
    MaxAsks = 1
    Shutdown = TRUE
INVARIANTS
    TypeOK
    ListingShowsAccepted
PROPERTIES
    ShutdownCompletes
    EverythingIsSent
\* With everything sent, or the daemon stopped, nothing is left to do.
CHECK_DEADLOCK FALSE
