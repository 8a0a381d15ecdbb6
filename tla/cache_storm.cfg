\* Requests for one path interleave freely, with evictions and a crash.
SPECIFICATION Spec
CONSTANTS
    Clients = {c1, c2}
    Workers = {w1}
    Paths = {p1}
    Bodies = {a, b}
    a = a
    b = b
    SizeOf <- TwoSizes
    NoBody = NoBody
    NoPath = NoPath
    NoWorker = NoWorker
    MaxVersion = 2
    MaxCrashes = 1
    MaxDirty = 3
    High = 1
    Low = 0
    Ops = {"put", "fill"}
    Faults = {"crash", "io", "upstream", "unhashed", "short"}
    TakeTurns = FALSE
INVARIANTS
    CleanIsUpstream
    JournalLeads
    Accounting
SYMMETRY Interchangeable
\* With every version used up and nothing cached the system may rest.
CHECK_DEADLOCK FALSE
