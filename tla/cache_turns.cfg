\* Requests for one path take turns and nothing is evicted; crashes and failing writes at any point.
SPECIFICATION Spec
CONSTANTS
    Clients = {c1, c2}
    Workers = {w1}
    Paths = {p1}
    Bodies = {a, b}
    a = a
    b = b
    SizeOf <- TwoSizes
    NoBody = NoBody
    NoPath = NoPath
    NoWorker = NoWorker
    MaxVersion = 3
    MaxCrashes = 2
    MaxDirty = 3
    High = 9
    Low = 9
    Ops = {"put", "fill", "get", "refresh", "clear"}
    Faults = {"crash", "io", "torn", "corrupt", "upstream"}
    TakeTurns = TRUE
INVARIANTS
    PromiseKept
SYMMETRY Interchangeable
\* With every version used up and nothing cached the system may rest.
CHECK_DEADLOCK FALSE
