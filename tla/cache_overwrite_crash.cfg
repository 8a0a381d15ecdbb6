\* A crash while an unsent object is being rewritten.
SPECIFICATION Spec
CONSTANTS
    Clients = {c1}
    Workers = {w1}
    Paths = {p1}
    Bodies = {a, b}
    a = a
    b = b
    SizeOf <- TwoSizes
    NoBody = NoBody
    NoPath = NoPath
    NoWorker = NoWorker
    MaxVersion = 2
    MaxCrashes = 1
    MaxDirty = 3
    High = 9
    Low = 9
    Ops = {"put"}
    Faults = {"crash"}
    TakeTurns = TRUE
INVARIANTS
    AcceptedIsKept
SYMMETRY Interchangeable
\* With every version used up and nothing cached the system may rest.
CHECK_DEADLOCK FALSE
