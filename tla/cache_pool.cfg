\* Two workers, two clients, and requests that delete: with the goroutines' fairness.
SPECIFICATION FairSpec
CONSTANTS
    Clients = {c1, c2}
    Workers = {w1, w2}
    Paths = {p1}
    Bodies = {a}
    a = a
    b = b
    SizeOf <- SameSize
    NoBody = NoBody
    NoPath = NoPath
    NoWorker = NoWorker
    MaxVersion = 2
    MaxCrashes = 0
    MaxDirty = 3
    High = 9
    Low = 9
    Ops = {"put", "remove"}
    Faults = {"commit", "upstream"}
    TakeTurns = FALSE
INVARIANTS
    TypeOK
    SingleFlight
PROPERTIES
    WaiterIsWoken
\* With every version used up and nothing cached the system may rest.
CHECK_DEADLOCK FALSE
