\* Two ensurers and a writer over four folders, three levels deep, a cache of two entries.
SPECIFICATION Spec
CONSTANTS
    x = x
    y = y
    Names = {x, y}
    Folders = {1, 2, 3, 4}
    Ensurers = {e1, e2}
    Goals <- FarGoals
    Users = {u1}
    Asked <- Written
    Ops = {"rename", "move", "copy", "remove", "mkdir"}
    MaxEntries = 2
    MaxCalls = 1
    MaxFaults = 1
    Faults = {"fail", "lost"}
INVARIANTS
    TypeOK
    NothingStaleIsLeft
    EnsureAgrees
    FoundByID
\* Everybody may have made their calls.
CHECK_DEADLOCK FALSE
