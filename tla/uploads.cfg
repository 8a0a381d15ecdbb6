\* One upload with every kind of trouble.
SPECIFICATION FairSpec
CONSTANTS
    Chunks = 3
    Plain = 2
    Packed = 3
    MaxFaults = 3
    Faults = {"lost", "late", "part", "forget", "source", "refuse"}
INVARIANTS
    TypeOK
    AssembledInOrder
    ClosedWhole
    OrphanTakenBack
PROPERTY
    UploadEnds
\* An upload ends.
CHECK_DEADLOCK FALSE
