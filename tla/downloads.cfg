\* Two readers, of a local path and of the server, while upstream misbehaves and the file is replaced by a shorter one.
SPECIFICATION Spec
CONSTANTS
    Readers = {r1, r2}
    Kinds = {"file", "stream", "archive"}
    Length = 3
    LengthOf <- Shrinking
    Versions = 2
    MaxCalls = 2
    Faults = {"break", "whole", "short", "change", "disk"}
INVARIANTS
    TypeOK
    EachCellInPlace
    SuccessIsWhole
    FreshIsVerified
\* Every caller may have made its calls.
CHECK_DEADLOCK FALSE
