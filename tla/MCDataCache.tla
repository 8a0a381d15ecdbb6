---------------------------- MODULE MCDataCache ----------------------------
(* Values of DataCache's constants for TLC.                                 *)
EXTENDS DataCache, TLC

CONSTANTS a, b

\* Contents of one size, which verifyAgainstDisk cannot tell apart.
SameSize == [x \in Bodies |-> 1]
\* Contents of different sizes.
TwoSizes == [x \in Bodies |-> IF x = b THEN 2 ELSE 1]

\* Threads of one kind are interchangeable.
Interchangeable == Permutations(Clients) \cup Permutations(Workers)
=============================================================================
