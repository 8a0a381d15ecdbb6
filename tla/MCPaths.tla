------------------------------ MODULE MCPaths ------------------------------
(* Values of Paths' constants for TLC.                                      *)
EXTENDS Paths

CONSTANTS x, y

\* A folder three levels down, and one beside it that a write down there leaves cached.
FarGoals == {<<y>>, <<x, y, x>>}
Written  == {<<y>>, <<x, y>>, <<x, y, x>>}
=============================================================================
