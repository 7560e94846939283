------------------------------ MODULE MCWebTool ------------------------------
(* Two factory calls and two argument arrays: enough for one instance or one *)
(* array to be used twice while the other disturbs the shared ofile.         *)
EXTENDS WebTool, TLC

CONSTANTS m1, m2, j1, j2

Symmetric == Permutations({m1, m2}) \cup Permutations({j1, j2})
==============================================================================
