------------------------------- MODULE MCRbac -------------------------------
(***************************************************************************)
(* A small instance of Rbac: one pattern for the only tool, and one that   *)
(* matches no tool (its action is not "execute").                          *)
(***************************************************************************)
EXTENDS Rbac, TLC

CONSTANTS rowTool, rowOther, t1

MCRows == {rowTool, rowOther}
MCMatches == [x \in MCRows |-> IF x = rowTool THEN {t1} ELSE {}]
MCSymmetry == Permutations(Procs) \cup Permutations(Roles)
=============================================================================
