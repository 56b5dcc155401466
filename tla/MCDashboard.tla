---------------------------- MODULE MCDashboard ----------------------------
(* An instance of Dashboard for TLC.  No keys: their roles are Rbac's.     *)
EXTENDS Dashboard, TLC

MCMatches == [x \in Rows |-> {}]
MCSymmetry == Permutations(Roles)
=============================================================================
