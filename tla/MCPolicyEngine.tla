--------------------------- MODULE MCPolicyEngine ---------------------------
(***************************************************************************)
(* An instance of PolicyEngine for TLC.  Days have two hours; day blocks   *)
(* the first and night the second, so that each verdict tells which        *)
(* policies it was made by.  The write limit is left to MCPolicyRules.     *)
(* Goroutines are interchangeable.                                         *)
(***************************************************************************)
EXTENDS PolicyEngine, TLC

CONSTANTS day, night

MCBlockStart == day :> 0 @@ night :> 1
MCBlockEnd == day :> 1 @@ night :> 0
MCNoLimits == [pol \in {} |-> 1]

MCLists == {<<>>, <<day>>, <<night>>, <<night, day>>}

MCSymmetry == Permutations(Procs)
=============================================================================
