--------------------------- MODULE MCPolicyRules ----------------------------
(***************************************************************************)
(* Instances of PolicyRules for TLC.  Days have three hours; day blocks    *)
(* the hours 1 and 2 and ends at 24:00, night the hours 2 and 0; burst and *)
(* slow are rate_of_change policies of a short and of a long window.       *)
(***************************************************************************)
EXTENDS PolicyRules, TLC

CONSTANTS day, night, word, idle, burst, slow

MCBlockStart == day :> 1 @@ night :> 2
MCBlockEnd == day :> 3 @@ night :> 1
MCMaxWrites == [pol \in RatePolicies |-> IF pol = burst THEN 1 ELSE 2]
MCWindow == [pol \in RatePolicies |-> IF pol = burst THEN 1 ELSE 4]

MCLists == {<<>>, <<burst>>, <<idle, burst, word>>, <<day, burst>>, <<burst, night>>}
MCBothLists == {<<burst, slow>>}

MCSymmetry == Permutations(Procs)
=============================================================================
