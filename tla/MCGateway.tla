----------------------------- MODULE MCGateway -----------------------------
(* An instance of Gateway for TLC.                                         *)
EXTENDS Gateway, TLC

MCDurations == {0, 1}

MCSymmetry == Permutations(Keys) \cup Permutations(Requests)
=============================================================================
