----------------------------- MODULE MCExchange -----------------------------
(* An instance of Exchange for TLC.                                        *)
EXTENDS Exchange

\* Empty, below, at and above each of the two limits.
MCSizes == 0..6
=============================================================================
