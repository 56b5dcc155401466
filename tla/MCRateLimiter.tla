--------------------------- MODULE MCRateLimiter ---------------------------
(***************************************************************************)
(* Small instances of RateLimiter: two ticks to a millisecond and two      *)
(* milliseconds to a second, so that one token is 240 units.  The default  *)
(* quota refills a token every five ticks, which is no whole number of     *)
(* milliseconds; the other quota admits bursts of two.                     *)
(***************************************************************************)
EXTENDS RateLimiter, TLC

MCDefault == [rpm |-> 48, burst |-> 1]
MCCfgs == {MCDefault, [rpm |-> 120, burst |-> 2]}

\* The contents of a bucket nobody refers to never matter again.
MCView ==
    LET live == BucketIds \ FreeIds
    IN  <<now, row, configs, buckets, [b \in live |-> heap[b]],
          [b \in live |-> obs[b]], evicted \cap live, refused, pc, locals, disturbed>>

MCSymmetry == Permutations(Procs) \cup Permutations(BucketIds)
=============================================================================
