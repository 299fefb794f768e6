---------------------------- MODULE MCRateLimit ----------------------------
(* RateLimit with model values, and a horizon that a short run can reach.  *)
EXTENDS RateLimit, TLC

CONSTANTS r1, r2, ip1, i1, i2, i3

\* The code has 2 ** attempt_count.
PowersOfTwo == [n \in 0..Horizon |-> 2 ^ n]

\* The members of each set are interchangeable.
Symmetry == Permutations(Requests) \cup Permutations(IPs) \cup Permutations(Instances)
=============================================================================
