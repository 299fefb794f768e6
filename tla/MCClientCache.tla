--------------------------- MODULE MCClientCache ---------------------------
(* Instances of ClientCache, with its history, for TLC. *)
EXTENDS CacheOverlap

CONSTANTS r1, r2, u1, u2, c1, p1, p2
=============================================================================
