----------------------------- MODULE MCRawCache -----------------------------
(* Instances of RawCache for TLC: the model values its configurations use.  *)
EXTENDS RawCacheProps

CONSTANTS k1, k2, w1, w2, r1, s1, s2
=============================================================================
