------------------------- MODULE MCInferenceLimiter -------------------------
(* InferenceLimiter for TLC: threads and limits as small sets.  No symmetry, *)
(* which would be unsound for the liveness property.                         *)
EXTENDS InferenceLimiter, TLC
=============================================================================
