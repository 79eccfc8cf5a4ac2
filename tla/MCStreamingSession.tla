------------------------- MODULE MCStreamingSession -------------------------
(* StreamingSession for TLC: bounds and sizes are given by the .cfg files.  *)
EXTENDS StreamingSession, TLC
=============================================================================
