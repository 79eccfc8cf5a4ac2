------------------------- MODULE MCHandleTranscribe -------------------------
(* HandleTranscribe for TLC: requests and timer tasks as small sets.       *)
EXTENDS HandleTranscribe, TLC
=============================================================================
