---------------------- MODULE MCStreamingWhisperEngine ----------------------
(* StreamingWhisperEngine for TLC.                                         *)
EXTENDS StreamingWhisperEngine, TLC

\* Every buffer the engine can hold.
Lengths == 1..MaxBuffer
=============================================================================
