----------------------- MODULE StreamingWhisperEngine -----------------------
(***************************************************************************)
(* The audio buffer of one session, src/src/whisper/                       *)
(* StreamingWhisperEngine.cpp: processAudioChunk() appends to it while a   *)
(* pass of transcribeSlidingWindow() works on a copy and, when it commits  *)
(* text, erases the audio that text came from.                             *)
(*                                                                         *)
(* buffer_mutex_ is held for the copy and for the erasure, not between, so *)
(* chunks may arrive during a pass.  StreamingSession calls both methods   *)
(* under its own state_mutex_, which leaves no such chunk: Concurrent says *)
(* which of the two is meant.  Offsets count from the front the buffer had *)
(* when the pass took its copy, in centiseconds.                           *)
(***************************************************************************)
EXTENDS VadGate

CONSTANTS
  VadModes,     \* whether the server runs with a VAD model, without, or either
  Concurrent,   \* whether chunks may arrive while a pass is running
  Chunks,       \* lengths of the chunks
  HighWater,    \* HIGH_WATER_MARK, 20 s
  MaxBuffer,    \* max_buffer_samples_, 30 s
  Window,       \* max_window_samples, 10 s
  Overlap,      \* the 2 s at the end that are left to the next pass
  MaxTexts,     \* bound: text segments of one pass
  Overshoot     \* bound: how far past the audio whisper may put a time

ASSUME EngineConstants ==
  /\ VadModes \subseteq BOOLEAN /\ Concurrent \in BOOLEAN
  /\ Chunks \subseteq Nat \ {0}
  /\ HighWater \in Nat \ {0} /\ MaxBuffer \in Nat /\ HighWater <= MaxBuffer
  /\ 1..MaxBuffer \subseteq Totals
  /\ Window \in Nat /\ Overlap \in Nat
  /\ MaxTexts \in Nat /\ Overshoot \in Nat

VARIABLES
  vad_gate,  \* whether there is a vad_gate_: setVadConfig() was called
  size,      \* audio_buffer_.size()
  dropping,  \* whether the last chunk was dropped
  pc,        \* "idle", "gate", "decode", "commit", "ended"
  force,     \* force_commit
  snapshot,  \* length of the copy
  shift,     \* how much the cap has cut off the front since the copy
  t1         \* the end times of whisper's text segments

bufferVars == <<size, dropping>>
passVars == <<pc, force, snapshot, shift, t1>>
vars == <<vad_gate, bufferVars, passVars, gateVars>>

TypeOK ==
  /\ GateTypeOK /\ vad_gate \in VadModes
  /\ size \in 0..MaxBuffer /\ dropping \in BOOLEAN
  /\ pc \in {"idle", "gate", "decode", "commit", "ended"}
  /\ force \in BOOLEAN /\ snapshot \in 0..MaxBuffer /\ shift \in Nat
  /\ t1 \in Seq(Nat \ {0})

Init ==
  /\ GateInit /\ vad_gate \in VadModes
  /\ size = 0 /\ dropping = FALSE
  /\ pc = "idle" /\ force = FALSE /\ snapshot = 0 /\ shift = 0 /\ t1 = <<>>

(***************************************************************************)
(* processAudioChunk()                                                     *)
(***************************************************************************)
\* The forced pass runs on the thread that would receive the chunks.
CanReceive == pc = "idle" \/ (Concurrent /\ pc # "ended" /\ ~force)

ChunkDropped ==
  /\ CanReceive /\ size >= HighWater
  /\ dropping' = TRUE
  /\ UNCHANGED <<vad_gate, size, passVars, gateVars>>

\* What does not fit any more is cut off at the front, from the oldest audio on.
CutOff(n) == IF size + n > MaxBuffer THEN size + n - MaxBuffer ELSE 0

ChunkAdded(n) ==
  /\ CanReceive /\ size < HighWater
  /\ size' = Smaller(size + n, MaxBuffer)
  /\ dropping' = FALSE
  /\ shift' = IF pc = "idle" THEN 0 ELSE shift + CutOff(n)
  /\ UNCHANGED <<vad_gate, pc, force, snapshot, t1, gateVars>>

(***************************************************************************)
(* transcribeSlidingWindow(force_commit)                                   *)
(***************************************************************************)
\* The pass is over: nothing of it is left but what it did to the buffer.
PassOver(p) ==
  /\ pc' = p
  /\ force' = FALSE /\ snapshot' = 0 /\ shift' = 0 /\ t1' = <<>>

\* It returns; after the forced one the session has ended.
PassEnds == PassOver(IF force THEN "ended" ELSE "idle")

\* It throws: handleEnd() ends the session, flushLoop() catches nothing.
PassThrows == PassOver("ended")

\* Step 1: the copy.  An empty buffer ends the pass at once.
Snapshot(f) ==
  /\ pc = "idle" /\ size > 0
  /\ force' = f /\ snapshot' = size /\ shift' = 0
  /\ pc' = IF vad_gate THEN "gate" ELSE "decode"
  /\ UNCHANGED <<vad_gate, bufferVars, t1, gateVars>>

EmptyEnd ==
  /\ pc = "idle" /\ size = 0 /\ pc' = "ended"
  /\ UNCHANGED <<vad_gate, bufferVars, force, snapshot, shift, t1, gateVars>>

\* Step 1.5: gate(), which may throw, or find nothing but silence.
GateRuns ==
  /\ pc = "gate" /\ (GateDetects(snapshot) \/ GateSegment)
  /\ UNCHANGED <<vad_gate, bufferVars, passVars>>

GateFails ==
  /\ pc = "gate" /\ GateThrows(snapshot)
  /\ PassThrows /\ UNCHANGED <<vad_gate, bufferVars>>

NothingButSilence ==
  /\ pc = "gate" /\ gate_pc = "silence"
  /\ PassEnds /\ GateForget /\ UNCHANGED <<vad_gate, bufferVars>>

\* decode_buf: what whisper hears, each sample by its offset in the copy.
decode_buf == IF vad_gate THEN samples ELSE [p \in 1..snapshot |-> p - 1]

CanDecode == pc = "decode" \/ (pc = "gate" /\ gate_pc = "speech")

\* Steps 2 and 3: whisper fails, or returns segments in time order.
Transcripts ==
  {s \in UNION {[1..n -> 1..(Len(decode_buf) + Overshoot)] : n \in 0..MaxTexts} :
     \A i, j \in DOMAIN s : i < j => s[i] <= s[j]}

WhisperFails ==
  /\ CanDecode
  /\ PassThrows /\ GateForget /\ UNCHANGED <<vad_gate, bufferVars>>

\* The segments that end before the overlap.
Before(s) == {i \in DOMAIN s : s[i] < Len(decode_buf) - Overlap}

\* commit_up_to_segment, 0 for -1: all, the last that ends before the overlap,
\* or all but the last.
CommitUpTo(s) ==
  IF force THEN Len(s)
  ELSE IF Before(s) # {} THEN CHOOSE i \in Before(s) : \A j \in Before(s) : j <= i
  ELSE IF Len(s) > 1 THEN Len(s) - 1 ELSE 0

WantsCommit == force \/ snapshot >= Window

Decode ==
  /\ CanDecode
  /\ \E s \in Transcripts :
       IF WantsCommit /\ CommitUpTo(s) > 0
       THEN /\ t1' = s /\ pc' = "commit"
            /\ UNCHANGED <<force, snapshot, shift, gateVars>>
       ELSE PassEnds /\ GateForget
  /\ UNCHANGED <<vad_gate, bufferVars>>

\* Where the committed text ends in decode_buf.
commit_t1 == t1[CommitUpTo(t1)]

samples_to_erase_Gated == commit_t1

samples_to_erase ==
  IF vad_gate THEN mapGatedToOriginalSamples(mapping, commit_t1, original_total)
            ELSE commit_t1

Remaining_CopyOnly ==
  IF ~force /\ samples_to_erase < snapshot THEN size - samples_to_erase ELSE 0

\* erase(), or clear() when it would reach the end; a forced pass clears.
Remaining ==
  IF ~force /\ samples_to_erase < size THEN size - samples_to_erase ELSE 0

\* Step 4: the audio of the committed text is erased from the buffer.
Commit ==
  /\ pc = "commit"
  /\ size' = Remaining
  /\ PassEnds /\ GateForget
  /\ UNCHANGED <<vad_gate, dropping>>

PassStep ==
  \/ Snapshot(FALSE) \/ GateRuns \/ GateFails \/ NothingButSilence
  \/ WhisperFails \/ Decode \/ Commit

Finished == pc = "ended" /\ UNCHANGED vars

Next ==
  \/ ChunkDropped \/ \E n \in Chunks : ChunkAdded(n)
  \/ Snapshot(TRUE) \/ EmptyEnd \/ PassStep \/ Finished

Spec == Init /\ [][Next]_vars

\* The flush thread keeps running passes and every pass goes on.  (It runs even
\* fewer: a pass needs new audio.)  Nothing obliges the client to send.
FairSpec == Spec /\ WF_vars(PassStep)

(***************************************************************************)
(* Properties                                                              *)
(***************************************************************************)
\* How far the front of the buffer has moved since the copy, after this step.
Front == shift + size - size'

\* A commit divides what whisper heard exactly: the audio of committed text is
\* gone, so that it is not transcribed again, and the audio of the rest is
\* still there, so that it is not lost; chunks that arrive meanwhile do not
\* matter unless the cap cuts the buffer under the pass.
PassSplits ==
  [][(Commit /\ shift = 0) =>
       \A p \in DOMAIN decode_buf : decode_buf[p] # Silence =>
         (force \/ p <= commit_t1 <=> decode_buf[p] < Front)]_vars

\* A pass erases nothing that arrived after its copy, even when whisper puts the
\* end of the committed text past the end of the audio: the gate's mapping ends
\* with the buffer it was made for.
NewAudioKept ==
  [][(Commit /\ shift = 0 /\ vad_gate /\ ~force) => Front <= snapshot]_vars

\* "Samples added during inference are preserved": whatever the cap does.
AddedAudioPreserved ==
  [][(Commit /\ ~force) => Front <= Larger(shift, snapshot)]_vars

\* "resume once it drains back below the 10s low-water mark": a buffer that is
\* so full that audio is dropped drains again, at least so far that it accepts
\* audio, or the session ends.
FlowResumes == dropping ~> (size < HighWater \/ pc = "ended")

(***************************************************************************)
(* The inductive invariant behind them                                     *)
(***************************************************************************)
\* While a pass runs, what it copied is in the buffer but for what the cap cut.
CopyInBuffer ==
  pc \in {"gate", "decode", "commit"} => snapshot > 0 /\ size + shift >= snapshot

\* The gate works for the pass that called it, on that pass's copy.
GateOfThePass ==
  /\ pc \in {"idle", "decode", "ended"} => gate_pc = "off"
  /\ pc = "gate" => vad_gate
  /\ pc = "decode" => ~vad_gate
  /\ pc = "commit" => gate_pc = IF vad_gate THEN "speech" ELSE "off"
  /\ gate_pc # "off" => original_total = snapshot

\* A pass that commits has a segment to commit up to.
CommitSound == pc = "commit" => CommitUpTo(t1) \in DOMAIN t1

EngineInv == TypeOK /\ GateInv /\ CopyInBuffer /\ GateOfThePass /\ CommitSound
=============================================================================
