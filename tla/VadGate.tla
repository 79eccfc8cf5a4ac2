------------------------------ MODULE VadGate ------------------------------
(***************************************************************************)
(* The silence gate of src/src/whisper/VadGate.cpp: gate() keeps the parts *)
(* of a buffer in which the Silero detector hears speech, padded, with a   *)
(* short synthetic silence between them, and records where each part came  *)
(* from; mapGatedToOriginalSamples() takes a time in the gated buffer back *)
(* to an offset in the original one.                                       *)
(*                                                                         *)
(* A sample is known by its offset in the original buffer, so "samples" is *)
(* what whisper will hear and says where each of it comes from.  The unit  *)
(* of every length is one centisecond (160 samples), whisper's own.        *)
(***************************************************************************)
EXTENDS Integers, Sequences

CONSTANTS
  Totals,       \* lengths of the buffers given to gate()
  Pad,          \* speech_pad_ms
  Gap,          \* the synthetic silence, 100 ms
  MaxSegments   \* bound: speech segments the detector finds in one buffer

ASSUME GateConstants ==
  Totals \subseteq Nat \ {0} /\ Pad \in Nat /\ Gap \in Nat /\ MaxSegments \in Nat

VARIABLES
  vad_ctx,         \* whether vad_ctx_ is loaded
  mapping,         \* mapping_
  original_total,  \* original_total_samples_
  gate_pc,         \* "off", "loop", and what gate() returns: "speech", "silence"
  segments,        \* what the detector returned
  seg,             \* i, the segment the loop is at
  gated_cursor, prev_seg_end,
  samples          \* out.samples, by the offset each sample had

gateVars == <<vad_ctx, mapping, original_total, gate_pc, segments, seg, gated_cursor,
              prev_seg_end, samples>>

Silence == -1   \* a sample of the synthetic gap
Smaller(a, b) == IF a <= b THEN a ELSE b
Larger(a, b) == IF a >= b THEN a ELSE b

SegmentMapping ==
  [gated_start : Nat, gated_end : Nat, original_start : Nat, original_end : Nat]

GateTypeOK ==
  /\ vad_ctx \in BOOLEAN /\ mapping \in Seq(SegmentMapping)
  /\ original_total \in Nat /\ gate_pc \in {"off", "loop", "speech", "silence"}
  /\ segments \in Seq([t0 : Nat, t1 : Nat])
  /\ seg \in Nat \ {0} /\ gated_cursor \in Nat /\ prev_seg_end \in Nat
  /\ samples \in Seq(Nat \cup {Silence})

GateInit ==
  /\ vad_ctx = FALSE /\ mapping = <<>> /\ original_total = 0 /\ gate_pc = "off"
  /\ segments = <<>> /\ seg = 1 /\ gated_cursor = 0 /\ prev_seg_end = 0 /\ samples = <<>>

(***************************************************************************)
(* mapGatedToOriginalSamples()                                             *)
(***************************************************************************)
\* The loop returns at the first segment that starts or ends after g.
Hits(m, g) == {j \in 1..Len(m) : g < m[j].gated_start \/ g < m[j].gated_end}
FirstHit(m, g) == CHOOSE j \in Hits(m, g) : \A k \in Hits(m, g) : j <= k

mapGatedToOriginalSamples(m, g, total) ==
  IF g < 0 \/ m = <<>> THEN 0
  ELSE IF Hits(m, g) = {} THEN Smaller(m[Len(m)].original_end, total)
  ELSE LET j == FirstHit(m, g)
       IN  IF g < m[j].gated_start
           THEN IF j = 1 THEN 0 ELSE m[j - 1].original_end
           ELSE m[j].original_start + (g - m[j].gated_start)

(***************************************************************************)
(* gate()                                                                  *)
(***************************************************************************)
\* What the detector may return: segments in the order they start.  Its last
\* window is padded, so a segment may end past the buffer.
Detections(total) ==
  {s \in UNION {[1..n -> [t0 : 0..total, t1 : 0..(total + 1)]] : n \in 0..MaxSegments} :
     /\ \A i \in DOMAIN s : s[i].t0 < s[i].t1
     /\ \A i, j \in DOMAIN s : i < j => s[i].t0 <= s[j].t0}

cs_to_samples(t) == Smaller(t, original_total)

Begin(total) ==
  /\ gate_pc = "off"
  /\ mapping' = <<>> /\ original_total' = total
  /\ seg' = 1 /\ gated_cursor' = 0 /\ prev_seg_end' = 0 /\ samples' = <<>>

\* The model cannot be loaded, or the detector fails: an exception.
GateThrows(total) ==
  /\ Begin(total)
  /\ vad_ctx' \in {vad_ctx, TRUE}
  /\ UNCHANGED <<gate_pc, segments>>

GateDetects(total) ==
  /\ Begin(total)
  /\ vad_ctx' = TRUE
  /\ segments' \in Detections(total)
  /\ gate_pc' = IF segments' = <<>> THEN "silence" ELSE "loop"

SegStart_NoOverlapGuard(s) == Larger(0, cs_to_samples(s.t0) - Pad)

\* Padded, clamped to the buffer and to the end of the previous segment.
SegStart(s) == Larger(Larger(0, cs_to_samples(s.t0) - Pad), prev_seg_end)

SegEnd(s) == Smaller(original_total, cs_to_samples(s.t1) + Pad)

GapAfter(i) == IF i < Len(segments) THEN Gap ELSE 0

KeptEnd_WithGap(from, to) == to + GapAfter(seg)

\* prev_seg_end after a segment that was kept
KeptEnd(from, to) == to

\* One iteration that copies a segment, and the silence after it.
Keep(from, to) ==
  /\ from < to
  /\ prev_seg_end' = KeptEnd(from, to)
  /\ samples' = samples \o [k \in 1..(to - from) |-> from + k - 1]
                        \o [k \in 1..GapAfter(seg) |-> Silence]
  /\ gated_cursor' = gated_cursor + (to - from) + GapAfter(seg)
  /\ mapping' = Append(mapping, [gated_start |-> gated_cursor,
                                 gated_end |-> gated_cursor + (to - from),
                                 original_start |-> from, original_end |-> to])

Skip(from, to) ==
  to <= from /\ UNCHANGED <<prev_seg_end, samples, gated_cursor, mapping>>

\* Iteration i; after the last one had_speech says whether anything was kept.
GateSegment ==
  /\ gate_pc = "loop"
  /\ LET from == SegStart(segments[seg])
         to == SegEnd(segments[seg])
     IN  Keep(from, to) \/ Skip(from, to)
  /\ seg' = seg + 1
  /\ gate_pc' = IF seg < Len(segments) THEN "loop"
                ELSE IF samples' = <<>> THEN "silence" ELSE "speech"
  /\ UNCHANGED <<vad_ctx, original_total, segments>>

\* The caller is done with the result: the locals of gate() are gone.
GateForget ==
  /\ gate_pc' = "off" /\ segments' = <<>> /\ seg' = 1
  /\ gated_cursor' = 0 /\ prev_seg_end' = 0 /\ samples' = <<>>
  /\ UNCHANGED <<vad_ctx, mapping, original_total>>

GateNext ==
  \/ \E total \in Totals : GateThrows(total) \/ GateDetects(total)
  \/ GateSegment \/ GateForget

GateSpec == GateInit /\ [][GateNext]_gateVars

(***************************************************************************)
(* Properties                                                              *)
(***************************************************************************)
\* A time in the gated buffer and the offset it is mapped to divide the speech
\* at the same place: what whisper heard before the time, and nothing else, was
\* before the offset.  So erasing up to the offset erases what was committed,
\* for every padding, overlap, skipped segment and time inside a gap.
MapSeparates ==
  \A g \in 0..(Len(samples) + 1), p \in 1..Len(samples) :
    samples[p] # Silence =>
      (p <= g <=> samples[p] < mapGatedToOriginalSamples(mapping, g, original_total))

\* Every sample the detector called speech reaches whisper, although segments
\* are clamped to the previous one's end and may be skipped.
SpeechKept ==
  \A i \in 1..(seg - 1) :
    \A x \in cs_to_samples(segments[i].t0)..(cs_to_samples(segments[i].t1) - 1) :
      \E p \in 1..Len(samples) : samples[p] = x

(***************************************************************************)
(* The inductive invariant behind them, while gate() runs                  *)
(***************************************************************************)
\* The detector's segments, and where the loop is.
LoopSound ==
  /\ \A i \in 1..Len(segments) : segments[i].t0 <= segments[i].t1
  /\ \A i, j \in 1..Len(segments) : i < j => segments[i].t0 <= segments[j].t0
  /\ seg <= Len(segments) + 1 /\ (gate_pc = "loop" => seg <= Len(segments))
  /\ seg = 1 => prev_seg_end = 0
  /\ prev_seg_end <= original_total /\ Len(samples) = gated_cursor

\* The parts of the mapping are not empty and lie in the two buffers ...
PartsSound ==
  \A j \in 1..Len(mapping) :
    /\ mapping[j].gated_start < mapping[j].gated_end
    /\ mapping[j].gated_end <= gated_cursor /\ mapping[j].original_end <= prev_seg_end
    /\ mapping[j].original_end - mapping[j].original_start
         = mapping[j].gated_end - mapping[j].gated_start

\* ... in the same order in both.
PartsOrdered ==
  \A j, k \in 1..Len(mapping) : j < k =>
    /\ mapping[j].gated_end <= mapping[k].gated_start
    /\ mapping[j].original_end <= mapping[k].original_start

\* Sample p of the gated buffer was copied with part j.
CopiedBy(j, p) ==
  /\ mapping[j].gated_start < p /\ p <= mapping[j].gated_end
  /\ samples[p] = mapping[j].original_start + (p - 1 - mapping[j].gated_start)

SamplesTraced ==
  \A p \in 1..Len(samples) :
    samples[p] # Silence => \E j \in 1..Len(mapping) : CopiedBy(j, p)

\* From where the last segment starts to prev_seg_end everything was copied, so
\* what the next one loses to the clamp is there already.
NothingLost ==
  seg > 1 =>
    \A x \in cs_to_samples(segments[seg - 1].t0)..(prev_seg_end - 1) :
      \E p \in 1..Len(samples) : samples[p] = x

GateInv ==
  /\ GateTypeOK /\ SpeechKept
  /\ IF gate_pc = "off"
     THEN segments = <<>> /\ seg = 1 /\ samples = <<>>
     ELSE LoopSound /\ PartsSound /\ PartsOrdered /\ SamplesTraced /\ NothingLost
=============================================================================
