---------------------------- MODULE AudioDecoder ----------------------------
(***************************************************************************)
(* src/src/audio/AudioDecoder.cpp: decode() takes an encoded file through  *)
(* FFmpeg's demuxer, codec and resampler, all of them allocated and freed  *)
(* by hand on every path.                                                  *)
(*                                                                         *)
(* A file is its sequence of packets, a frame is the number of the packet  *)
(* it came in.  The library is external: what it may answer is a choice.   *)
(* The allocations the code does not check are taken to succeed.           *)
(***************************************************************************)
EXTENDS Integers, Sequences

CONSTANTS
  CodecDelays,  \* how many frames a codec keeps back until it is flushed
  Faults        \* which of "read", "packet", "resample", "memory" may fail in the loop

ASSUME DecoderConstants ==
  CodecDelays \subseteq Nat /\ Faults \subseteq {"read", "packet", "resample", "memory"}

VARIABLES
  decode_pc,    \* "off", a step of Setup, "loop", "flush", and how it ends:
                \* "returned", "threw", "bad_alloc"
  packets,      \* the file: "audio", or another stream's
  at,           \* the packet that is read next
  held,         \* what was allocated and not freed
  codec_delay,  \* the delay of this file's codec
  inside,       \* frames in the codec
  resampler,    \* frames in the resampler
  s16,          \* frames in the output
  corrupt       \* packets whose audio the codec refused or the resampler failed on

decoderVars == <<decode_pc, packets, at, held, codec_delay, inside, resampler, s16, corrupt>>
streamVars == <<packets, at, codec_delay, inside, resampler, s16, corrupt>>

DecoderInit ==
  /\ decode_pc = "off" /\ packets = <<>> /\ at = 1 /\ held = {} /\ codec_delay \in CodecDelays
  /\ inside = <<>> /\ resampler = <<>> /\ s16 = <<>> /\ corrupt = {}

(***************************************************************************)
(* Setting up: one step after the other, each of which may fail.           *)
(***************************************************************************)
Setup == <<"avio", "open", "info", "stream", "decoder", "codec", "params", "open2", "swr",
           "swr_init", "loop">>

NextStep(step) == Setup[1 + CHOOSE i \in 1..(Len(Setup) - 1) : Setup[i] = step]

\* avformat_open_input() frees the format context itself when it fails.
Acquires(step) ==
  CASE step = "avio" -> {"avio"} [] step = "open" -> {"fmt"} [] step = "codec" -> {"codec"}
    [] step = "swr" -> {"swr"} [] step = "swr_init" -> {"pkt", "frame"} [] OTHER -> {}

Frees_Format(step) == IF step = "avio" THEN {} ELSE {"fmt", "avio"}

\* What the error path of a step frees.
Frees(step) ==
  CASE step = "avio" -> {}
    [] step = "open" -> {"avio"}
    [] step \in {"info", "stream", "decoder", "codec"} -> {"fmt", "avio"}
    [] step \in {"params", "open2", "swr"} -> {"codec", "fmt", "avio"}
    [] step = "swr_init" -> {"swr", "codec", "fmt", "avio"}

InSetup == decode_pc \in {Setup[i] : i \in 1..(Len(Setup) - 1)}

EmptyInput ==
  /\ decode_pc = "avio" /\ packets = <<>>
  /\ decode_pc' = "threw" /\ UNCHANGED <<held, streamVars>>

\* No audio stream is the one failure that depends on the file.
StepSucceeds ==
  /\ InSetup /\ packets # <<>>
  /\ decode_pc = "stream" => \E i \in DOMAIN packets : packets[i] = "audio"
  /\ decode_pc' = NextStep(decode_pc) /\ held' = held \cup Acquires(decode_pc)
  /\ UNCHANGED streamVars

StepFails ==
  /\ InSetup /\ packets # <<>>
  /\ decode_pc = "stream" => \A i \in DOMAIN packets : packets[i] # "audio"
  /\ decode_pc' = "threw" /\ held' = held \ Frees(decode_pc)
  /\ UNCHANGED streamVars

(***************************************************************************)
(* The loop                                                                *)
(***************************************************************************)
\* The frames avcodec_receive_frame() hands out one after the other.
Ready(frames) == SubSeq(frames, 1, Len(frames) - codec_delay)
KeptBack(frames) == SubSeq(frames, Len(frames) - codec_delay + 1, Len(frames))

\* drain_swr() for frames: the resampler may keep the last one.
drain_swr(frames) ==
  LET all == resampler \o frames
  IN  \E k \in {Len(all), Len(all) - 1} :
        /\ k >= 0
        /\ s16' = s16 \o SubSeq(all, 1, k) /\ resampler' = SubSeq(all, k + 1, Len(all))

\* swr_convert() fails, or its output is computed to be empty: drain_swr()
\* returns without a word, and the frames are gone.
Dropped(frames) ==
  /\ corrupt' = corrupt \cup {frames[i] : i \in DOMAIN frames}
  /\ UNCHANGED s16

\* The codec takes the packet and every frame that is ready is fetched.
Taken(frames) ==
  /\ IF codec_delay <= Len(frames)
     THEN inside' = KeptBack(frames) /\ drain_swr(Ready(frames))
     ELSE inside' = frames /\ UNCHANGED <<resampler, s16>>
  /\ UNCHANGED corrupt

\* "EAGAIN": the frames that are ready are fetched, then the packet is sent
\* once more.  Fetching twice or once gives the same frames; that the packet is
\* refused the second time is the fault "packet" below.
Retried_Not == Taken(inside)
Retried == Taken(Append(inside, at))

ReadOther ==
  /\ decode_pc = "loop" /\ at <= Len(packets) /\ packets[at] # "audio"
  /\ at' = at + 1
  /\ UNCHANGED <<decode_pc, packets, held, codec_delay, inside, resampler, s16, corrupt>>

ReadAudio ==
  /\ decode_pc = "loop" /\ at <= Len(packets) /\ packets[at] = "audio"
  /\ at' = at + 1
  /\ \/ Taken(Append(inside, at))
     \/ Retried
     \/ /\ "packet" \in Faults
        /\ corrupt' = corrupt \cup {at} /\ UNCHANGED <<inside, resampler, s16>>
     \/ /\ "resample" \in Faults /\ codec_delay <= Len(inside) + 1
        /\ inside' = KeptBack(Append(inside, at)) /\ Dropped(Ready(Append(inside, at)))
        /\ UNCHANGED resampler
  /\ UNCHANGED <<decode_pc, packets, held, codec_delay>>

\* av_read_frame() < 0: the end of the file, or an error, which nobody tells.
ReadEnds ==
  /\ decode_pc = "loop" /\ (at > Len(packets) \/ "read" \in Faults)
  /\ decode_pc' = "flush" /\ UNCHANGED <<held, streamVars>>

\* std::vector throws: nothing that was allocated by hand is freed.
OutOfMemory ==
  /\ decode_pc \in {"loop", "flush"} /\ "memory" \in Faults
  /\ decode_pc' = "bad_alloc" /\ UNCHANGED <<held, streamVars>>

\* drain_swr(nullptr).  The codec itself is not flushed.
Flushed ==
  /\ \/ s16' = s16 \o resampler /\ UNCHANGED corrupt
     \/ "resample" \in Faults /\ Dropped(resampler)
  /\ resampler' = <<>>

Finish ==
  /\ decode_pc = "flush"
  /\ Flushed
  /\ held' = held \ {"frame", "pkt", "swr", "codec", "fmt", "avio"}
  /\ decode_pc' = IF s16' = <<>> THEN "threw" ELSE "returned"
  /\ UNCHANGED <<packets, at, codec_delay, inside>>

DecoderStep ==
  \/ EmptyInput \/ StepSucceeds \/ StepFails \/ ReadOther \/ ReadAudio \/ ReadEnds
  \/ OutOfMemory \/ Finish
=============================================================================
