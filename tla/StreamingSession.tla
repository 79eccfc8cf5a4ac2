-------------------------- MODULE StreamingSession --------------------------
(***************************************************************************)
(* One WebSocket session, src/src/server/StreamingSession.h: the receive   *)
(* thread (run() and the message handlers), the flush thread (flushLoop()),*)
(* what they share under state_mutex_ and write_mutex_, and the peer at    *)
(* the other end of the socket.                                            *)
(*                                                                         *)
(* Atomicity.  A critical section of state_mutex_ that does not block is   *)
(* one action.  The mutex is held across steps in one place only, while    *)
(* the flush thread runs inference (fpc = "infer"); wherever the code      *)
(* unlocks it to send a message and locks it again, the action ends and    *)
(* another begins.  handleEnd() also computes under it, but has joined the *)
(* flush thread by then.  sendMessage() is two steps, taking write_mutex_  *)
(* and finishing ws_.write(), because a write blocks while the peer does   *)
(* not read.                                                               *)
(*                                                                         *)
(* Audio is counted in units; a unit of text is the engine it comes from   *)
(* and its position in that engine's stream.  The engine is seen through   *)
(* its interface: what processAudioChunk() keeps, and every result         *)
(* transcribeSlidingWindow() can return.  ModelCache and InferenceLimiter  *)
(* are modules of their own; here an acquire may fail and a slot may be    *)
(* missing.                                                                *)
(***************************************************************************)
EXTENDS Integers, Sequences, SequencesExt

CONSTANTS
  ChunkSizes,          \* sizes of an audio frame, in units
  MinBuffer,           \* MIN_BUFFER_SAMPLES: no inference below it
  MinNew,              \* MIN_NEW_SAMPLES: new audio that triggers inference
  Window,              \* the engine commits text only from this size on
  LowWater, HighWater, \* flow-control marks
  Cap,                 \* MAX_BUFFER: the oldest audio beyond it is discarded
  WarnEvery,           \* WARNING_INTERVAL_CHUNKS
  IdleTimeout,         \* session_timeout_sec_ in ticks, 0 disables the watchdog
  InferenceMayThrow,   \* whether whisper or the VAD model may fail
  MaxFrames,           \* bound: audio frames received
  MaxConfigs           \* bound: "config" messages that pass authentication

ASSUME SessionConstants ==
  /\ ChunkSizes \subseteq Nat \ {0}
  /\ {MinBuffer, MinNew, Window, LowWater, HighWater, Cap, WarnEvery} \subseteq Nat \ {0}
  /\ LowWater <= HighWater /\ HighWater <= Cap
  /\ {IdleTimeout, MaxFrames, MaxConfigs} \subseteq Nat
  /\ InferenceMayThrow \in BOOLEAN

VARIABLES
  rpc, rout,               \* receive thread: where it is, messages it still has to send
  fpc, fout,               \* flush thread: the same
  current_size, res,       \* locals of a flush cycle: buffer size seen, engine result
  writer,                  \* owner of write_mutex_
  flush_running,
  configured, model_acquired,
  engine,                  \* engine_: 0 is null, else the config that created it
  model_refs,              \* references taken from ModelCache and not given back
  buffer, base,            \* the engine's buffer: its size, units already gone from it
  last_transcribed_size, buffer_overflowed, dropped_chunks, capacity_degraded,
  full_transcription, raw_transcription,
  quiet,                   \* ticks since last_audio_time_
  idle_shutdown_triggered,
  sock, peer,              \* "open" or "dead"; "reading" or "stalled"
  client,                  \* what the peer was told
  frames, configs,         \* counters behind the bounds
  crashed                  \* "no", or how the process was terminated

recvVars   == <<rpc, rout>>
flushVars  == <<fpc, fout, current_size, res>>
modelVars  == <<configured, model_acquired, engine, model_refs>>
audioVars  == <<buffer, base, last_transcribed_size>>
flowVars   == <<buffer_overflowed, dropped_chunks>>
textVars   == <<full_transcription, raw_transcription>>
idleVars   == <<quiet, idle_shutdown_triggered>>
peerVars   == <<peer, client>>
boundVars  == <<frames, configs>>

vars == <<recvVars, flushVars, writer, flush_running, modelVars, audioVars, flowVars,
          capacity_degraded, textVars, idleVars, sock, peerVars, boundVars, crashed>>

Unit == Nat \X Nat
Text == Seq(Unit)
MsgTypes == {"error", "ready", "pause", "resume", "warning", "busy", "ok", "partial", "final"}
Message == [type : MsgTypes, text : Text, dropped : Nat]
Msg(type) == [type |-> type, text |-> <<>>, dropped |-> 0]

\* What transcribeSlidingWindow() returned, after the hallucination filter:
\* committed text, whether it may be shown, whether there is a partial to show.
Result == [committed : Text, committed_ok : BOOLEAN, partial_ok : BOOLEAN]
NoResult == [committed |-> <<>>, committed_ok |-> FALSE, partial_ok |-> FALSE]

RecvPcs == {"accept", "read", "audio", "acquire", "configure", "close", "end_join",
            "end", "end_close", "end_closing", "exit", "dtor", "dtor_join", "done"}
FlushPcs == {"off", "wait", "busy", "ok", "infer", "resume", "partial", "exited"}

TypeOK ==
  /\ rpc \in RecvPcs /\ rout \in Seq(Message)
  /\ fpc \in FlushPcs /\ fout \in Seq(Message)
  /\ current_size \in 0..Cap /\ res \in Result
  /\ writer \in {"none", "recv", "flush"}
  /\ flush_running \in BOOLEAN
  /\ configured \in BOOLEAN /\ model_acquired \in BOOLEAN
  /\ engine \in Nat /\ model_refs \in Nat
  /\ buffer \in 0..Cap /\ base \in Nat /\ last_transcribed_size \in 0..Cap
  /\ buffer_overflowed \in BOOLEAN /\ dropped_chunks \in Nat
  /\ capacity_degraded \in BOOLEAN
  /\ full_transcription \in Text /\ raw_transcription \in Text
  /\ quiet \in Nat /\ idle_shutdown_triggered \in BOOLEAN
  /\ sock \in {"open", "dead"} /\ peer \in {"reading", "stalled"}
  /\ client \in [paused : BOOLEAN, busy : BOOLEAN, final : BOOLEAN, text : Text, warned : Nat]
  /\ frames \in Nat /\ configs \in Nat
  /\ crashed \in {"no", "null_engine", "exception"}

Init ==
  /\ rpc = "accept" /\ rout = <<>>
  /\ fpc = "off" /\ fout = <<>> /\ current_size = 0 /\ res = NoResult
  /\ writer = "none" /\ flush_running = FALSE
  /\ configured = FALSE /\ model_acquired = FALSE /\ engine = 0 /\ model_refs = 0
  /\ buffer = 0 /\ base = 0 /\ last_transcribed_size = 0
  /\ buffer_overflowed = FALSE /\ dropped_chunks = 0 /\ capacity_degraded = FALSE
  /\ full_transcription = <<>> /\ raw_transcription = <<>>
  /\ quiet = 0 /\ idle_shutdown_triggered = FALSE
  /\ sock = "open" /\ peer = "reading"
  /\ client = [paused |-> FALSE, busy |-> FALSE, final |-> FALSE, text |-> <<>>, warned |-> 0]
  /\ frames = 0 /\ configs = 0 /\ crashed = "no"

\* state_mutex_ is taken.
StateLocked == fpc = "infer"

(***************************************************************************)
(* sendMessage(): messages leave in program order, one writer at a time.   *)
(***************************************************************************)
\* What the peer knows once it has read message m.
Told(m) ==
  CASE m.type = "pause"   -> [client EXCEPT !.paused = TRUE]
    [] m.type = "resume"  -> [client EXCEPT !.paused = FALSE]
    [] m.type = "busy"    -> [client EXCEPT !.busy = TRUE]
    [] m.type = "ok"      -> [client EXCEPT !.busy = FALSE]
    [] m.type = "warning" -> [client EXCEPT !.warned = m.dropped]
    [] m.type = "partial" -> [client EXCEPT !.text = m.text]
    [] m.type = "final"   -> [client EXCEPT !.text = m.text, !.final = TRUE]
    [] OTHER              -> client

WriteReturns_MutexKept(m) ==
  /\ peer = "reading" \/ sock = "dead"
  /\ client' = IF sock = "open" THEN Told(m) ELSE client
  /\ writer' = writer

\* Messages with text of whisper, or of an exception: it may be no valid UTF-8
\* (the pieces of whisper need not end between characters), and dump() throws.
WithText == {"partial", "final", "error"}

\* ws_.write() returns: delivered, or failed and only logged.
WriteReturns(m) ==
  /\ peer = "reading" \/ sock = "dead"
  /\ client' = IF sock = "open" THEN Told(m) ELSE client
  /\ writer' = "none"

\* dump() throws before write_mutex_ is taken: logged, and the message is lost.
RecvDumpThrows ==
  /\ rout # <<>> /\ writer # "recv" /\ Head(rout).type \in WithText
  /\ rout' = Tail(rout)
  /\ UNCHANGED <<rpc, flushVars, writer, flush_running, modelVars, audioVars, flowVars,
                 capacity_degraded, textVars, idleVars, sock, peerVars, boundVars, crashed>>

FlushDumpThrows ==
  /\ fout # <<>> /\ writer # "flush" /\ Head(fout).type \in WithText
  /\ fout' = Tail(fout)
  /\ UNCHANGED <<recvVars, fpc, current_size, res, writer, flush_running, modelVars, audioVars,
                 flowVars, capacity_degraded, textVars, idleVars, sock, peerVars, boundVars, crashed>>

RecvWriteStart ==
  /\ rout # <<>> /\ writer = "none"
  /\ writer' = "recv"
  /\ UNCHANGED <<recvVars, flushVars, flush_running, modelVars, audioVars, flowVars,
                 capacity_degraded, textVars, idleVars, sock, peerVars, boundVars, crashed>>

RecvWriteEnd ==
  /\ rout # <<>> /\ writer = "recv"
  /\ WriteReturns(Head(rout))
  /\ rout' = Tail(rout)
  /\ UNCHANGED <<rpc, flushVars, flush_running, modelVars, audioVars, flowVars,
                 capacity_degraded, textVars, idleVars, sock, peer, boundVars, crashed>>

FlushWriteStart ==
  /\ fout # <<>> /\ writer = "none"
  /\ writer' = "flush"
  /\ UNCHANGED <<recvVars, flushVars, flush_running, modelVars, audioVars, flowVars,
                 capacity_degraded, textVars, idleVars, sock, peerVars, boundVars, crashed>>

FlushWriteEnd ==
  /\ fout # <<>> /\ writer = "flush"
  /\ WriteReturns(Head(fout))
  /\ fout' = Tail(fout)
  /\ UNCHANGED <<recvVars, fpc, current_size, res, flush_running, modelVars, audioVars, flowVars,
                 capacity_degraded, textVars, idleVars, sock, peer, boundVars, crashed>>

(***************************************************************************)
(* run(): accept, then read and dispatch.                                  *)
(***************************************************************************)
\* The receive thread is at p with nothing left to send.
At(p) == rpc = p /\ rout = <<>>

\* A step of the receive thread to p, after which it sends the messages ms.
Goto(p, ms) == rpc' = p /\ rout' = ms

Accept ==
  /\ At("accept") /\ sock = "open"
  /\ Goto("read", <<>>)
  /\ flush_running' = TRUE /\ fpc' = "wait"
  /\ UNCHANGED <<fout, current_size, res, writer, modelVars, audioVars, flowVars, capacity_degraded,
                 textVars, idleVars, sock, peerVars, boundVars, crashed>>

\* ws_.accept() fails, or ws_.read() on a dead socket: run() leaves its loop.
LeaveLoop ==
  /\ At("accept") \/ (At("read") /\ sock = "dead")
  /\ Goto("exit", <<>>)
  /\ UNCHANGED <<flushVars, writer, flush_running, modelVars, audioVars, flowVars,
                 capacity_degraded, textVars, idleVars, sock, peerVars, boundVars, crashed>>

\* A "type" that is no string: the exception is not json::parse_error, so it
\* reaches run() and ends the loop while the socket is still open.
RecvThrows ==
  /\ At("read") /\ sock = "open"
  /\ Goto("exit", <<>>)
  /\ UNCHANGED <<flushVars, writer, flush_running, modelVars, audioVars, flowVars,
                 capacity_degraded, textVars, idleVars, sock, peerVars, boundVars, crashed>>

\* A message that is refused with an error and changes nothing: invalid JSON,
\* no or unknown "type", anything but "config" while not configured.
RecvRefused ==
  /\ At("read") /\ sock = "open"
  /\ Goto("read", <<Msg("error")>>)
  /\ UNCHANGED <<flushVars, writer, flush_running, modelVars, audioVars, flowVars,
                 capacity_degraded, textVars, idleVars, sock, peerVars, boundVars, crashed>>

\* A frame over 1 MB, or one that exceeds the rate window: close without a message.
RecvTooMuch ==
  /\ At("read") /\ sock = "open"
  /\ Goto("close", <<>>)
  /\ UNCHANGED <<flushVars, writer, flush_running, modelVars, audioVars, flowVars,
                 capacity_degraded, textVars, idleVars, sock, peerVars, boundVars, crashed>>

RecvAudio ==
  /\ At("read") /\ sock = "open" /\ configured /\ frames < MaxFrames
  /\ Goto("audio", <<>>)
  /\ frames' = frames + 1
  /\ UNCHANGED <<flushVars, writer, flush_running, modelVars, audioVars, flowVars,
                 capacity_degraded, textVars, idleVars, sock, peerVars, configs, crashed>>

(***************************************************************************)
(* processAudioChunk()                                                     *)
(***************************************************************************)
overflow == buffer >= HighWater

\* The engine drops the chunk at the high-water mark; otherwise it appends the
\* chunk and discards the oldest audio beyond its capacity.
EngineKeepsChunk(n) ==
  IF overflow
  THEN UNCHANGED <<buffer, base>>
  ELSE LET excess == buffer + n - Cap
       IN  IF excess > 0
           THEN buffer' = Cap /\ base' = base + excess
           ELSE buffer' = buffer + n /\ base' = base

Warning(dropped) == [Msg("warning") EXCEPT !.dropped = dropped]

\* "pause" when an episode begins, a warning at every WarnEvery-th drop.
PauseAndWarn ==
  (IF ~buffer_overflowed THEN <<Msg("pause")>> ELSE <<>>)
  \o (IF (dropped_chunks + 1) % WarnEvery = 0 THEN <<Warning(dropped_chunks + 1)>> ELSE <<>>)

processAudioChunk(n) ==
  /\ At("audio") /\ ~StateLocked
  /\ quiet' = 0
  /\ EngineKeepsChunk(n)
  /\ buffer_overflowed' = (buffer_overflowed \/ overflow)
  /\ dropped_chunks' = IF overflow THEN dropped_chunks + 1 ELSE dropped_chunks
  /\ Goto("read", IF overflow THEN PauseAndWarn ELSE <<>>)
  /\ UNCHANGED <<flushVars, writer, flush_running, modelVars, last_transcribed_size,
                 capacity_degraded, textVars, idle_shutdown_triggered, sock, peerVars,
                 boundVars, crashed>>

(***************************************************************************)
(* handleConfig()                                                          *)
(***************************************************************************)
\* No token, or one AuthManager rejects: an error, then ws_.close().
RecvConfigRefused ==
  /\ At("read") /\ sock = "open"
  /\ Goto("close", <<Msg("error")>>)
  /\ UNCHANGED <<flushVars, writer, flush_running, modelVars, audioVars, flowVars,
                 capacity_degraded, textVars, idleVars, sock, peerVars, boundVars, crashed>>

RecvConfig ==
  /\ At("read") /\ sock = "open" /\ configs < MaxConfigs
  /\ Goto("acquire", <<>>)
  /\ configs' = configs + 1
  /\ UNCHANGED <<flushVars, writer, flush_running, modelVars, audioVars, flowVars,
                 capacity_degraded, textVars, idleVars, sock, peerVars, frames, crashed>>

\* ModelCache::acquire(), outside state_mutex_.
AcquireModel ==
  /\ At("acquire")
  /\ model_refs' = model_refs + 1
  /\ Goto("configure", <<>>)
  /\ UNCHANGED <<flushVars, writer, flush_running, configured, model_acquired, engine, audioVars,
                 flowVars, capacity_degraded, textVars, idleVars, sock, peerVars, boundVars, crashed>>

\* A "language" of the wrong type, or the model cannot be loaded: CONFIG_ERROR.
ConfigThrows ==
  /\ At("acquire")
  /\ Goto("read", <<Msg("error")>>)
  /\ UNCHANGED <<flushVars, writer, flush_running, modelVars, audioVars, flowVars,
                 capacity_degraded, textVars, idleVars, sock, peerVars, boundVars, crashed>>

Configure ==
  /\ At("configure") /\ ~StateLocked
  /\ model_acquired' = TRUE /\ configured' = TRUE /\ engine' = configs
  /\ buffer' = 0 /\ base' = 0 /\ last_transcribed_size' = 0
  /\ capacity_degraded' = FALSE /\ buffer_overflowed' = FALSE /\ dropped_chunks' = 0
  /\ full_transcription' = <<>> /\ raw_transcription' = <<>>
  /\ quiet' = 0
  /\ Goto("read", <<Msg("ready")>>)
  /\ UNCHANGED <<flushVars, writer, flush_running, model_refs, idle_shutdown_triggered,
                 sock, peerVars, boundVars, crashed>>

ConfigureThrows_AcquiredLate ==
  /\ At("configure") /\ ~StateLocked
  /\ Goto("read", <<Msg("error")>>)
  /\ UNCHANGED <<flushVars, writer, flush_running, modelVars, audioVars,
                 flowVars, capacity_degraded, textVars, idleVars, sock, peerVars, boundVars, crashed>>

\* The engine's constructor throws: engine_ keeps its old value, if any.
ConfigureThrows ==
  /\ At("configure") /\ ~StateLocked
  /\ model_acquired' = TRUE
  /\ Goto("read", <<Msg("error")>>)
  /\ UNCHANGED <<flushVars, writer, flush_running, configured, engine, model_refs, audioVars,
                 flowVars, capacity_degraded, textVars, idleVars, sock, peerVars, boundVars, crashed>>

(***************************************************************************)
(* handleEnd()                                                             *)
(***************************************************************************)
stopFlushLoop_FlagKept == UNCHANGED flush_running

\* stopFlushLoop(), up to the join.
stopFlushLoop == flush_running' = FALSE

RecvEnd ==
  /\ At("read") /\ sock = "open" /\ configured
  /\ stopFlushLoop
  /\ Goto("end_join", <<>>)
  /\ UNCHANGED <<flushVars, writer, modelVars, audioVars, flowVars, capacity_degraded, textVars,
                 idleVars, sock, peerVars, boundVars, crashed>>

FlushJoined_NotAwaited == TRUE

\* flush_thread_.join() returns, or there is no thread to join.
FlushJoined == fpc \in {"off", "exited"}

EndJoin ==
  /\ At("end_join") /\ FlushJoined
  /\ Goto("end", <<>>)
  /\ UNCHANGED <<flushVars, writer, flush_running, modelVars, audioVars, flowVars,
                 capacity_degraded, textVars, idleVars, sock, peerVars, boundVars, crashed>>

\* The text of the first k units of the buffer.
Prefix(k) == [i \in 1..k |-> <<engine, base + i>>]

FinalText_AlwaysRaw(text) == raw_transcription

\* raw_transcription_ replaces a transcript that was filtered away entirely.
FinalText(text) == IF text = <<>> THEN raw_transcription ELSE text

\* The last inference takes the whole buffer (k = buffer) or, when the VAD gate
\* hears nothing or no slot was free for 3 seconds, nothing (k = 0).
EndTranscribe ==
  /\ At("end")
  /\ \E k \in {0, buffer} :
       /\ full_transcription' = FinalText(full_transcription \o Prefix(k))
       /\ buffer' = buffer - k /\ base' = base + k
  /\ Goto("end_close", <<[Msg("final") EXCEPT !.text = full_transcription']>>)
  /\ UNCHANGED <<flushVars, writer, flush_running, modelVars, last_transcribed_size, flowVars,
                 capacity_degraded, raw_transcription, idleVars, sock, peerVars, boundVars, crashed>>

\* whisper fails in the last inference: the exception ends the session.
EndThrows ==
  /\ At("end") /\ InferenceMayThrow
  /\ Goto("exit", <<>>)
  /\ UNCHANGED <<flushVars, writer, flush_running, modelVars, audioVars, flowVars,
                 capacity_degraded, textVars, idleVars, sock, peerVars, boundVars, crashed>>

\* handleEnd() closes under write_mutex_; the other ws_.close() calls do not.
EndCloseStart ==
  /\ At("end_close") /\ writer = "none"
  /\ writer' = "recv"
  /\ Goto("end_closing", <<>>)
  /\ UNCHANGED <<flushVars, flush_running, modelVars, audioVars, flowVars,
                 capacity_degraded, textVars, idleVars, sock, peerVars, boundVars, crashed>>

\* ws_.close() returns: the peer answered the close frame, or the socket died.
CloseReturns ==
  /\ At("close") \/ At("end_closing")
  /\ writer' = IF rpc = "end_closing" THEN "none" ELSE writer
  /\ sock' = "dead"
  /\ Goto("read", <<>>)
  /\ UNCHANGED <<flushVars, flush_running, modelVars, audioVars, flowVars,
                 capacity_degraded, textVars, idleVars, peerVars, boundVars, crashed>>

CloseAnswered == peer = "reading" /\ sock = "open" /\ CloseReturns
CloseFails == sock = "dead" /\ CloseReturns

(***************************************************************************)
(* The end of run() and the destructor                                     *)
(***************************************************************************)
ReleasedEngine_Kept == engine

\* engine_.reset(), if a model was acquired.
ReleasedEngine == IF model_acquired THEN 0 ELSE engine

\* releaseModel(): the engine goes, and ONE reference is given back.
ReleaseModel ==
  /\ At("exit") /\ ~StateLocked
  /\ Goto("dtor", <<>>)
  /\ engine' = ReleasedEngine
  /\ model_refs' = IF model_acquired THEN model_refs - 1 ELSE model_refs
  /\ model_acquired' = FALSE
  /\ UNCHANGED <<flushVars, writer, flush_running, configured, audioVars, flowVars,
                 capacity_degraded, textVars, idleVars, sock, peerVars, boundVars, crashed>>

\* stopFlushLoop(), SessionTracker::remove(); releaseModel() finds nothing left.
DtorStop ==
  /\ At("dtor")
  /\ stopFlushLoop
  /\ Goto("dtor_join", <<>>)
  /\ UNCHANGED <<flushVars, writer, modelVars, audioVars, flowVars, capacity_degraded, textVars,
                 idleVars, sock, peerVars, boundVars, crashed>>

DtorJoin ==
  /\ At("dtor_join") /\ FlushJoined
  /\ Goto("done", <<>>)
  /\ UNCHANGED <<flushVars, writer, flush_running, modelVars, audioVars, flowVars,
                 capacity_degraded, textVars, idleVars, sock, peerVars, boundVars, crashed>>

(***************************************************************************)
(* flushLoop()                                                             *)
(***************************************************************************)
\* flushLoop() wakes up, at the latest every 200 ms, and sees flush_running_.
FlushExit ==
  /\ fpc = "wait" /\ ~flush_running
  /\ fpc' = "exited"
  /\ UNCHANGED <<recvVars, fout, current_size, res, writer, flush_running, modelVars, audioVars,
                 flowVars, capacity_degraded, textVars, idleVars, sock, peerVars, boundVars, crashed>>

IdleTooLong_WhenConfigured ==
  /\ IdleTimeout > 0 /\ ~idle_shutdown_triggered /\ quiet >= IdleTimeout
  /\ configured /\ engine # 0

IdleTooLong == IdleTimeout > 0 /\ ~idle_shutdown_triggered /\ quiet >= IdleTimeout

\* The idle watchdog: once, forceSocketShutdown().
Watchdog ==
  /\ idle_shutdown_triggered' = (idle_shutdown_triggered \/ IdleTooLong)
  /\ sock' = IF IdleTooLong THEN "dead" ELSE sock

\* size_t subtraction: a buffer smaller than last_transcribed_size_ wraps to a
\* huge difference.  More than 400 ms without audio is a tick.
WantInference ==
  /\ configured /\ engine # 0 /\ buffer >= MinBuffer
  /\ \/ buffer < last_transcribed_size \/ buffer - last_transcribed_size >= MinNew
     \/ quiet > 0 /\ buffer > last_transcribed_size

\* A cycle begins: flush_running_ was seen true and try_lock() succeeded (when it
\* fails the cycle does nothing).
FlushBegins == fpc = "wait" /\ flush_running /\ Watchdog

\* Nothing to transcribe: only the watchdog acts.
FlushIdle ==
  /\ FlushBegins /\ ~WantInference /\ IdleTooLong
  /\ UNCHANGED <<recvVars, flushVars, writer, flush_running, modelVars, audioVars, flowVars,
                 capacity_degraded, textVars, quiet, peerVars, boundVars, crashed>>

\* No inference slot: tell the peer on the first miss, skip the cycle.
FlushBusy ==
  /\ FlushBegins /\ WantInference
  /\ capacity_degraded' = TRUE
  /\ IF capacity_degraded
     THEN UNCHANGED <<fpc, fout>>
     ELSE fpc' = "busy" /\ fout' = <<Msg("busy")>>
  /\ UNCHANGED <<recvVars, current_size, res, writer, flush_running, modelVars, audioVars, flowVars,
                 textVars, quiet, peerVars, boundVars, crashed>>

FlushSlot_Silent ==
  /\ capacity_degraded' = FALSE
  /\ fpc' = "infer" /\ fout' = <<>>

\* With a slot a degraded session first reports "ok", with state_mutex_ unlocked.
FlushSlot ==
  /\ capacity_degraded' = FALSE
  /\ IF capacity_degraded
     THEN fpc' = "ok" /\ fout' = <<Msg("ok")>>
     ELSE fpc' = "infer" /\ fout' = <<>>

FlushStart ==
  /\ FlushBegins /\ WantInference /\ FlushSlot
  /\ current_size' = buffer
  /\ UNCHANGED <<recvVars, res, writer, flush_running, modelVars, audioVars, flowVars,
                 textVars, quiet, peerVars, boundVars, crashed>>

\* After "ok" has been sent the cycle goes on under the mutex.
FlushRelock ==
  /\ fpc = "ok" /\ fout = <<>>
  /\ fpc' = "infer"
  /\ UNCHANGED <<recvVars, fout, current_size, res, writer, flush_running, modelVars, audioVars,
                 flowVars, capacity_degraded, textVars, idleVars, sock, peerVars, boundVars, crashed>>

\* transcribeSlidingWindow(false): nothing (the VAD gate hears no speech, or
\* what it returned is filtered), a partial, or with a full window a commit of
\* the first k units, which the engine erases.
Results ==
  {[NoResult EXCEPT !.partial_ok = p] : p \in BOOLEAN}
  \cup {[committed |-> Prefix(k), committed_ok |-> ok, partial_ok |-> p] :
          k \in (IF buffer >= Window THEN 1..buffer ELSE {}), ok \in BOOLEAN, p \in BOOLEAN}

Erased_Nothing(r) == 0

\* The audio the engine erases from the front of its buffer with a commit.
Erased(r) == Len(r.committed)

\* last_transcribed_size_: the size after a commit, the size seen before otherwise.
LastTranscribed(r, size) == IF r.committed # <<>> THEN size ELSE current_size

\* The rest of a cycle: accumulate the result r with the buffer at size, and show it.
Apply(r, size) ==
  /\ raw_transcription' = raw_transcription \o r.committed
  /\ full_transcription' =
       IF r.committed_ok THEN full_transcription \o r.committed ELSE full_transcription
  /\ last_transcribed_size' = LastTranscribed(r, size)
  /\ IF r.committed_ok \/ r.partial_ok
     THEN /\ fpc' = "partial"
          /\ fout' = <<[Msg("partial") EXCEPT !.text = full_transcription']>>
     ELSE fpc' = "wait" /\ fout' = <<>>
  /\ current_size' = 0 /\ res' = NoResult

\* The episode ends: drops no warning has covered yet, then "resume".
WarnAndResume ==
  (IF dropped_chunks % WarnEvery # 0 THEN <<Warning(dropped_chunks)>> ELSE <<>>)
  \o <<Msg("resume")>>

FlushInfer ==
  /\ fpc = "infer" /\ engine # 0
  /\ \E r \in Results :
       /\ buffer' = buffer - Erased(r) /\ base' = base + Erased(r)
       /\ IF buffer_overflowed /\ buffer' < LowWater
          THEN /\ fpc' = "resume" /\ fout' = WarnAndResume /\ res' = r
               /\ UNCHANGED <<current_size, last_transcribed_size, textVars>>
          ELSE Apply(r, buffer')
  /\ UNCHANGED <<recvVars, writer, flush_running, modelVars, flowVars, capacity_degraded,
                 idleVars, sock, peerVars, boundVars, crashed>>

\* "resume" has been sent and the mutex is taken again.
FlushResume ==
  /\ fpc = "resume" /\ fout = <<>>
  /\ res.committed = <<>> \/ engine # 0
  /\ buffer_overflowed' = FALSE /\ dropped_chunks' = 0
  /\ Apply(res, buffer)
  /\ UNCHANGED <<recvVars, writer, flush_running, modelVars, buffer, base, capacity_degraded,
                 idleVars, sock, peerVars, boundVars, crashed>>

\* The message that ends the cycle has been sent; slot and mutex are given back.
FlushCycleEnd ==
  /\ fpc \in {"busy", "partial"} /\ fout = <<>>
  /\ fpc' = "wait"
  /\ UNCHANGED <<recvVars, fout, current_size, res, writer, flush_running, modelVars, audioVars,
                 flowVars, capacity_degraded, textVars, idleVars, sock, peerVars, boundVars, crashed>>

\* engine_ is dereferenced after releaseModel() has reset it.
FlushNullEngine ==
  /\ engine = 0
  /\ fpc = "infer" \/ (fpc = "resume" /\ fout = <<>> /\ res.committed # <<>>)
  /\ crashed' = "null_engine"
  /\ UNCHANGED <<recvVars, flushVars, writer, flush_running, modelVars, audioVars, flowVars,
                 capacity_degraded, textVars, idleVars, sock, peerVars, boundVars>>

\* Nothing in the flush thread catches an exception of the engine: std::terminate.
FlushThrows ==
  /\ fpc = "infer" /\ engine # 0 /\ InferenceMayThrow
  /\ crashed' = "exception"
  /\ UNCHANGED <<recvVars, flushVars, writer, flush_running, modelVars, audioVars, flowVars,
                 capacity_degraded, textVars, idleVars, sock, peerVars, boundVars>>

(***************************************************************************)
(* The environment: time, the peer, SIGTERM                                *)
(***************************************************************************)
\* The longest silence the code tells apart.
MaxQuiet == IF IdleTimeout > 0 THEN IdleTimeout ELSE 1

Tick ==
  /\ quiet < MaxQuiet
  /\ quiet' = quiet + 1
  /\ UNCHANGED <<recvVars, flushVars, writer, flush_running, modelVars, audioVars, flowVars,
                 capacity_degraded, textVars, idle_shutdown_triggered, sock, peerVars, boundVars,
                 crashed>>

\* The peer stops reading, or reads again.
PeerToggles ==
  /\ sock = "open"
  /\ peer' = IF peer = "reading" THEN "stalled" ELSE "reading"
  /\ UNCHANGED <<recvVars, flushVars, writer, flush_running, modelVars, audioVars, flowVars,
                 capacity_degraded, textVars, idleVars, sock, client, boundVars, crashed>>

\* The peer closes or resets the connection, or shutdown() is called by
\* SessionTracker::shutdownAll() while the session is registered.
SocketDies ==
  /\ sock = "open" /\ rpc # "done"
  /\ sock' = "dead"
  /\ UNCHANGED <<recvVars, flushVars, writer, flush_running, modelVars, audioVars, flowVars,
                 capacity_degraded, textVars, idleVars, peerVars, boundVars, crashed>>

RecvStep ==
  \/ RecvDumpThrows \/ RecvWriteStart \/ RecvWriteEnd \/ Accept \/ LeaveLoop
  \/ \E n \in ChunkSizes : processAudioChunk(n)
  \/ AcquireModel \/ ConfigThrows \/ Configure \/ ConfigureThrows
  \/ EndJoin \/ EndTranscribe \/ EndThrows \/ EndCloseStart \/ CloseFails
  \/ ReleaseModel \/ DtorStop \/ DtorJoin

FlushStep ==
  \/ FlushDumpThrows \/ FlushWriteStart \/ FlushWriteEnd \/ FlushExit \/ FlushIdle \/ FlushBusy
  \/ FlushRelock \/ FlushInfer \/ FlushResume \/ FlushCycleEnd \/ FlushNullEngine \/ FlushThrows

PeerStep ==
  \/ RecvThrows \/ RecvRefused \/ RecvTooMuch \/ RecvAudio \/ RecvConfigRefused
  \/ RecvConfig \/ RecvEnd \/ CloseAnswered \/ PeerToggles \/ SocketDies

Terminated == (rpc = "done" \/ crashed # "no") /\ UNCHANGED vars

Next == \/ crashed = "no" /\ (RecvStep \/ FlushStep \/ FlushStart \/ PeerStep \/ Tick)
        \/ Terminated

Spec == Init /\ [][Next]_vars

\* Both threads are scheduled, a thread that keeps asking for write_mutex_ gets
\* it in the end (its owner releases it to read the next message or to wait
\* 200 ms), and time passes.  The peer owes nothing, and no
\* inference slot is promised: FlushStart is not among the fair steps.
Fairness ==
  /\ WF_vars(crashed = "no" /\ RecvStep)
  /\ WF_vars(crashed = "no" /\ FlushStep)
  /\ SF_vars(crashed = "no" /\ RecvWriteStart)
  /\ SF_vars(crashed = "no" /\ FlushWriteStart)
  /\ WF_vars(crashed = "no" /\ Tick)

FairSpec == Spec /\ Fairness

(***************************************************************************)
(* Properties                                                              *)
(***************************************************************************)
\* Issue #27: once the final transcription has reached the peer nothing else
\* does, neither a second final nor a late partial or status of flushLoop().
FinalIsLast == [][client.final => client' = client]_vars

\* An engine never outlives the model reference it computes with, whatever
\* config messages failed half-way.
EngineBacked == engine # 0 => model_acquired /\ model_refs > 0

\* A session that configured at most once leaves no reference behind, however it
\* ended.  (A second config takes a reference that is not given back.)
RefsReturned == (rpc = "done" /\ configs <= 1) => model_refs = 0

\* Text in the order of speech: a unit of an earlier engine, or an earlier one of
\* the same engine, comes first.
Before(u, v) == u[1] < v[1] \/ (u[1] = v[1] /\ u[2] < v[2])
Ordered(t) == \A i, j \in 1..Len(t) : i < j => Before(t[i], t[j])

\* Text of engines 1..e, of which engine e has transcribed its first n units.
UpTo(t, e, n) == \A i \in 1..Len(t) : t[i][1] \in 1..e /\ (t[i][1] = e => t[i][2] <= n)

\* Both transcripts of the server hold every unit of speech at most once and in
\* order, and nothing that is still in the engine's buffer.  A result that
\* flushLoop() still had in hand when a second config replaced the engine may be
\* in them, but only in front of all text of the new engine; up to a second
\* config all text is the engine's own.
TranscriptInOrder ==
  engine # 0 =>
    \A t \in {full_transcription, raw_transcription} :
      /\ Ordered(t) /\ UpTo(t, engine, base)
      /\ configs <= 1 => \A i \in 1..Len(t) : t[i][1] = engine

\* What was shown to the peer as committed is never taken back, unless it
\* configures anew: every later text, the final one too, extends it.
CommittedTextStands == [][configs <= 1 => IsPrefix(client.text, client'.text)]_vars

\* Between two flush cycles the peer's idea of "busy" is the server's.  (A second
\* config resets the server's without a message.)
BusyInSync == (fpc = "wait" /\ sock = "open" /\ configs <= 1) => client.busy = capacity_degraded

\* A dead socket ends the session: the receive thread gets out of any read,
\* write, close or join and the flush thread is joined.
SessionEnds == sock = "dead" ~> (rpc = "done" \/ crashed # "no")

\* Issue #68: a peer that has gone quiet is disconnected while the server waits
\* for its next message, whether or not it ever sent "config".
IdleReclaimed ==
  (rpc = "read" /\ IdleTimeout > 0 /\ quiet >= IdleTimeout)
    ~> (sock = "dead" \/ quiet < IdleTimeout \/ rpc # "read" \/ peer = "stalled" \/ crashed # "no")

\* The inference slot is held from TryGuard to the end of the cycle.
HoldsSlot == fpc \in {"ok", "infer", "resume", "partial"}

\* A peer that reads never keeps the session's inference slot from the others.
SlotReturned == HoldsSlot ~> (~HoldsSlot \/ peer = "stalled" \/ crashed # "no")

\* :603 checks engine_ once per cycle; it must still be there when it is used.
EngineNotNull == crashed # "null_engine"

\* "ws_.close() must be serialized with ws_.write() via write_mutex_."
CloseSerialized == ~(At("close") /\ writer = "flush")

\* "inf_guard releases the slot automatically on scope exit (including
\* exceptions)": an exception of the engine is survived.
SlotReleasedOnException == crashed # "exception"

\* flow_control "pause" and "resume" tell the peer whether an episode is on: when
\* neither thread has anything left to send, both sides agree.
FlowInSync ==
  (fpc = "wait" /\ rpc = "read" /\ rout = <<>> /\ sock = "open")
    => client.paused = buffer_overflowed

\* "a client that goes quiet without ever sending a WS close frame must not
\* hang": whatever the session does, a silent peer does not keep it for ever.
QuietPeerReclaimed ==
  (IdleTimeout > 0 /\ quiet >= IdleTimeout) ~>
    (sock = "dead" \/ quiet < IdleTimeout \/ rpc = "done" \/ crashed # "no")

\* "report any drops not yet covered by a periodic warning": when an episode is
\* closed the peer was told of every chunk dropped in it.
DropsReported ==
  [][(fpc = "resume" /\ fpc' # "resume" /\ sock = "open" /\ rout = <<>>)
        => client.warned = dropped_chunks]_vars

(***************************************************************************)
(* The inductive invariant behind EngineBacked and FinalIsLast             *)
(***************************************************************************)
\* References: a model that was acquired, or is about to be used, is counted.
ModelCounted ==
  /\ engine # 0 => model_acquired
  /\ (model_acquired \/ rpc = "configure") => model_refs > 0

\* The flush thread has messages to send only inside a cycle, and none at all
\* before it is started and once handleEnd() has joined it.
FlushQuiet ==
  /\ fpc \in {"off", "wait", "infer", "exited"} => fout = <<>>
  /\ rpc \in {"accept", "end", "end_close", "end_closing"} => FlushJoined

\* Only handleEnd() sends a final transcription, and alone.
FinalFromEnd ==
  /\ \A i \in 1..Len(rout) : rout[i].type = "final" => rpc = "end_close" /\ Len(rout) = 1
  /\ \A i \in 1..Len(fout) : fout[i].type # "final"

\* After the final transcription the session closes, or the socket is dead.
FinalThenClose ==
  client.final => \/ sock = "dead"
                  \/ rpc \in {"end_close", "end_closing"} /\ rout = <<>>

\* Preserved by every step of both threads, of the peer and of time.
SessionInv == TypeOK /\ ModelCounted /\ FlushQuiet /\ FinalFromEnd /\ FinalThenClose

(***************************************************************************)
(* The inductive invariant behind TranscriptInOrder, for any number of     *)
(* configs.                                                                *)
(***************************************************************************)
\* From "config" to the end of run() there is an engine, an "end" is accepted and
\* the flush thread is in a cycle only with one, and its number grows.
EngineThere ==
  /\ rpc \notin {"dtor", "dtor_join", "done"} =>
       (configured => engine # 0) /\ (rpc \in {"end_join", "end"} => configured)
  /\ fpc \in {"ok", "infer", "resume"} => configured
  /\ engine <= configs /\ (rpc \in {"acquire", "configure"} => engine < configs)

\* Text after other text.
Follows(s, t) == \A i \in 1..Len(s), j \in 1..Len(t) : Before(s[i], t[j])

\* Both transcripts are in order, and so is the result that waits for "resume".
TextOrdered ==
  /\ Ordered(full_transcription) /\ Ordered(raw_transcription)
  /\ fpc = "resume" => /\ Ordered(res.committed)
                       /\ Follows(full_transcription, res.committed)
                       /\ Follows(raw_transcription, res.committed)

\* All of it is text of audio that has left the buffer.
TextErased ==
  engine # 0 => /\ UpTo(full_transcription, engine, base) /\ UpTo(raw_transcription, engine, base)
                /\ fpc = "resume" => UpTo(res.committed, engine, base)

\* Preserved by every step, a second config in the middle of a cycle included.
TextInv == EngineThere /\ TextOrdered /\ TextErased

(***************************************************************************)
(* The inductive invariant of a session that configures at most once,      *)
(* behind RefsReturned, BusyInSync and CommittedTextStands.                *)
(***************************************************************************)
\* The reference is taken by the one "config" and given back before the
\* destructor.
RefsExact ==
  /\ model_refs = IF model_acquired \/ rpc = "configure" THEN 1 ELSE 0
  /\ (configs = 0 \/ rpc \in {"acquire", "configure"}) => ~model_acquired /\ ~configured
  /\ configs = 0 => rpc \notin {"acquire", "configure"}
  /\ rpc \in {"dtor", "dtor_join", "done"} => ~model_acquired

\* Until then the flush thread finds nothing to do, and neither audio nor "end"
\* is accepted.
UnconfiguredIdle ==
  ~configured => /\ engine = 0 /\ fpc \in {"off", "wait", "exited"} /\ ~capacity_degraded
                 /\ rpc \notin {"audio", "end_join", "end"}
                 /\ full_transcription = <<>> /\ raw_transcription = <<>>

\* What each thread has to send, by where it is.
MessagesByPlace ==
  /\ \A i \in 1..Len(rout) : rout[i].type \notin {"busy", "ok", "partial"}
  /\ \A i \in 1..Len(fout) : \/ fpc = "busy" /\ fout[i].type = "busy"
                             \/ fpc = "ok" /\ fout[i].type = "ok"
                             \/ fpc = "resume" /\ fout[i].type \in {"warning", "resume"}
                             \/ fpc = "partial" /\ fout[i].type = "partial"

\* "busy" and "ok" are told in the order in which capacity_degraded_ changed.
BusyTold ==
  sock = "open" =>
    /\ fpc \notin {"busy", "ok"} => client.busy = capacity_degraded
    /\ fpc = "busy" => capacity_degraded /\ (fout = <<>> => client.busy)
    /\ fpc = "ok" => ~capacity_degraded /\ (fout = <<>> => ~client.busy)

\* What the peer was shown begins the transcript, and a message that is on its
\* way shows all of it.
ShownBegins ==
  /\ IsPrefix(client.text, full_transcription)
  /\ \A i \in 1..Len(rout) : rout[i].type = "final" => rout[i].text = full_transcription
  /\ \A i \in 1..Len(fout) : fout[i].type = "partial" => fout[i].text = full_transcription

\* Preserved by every step as long as there was no second "config".
OneConfigInv ==
  configs <= 1 => /\ RefsExact /\ UnconfiguredIdle /\ MessagesByPlace /\ BusyTold
                  /\ ShownBegins
=============================================================================
