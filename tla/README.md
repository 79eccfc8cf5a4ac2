# jota-transcriber: a TLA+ verification project

jota-transcriber is a speech-to-text server in C++: clients stream audio over a
WebSocket, or upload a file over HTTP, and whisper.cpp transcribes it.  The
program is small, but nearly all of it is shared state under concurrency: one
thread per connection, a second one per session, timers, a signal handler, one
model and a few inference slots for all of them.  This directory models that
part, model-checks it with TLC and proves its main safety properties with TLAPS.

Paths of the form `src/...` are relative to the directory that holds this one;
`src/` is the repository, and its own code is under `src/src/`.

## 1. Inventory

| Component | State | Operations | Correct means |
|---|---|---|---|
| **ModelCache** (`whisper/ModelCache.h`) | context, reference count, pending flag, future of the timer task | acquire, release, timer task, destructor | no context is freed under a user, counts are exact, an unused model goes away, no task outlives the cache |
| **InferenceLimiter** (`whisper/InferenceLimiter.h`) | active count, limit, condition variable | acquire, try_acquire, try_acquire_for, release, setMaxConcurrency | the cap holds, nobody sleeps beside a free slot |
| **ConnectionLimiter / Guard** (`server/ConnectionLimiter.*`) | total and per-address counts | tryAcquire, release | exact counts, both caps |
| **Server main** (`server.cpp`) | acceptor, thread vector, io_context thread, refresher, exit watchdog | accept loop, signal handler, shutdown | no path leaks a slot, shutdown ends and leaves nothing behind |
| **SessionHandler, HandshakeWatchdog, SessionTracker, TrustedProxyResolver** (`server/`) | per connection: socket, watchdog; set of sessions; trusted addresses | handshake, read, dispatch, upgrade; add, remove, shutdownAll; refresh, isTrusted | silent peers are cut off, only live sessions are told to stop |
| **StreamingSession** (`server/StreamingSession.h`) | engine, transcripts, flow control, flags under two mutexes | run, message handlers, flushLoop, watchdog, close | the final transcription is last, text is in order and never taken back, references return, the session ends |
| **StreamingWhisperEngine** (`whisper/`) | audio buffer, gate | processAudioChunk, transcribeSlidingWindow | audio leaves the buffer exactly when its text was committed, nothing that arrives meanwhile is lost |
| **VadGate** (`whisper/VadGate.*`) | detector, mapping of the last call | gate, mapGatedToOriginalSamples | all speech is kept, times map back to where the audio was cut |
| **AuthManager, AuthCache, ApiAuthClient** (`server/`, `auth/`) | token answers with their expiry | validate, on every connection's thread | a revoked token stays out, a good one gets in, failing closed |
| **HTTP transcription handler** (`server/handlers/HandleTranscribe.cpp`) | guards on the stack | one request | everything is given back on every path, at most one answer |
| **MultipartParser** (`server/MultipartParser.cpp`) | position in the body, parts | extractBoundary, parse | the fields are those of the form, byte by byte |
| **AudioDecoder** (`audio/AudioDecoder.cpp`) | FFmpeg contexts, output | decode | everything allocated is freed on every path, the audio is the file's |
| HallucinationGuard; AudioPreprocessor; router and status handlers; configuration; logging | see section 8 | | |

How they interact: main() takes a slot of ConnectionLimiter and starts a thread
(`handleSession`), which owns it through ConnectionGuard.  The thread reads the
request under a HandshakeWatchdog and runs an HTTP handler or a StreamingSession.
A session starts a flush thread; both threads share the session's state and its
socket.  Sessions and HTTP handlers share the model (ModelCache) and the slots
(InferenceLimiter).  The signal handler reaches sessions through SessionTracker.
Both ask AuthManager about their client's token.  An upload goes through
MultipartParser and AudioDecoder before it needs the model; a session's audio
goes into its StreamingWhisperEngine, which puts a VadGate before whisper.

What is hard: mutexes released to send a message and taken again; writes that
block on a peer that does not read; a timer that races an acquire; notify_one
with waiters that time out; registration racing shutdown; descriptors reused
under a watchdog; destructors in the wrong order; answers of a service that are
old when they are cached; a buffer that is cut while a copy of it is at work; two
timelines and the map between them; clean-up written by hand for every failure.
`PROJECT.json` lists each of
these hazards at its line, with the properties that watch it.

## 2. Modules

| Module | Models | Composes |
|---|---|---|
| `ModelCache` | the cache and its timer tasks | |
| `InferenceLimiter` | the counting semaphore | |
| `ConnectionLimiter` | the connection caps | |
| `Server` | main(), signal handler, handleSession, watchdog, tracker, resolver | extends `ConnectionLimiter` |
| `StreamingSession` | one session: receive thread, flush thread, peer | the engine, cache and limiter through what they may answer |
| `HandleTranscribe` | concurrent HTTP requests | instances of `ModelCache` and `InferenceLimiter` |
| `AuthManager` | concurrent token checks, the cache, the service's answers | |
| `VadGate` | the silence gate and its mapping | |
| `StreamingWhisperEngine` | one session's audio buffer and its passes | extends `VadGate` |
| `MultipartParser`, `AudioDecoder` | one parse, one decode | |
| `TranscribeUpload` | one request from its body to audio | extends `MultipartParser` and `AudioDecoder` |
| `MC*` | constants for TLC | |
| `*_proofs` | theorems | |

Definitions whose names end in `_Something` next to a definition of the same
stem (`NotifyOne_Missing`) are deliberately wrong variants: substituting one for
its original must violate the property it is listed with in `PROJECT.json`.

### How state and actions correspond to the code

*Atomicity.*  A critical section of a mutex that does not block is one action.
Where the code unlocks, blocks or waits, the action ends.

**ModelCache.**  `ctx` is 0 or the number of the load it stems from, so a context
that was freed and loaded again is told apart.  `timer[t]` is a `std::async` task:
started (has not got the mutex yet), waiting with the ticks left of its
`wait_for`, done.  `drain[u]` is the future a releasing thread is waiting for.
`refs` and `age` are history variables; `ttl_seconds` is what configure() was given.
`scheduleUnloadLocked` sets the flag
false and true in one critical section, so the previous task cannot see it false.

**InferenceLimiter.**  `blocked` and `timed` are the threads in `wait` and
`wait_for`; `notified` those that were woken and have not run.  A waiter may run
again at any time (spurious wakeups) but only goes on when there is a slot.

**Server.**  `conn[c]` is where a connection's code is, first on main()'s thread
(accepted, acquired), then on its own.  main() is at the test of its loop, between
the test and accept(), or blocked in accept(), where only a connection, an error or a
signal delivered to its own thread gets it out: closing the acceptor from another
thread does not.  `sock` and `fd` are kept apart because
the watchdog holds a descriptor number and not a socket.  A session that ends first
leaves the tracker (`Unregister`, its destructor), then `LeaveTry` closes a
socket that is a local of the try block, and `ThreadEnds` runs the destructors after
it, in the code's order.  A session's body is abstracted to "may end, and does
once its socket is dead", which `StreamingSession` shows as `SessionEnds`.

**StreamingSession.**  `rpc`/`rout` and `fpc`/`fout` are the two threads: where each
is and which messages it still has to send.  A send is two steps, taking
write_mutex_ and the return of the write, which needs a peer that reads or a dead
socket; a message with text in it may also be lost before that, when dump() throws on
bytes that are not UTF-8.  `fpc = "infer"` is the one place where state_mutex_ is held across steps.
Audio is counted in units; text is a sequence of (engine, position) pairs, so
that order, duplication and the mixing of two engines' text are visible.  An inference returns any result
its code can return: nothing, a partial, or, with a full window, a commit of a
prefix together with its erasure; the hallucination filter accepts or rejects.
whisper is taken to return segments with text and an end time after zero, as it
does; a commit then erases audio exactly when it returns text.

**HandleTranscribe.**  `pc` walks through validation, VAD, model guard, slot, state,
inference and the destructors; errors are sent with the guards alive, results
after them.  `unbuilt` are the requests whose response could not be put into JSON: the
exception leaves handle() before anything is sent.  What it takes as one step (validation up to the audio) is the whole
of `TranscribeUpload`.

**AuthManager.**  `pc[c]` is where a caller is in validate(): asking the service, with
its answer but before put(), or returning.  get() and put() are atomic, the request
between them is two steps, the moment the service decides and the moment the
answer is stored.  `active` is the service's own view of a token, which changes at
any time; an entry carries the ticks it has left.

**VadGate.**  A sample is known by its offset in the original buffer, so `samples` is
at once what whisper hears and where it comes from, and -1 is the synthetic gap.
One iteration of the loop of gate() is one action.  The unit is the centisecond, in
which whisper and the detector tell times; rounding to samples is left out.

**StreamingWhisperEngine.**  A pass is: copy, gate, decode, commit.  buffer_mutex_ is
free between copy and commit, and with `Concurrent` chunks arrive there; `shift`
records what the cap has cut off meanwhile.  whisper returns any times in order,
also past the end of the audio (`Overshoot`), and never an end time of zero.

**MultipartParser.**  A body is a sequence of symbols (line break, boundary, header
line, piece of data), and a search for a string is a search for its symbols.  The
case of header names and the spaces around values are left out.

**TranscribeUpload.**  The client writes its form part by part (`ClientAdds`), noting in
`starts` where each begins, and sends it or a beginning of it (`ClientSends`); then
handle() runs.  `form` and `sent` stay as they are, so that what the parser finds
can be compared with what was meant.

**AudioDecoder.**  `Setup` lists the calls before the loop; `Acquires` and `Frees` say
what each allocates and what its error path frees.  A frame is the number of the
packet it came in.  Codec and resampler may hold frames back, refuse packets and
lose frames; `corrupt` records whose.

## 3. Runs

Passing runs.

| Run | Bounds | Shows |
|---|---|---|
| `cache_safety` | 2 users, one of them a session with 2 configs; TTL -1, 0, 2; 2 loads; 3 tasks | no use after unload, exact counts, unload always scheduled and carried out, no task outlives the cache, release() returns |
| `limiter_slots` | 5 threads, limits 1..3 and a rejected 0, 2 changes | cap, exact count, no lost wakeup, a free slot is taken |
| `http_requests` | 2 requests, 1 slot, TTL 2 | inference is backed by slot and model, nothing is kept, no second answer and none missing but to a peer that is gone or for a response that cannot be built, requests end |
| `server_safety` | 3 connections, 2 addresses, either of which may gain and lose trust, caps 2 and 1, one proxy host; the two connections of one address are symmetric | slots, caps, tracker, clean exit |
| `server_live` | the same with TLS, without hosts | silent peers are cut off; once the signal handler has run the process ends, unless main() is blocked in accept() |
| `session_safety` | 2 configs, 3 frames of 3 units, buffer of 4, no idle timeout | an engine has its reference, text is in order within and across engines, final is last; up to the second config references return, busy is in sync and text is permanent |
| `session_live` | 1 config, 2 frames of 1 or 3 units, idle timeout | sessions end, quiet peers are disconnected, slots return |
| `auth_tokens` | 2 callers, 2 tokens, with and without a static token, TTL 0 and 2 | a revoked token stays out and is not kept in by its use; outages and old denials are not remembered |
| `engine_split` | chunks of 1 and 3, marks at 3, 4 and 6, 2 speech segments, 3 text segments, with and without gate | speech is kept, the mapping divides it where the time does, a commit erases its own audio and nothing newer |
| `upload_parts` | up to 3 parts out of 10, cut off anywhere, 3 kinds of Content-Type, codecs with and without delay, all faults | fields are exact, everything is freed on every error path, the accepted audio is the file's |

Why the bounds are enough: each is the smallest at which every branch is taken
and the actors that can disturb each other are all there.  The cache needs two
users and one task more than users (each may drain one while one is armed).  The
limiter needs more threads than slots plus one waiter of each kind.  The server
needs an address with two connections, a second address, a full table and a
descriptor that can be reused.  The session's sizes keep the code's order
(minimum < window = low water < high water < cap): a frame of 3 units passes the
high-water mark in one step and the cap in two, so dropping, discarding, pausing
and resuming all occur.  For authentication a second caller is what makes answers
overtake each other, and a second token keeps them apart.  The engine needs two
speech segments, so that padding overlaps, a gap lies between them and one of them
may be skipped, and three text segments, so that each of the three ways to choose
the commit occurs; its marks are in the code's order.  The upload needs a repeated
field, the two required ones, and a body that ends in every part of the syntax.
`MaxFrames`, `MaxConfigs`, `MaxLoads` and `MaxChanges` cap
counters that would grow for ever and appear only in guards.

Sessions that configure more than once are covered by `session_safety`, by the theorems
`EngineHasModel`, `FinalTranscriptionIsLast`, `SessionSafe`, `TextSafe` and
`TranscriptOrdered`, which hold for every `MaxConfigs`, and by `MCModelCache_leak.cfg`.  A
config that arrives while flushLoop() has unlocked to send "resume" replaces the engine
under it; the result in hand is then appended to the cleared transcript.  No line of
the repository speaks about that; what `TranscriptInOrder` says, and `session_safety` and
the theorem show, is that such text stands in front of all text of the new engine,
whole and in order.

Runs that must find a violation, each for a disagreement between a line of the
repository and the code; `PROJECT.json` quotes both sides.

| Run | The repository says | TLC finds |
|---|---|---|
| `session_null_engine` | engine_ is checked before use | it is reset while the mutex was released for a send |
| `auth_precedence` | the API takes precedence over the static token | with both given the static token alone decides |

Further configurations state other promises of the repository that the code
does not keep.  They are not among the recorded runs; `tlc -config X.cfg M` gives
the counterexample of each.

| Configuration | The repository says | TLC finds |
|---|---|---|
| `MCModelCache_early` | ModelCache.h:32, kept TTL seconds after the last release | an older timer survives the re-arm (:212) |
| `MCModelCache_leak` | ModelCache.h:14-16, the model unloads after the TTL with no active sessions | a second config takes a second reference nobody returns (StreamingSession.h:368) |
| `MCServer_signal` | server.cpp:470, async_wait fires while accept() blocks | ioc.run() may return before it is registered |
| `MCStreamingSession_close_race` | StreamingSession.h:473-474, close() must be serialized with write() | the closes at :279, :313, :339 and :349 are not |
| `MCAuthManager_timeout` | README.md:128, auth API request timeout | expires_after() does not end the synchronous calls |
| `MCStreamingWhisperEngine_deaf` | clients/API_GUIDE.md:177 (in Spanish), chunks are dropped until the buffer empties; README.md:237, resume once it drains | with a gate, a full buffer of silence is never erased, so later speech is dropped as well |
| `MCStreamingWhisperEngine_cap` | StreamingWhisperEngine.cpp:221, samples added during inference are preserved | when the cap cuts the front meanwhile the erasure reaches into them; StreamingSession's own mutex keeps the two apart |
| `MCTranscribeUpload_names` | MultipartParser.h:21, a map of field name to part | `name="` is also found inside `filename="` when that parameter comes first |
| `MCTranscribeUpload_partial` | AudioDecoder.h:9, throws on decode failure | a read error ends the loop like the end of the file, bad packets are skipped, and the codec is not flushed |
| `MCHandleTranscribe_invalid` | HandleTranscribe.cpp:166-167, an invalid temperature always 400s | a failed write of the 400 is swallowed (:181) and the audio transcribed |
| `MCServer_blocked` | server.cpp:476 and :491-492, the handler that closes the acceptor stops the accept loop | an accept() that is blocked meanwhile goes on until the next connection, and the exit watchdog (:533) is started only behind the loop |
| `MCServer_late_session` | server.cpp:527, all sockets already cancelled | those not yet registered are not |
| `MCServer_fd_reuse` | SocketUtil.h:17-18, shutdown() carries no risk of fd reuse | with TLS the socket is closed before the watchdog is disarmed |
| `MCServer_endpoint` | server.cpp:523, nothing is re-thrown out of the loop | remote_endpoint() (:498) throws out of the loop, past joinable threads, and the process terminates |
| `MCStreamingSession_exception` | StreamingSession.h:643, the slot is released on exceptions | nothing catches them, the process terminates |
| `MCStreamingSession_flow` | README.md:237, pause while an episode is on | resume overtakes pause |
| `MCStreamingSession_quiet_end` | StreamingSession.h:583-587, a quiet client must not hang the session | after "end" the watchdog is gone |
| `MCStreamingSession_drops` | StreamingSession.h:645-647, all drops are reported | those during the closing sends are not |

## 4. Fairness

Assumed: every thread that can take a step is scheduled (weak fairness per
thread), timeouts elapse, an inference ends.  For `StreamingSession` a thread
that keeps asking for write_mutex_ gets it (strong fairness of the two write
starts): the other thread releases it after every message, and goes to read or to
wait 200 ms.  For `AuthManager`: a caller that has its answer goes on, and time
passes; for `MCStreamingWhisperEngine_deaf`: the flush thread keeps running passes,
more often than it does.  Not assumed: anything of a peer, of DNS, of the auth service, of users (to release, to
exit), or that an inference slot is ever free (`FlushStart` is not a fair step).
`CHECK_DEADLOCK FALSE` in `server_live`, `MCServer_blocked` and `MCServer_signal`: once the bounded number
of connections is over, main() rightly waits in accept() for ever.

## 5. Proofs

Every theorem is checked to the last leaf by tlapm, for all values of the
constants under the named ASSUMEs of the modules (finite sets of users, threads
and connections; positive sizes with low <= high <= cap; at least one slot).

| Module | Theorem | Argument |
|---|---|---|
| `ModelCache_proofs` | `CacheSafe`, `NoUseAfterUnload`, `ExactCount`, `UnloadIsScheduled`, `TasksEndBeforeCache` | `CacheInv`.  That a held context stays loaded needs: holders are counted, a positive count excludes a pending unload, and a pending unload is what a task must see.  That no task outlives the cache needs that each existing task is owned by exactly one future (`TasksOwned`) |
| `InferenceLimiter_proofs` | `LimiterSafe`, `WakeupsSuffice`, `GuardsCounted`, `NeverAboveLimit` | free slots are counted against notified threads: a release adds one of each, a waiter that runs removes its notification only when it takes a slot or there is none |
| `Server_proofs` (of `ConnectionLimiter`) | `LimiterSafe` | counts are cardinalities of the holders, in total and by address; exempt connections do not count towards the per-address cap |
| `Server_proofs` (of `Server`) | `ServerSafe`, `NoSlotLeaks`, `NoDeadSessionTracked`, `ServerUsesLimiter`, `ServerCapsHold`, `ServerCountsExact`, `GracefulExit` | `ServerInv` ties slots, sockets, threads and tracker to `conn`.  The server implements `LimiterSpec` step by step, so the limiter's theorem carries over |
| `StreamingSession_proofs` | `SessionSafe`, `EngineHasModel`, `FinalTranscriptionIsLast` | `SessionInv`: once handleEnd() has joined the flush thread there is no second writer (`FlushQuiet`), only handleEnd() queues a final message (`FinalFromEnd`), and after it the session only closes (`FinalThenClose`) |
| `StreamingSession_proofs` | `TextSafe`, `TranscriptOrdered` | `TextInv`, for any number of configs (see below) |
| `StreamingSession_proofs` | `OneConfigSafe`, `RefsReturnedOnce`, `BusyKnown`, `ShownTextStands` | `OneConfigInv`, for sessions that have configured at most once (see below) |
| `HandleTranscribe_proofs` | `RequestsUseCache`, `RequestsUseLimiter`, `RequestsSafe`, `InferenceHasSlotAndModel`, `RequestsKeepNothing`, `RequestsAnsweredOnce` | the requests implement `ModelCache!Spec` and `InferenceLimiter!Spec`, so the theorems of both carry over; `RequestInv` ties each request's guards to its place in handle() |
| `AuthManager_proofs` | `AuthTypes`, `AuthRevocationHolds` | an action property: with no answer "Allowed" in force or in flight, each step but the service's own leaves it so, because only a fresh answer is cached and only an unexpired entry is used |
| `StreamingWhisperEngine_proofs` (of `VadGate`) | `GateSafe`, `GateMapSeparates`, `GateSpeechKept` | `GateInv`.  The parts of the mapping have the same order in both buffers and every copied sample lies in one of them (`PartsOrdered`, `SamplesTraced`), so a time divides parts as its image does.  That no speech is lost to the clamp needs that everything from the last segment's start to `prev_seg_end` has been copied (`NothingLost`), which uses that segments start in order |
| `StreamingWhisperEngine_proofs` (of the engine) | `EngineSafe`, `EngineUsesGate`, `EngineMapSeparates`, `EngineSpeechKept`, `EnginePassSplits`, `EngineNewAudioKept` | `EngineInv`: the gate works on the copy of the pass that called it, and the copy is still the front of the buffer.  The engine implements `GateSpec`, so the gate's theorems carry over; a commit then erases up to the image of its end time |
| `TranscribeUpload_proofs` | `DecoderFreesAll`, `UploadSafe`, `PartsReturned`, `UploadReachesModel` | `UploadInv` (see below) |

*The order of text.*  A unit of text is the number of its engine and its position; units
are ordered lexicographically.  `TextInv` has three parts: `EngineThere` (where there is an
engine, and that its number grows with each config), `TextOrdered` (both transcripts are
ordered, and a result that waits behind a "resume" follows all that was committed) and
`TextErased` (text of the current engine is that of audio that has left its buffer).  A
config in the middle of a flush cycle keeps all of it: the transcripts are cleared, the
waiting result is an older engine's, and so smaller than all the new engine will return.

*A session that configures once.*  `RefsReturned`, `BusyInSync` and `CommittedTextStands` carry
`configs <= 1`: a second config takes a second reference, clears text the client was shown
and resets the capacity status without telling the client, and without the hypothesis TLC
finds each of the three violated with `MaxConfigs = 2`.  It speaks about the state, so they
also say what holds up to the moment of a second config.  The parts
of `OneConfigInv`: `RefsExact` (where the reference is), `UnconfiguredIdle` (what cannot be
under way before the config), `MessagesByPlace` (which messages each thread has to send
at each place), `BusyTold` (only the flush thread tells of the capacity, before it changes
it again) and
`ShownBegins` (a partial or final message that is on its way holds all of the transcript,
because its thread sends it before it, or the other thread, commits more).

*Requests.*  The cache's theorem knows its users' references, the limiter's its threads'
guards, and neither knows of requests.  `RequestInv` says in which places of handle()
a request holds which, so that `HeldModelStaysLoaded` of the cache gives `InferenceBacked`
and the exact counts of both give `NothingKept`.  `RepliesByPlace` is the part about
answers: a request that has left its last send() was answered, or its peer is gone, or
it is in `unbuilt` and was not answered at all.

*Uploads.*  `DecoderFreesAll` needs only `HeldByStep`, what is allocated at each step, and
the order of handle(); it holds for every form.  The other theorems hold for every
set of parts that is `WellFormed`: each part has a header, no header line is a line
break, the headers say what is meant, no line of the data begins with the boundary,
and the audio is a symbol of its own.  `MCTranscribeUpload` has TLC check that its parts
satisfy this.  It is narrower than RFC 7578, which lets the parameter `filename` come
before `name`: of such a part the headers do not say what is meant to this parser, which
finds `name=` in `filename=` (`SwappedFields`, `MCTranscribeUpload_names.cfg`).  `UploadInv` follows the upload: `Written` (each part is in `sent` from its
place in `starts` on), `Received` (the body is a beginning of it), `Parsed` (the parser
is behind the boundary of part n + 1 with the first n parts), `HeldByStep`,
`FramesInOrder` (output, resampler and codec, one after the other, are the audio packets
read so far that were not refused or dropped; `CutMiddle` is the lemma for frames lost in
the middle) and `HandleOrder`.  The form is written step by step, and not by
a recursive function of the list of parts, because the provers cannot unfold one.

The inductive invariants were invariants of TLC runs before they were proved; now
that the theorems state them for every instance the recorded runs check only the
properties that follow from them, each of which has its own meaning in the code.

Every invariant and every action property of a passing run is stated by a theorem.
Only model-checked is liveness, which the prover does not do: `ReleaseReturns`,
`IdleModelUnloads`, `FreeSlotTaken`, `RequestEnds`, `HandshakeReclaimed`,
`ShutdownCompletes`, `SessionEnds`, `IdleReclaimed`, `SlotReturned`, `RefusedInTheEnd`,
`AdmittedInTheEnd`.

## 6. Assumptions at the edges

* Linux: closing a listening socket does not end an accept() another thread is
  blocked in; a signal may or may not interrupt it (asio may ask for restarted
  calls, and the kernel chooses the thread).
* Memory does not run out, except in `AudioDecoder`, where `std::vector` may throw in
  the loop; DecoderReleases exempts that way out, on which the FFmpeg contexts leak.
* Signals before signal_set exists kill the process and are left out.
* `ModelCache.Destroy` is the graceful exit.  After std::exit() from the shutdown
  watchdog static destructors run under live sessions; that is listed as a hazard.
* Every caller of ModelCache passes the same path; the branch for another path is
  dead code in the server, and forceUnload() belongs to the tests.
* A session's rate limit and a config's authentication are free choices.
* The speech detector returns segments in the order they start, each ending after
  it starts; whisper returns end times in order and after zero.
* FFmpeg frees the format context itself when avformat_open_input() fails, as its
  documentation says.  Allocations decode() does not check are taken to succeed.
* A client writes a form as RFC 7578 does, with `name` as the first parameter of a
  part, but its body may end anywhere; a part's
  data does not hold the boundary at the start of a line.

## 7. Plan

Done, in this order: ModelCache, InferenceLimiter, StreamingSession,
ConnectionLimiter, Server, HandleTranscribe; then AuthManager, VadGate,
StreamingWhisperEngine, MultipartParser, AudioDecoder, TranscribeUpload; proofs of
the safety properties of all of them.

Next:

1. `StreamingWhisperEngine` shown to implement what `StreamingSession` assumes of it.
2. Abstract specifications: the cache as a counted resource, the session as its
   protocol (config, ready, partials, final, close), with refinements.
3. The rate window of StreamingSession.
4. Forced exit: `Server` composed with the destructor of `ModelCache`.

## 8. Not modelled

* HttpRouter and the health, ready and metrics handlers: a lookup and the
  formatting of counters, no state of their own.
* AudioPreprocessor: a filter on floating-point samples, without control.
* HallucinationGuard: its verdict is a free choice in `StreamingSession`; the
  comparison of strings behind it is not modelled.
* The callbacks that let FFmpeg read from memory, and the conversion of samples.
* The rate window of a session, and the parsing of URLs and host lists.
* Configuration, command line, .env, logging: plain data and output.
* StreamingWhisperEngine::transcribe() and reset(), ModelCache::forceUnload(),
  InferenceLimiter::resetForTesting(): called by tests only.
