-------------------------- MODULE HandleTranscribe --------------------------
(***************************************************************************)
(* POST /v1/audio/transcriptions, HandleTranscribe::handle(), on the       *)
(* threads of several connections at once: validation, VAD gate, then a    *)
(* ModelCache::Guard, an InferenceLimiter::TryGuard and a whisper_state    *)
(* around the inference.  It composes modules ModelCache and               *)
(* InferenceLimiter, whose actions the guards' constructors and            *)
(* destructors are.                                                        *)
(*                                                                         *)
(* What decides is where a response is sent: an error inside the inference *)
(* block is sent with the guards alive, a result after they are gone, and  *)
(* a write blocks while the peer does not read and throws once it is gone. *)
(* A response that repeats bytes of the client or of the transcript may    *)
(* fail before that, when its JSON is built.  Memory does not run out.     *)
(***************************************************************************)
EXTENDS Integers, FiniteSets

CONSTANTS
  Requests,     \* requests, each on a thread of its own
  MaxSlots,     \* max_concurrent_inference
  Tasks, TTLs, MaxLoads  \* as in module ModelCache

ASSUME RequestConstants ==
  /\ IsFiniteSet(Requests) /\ MaxSlots \in Nat \ {0}
  /\ MaxLoads \in Nat /\ TTLs \subseteq Int /\ 0 \notin Tasks

VARIABLES
  ctx, loads, ref_count, refs, held, unload_pending, unload_future, timer, drain, phase, age,
  ttl_seconds,
  active_count, max_concurrent, holders, blocked, timed, notified, changes,
  pc,           \* where each request is
  states,       \* requests that own a whisper_state
  peer,         \* "open", "stalled" (does not read), "gone"
  answers,      \* responses the peer has received
  bad_temp,     \* requests whose temperature is out of range
  replied,      \* requests that have sent their response, or failed to
  unbuilt       \* requests whose response could not be put into JSON

cacheVars == <<ctx, loads, ref_count, refs, held, unload_pending, unload_future, timer, drain,
               phase, age, ttl_seconds>>
limiterVars == <<active_count, max_concurrent, holders, blocked, timed, notified, changes>>
requestVars == <<pc, states, peer, answers, bad_temp, replied, unbuilt>>
vars == <<cacheVars, limiterVars, requestVars>>

Cache == INSTANCE ModelCache WITH Users <- Requests, Sessions <- {}, MaxConfigs <- 1
Limiter == INSTANCE InferenceLimiter
  WITH Threads <- Requests, Limits <- {MaxSlots}, MaxChanges <- 0

\* "error" and "temp_error" send a response with whatever guards are alive,
\* "result" sends the transcription; "unslot" and "unmodel" are the guards'
\* destructors in reverse order, "drain" the end of ModelCache::release().
Pcs == {"request", "vad", "model", "slot", "state", "infer", "error", "temp_error",
        "unslot", "unmodel", "drain", "result", "done"}

TypeOK ==
  /\ Cache!TypeOK /\ Limiter!TypeOK
  /\ pc \in [Requests -> Pcs]
  /\ states \subseteq Requests /\ bad_temp \subseteq Requests
  /\ replied \subseteq Requests /\ unbuilt \subseteq Requests
  /\ peer \in [Requests -> {"open", "stalled", "gone"}]
  /\ answers \in [Requests -> Nat]

Init ==
  /\ Cache!Init /\ Limiter!Init
  /\ pc = [r \in Requests |-> "request"]
  /\ states = {} /\ bad_temp = {} /\ replied = {} /\ unbuilt = {}
  /\ peer = [r \in Requests |-> "open"] /\ answers = [r \in Requests |-> 0]

Goto(r, p) == pc' = [pc EXCEPT ![r] = p]

\* A step of r's own code between its calls of the cache and the limiter.
Local(r, from, to) ==
  /\ pc[r] = from /\ Goto(r, to)
  /\ UNCHANGED <<peer, answers, replied, unbuilt, cacheVars, limiterVars>>

(***************************************************************************)
(* Validation and the VAD gate: nothing is held yet.                       *)
(***************************************************************************)
\* Authentication, multipart body, size, format, audio and duration checks:
\* the first that fails is answered.
Refuse(r) == Local(r, "request", "error") /\ UNCHANGED <<states, bad_temp>>

\* The temperature is checked inside a try whose catch (...) is meant for stof().
RefuseTemperature(r) ==
  /\ Local(r, "request", "temp_error")
  /\ bad_temp' = bad_temp \cup {r}
  /\ UNCHANGED states

Validated(r) == Local(r, "request", "vad") /\ UNCHANGED <<states, bad_temp>>

\* No VAD model, or speech was found; nothing but silence; or the gate throws.
Gate(r) ==
  /\ \E next \in {"model", "result", "error"} : Local(r, "vad", next)
  /\ UNCHANGED <<states, bad_temp>>

(***************************************************************************)
(* The inference block                                                     *)
(***************************************************************************)
\* model_guard.emplace(): the model is cached or loaded, or cannot be loaded.
TakeModel(r) ==
  /\ pc[r] = "model"
  /\ \/ (Cache!AcquireCached(r) \/ Cache!AcquireLoad(r)) /\ Goto(r, "slot")
     \/ Cache!AcquireFail(r) /\ Goto(r, "error")
  /\ UNCHANGED <<states, peer, answers, bad_temp, replied, unbuilt, limiterVars>>

\* TryGuard: without a slot the request is answered 503.
TakeSlot(r) ==
  /\ pc[r] = "slot"
  /\ \/ Limiter!TakeAtOnce(r) /\ Goto(r, "state")
     \/ Limiter!try_acquire_fails(r) /\ Goto(r, "error")
  /\ UNCHANGED <<states, peer, answers, bad_temp, replied, unbuilt, cacheVars>>

\* whisper_init_state() on the shared context, or null.
InitState(r) ==
  \/ Local(r, "state", "infer") /\ states' = states \cup {r} /\ UNCHANGED bad_temp
  \/ Local(r, "state", "error") /\ UNCHANGED <<states, bad_temp>>

Freed_OnSuccess(r, next) == IF next = "error" THEN states ELSE states \ {r}

\* whisper_free_state(), on the error path too.
Freed(r, next) == states \ {r}

\* whisper_full_with_state() succeeds and the block is left, or fails.
Infer(r) ==
  /\ \E next \in {"unslot", "error"} : Local(r, "infer", next) /\ states' = Freed(r, next)
  /\ UNCHANGED bad_temp

(***************************************************************************)
(* Leaving the block: the guards' destructors, then a result that is still *)
(* to be sent.                                                             *)
(***************************************************************************)
ReleaseSlot(r) ==
  /\ pc[r] = "unslot"
  /\ Limiter!release(r) /\ Goto(r, "unmodel")
  /\ UNCHANGED <<states, peer, answers, bad_temp, replied, unbuilt, cacheVars>>

ReleaseModel(r) ==
  /\ pc[r] = "unmodel"
  /\ Cache!ReleaseShared(r) \/ Cache!ReleaseLast(r)
  /\ Goto(r, "drain")
  /\ UNCHANGED <<states, peer, answers, bad_temp, replied, unbuilt, limiterVars>>

\* ModelCache::release() waits for the timer task it replaced.
ReleaseWaits(r) ==
  /\ pc[r] = "drain" /\ Cache!DrainEnd(r)
  /\ UNCHANGED <<requestVars, limiterVars>>

AfterBlock_NoReturn(r) == "result"

\* An error was answered before the block was left with "return"; the result
\* comes after it.
AfterBlock(r) == IF r \in replied THEN "done" ELSE "result"

ReleaseReturns(r) ==
  /\ drain[r] = Cache!NoTask
  /\ Local(r, "drain", AfterBlock(r))
  /\ UNCHANGED <<states, bad_temp>>

(***************************************************************************)
(* send(): http::write() on the connection's socket                        *)
(***************************************************************************)
Unwind_ModelOnly(r) == IF held[r] # 0 THEN "unmodel" ELSE "done"

\* The destructors that run when handle() is left, by return or by exception.
Unwind(r) ==
  IF r \in holders THEN "unslot" ELSE IF held[r] # 0 THEN "unmodel" ELSE "done"

SendReturns(r) ==
  /\ pc[r] \in {"error", "temp_error", "result"} /\ peer[r] = "open"
  /\ answers' = [answers EXCEPT ![r] = @ + 1] /\ replied' = replied \cup {r}
  /\ Goto(r, Unwind(r))
  /\ UNCHANGED <<states, peer, bad_temp, unbuilt, cacheVars, limiterVars>>

\* The peer is gone: the exception leaves handle() and ends in handleSession().
SendThrows(r) ==
  /\ pc[r] \in {"error", "result"} /\ peer[r] = "gone"
  /\ replied' = replied \cup {r}
  /\ Goto(r, Unwind(r))
  /\ UNCHANGED <<states, peer, answers, bad_temp, unbuilt, cacheVars, limiterVars>>

\* dump() throws on text that is not UTF-8: the response_format a refusal
\* quotes, or what a JSON result repeats of the transcript and of the client's
\* fields.  The exception leaves handle() before send() is called.
BuildThrows(r) ==
  /\ pc[r] \in {"request", "result"}
  /\ replied' = replied \cup {r} /\ unbuilt' = unbuilt \cup {r}
  /\ Goto(r, Unwind(r))
  /\ UNCHANGED <<states, peer, answers, bad_temp, cacheVars, limiterVars>>

\* The failed write of the temperature's 400 is ignored by catch (...), and
\* handle() goes on.
SendThrowsIgnored(r) ==
  /\ peer[r] = "gone" /\ Local(r, "temp_error", "vad")
  /\ UNCHANGED <<states, bad_temp>>

\* The peer stops reading, reads again, or goes.
PeerChanges(r) ==
  /\ pc[r] # "done" /\ peer[r] # "gone"
  /\ \E p \in {"open", "stalled", "gone"} \ {peer[r]} : peer' = [peer EXCEPT ![r] = p]
  /\ UNCHANGED <<pc, states, answers, bad_temp, replied, unbuilt, cacheVars, limiterVars>>

RequestStep(r) ==
  \/ Refuse(r) \/ RefuseTemperature(r) \/ Validated(r) \/ Gate(r)
  \/ TakeModel(r) \/ TakeSlot(r) \/ InitState(r) \/ Infer(r)
  \/ ReleaseSlot(r) \/ ReleaseModel(r) \/ ReleaseWaits(r) \/ ReleaseReturns(r)
  \/ SendReturns(r) \/ SendThrows(r) \/ SendThrowsIgnored(r) \/ BuildThrows(r)

\* The cache's timer tasks, and time for them.
TimerStep(t) == Cache!TimerStep(t) /\ UNCHANGED <<requestVars, limiterVars>>
Tick == Cache!Tick /\ UNCHANGED <<requestVars, limiterVars>>

Terminated == (\A r \in Requests : pc[r] = "done") /\ UNCHANGED vars

Next ==
  \/ \E r \in Requests : RequestStep(r) \/ PeerChanges(r)
  \/ \E t \in Tasks : TimerStep(t)
  \/ Tick \/ Terminated

Spec == Init /\ [][Next]_vars

\* Every thread that can go on is scheduled, an inference ends and time passes.
\* A peer owes nothing.
Fairness ==
  /\ \A r \in Requests : WF_vars(RequestStep(r))
  /\ \A t \in Tasks : WF_vars(TimerStep(t))
  /\ WF_vars(Tick)

FairSpec == Spec /\ Fairness

(***************************************************************************)
(* Properties                                                              *)
(***************************************************************************)
\* A whisper_state lives only while its request holds a slot and the very
\* context the cache has loaded: no timer, no other request and no order of
\* destructors takes either away from a running inference.
InferenceBacked == \A r \in states : r \in holders /\ held[r] # 0 /\ held[r] = ctx

\* Whatever failed, a request that is over has given everything back: model
\* reference, slot and state.
NothingKept ==
  /\ \A r \in Requests : pc[r] = "done" => held[r] = 0 /\ r \notin holders \cup states
  /\ (\A r \in Requests : pc[r] = "done") => ref_count = 0 /\ active_count = 0

\* A request is answered at most once, through all the nested error handling,
\* and it ends unanswered only when its peer is gone or when the response could
\* not be put into JSON (HandleTranscribe.cpp:44, :342, :380): an error with
\* guards alive is never lost while its peer is there.
AnsweredOnce ==
  \A r \in Requests :
    /\ answers[r] <= 1
    /\ r \in unbuilt => answers[r] = 0
    /\ pc[r] = "done" => answers[r] = 1 \/ peer[r] = "gone" \/ r \in unbuilt

\* Every request ends or its peer has stalled, although release() may have to
\* wait for a timer task of the cache before the result can be sent.
RequestEnds == \A r \in Requests : (pc[r] # "request") ~> (pc[r] = "done" \/ peer[r] = "stalled")

\* "Validated up front so an invalid value always 400s": a request that was
\* found invalid is not transcribed.
InvalidNotTranscribed == \A r \in bad_temp : held[r] = 0

(***************************************************************************)
(* The inductive invariant behind the safety properties                    *)
(***************************************************************************)
\* What a request owns is decided by where it is; only an error is answered
\* from several depths of the inference block.
OwnsByPlace ==
  \A r \in Requests :
    /\ r \in states <=> pc[r] = "infer"
    /\ pc[r] \in {"state", "infer", "unslot"} => r \in holders
    /\ r \in holders => pc[r] \in {"state", "infer", "error", "unslot"} /\ held[r] # 0
    /\ pc[r] \in {"slot", "state", "infer", "unslot", "unmodel"} => held[r] # 0
    /\ held[r] # 0 => pc[r] \in {"slot", "state", "infer", "error", "unslot", "unmodel"}

\* The cache has a reference for a request only while the request holds it.
RefsHeld == \A r \in Requests : (\E x \in {r} \X (1..1) : x \in refs) => held[r] # 0

\* A response, or the failure to send one, is behind a request exactly once it
\* is leaving handle(); what the peer has received agrees with it.
RepliesByPlace ==
  \A r \in Requests :
    /\ r \in replied => pc[r] \in {"unslot", "unmodel", "drain", "done"}
    /\ pc[r] = "done" => r \in replied
    /\ answers[r] = 0 \/ (answers[r] = 1 /\ r \in replied)
    /\ r \in replied => answers[r] = 1 \/ peer[r] = "gone" \/ r \in unbuilt
    /\ r \in unbuilt => r \in replied /\ answers[r] = 0

\* Preserved by every step of a request, of a peer, of the timer tasks and of
\* time, whatever the cache and the limiter answer.
RequestInv ==
  /\ Cache!CacheInv /\ Limiter!LimiterInv /\ TypeOK
  /\ OwnsByPlace /\ RefsHeld /\ RepliesByPlace
=============================================================================
