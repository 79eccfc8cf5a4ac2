----------------------- MODULE HandleTranscribe_proofs -----------------------
(***************************************************************************)
(* HandleTranscribe for any set of requests, any number of slots and any   *)
(* value of ttl_seconds_.  The requests use the model cache and the        *)
(* limiter only as those components' own specifications allow, so that the *)
(* theorems about the components hold of the handler; with them, whatever  *)
(* fails, a request computes with what it holds, gives everything back and *)
(* is answered at most once.                                               *)
(***************************************************************************)
EXTENDS HandleTranscribe, FiniteSetTheorems, TLAPS

\* The theorems about the components, for the cache and the limiter of the
\* handler.
CacheFacts == INSTANCE ModelCache_proofs
  WITH Users <- Requests, Sessions <- {}, MaxConfigs <- 1
LimiterFacts == INSTANCE InferenceLimiter_proofs
  WITH Threads <- Requests, Limits <- {MaxSlots}, MaxChanges <- 0

(***************************************************************************)
(* CacheFacts and Cache are the same module instantiated twice: what one   *)
(* calls a step or an invariant, so does the other.                        *)
(***************************************************************************)
\* ... its steps, of those the handler takes,
LEMMA SameCacheSteps ==
  /\ Cache!Init => CacheFacts!Init
  /\ \A u \in Requests :
       /\ Cache!AcquireCached(u) => CacheFacts!AcquireCached(u)
       /\ Cache!AcquireLoad(u) => CacheFacts!AcquireLoad(u)
       /\ Cache!AcquireFail(u) => CacheFacts!AcquireFail(u)
       /\ Cache!ReleaseShared(u) => CacheFacts!ReleaseShared(u)
       /\ Cache!ReleaseLast(u) => CacheFacts!ReleaseLast(u)
       /\ Cache!DrainEnd(u) => CacheFacts!DrainEnd(u)
  /\ \A t \in Tasks : Cache!TimerStep(t) => CacheFacts!TimerStep(t)
  /\ Cache!Tick => CacheFacts!Tick
  /\ cacheVars = CacheFacts!vars
<1> USE DEF Cache!NoTask, CacheFacts!NoTask
<1>1. Cache!Init => CacheFacts!Init
  BY DEF Cache!Init, CacheFacts!Init
<1>2. ASSUME NEW u \in Requests
      PROVE  /\ Cache!AcquireCached(u) => CacheFacts!AcquireCached(u)
             /\ Cache!AcquireLoad(u) => CacheFacts!AcquireLoad(u)
             /\ Cache!AcquireFail(u) => CacheFacts!AcquireFail(u)
  BY Zenon DEF Cache!AcquireCached, Cache!AcquireLoad, Cache!AcquireFail, Cache!CanAcquire,
     Cache!FreshRef, Cache!CountedRefs, Cache!cancelUnloadLocked,
     CacheFacts!AcquireCached, CacheFacts!AcquireLoad, CacheFacts!AcquireFail,
     CacheFacts!CanAcquire, CacheFacts!FreshRef, CacheFacts!CountedRefs,
     CacheFacts!cancelUnloadLocked
<1>3. ASSUME NEW u \in Requests
      PROVE  /\ Cache!ReleaseShared(u) => CacheFacts!ReleaseShared(u)
             /\ Cache!ReleaseLast(u) => CacheFacts!ReleaseLast(u)
             /\ Cache!DrainEnd(u) => CacheFacts!DrainEnd(u)
  BY Zenon DEF Cache!ReleaseShared, Cache!ReleaseLast, Cache!DrainEnd, Cache!CanRelease,
     Cache!ReturnedRef, Cache!scheduleUnloadLocked, Cache!unloadLocked,
     CacheFacts!ReleaseShared, CacheFacts!ReleaseLast, CacheFacts!DrainEnd,
     CacheFacts!CanRelease, CacheFacts!ReturnedRef, CacheFacts!scheduleUnloadLocked,
     CacheFacts!unloadLocked
<1>4. ASSUME NEW t \in Tasks PROVE Cache!TimerStep(t) => CacheFacts!TimerStep(t)
  BY Zenon DEF Cache!TimerStep, Cache!TimerWait, Cache!TimerCancelled, Cache!TimerUnload,
     Cache!TimerExpired, Cache!Alive, Cache!shutdown, Cache!Deadline, Cache!unloadLocked,
     CacheFacts!TimerStep, CacheFacts!TimerWait, CacheFacts!TimerCancelled,
     CacheFacts!TimerUnload, CacheFacts!TimerExpired, CacheFacts!Alive, CacheFacts!shutdown,
     CacheFacts!Deadline, CacheFacts!unloadLocked
<1>5. Cache!Tick => CacheFacts!Tick
  BY Zenon DEF Cache!Tick, CacheFacts!Tick
<1> QED
  BY <1>1, <1>2, <1>3, <1>4, <1>5 DEF cacheVars, CacheFacts!vars

\* ... and its inductive invariant.
LEMMA SameCacheInv == Cache!CacheInv <=> CacheFacts!CacheInv
<1> USE DEF Cache!NoTask, CacheFacts!NoTask, Cache!Alive, CacheFacts!Alive
<1>1. Cache!TypeOK <=> CacheFacts!TypeOK
  BY Zenon DEF Cache!TypeOK, CacheFacts!TypeOK
<1>2. Cache!IsFiniteSet(refs) <=> CacheFacts!IsFiniteSet(refs)
  BY DEF Cache!IsFiniteSet, CacheFacts!IsFiniteSet
<1>3. Cache!RefCountExact <=> CacheFacts!RefCountExact
  BY Zenon DEF Cache!RefCountExact, CacheFacts!RefCountExact, Cache!Cardinality,
     CacheFacts!Cardinality
<1>4. /\ Cache!HeldModelStaysLoaded <=> CacheFacts!HeldModelStaysLoaded
      /\ Cache!HoldersCounted <=> CacheFacts!HoldersCounted
      /\ Cache!ReferencedModelSafe <=> CacheFacts!ReferencedModelSafe
  BY Zenon DEF Cache!HeldModelStaysLoaded, CacheFacts!HeldModelStaysLoaded,
     Cache!HoldersCounted, CacheFacts!HoldersCounted,
     Cache!ReferencedModelSafe, CacheFacts!ReferencedModelSafe
<1>5. /\ Cache!PendingHasTask <=> CacheFacts!PendingHasTask
      /\ Cache!TasksOwned <=> CacheFacts!TasksOwned
      /\ Cache!IdleModelScheduled <=> CacheFacts!IdleModelScheduled
  BY Zenon DEF Cache!PendingHasTask, CacheFacts!PendingHasTask, Cache!TasksOwned,
     CacheFacts!TasksOwned, Cache!IdleModelScheduled, CacheFacts!IdleModelScheduled
<1>6. /\ Cache!NoUserAtExit <=> CacheFacts!NoUserAtExit
      /\ Cache!NoTaskOutlivesCache <=> CacheFacts!NoTaskOutlivesCache
  BY Zenon DEF Cache!NoUserAtExit, CacheFacts!NoUserAtExit, Cache!NoTaskOutlivesCache,
     CacheFacts!NoTaskOutlivesCache
<1> QED
  BY <1>1, <1>2, <1>3, <1>4, <1>5, <1>6, Zenon DEF Cache!CacheInv, CacheFacts!CacheInv

\* The same for the limiter: the steps the handler takes,
LEMMA SameLimiterSteps ==
  /\ Limiter!Init => LimiterFacts!Init
  /\ \A t \in Requests :
       /\ Limiter!TakeAtOnce(t) => LimiterFacts!TakeAtOnce(t)
       /\ Limiter!try_acquire_fails(t) => LimiterFacts!try_acquire_fails(t)
       /\ Limiter!release(t) => LimiterFacts!release(t)
  /\ limiterVars = LimiterFacts!vars
<1>1. Limiter!Init => LimiterFacts!Init
  BY DEF Limiter!Init, LimiterFacts!Init
<1>2. ASSUME NEW t \in Requests
      PROVE  /\ Limiter!TakeAtOnce(t) => LimiterFacts!TakeAtOnce(t)
             /\ Limiter!try_acquire_fails(t) => LimiterFacts!try_acquire_fails(t)
  BY Zenon DEF Limiter!TakeAtOnce, Limiter!try_acquire_fails, Limiter!Outside, Limiter!Waiters,
     Limiter!HasCapacity, Limiter!Take, Limiter!TryGuardFails, Limiter!vars,
     LimiterFacts!TakeAtOnce, LimiterFacts!try_acquire_fails, LimiterFacts!Outside,
     LimiterFacts!Waiters, LimiterFacts!HasCapacity, LimiterFacts!Take,
     LimiterFacts!TryGuardFails, LimiterFacts!vars
<1>3. ASSUME NEW t \in Requests PROVE Limiter!release(t) => LimiterFacts!release(t)
  BY Zenon DEF Limiter!release, Limiter!NotifyOne, Limiter!Sleepers, Limiter!Waiters,
     LimiterFacts!release, LimiterFacts!NotifyOne, LimiterFacts!Sleepers, LimiterFacts!Waiters
<1> QED
  BY <1>1, <1>2, <1>3 DEF limiterVars, LimiterFacts!vars

\* ... and the inductive invariant.
LEMMA SameLimiterInv == Limiter!LimiterInv <=> LimiterFacts!LimiterInv
  BY Zenon DEF Limiter!LimiterInv, Limiter!TypeOK, Limiter!CountMatchesGuards,
     Limiter!NoLostWakeup, Limiter!Sleepers, Limiter!Waiters, Limiter!Cardinality,
     LimiterFacts!LimiterInv, LimiterFacts!TypeOK, LimiterFacts!CountMatchesGuards,
     LimiterFacts!NoLostWakeup, LimiterFacts!Sleepers, LimiterFacts!Waiters,
     LimiterFacts!Cardinality

\* The constants of the handler are constants of both components.
LEMMA ComponentConstants ==
  /\ CacheFacts!CacheConstants /\ LimiterFacts!LimiterConstants
<1>1. CacheFacts!IsFiniteSet(Requests) /\ LimiterFacts!IsFiniteSet(Requests)
  BY RequestConstants DEF RequestConstants, IsFiniteSet, CacheFacts!IsFiniteSet,
     LimiterFacts!IsFiniteSet
<1> QED
  BY <1>1, RequestConstants DEF RequestConstants, CacheFacts!CacheConstants,
     LimiterFacts!LimiterConstants

(***************************************************************************)
(* The handler implements its components' specifications.                  *)
(***************************************************************************)
\* Every step of the handler is one step of the cache or leaves it alone.
LEMMA CacheStep == [Next]_vars => [Cache!Next]_(Cache!vars) /\ [CacheFacts!Next]_(CacheFacts!vars)
<1> SUFFICES ASSUME [Next]_vars
             PROVE  [Cache!Next]_(Cache!vars) /\ [CacheFacts!Next]_(CacheFacts!vars)
  OBVIOUS
<1>a. cacheVars = Cache!vars /\ cacheVars = CacheFacts!vars
  BY SameCacheSteps DEF cacheVars, Cache!vars
<1>1. ASSUME UNCHANGED cacheVars
      PROVE  UNCHANGED Cache!vars /\ UNCHANGED CacheFacts!vars
  BY <1>1 DEF cacheVars, Cache!vars, CacheFacts!vars
<1>2. ASSUME NEW r \in Requests, RequestStep(r) \/ PeerChanges(r)
      PROVE  \/ UNCHANGED cacheVars
             \/ Cache!AcquireCached(r) \/ Cache!AcquireLoad(r) \/ Cache!AcquireFail(r)
             \/ Cache!ReleaseShared(r) \/ Cache!ReleaseLast(r) \/ Cache!DrainEnd(r)
  BY <1>2, Zenon DEF RequestStep, Refuse, RefuseTemperature, Validated, Gate, TakeModel, TakeSlot,
     InitState, Infer, ReleaseSlot, ReleaseModel, ReleaseWaits, ReleaseReturns, SendReturns,
     SendThrows, SendThrowsIgnored, BuildThrows, PeerChanges, Local
<1>3. ASSUME NEW r \in Requests, RequestStep(r) \/ PeerChanges(r)
      PROVE  [Cache!Next]_(Cache!vars) /\ [CacheFacts!Next]_(CacheFacts!vars)
  BY <1>1, <1>2, <1>3, SameCacheSteps DEF Cache!Next, CacheFacts!Next
<1>4. ASSUME NEW t \in Tasks, TimerStep(t)
      PROVE  [Cache!Next]_(Cache!vars) /\ [CacheFacts!Next]_(CacheFacts!vars)
  BY <1>4, SameCacheSteps DEF TimerStep, Cache!Next, CacheFacts!Next
<1>5. ASSUME Tick PROVE [Cache!Next]_(Cache!vars) /\ [CacheFacts!Next]_(CacheFacts!vars)
  BY <1>5, SameCacheSteps DEF Tick, Cache!Next, CacheFacts!Next
<1>6. ASSUME UNCHANGED vars PROVE UNCHANGED cacheVars
  BY <1>6 DEF vars
<1> QED
  BY <1>1, <1>3, <1>4, <1>5, <1>6 DEF Next, Terminated

\* ... and one step of the limiter, or leaves it alone.
LEMMA LimiterStep ==
  [Next]_vars => [Limiter!Next]_(Limiter!vars) /\ [LimiterFacts!Next]_(LimiterFacts!vars)
<1> SUFFICES ASSUME [Next]_vars
             PROVE  [Limiter!Next]_(Limiter!vars) /\ [LimiterFacts!Next]_(LimiterFacts!vars)
  OBVIOUS
<1>1. ASSUME UNCHANGED limiterVars
      PROVE  UNCHANGED Limiter!vars /\ UNCHANGED LimiterFacts!vars
  BY <1>1 DEF limiterVars, Limiter!vars, LimiterFacts!vars
<1>2. ASSUME NEW r \in Requests, RequestStep(r) \/ PeerChanges(r)
      PROVE  \/ UNCHANGED limiterVars
             \/ Limiter!TakeAtOnce(r) \/ Limiter!try_acquire_fails(r) \/ Limiter!release(r)
  BY <1>2, Zenon DEF RequestStep, Refuse, RefuseTemperature, Validated, Gate, TakeModel, TakeSlot,
     InitState, Infer, ReleaseSlot, ReleaseModel, ReleaseWaits, ReleaseReturns, SendReturns,
     SendThrows, SendThrowsIgnored, BuildThrows, PeerChanges, Local
<1>3. ASSUME NEW r \in Requests, RequestStep(r) \/ PeerChanges(r)
      PROVE  [Limiter!Next]_(Limiter!vars) /\ [LimiterFacts!Next]_(LimiterFacts!vars)
  BY <1>1, <1>2, <1>3, SameLimiterSteps DEF Limiter!Next, LimiterFacts!Next
<1>4. ASSUME (\E t \in Tasks : TimerStep(t)) \/ Tick \/ UNCHANGED vars
      PROVE  UNCHANGED limiterVars
  BY <1>4 DEF TimerStep, Tick, vars
<1> QED
  BY <1>1, <1>3, <1>4 DEF Next, Terminated

\* A request uses the model cache as a user of it may: HandleTranscribe
\* implements module ModelCache.
THEOREM RequestsUseCache == Spec => Cache!Spec
<1>1. Init => Cache!Init
  BY DEF Init
<1> QED
  BY <1>1, CacheStep, PTL DEF Spec, Cache!Spec

\* A request uses the limiter as a thread of it may: HandleTranscribe
\* implements module InferenceLimiter.
THEOREM RequestsUseLimiter == Spec => Limiter!Spec
<1>1. Init => Limiter!Init
  BY DEF Init
<1> QED
  BY <1>1, LimiterStep, PTL DEF Spec, Limiter!Spec

\* The components' inductive invariants, proved in their own modules, hold at
\* first and are preserved by every step of the handler.
LEMMA ComponentsInv ==
  /\ Init => Cache!CacheInv /\ Limiter!LimiterInv
  /\ Cache!CacheInv /\ [Next]_vars => Cache!CacheInv'
  /\ Limiter!LimiterInv /\ [Next]_vars => Limiter!LimiterInv'
<1>1. Init => CacheFacts!CacheInv /\ LimiterFacts!LimiterInv
  BY ComponentConstants, SameCacheSteps, SameLimiterSteps, CacheFacts!CacheInitInv,
     LimiterFacts!LimiterInitInv
     DEF Init, CacheFacts!CacheConstants, LimiterFacts!LimiterConstants
<1>2. CacheFacts!CacheInv /\ [CacheFacts!Next]_(CacheFacts!vars) => CacheFacts!CacheInv'
  BY ComponentConstants, CacheFacts!CacheStepInv DEF CacheFacts!CacheConstants
<1>3. LimiterFacts!LimiterInv /\ [LimiterFacts!Next]_(LimiterFacts!vars) => LimiterFacts!LimiterInv'
  BY ComponentConstants, LimiterFacts!LimiterStepInv DEF LimiterFacts!LimiterConstants
<1>4. (Cache!CacheInv <=> CacheFacts!CacheInv)' /\ (Limiter!LimiterInv <=> LimiterFacts!LimiterInv)'
  BY SameCacheInv, SameLimiterInv, PTL
<1> QED
  BY <1>1, <1>2, <1>3, <1>4, SameCacheInv, SameLimiterInv, CacheStep, LimiterStep

(***************************************************************************)
(* The request's own part of the invariant                                 *)
(***************************************************************************)
\* The conjuncts of TypeOK that are not the components'.
RequestTypes ==
  /\ pc \in [Requests -> Pcs]
  /\ states \subseteq Requests /\ bad_temp \subseteq Requests
  /\ replied \subseteq Requests /\ unbuilt \subseteq Requests
  /\ peer \in [Requests -> {"open", "stalled", "gone"}]
  /\ answers \in [Requests -> Nat]

\* What is left of RequestInv beside the components' invariants.
OwnInv == RequestTypes /\ OwnsByPlace /\ RefsHeld /\ RepliesByPlace

\* The components' invariants and the request's own part make up RequestInv.
LEMMA InvParts ==
  RequestInv <=> Cache!CacheInv /\ Limiter!LimiterInv /\ OwnInv
  BY DEF RequestInv, OwnInv, TypeOK, RequestTypes, Cache!CacheInv, Limiter!LimiterInv

\* The types of what the request's own part speaks of.
LEMMA HeldTypes ==
  ASSUME RequestInv
  PROVE  held \in [Requests -> 0..MaxLoads] /\ holders \subseteq Requests /\ RequestTypes
         /\ loads \in Nat /\ ctx \in Nat
  BY RequestConstants DEF RequestConstants, RequestInv, TypeOK, Cache!TypeOK, Limiter!TypeOK,
     RequestTypes

\* A request starts with nothing.
LEMMA RequestInitInv == Init => RequestInv
<1> SUFFICES ASSUME Init PROVE RequestInv
  OBVIOUS
<1>1. Cache!CacheInv /\ Limiter!LimiterInv
  BY ComponentsInv
<1>2. held = [r \in Requests |-> 0] /\ refs = {} /\ holders = {}
  BY DEF Init, Cache!Init, Limiter!Init
<1>3. OwnInv
  BY <1>2 DEF Init, OwnInv, RequestTypes, Pcs, OwnsByPlace, RefsHeld, RepliesByPlace
<1> QED
  BY <1>1, <1>3, InvParts

\* acquire() gives the request a context and the one reference it may have.
LEMMA AcquireFacts ==
  ASSUME RequestInv, NEW r \in Requests, Cache!AcquireCached(r) \/ Cache!AcquireLoad(r)
  PROVE  /\ \E c \in Nat \ {0} : held' = [held EXCEPT ![r] = c]
         /\ \E x \in {r} \X (1..1) : refs' = refs \cup {x}
<1>1. Cache!CanAcquire(r) /\ refs' = refs \cup {Cache!FreshRef(r)}
  BY DEF Cache!AcquireCached, Cache!AcquireLoad
<1>2. Cache!FreshRef(r) \in {r} \X (1..1)
  BY <1>1 DEF Cache!CanAcquire, Cache!FreshRef
<1>3. \E c \in Nat \ {0} : held' = [held EXCEPT ![r] = c]
  <2>1. CASE Cache!AcquireCached(r)
    BY <2>1, HeldTypes DEF Cache!AcquireCached
  <2>2. CASE Cache!AcquireLoad(r)
    <3>1. loads + 1 \in Nat \ {0} /\ held' = [held EXCEPT ![r] = loads + 1]
      BY <2>2, HeldTypes DEF Cache!AcquireLoad
    <3> QED
      BY <3>1
  <2> QED
    BY <2>1, <2>2
<1> QED
  BY <1>1, <1>2, <1>3

\* release() takes the context and that reference back.
LEMMA ReleaseFacts ==
  ASSUME RequestInv, NEW r \in Requests, Cache!ReleaseShared(r) \/ Cache!ReleaseLast(r)
  PROVE  held' = [held EXCEPT ![r] = 0] /\ refs' = refs \ {<<r, 1>>}
<1>1. /\ Cache!CanRelease(r) /\ held[r] # 0
      /\ held' = [held EXCEPT ![r] = 0] /\ refs' = refs \ {Cache!ReturnedRef(r)}
  BY DEF Cache!ReleaseShared, Cache!ReleaseLast, Cache!CanRelease
<1>2. \E x \in {r} \X (1..1) : x \in refs
  BY <1>1 DEF RequestInv, Cache!CacheInv, Cache!HoldersCounted
<1>3. Cache!ReturnedRef(r) \in {r} \X (1..1)
  BY <1>2 DEF Cache!ReturnedRef
<1>4. \A x \in {r} \X (1..1) : x = <<r, 1>>
  OBVIOUS
<1> QED
  BY <1>1, <1>3, <1>4, Zenon

\* A step that changes nothing but the place: before anything is held, to an
\* error, or out of the inference block.
LEMMA MoveInv ==
  ASSUME RequestInv, NEW r \in Requests, NEW p \in Pcs, Goto(r, p),
         UNCHANGED <<states, peer, answers, replied, unbuilt, held, refs, holders>>,
         bad_temp' \subseteq Requests,
         \/ pc[r] \in {"request", "vad", "temp_error"}
            /\ p \in {"vad", "model", "error", "temp_error", "result"}
         \/ pc[r] = "model" /\ p = "error"
         \/ pc[r] = "slot" /\ p = "error"
         \/ pc[r] = "state" /\ p = "error"
         \/ pc[r] = "drain" /\ p = AfterBlock(r)
  PROVE  OwnInv'
<1> USE DEF RequestInv, Goto
<1>1. RequestTypes'
  BY HeldTypes DEF RequestTypes
<1>2. pc'[r] = p /\ \A q \in Requests \ {r} : pc'[q] = pc[q]
  BY HeldTypes DEF RequestTypes
<1>3. OwnsByPlace'
  BY <1>2, HeldTypes, SMTT(30) DEF OwnsByPlace, AfterBlock
<1>4. RefsHeld'
  BY DEF RefsHeld
<1>5. RepliesByPlace'
  BY <1>2, HeldTypes, SMTT(30) DEF RepliesByPlace, AfterBlock, RequestTypes
<1> QED
  BY <1>1, <1>3, <1>4, <1>5 DEF OwnInv

\* The response is sent, the peer is gone or the response cannot be built: the
\* guards that are alive decide where handle() is left.
LEMMA SendInv ==
  ASSUME RequestInv, NEW r \in Requests, SendReturns(r) \/ SendThrows(r) \/ BuildThrows(r)
  PROVE  OwnInv'
<1> USE DEF RequestInv, Goto, SendReturns, SendThrows, BuildThrows, cacheVars, limiterVars
<1>1. /\ UNCHANGED <<states, peer, held, refs, holders, bad_temp>> /\ pc' = [pc EXCEPT ![r] = Unwind(r)]
      /\ replied' = replied \cup {r} /\ pc[r] \in {"request", "error", "temp_error", "result"}
  OBVIOUS
<1>2. Unwind(r) \in Pcs /\ pc'[r] = Unwind(r) /\ \A q \in Requests \ {r} : pc'[q] = pc[q]
  BY <1>1, HeldTypes DEF RequestTypes, Unwind, Pcs
<1>3. r \notin replied /\ answers[r] = 0 /\ r \notin unbuilt
  BY <1>1, HeldTypes DEF RepliesByPlace, RequestTypes
<1>4. /\ answers' \in [Requests -> Nat] /\ \A q \in Requests \ {r} : answers'[q] = answers[q]
      /\ unbuilt' \subseteq Requests /\ \A q \in Requests \ {r} : q \in unbuilt' <=> q \in unbuilt
      /\ \/ answers'[r] = 1 /\ r \notin unbuilt'
         \/ answers'[r] = 0 /\ peer[r] = "gone" /\ r \notin unbuilt'
         \/ answers'[r] = 0 /\ r \in unbuilt'
  BY <1>3, HeldTypes DEF RequestTypes
<1>5. RequestTypes'
  BY <1>1, <1>2, <1>4, HeldTypes DEF RequestTypes
<1>6. OwnsByPlace'
  BY <1>1, <1>2, HeldTypes DEF OwnsByPlace, Unwind
<1>7. RefsHeld'
  BY <1>1 DEF RefsHeld
<1>8. RepliesByPlace'
  BY <1>1, <1>2, <1>4, HeldTypes DEF RepliesByPlace, Unwind, RequestTypes
<1> QED
  BY <1>5, <1>6, <1>7, <1>8 DEF OwnInv

\* Every step of a request keeps its own part of the invariant.
LEMMA RequestStepOwn ==
  ASSUME RequestInv, NEW r \in Requests, RequestStep(r) \/ PeerChanges(r)
  PROVE  OwnInv'
<1> USE DEF RequestInv
<1>1. CASE Refuse(r) \/ Validated(r) \/ Gate(r) \/ SendThrowsIgnored(r) \/ RefuseTemperature(r)
  BY <1>1, MoveInv, HeldTypes DEF Refuse, Validated, Gate, SendThrowsIgnored, RefuseTemperature,
     Local, Pcs, cacheVars, limiterVars, RequestTypes
<1>2. CASE TakeModel(r)
  <2> USE <1>2 DEF TakeModel, Goto, limiterVars
  <2>1. CASE Cache!AcquireFail(r) /\ Goto(r, "error")
    BY <2>1, MoveInv, HeldTypes DEF Cache!AcquireFail, Pcs, RequestTypes
  <2>2. CASE (Cache!AcquireCached(r) \/ Cache!AcquireLoad(r)) /\ Goto(r, "slot")
    <3>1. PICK c \in Nat \ {0} : held' = [held EXCEPT ![r] = c]
      BY <2>2, AcquireFacts
    <3>2. PICK x \in {r} \X (1..1) : refs' = refs \cup {x}
      BY <2>2, AcquireFacts
    <3>3. /\ pc[r] = "model" /\ pc'[r] = "slot" /\ held'[r] # 0
          /\ \A q \in Requests \ {r} : pc'[q] = pc[q] /\ held'[q] = held[q]
          /\ UNCHANGED <<states, peer, answers, bad_temp, replied, unbuilt, holders>>
      BY <2>2, <3>1, HeldTypes DEF RequestTypes
    <3>4. RequestTypes'
      BY <2>2, HeldTypes DEF RequestTypes, Pcs
    <3>5. OwnsByPlace'
      BY <3>3, HeldTypes DEF OwnsByPlace
    <3>6. RefsHeld'
      <4> SUFFICES ASSUME NEW q \in Requests, NEW y \in {q} \X (1..1), y \in refs', q # r
                   PROVE  held'[q] # 0
        BY <3>3 DEF RefsHeld
      <4>1. y # x
        BY <3>2
      <4> QED
        BY <4>1, <3>2, <3>3 DEF RefsHeld
    <3>7. RepliesByPlace'
      BY <3>3, HeldTypes DEF RepliesByPlace
    <3> QED
      BY <3>4, <3>5, <3>6, <3>7 DEF OwnInv
  <2> QED
    BY <2>1, <2>2
<1>3. CASE TakeSlot(r)
  <2> USE <1>3 DEF TakeSlot, cacheVars
  <2>1. CASE Limiter!try_acquire_fails(r) /\ Goto(r, "error")
    BY <2>1, MoveInv, HeldTypes DEF Limiter!try_acquire_fails, Limiter!TryGuardFails, Limiter!vars,
       Pcs, RequestTypes
  <2>2. CASE Limiter!TakeAtOnce(r) /\ Goto(r, "state")
    <3>1. holders' = holders \cup {r}
      BY <2>2 DEF Limiter!TakeAtOnce, Limiter!Take
    <3>2. /\ pc[r] = "slot" /\ pc'[r] = "state"
          /\ \A q \in Requests \ {r} : pc'[q] = pc[q]
          /\ UNCHANGED <<states, peer, answers, bad_temp, replied, unbuilt, held, refs>>
      BY <2>2, HeldTypes DEF RequestTypes, Goto
    <3>3. RequestTypes'
      BY <2>2, HeldTypes DEF RequestTypes, Pcs, Goto
    <3>4. OwnsByPlace' /\ RefsHeld'
      BY <3>1, <3>2, HeldTypes DEF OwnsByPlace, RefsHeld
    <3>5. RepliesByPlace'
      BY <3>2, HeldTypes DEF RepliesByPlace
    <3> QED
      BY <3>3, <3>4, <3>5 DEF OwnInv
  <2> QED
    BY <2>1, <2>2
<1>4. CASE InitState(r)
  <2>1. CASE Local(r, "state", "error") /\ UNCHANGED <<states, bad_temp>>
    BY <2>1, MoveInv, HeldTypes DEF Local, Pcs, cacheVars, limiterVars, RequestTypes
  <2>2. CASE Local(r, "state", "infer") /\ states' = states \cup {r} /\ UNCHANGED bad_temp
    <3>1. /\ pc[r] = "state" /\ pc'[r] = "infer"
          /\ \A q \in Requests \ {r} : pc'[q] = pc[q]
          /\ UNCHANGED <<peer, answers, bad_temp, replied, unbuilt, held, refs, holders>>
      BY <2>2, HeldTypes DEF RequestTypes, Goto, Local, cacheVars, limiterVars
    <3>2. RequestTypes'
      BY <2>2, HeldTypes DEF RequestTypes, Pcs, Goto, Local
    <3>3. OwnsByPlace' /\ RefsHeld'
      BY <2>2, <3>1, HeldTypes DEF OwnsByPlace, RefsHeld
    <3>4. RepliesByPlace'
      BY <3>1, HeldTypes DEF RepliesByPlace
    <3> QED
      BY <3>2, <3>3, <3>4 DEF OwnInv
  <2> QED
    BY <1>4, <2>1, <2>2 DEF InitState
<1>5. CASE Infer(r)
  <2>1. PICK next \in {"unslot", "error"} : Local(r, "infer", next) /\ states' = states \ {r}
    BY <1>5 DEF Infer, Freed
  <2>2. /\ pc[r] = "infer" /\ pc'[r] = next
        /\ \A q \in Requests \ {r} : pc'[q] = pc[q]
        /\ UNCHANGED <<peer, answers, bad_temp, replied, unbuilt, held, refs, holders>>
    BY <1>5, <2>1, HeldTypes DEF Infer, RequestTypes, Goto, Local, cacheVars, limiterVars
  <2>3. RequestTypes'
    BY <2>1, <2>2, HeldTypes DEF RequestTypes, Pcs, Goto, Local
  <2>4. OwnsByPlace' /\ RefsHeld'
    BY <2>1, <2>2, HeldTypes DEF OwnsByPlace, RefsHeld
  <2>5. RepliesByPlace'
    BY <2>2, HeldTypes DEF RepliesByPlace
  <2> QED
    BY <2>3, <2>4, <2>5 DEF OwnInv
<1>6. CASE ReleaseSlot(r)
  <2> USE <1>6 DEF ReleaseSlot, cacheVars
  <2>1. holders' = holders \ {r}
    BY DEF Limiter!release
  <2>2. /\ pc[r] = "unslot" /\ pc'[r] = "unmodel"
        /\ \A q \in Requests \ {r} : pc'[q] = pc[q]
        /\ UNCHANGED <<states, peer, answers, bad_temp, replied, unbuilt, held, refs>>
    BY HeldTypes DEF RequestTypes, Goto
  <2>3. RequestTypes'
    BY HeldTypes DEF RequestTypes, Pcs, Goto
  <2>4. OwnsByPlace' /\ RefsHeld'
    BY <2>1, <2>2, HeldTypes DEF OwnsByPlace, RefsHeld
  <2>5. RepliesByPlace'
    BY <2>2, HeldTypes DEF RepliesByPlace
  <2> QED
    BY <2>3, <2>4, <2>5 DEF OwnInv
<1>7. CASE ReleaseModel(r)
  <2> USE <1>7 DEF ReleaseModel, limiterVars
  <2>1. held' = [held EXCEPT ![r] = 0] /\ refs' = refs \ {<<r, 1>>}
    BY ReleaseFacts
  <2>2. /\ pc[r] = "unmodel" /\ pc'[r] = "drain" /\ held'[r] = 0
        /\ \A q \in Requests \ {r} : pc'[q] = pc[q] /\ held'[q] = held[q]
        /\ UNCHANGED <<states, peer, answers, bad_temp, replied, unbuilt, holders>>
    BY <2>1, HeldTypes DEF RequestTypes, Goto
  <2>3. RequestTypes'
    BY HeldTypes DEF RequestTypes, Pcs, Goto
  <2>4. OwnsByPlace'
    BY <2>2, HeldTypes DEF OwnsByPlace
  <2>5. RefsHeld'
    <3> SUFFICES ASSUME NEW q \in Requests, NEW y \in {q} \X (1..1), y \in refs'
                 PROVE  held'[q] # 0
      BY DEF RefsHeld
    <3>1. q # r
      BY <2>1
    <3> QED
      BY <3>1, <2>1, <2>2 DEF RefsHeld
  <2>6. RepliesByPlace'
    BY <2>2, HeldTypes DEF RepliesByPlace
  <2> QED
    BY <2>3, <2>4, <2>5, <2>6 DEF OwnInv
<1>8. CASE ReleaseWaits(r)
  <2>1. UNCHANGED <<requestVars, held, refs, holders>>
    BY <1>8 DEF ReleaseWaits, Cache!DrainEnd, limiterVars
  <2> QED
    BY <2>1, HeldTypes DEF OwnInv, RequestTypes, OwnsByPlace, RefsHeld, RepliesByPlace, requestVars
<1>9. CASE ReleaseReturns(r)
  BY <1>9, MoveInv, HeldTypes DEF ReleaseReturns, Local, Pcs, AfterBlock, cacheVars, limiterVars,
     RequestTypes
<1>10. CASE SendReturns(r) \/ SendThrows(r) \/ BuildThrows(r)
  BY <1>10, SendInv
<1>11. CASE PeerChanges(r)
  <2>1. /\ peer[r] # "gone" /\ \A q \in Requests \ {r} : peer'[q] = peer[q]
        /\ peer' \in [Requests -> {"open", "stalled", "gone"}]
        /\ UNCHANGED <<pc, states, answers, bad_temp, replied, unbuilt, held, refs, holders>>
    BY <1>11, HeldTypes DEF PeerChanges, RequestTypes, cacheVars, limiterVars
  <2> QED
    BY <2>1, HeldTypes DEF OwnInv, RequestTypes, OwnsByPlace, RefsHeld, RepliesByPlace
<1> QED
  BY <1>1, <1>2, <1>3, <1>4, <1>5, <1>6, <1>7, <1>8, <1>9, <1>10, <1>11 DEF RequestStep

\* So does every other step: the timer tasks touch no reference.
LEMMA RequestStepInv == RequestInv /\ [Next]_vars => RequestInv'
<1> SUFFICES ASSUME RequestInv, [Next]_vars PROVE OwnInv'
  BY InvParts, ComponentsInv, PTL
<1>1. ASSUME NEW r \in Requests, RequestStep(r) \/ PeerChanges(r) PROVE OwnInv'
  BY <1>1, RequestStepOwn
<1>2. ASSUME (\E t \in Tasks : TimerStep(t)) \/ Tick \/ UNCHANGED vars PROVE OwnInv'
  <2>1. UNCHANGED <<requestVars, held, refs, holders>>
    BY <1>2 DEF TimerStep, Tick, vars, cacheVars, limiterVars, Cache!TimerStep, Cache!TimerWait,
       Cache!TimerCancelled, Cache!TimerUnload, Cache!Tick
  <2> QED
    BY <2>1, HeldTypes DEF RequestInv, OwnInv, RequestTypes, OwnsByPlace, RefsHeld, RepliesByPlace,
       requestVars
<1> QED
  BY <1>1, <1>2 DEF Next, Terminated

\* RequestInv holds in every reachable state.
THEOREM RequestsSafe == Spec => []RequestInv
  BY RequestInitInv, RequestStepInv, PTL DEF Spec

\* An inference runs only with a slot and with the context the cache has
\* loaded, for any number of requests, slots and timer tasks.
THEOREM InferenceHasSlotAndModel == Spec => []InferenceBacked
<1>1. RequestInv => InferenceBacked
  BY DEF RequestInv, InferenceBacked, TypeOK, OwnsByPlace, Cache!CacheInv,
     Cache!HeldModelStaysLoaded
<1> QED
  BY <1>1, RequestsSafe, PTL

\* On every path out of handle() the request gives back its model reference,
\* its slot and its state, and when all are over both counters are zero.
THEOREM RequestsKeepNothing == Spec => []NothingKept
<1>1. RequestInv => NothingKept
  <2> SUFFICES ASSUME RequestInv PROVE NothingKept
    OBVIOUS
  <2> USE DEF RequestInv
  <2>1. \A r \in Requests : pc[r] = "done" => held[r] = 0 /\ r \notin holders \cup states
    BY DEF OwnsByPlace
  <2>2. ASSUME \A r \in Requests : pc[r] = "done" PROVE ref_count = 0 /\ active_count = 0
    <3>1. holders = {}
      BY <2>1, <2>2, HeldTypes
    <3>2. refs = {}
      <4>1. refs \subseteq Requests \X (1..1)
        BY DEF TypeOK, Cache!TypeOK
      <4>2. ASSUME NEW x \in refs PROVE FALSE
        <5>1. PICK r \in Requests : x \in {r} \X (1..1)
          BY <4>1, <4>2
        <5>2. held[r] # 0
          BY <4>2, <5>1 DEF RefsHeld
        <5> QED
          BY <2>1, <2>2, <5>2
      <4> QED
        BY <4>2
    <3>3. \A S : Cache!Cardinality(S) = Cardinality(S) /\ Limiter!Cardinality(S) = Cardinality(S)
      BY Zenon DEF Cardinality, Cache!Cardinality, Limiter!Cardinality
    <3> QED
      BY <3>1, <3>2, <3>3, FS_EmptySet DEF Cache!CacheInv, Cache!RefCountExact,
         Limiter!LimiterInv, Limiter!CountMatchesGuards
  <2> QED
    BY <2>1, <2>2 DEF NothingKept
<1> QED
  BY <1>1, RequestsSafe, PTL

\* No path through the nested error handling answers a request twice, or leaves
\* it unanswered while its peer is there and its response could be built.
THEOREM RequestsAnsweredOnce == Spec => []AnsweredOnce
<1>1. RequestInv => AnsweredOnce
  BY HeldTypes DEF RequestInv, RepliesByPlace, AnsweredOnce, RequestTypes
<1> QED
  BY <1>1, RequestsSafe, PTL
=============================================================================
