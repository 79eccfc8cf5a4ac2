----------------------------- MODULE ModelCache -----------------------------
(***************************************************************************)
(* The shared whisper_context of src/src/whisper/ModelCache.h: reference   *)
(* counted, and unloaded by a background timer ttl_seconds_ after the last *)
(* release().                                                              *)
(*                                                                         *)
(* Every public method holds mutex_ for the whole of its critical section, *)
(* so a critical section is one action.  What interleaves is what happens  *)
(* outside it: the timer task scheduled by release() (a std::async thread  *)
(* in cv_.wait_for), the releasing thread draining the previous task's     *)
(* future, and the other users.                                            *)
(*                                                                         *)
(* Users are the threads that call the cache: an HTTP request through      *)
(* ModelCache::Guard (one acquire, one release) or a StreamingSession,     *)
(* whose handleConfig() acquires on EVERY "config" message while           *)
(* releaseModel() releases once.  Every caller passes config.model_path,   *)
(* so the branch of acquire() for a different path is dead and left out,   *)
(* like forceUnload(), which only the tests call.                          *)
(***************************************************************************)
EXTENDS Integers, FiniteSets

CONSTANTS
  Users,        \* threads that acquire the model
  Sessions,     \* the users that may acquire again before they release
  MaxConfigs,   \* bound: acquires of one session before it releases
  Tasks,        \* identities for the std::async timer tasks
  TTLs,         \* the values configure() may give ttl_seconds_, in ticks
  MaxLoads      \* bound: loads of the model in one behaviour

ASSUME CacheConstants ==
  /\ IsFiniteSet(Users) /\ Sessions \subseteq Users
  /\ MaxConfigs \in Nat \ {0} /\ MaxLoads \in Nat
  /\ TTLs \subseteq Int
  /\ 0 \notin Tasks

VARIABLES
  ctx,             \* ctx_: 0 is nullptr, otherwise which load it comes from
  loads,           \* loads of the model so far
  ref_count,       \* ref_count_
  refs,            \* references handed out and not returned (history)
  held,            \* held[u]: the context u computes with, 0 if none
  unload_pending,  \* unload_pending_
  unload_future,   \* the task behind unload_future_, 0 if not valid
  timer,           \* timer[t]: state of task t and the ticks left to its deadline
  drain,           \* drain[u]: the task whose future u waits for in release()
  phase,           \* "up", "dying" (shutdown_ set by ~ModelCache), "gone"
  age,             \* ticks since the reference count last reached zero (history)
  ttl_seconds      \* ttl_seconds_: 0 unload at once, negative keep for ever

vars == <<ctx, loads, ref_count, refs, held, unload_pending, unload_future,
          timer, drain, phase, age, ttl_seconds>>

NoTask == 0
Alive == {"started", "waiting"}
shutdown == phase # "up"

TypeOK ==
  /\ ctx \in 0..MaxLoads /\ loads \in 0..MaxLoads
  /\ ref_count \in Nat
  /\ refs \subseteq Users \X (1..MaxConfigs)
  /\ held \in [Users -> 0..MaxLoads]
  /\ unload_pending \in BOOLEAN
  /\ unload_future \in Tasks \cup {NoTask}
  /\ timer \in [Tasks -> [st : {"free", "started", "waiting", "done"}, left : Nat]]
  /\ drain \in [Users -> Tasks \cup {NoTask}]
  /\ phase \in {"up", "dying", "gone"}
  /\ age \in Nat /\ ttl_seconds \in TTLs

Init ==
  /\ ctx = 0 /\ loads = 0 /\ ref_count = 0 /\ refs = {}
  /\ held = [u \in Users |-> 0]
  /\ unload_pending = FALSE /\ unload_future = NoTask
  /\ timer = [t \in Tasks |-> [st |-> "free", left |-> 0]]
  /\ drain = [u \in Users |-> NoTask]
  /\ phase = "up" /\ age = 0
  /\ ttl_seconds \in TTLs

(***************************************************************************)
(* acquire()                                                               *)
(***************************************************************************)
cancelUnloadLocked_Skipped == UNCHANGED unload_pending

\* Clearing the flag is what the tasks' wait predicate sees; the notify_all
\* only makes them look earlier, and they may look at any time.
cancelUnloadLocked == unload_pending' = FALSE

CountedRefs_Reset == 1

CountedRefs == ref_count + 1

\* The reference the next acquire() of u hands out.
FreshRef(u) == CHOOSE r \in {u} \X (1..MaxConfigs) : r \notin refs

CanAcquire(u) ==
  /\ phase = "up" /\ drain[u] = NoTask
  /\ held[u] = 0 \/ u \in Sessions
  /\ \E r \in {u} \X (1..MaxConfigs) : r \notin refs

AcquireCached(u) ==
  /\ CanAcquire(u) /\ ctx # 0
  /\ cancelUnloadLocked
  /\ ref_count' = CountedRefs
  /\ refs' = refs \cup {FreshRef(u)}
  /\ held' = [held EXCEPT ![u] = ctx]
  /\ UNCHANGED <<ctx, loads, unload_future, timer, drain, phase, age, ttl_seconds>>

AcquireLoad(u) ==
  /\ CanAcquire(u) /\ ctx = 0 /\ loads < MaxLoads
  /\ cancelUnloadLocked
  /\ loads' = loads + 1 /\ ctx' = loads + 1
  /\ ref_count' = 1
  /\ refs' = refs \cup {FreshRef(u)}
  /\ held' = [held EXCEPT ![u] = loads + 1]
  /\ UNCHANGED <<unload_future, timer, drain, phase, age, ttl_seconds>>

\* whisper_init_from_file_with_params returns null: acquire() throws after it
\* has cancelled the timer.
AcquireFail(u) ==
  /\ CanAcquire(u) /\ ctx = 0
  /\ cancelUnloadLocked
  /\ UNCHANGED <<ctx, loads, ref_count, refs, held, unload_future, timer, drain, phase,
                 age, ttl_seconds>>

(***************************************************************************)
(* release()                                                               *)
(***************************************************************************)
\* The reference release() gives back: one of those u was given.
ReturnedRef(u) == CHOOSE r \in {u} \X (1..MaxConfigs) : r \in refs

unloadLocked_Skipped == ctx' = ctx /\ ref_count' = 0

unloadLocked ==
  /\ ctx' = 0
  /\ ref_count' = IF ctx # 0 THEN 0 ELSE ref_count

CanRelease(u) ==
  /\ phase = "up" /\ drain[u] = NoTask /\ held[u] # 0
  /\ refs' = refs \ {ReturnedRef(u)}
  /\ held' = [held EXCEPT ![u] = 0]

\* Not the last reference.  With ref_count_ <= 0 release() returns at once.
ReleaseShared(u) ==
  /\ CanRelease(u) /\ ref_count # 1
  /\ ref_count' = IF ref_count <= 0 THEN ref_count ELSE ref_count - 1
  /\ UNCHANGED <<ctx, loads, unload_pending, unload_future, timer, drain, phase, age,
                 ttl_seconds>>

scheduleUnloadLocked_NotRearmed(u, t) ==
  /\ unload_pending' = (unload_future = NoTask)
  /\ unload_future' = t
  /\ drain' = [drain EXCEPT ![u] = unload_future]
  /\ timer' = [timer EXCEPT ![t] = [st |-> "started", left |-> 0]]

\* unload_pending_ goes false and true again inside one critical section, so
\* a previous task that has not woken up yet never sees it false.  The old
\* future is returned to release(), which waits for it outside the lock.
scheduleUnloadLocked(u, t) ==
  /\ unload_pending' = TRUE
  /\ unload_future' = t
  /\ drain' = [drain EXCEPT ![u] = unload_future]
  /\ timer' = [timer EXCEPT ![t] = [st |-> "started", left |-> 0]]

ReleaseLast(u) ==
  /\ CanRelease(u) /\ ref_count = 1
  /\ age' = 0
  /\ \/ /\ ttl_seconds > 0
        /\ ctx' = ctx /\ ref_count' = 0
        /\ \E t \in Tasks : timer[t].st = "free" /\ scheduleUnloadLocked(u, t)
     \/ /\ ttl_seconds <= 0
        /\ IF ttl_seconds = 0 THEN unloadLocked ELSE ctx' = ctx /\ ref_count' = 0
        /\ UNCHANGED <<unload_pending, unload_future, timer, drain>>
  /\ UNCHANGED <<loads, phase, ttl_seconds>>

\* old_future.get() returns: release() ends and the task is forgotten.
DrainEnd(u) ==
  /\ drain[u] # NoTask /\ timer[drain[u]].st = "done"
  /\ timer' = [timer EXCEPT ![drain[u]] = [st |-> "free", left |-> 0]]
  /\ drain' = [drain EXCEPT ![u] = NoTask]
  /\ UNCHANGED <<ctx, loads, ref_count, refs, held, unload_pending, unload_future,
                 phase, age, ttl_seconds>>

(***************************************************************************)
(* The timer task                                                          *)
(***************************************************************************)
Deadline == ttl_seconds

\* The task gets mutex_, finds its predicate false and starts to wait.
TimerWait(t) ==
  /\ timer[t].st = "started" /\ unload_pending /\ ~shutdown
  /\ timer' = [timer EXCEPT ![t] = [st |-> "waiting", left |-> Deadline]]
  /\ UNCHANGED <<ctx, loads, ref_count, refs, held, unload_pending, unload_future,
                 drain, phase, age, ttl_seconds>>

\* The predicate holds when the task has mutex_: it leaves without unloading.
TimerCancelled(t) ==
  /\ timer[t].st \in Alive /\ (~unload_pending \/ shutdown)
  /\ timer' = [timer EXCEPT ![t] = [st |-> "done", left |-> 0]]
  /\ UNCHANGED <<ctx, loads, ref_count, refs, held, unload_pending, unload_future,
                 drain, phase, age, ttl_seconds>>

TimerExpired_Never(t) == FALSE

TimerExpired(t) == timer[t].st = "waiting" /\ timer[t].left = 0

\* wait_for timed out and the unload is still wanted.
TimerUnload(t) ==
  /\ TimerExpired(t) /\ unload_pending /\ ~shutdown
  /\ unloadLocked
  /\ unload_pending' = FALSE
  /\ timer' = [timer EXCEPT ![t] = [st |-> "done", left |-> 0]]
  /\ UNCHANGED <<loads, refs, held, unload_future, drain, phase, age, ttl_seconds>>

\* Time passes for every waiting task.  A task may run later than its deadline.
Tick ==
  /\ \E t \in Tasks : timer[t].st = "waiting" /\ timer[t].left > 0
  /\ timer' = [t \in Tasks |->
                 IF timer[t].st = "waiting" /\ timer[t].left > 0
                 THEN [timer[t] EXCEPT !.left = @ - 1] ELSE timer[t]]
  /\ age' = IF age < ttl_seconds THEN age + 1 ELSE age
  /\ UNCHANGED <<ctx, loads, ref_count, refs, held, unload_pending, unload_future,
                 drain, phase, ttl_seconds>>

(***************************************************************************)
(* ~ModelCache, a static destructor: main() has joined the session         *)
(* threads, so no user holds the model or is inside release().             *)
(***************************************************************************)
Destroy ==
  /\ phase = "up" /\ \A u \in Users : held[u] = 0 /\ drain[u] = NoTask
  /\ phase' = "dying" /\ unload_pending' = FALSE
  /\ UNCHANGED <<ctx, loads, ref_count, refs, held, unload_future, timer, drain, age,
                 ttl_seconds>>

TaskJoined_NotAwaited == TRUE

TaskJoined == unload_future # NoTask => timer[unload_future].st = "done"

DestroyEnd ==
  /\ phase = "dying" /\ TaskJoined
  /\ phase' = "gone" /\ ctx' = 0
  /\ UNCHANGED <<loads, ref_count, refs, held, unload_pending, unload_future, timer,
                 drain, age, ttl_seconds>>

Terminated == phase = "gone" /\ UNCHANGED vars

TimerStep(t) == TimerWait(t) \/ TimerCancelled(t) \/ TimerUnload(t)

Next ==
  \/ \E u \in Users :
       \/ AcquireCached(u) \/ AcquireLoad(u) \/ AcquireFail(u)
       \/ ReleaseShared(u) \/ ReleaseLast(u) \/ DrainEnd(u)
  \/ \E t \in Tasks : TimerStep(t)
  \/ Tick \/ Destroy \/ DestroyEnd \/ Terminated

Spec == Init /\ [][Next]_vars

\* A task's thread that can go on and a thread whose future is ready are
\* scheduled, and time passes.  Nothing obliges a user to acquire, to release
\* or to exit.
Fairness ==
  /\ \A t \in Tasks : WF_vars(TimerStep(t))
  /\ \A u \in Users : WF_vars(DrainEnd(u))
  /\ WF_vars(Tick)

FairSpec == Spec /\ Fairness

(***************************************************************************)
(* Properties                                                              *)
(***************************************************************************)
\* A context is never freed or replaced under a user that acquired it: no
\* timer that was armed before the acquire may still unload it.
HeldModelStaysLoaded == \A u \in Users : held[u] # 0 => held[u] = ctx

\* ref_count_ is the number of references handed out and not given back,
\* whatever the order of acquires, releases, failed loads and timers.
RefCountExact == ref_count = Cardinality(refs)

\* A loaded model nobody references has an unload pending, and the task behind
\* unload_future_ is alive to do it: otherwise the memory would stay for ever.
\* With ttl_seconds_ = 0 there is no such model.
IdleModelScheduled ==
  (ttl_seconds >= 0 /\ phase = "up" /\ ctx # 0 /\ ref_count = 0)
    => /\ ttl_seconds > 0 /\ unload_pending
       /\ unload_future # NoTask /\ timer[unload_future].st \in Alive

\* When ~ModelCache ends no timer task is left to touch the destroyed mutex:
\* the destructor waits for the last one, every other was drained by the
\* release() that replaced it.
NoTaskOutlivesCache == phase = "gone" => \A t \in Tasks : timer[t].st \notin Alive

\* A model whose references have all been given back is unloaded, unless a user
\* takes one again, the process exits or ttl_seconds_ keeps it for ever: no order
\* of acquires, failed loads and draining tasks loses the pending unload.
IdleModelUnloads ==
  (refs = {} /\ ttl_seconds >= 0) ~> (ctx = 0 \/ refs # {} \/ shutdown)

\* "unloads automatically after the TTL expires with no active sessions":
\* once no user holds the model it is unloaded, unless a user takes it again
\* or the process exits.
InUse == \E u \in Users : held[u] # 0
UnusedModelUnloads == ~InUse ~> (ctx = 0 \/ InUse \/ shutdown)

\* release() returns: the task it drains always ends.
ReleaseReturns == \A u \in Users : (drain[u] # NoTask) ~> (drain[u] = NoTask)

\* "Seconds to keep the model after the last release()": a running cache does
\* not unload a model before ttl_seconds_ ticks have passed since the last release.
KeptForTtl == [][(ctx # 0 /\ ctx' = 0 /\ phase = "up") => age >= ttl_seconds]_vars

(***************************************************************************)
(* The inductive invariant behind the safety properties                    *)
(***************************************************************************)
\* A user with a context was given at least one reference for it.
HoldersCounted ==
  \A u \in Users : held[u] # 0 => \E r \in {u} \X (1..MaxConfigs) : r \in refs

\* References imply a loaded model and no pending unload.
ReferencedModelSafe ==
  (ref_count > 0 /\ phase # "gone") => ctx # 0 /\ ~unload_pending

\* A pending unload has the task of unload_future_ alive to carry it out.
PendingHasTask ==
  unload_pending => /\ ttl_seconds > 0
                    /\ unload_future # NoTask /\ timer[unload_future].st \in Alive

\* Every task that exists is owned by exactly one future: unload_future_ or the
\* one a single release() is draining.
TasksOwned ==
  /\ unload_future # NoTask => timer[unload_future].st # "free"
  /\ \A u \in Users : drain[u] # NoTask =>
       /\ timer[drain[u]].st # "free" /\ drain[u] # unload_future
       /\ \A v \in Users : drain[v] = drain[u] => v = u
  /\ \A t \in Tasks : timer[t].st # "free" =>
       t = unload_future \/ \E u \in Users : drain[u] = t

\* ~ModelCache runs when no user is left, and leaves no unload pending.
NoUserAtExit ==
  phase # "up" => /\ \A u \in Users : held[u] = 0 /\ drain[u] = NoTask
                  /\ ~unload_pending

\* The conjunction of these facts is preserved by every step; together they
\* say that references, flag and timer tasks never disagree about the model.
CacheInv ==
  /\ TypeOK /\ IsFiniteSet(refs) /\ RefCountExact
  /\ HeldModelStaysLoaded /\ HoldersCounted
  /\ ReferencedModelSafe /\ PendingHasTask /\ TasksOwned
  /\ IdleModelScheduled /\ NoUserAtExit /\ NoTaskOutlivesCache
=============================================================================
