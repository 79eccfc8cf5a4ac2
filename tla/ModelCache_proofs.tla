------------------------- MODULE ModelCache_proofs -------------------------
(***************************************************************************)
(* ModelCache's safety properties for any set of users, any number of      *)
(* timer tasks and any value of ttl_seconds_.                              *)
(***************************************************************************)
EXTENDS ModelCache, FiniteSetTheorems, TLAPS

\* A positive ttl_seconds_ is a number of ticks.
LEMMA TtlNat == TypeOK => ttl_seconds \in Int /\ (ttl_seconds > 0 => ttl_seconds \in Nat)
  BY CacheConstants DEF CacheConstants, TypeOK

\* No reference means no user computes with the model: what makes it safe to
\* unload when the count is zero.
LEMMA UnreferencedUnheld ==
  ASSUME CacheInv, ref_count = 0
  PROVE  refs = {} /\ \A u \in Users : held[u] = 0
  BY FS_EmptySet DEF CacheInv, RefCountExact, HoldersCounted

\* The initial state of the cache (empty, no timer) satisfies the invariant.
LEMMA CacheInitInv == Init => CacheInv
  <1> SUFFICES ASSUME Init PROVE CacheInv
    OBVIOUS
  <1>1. TypeOK
    <2>1. timer \in [Tasks -> [st : {"free", "started", "waiting", "done"}, left : Nat]]
      BY TtlNat DEF Init
    <2>2. unload_pending \in BOOLEAN
      BY Zenon DEF Init
    <2> QED
      BY <2>1, <2>2, TtlNat, CacheConstants DEF CacheConstants, Init, TypeOK, NoTask
  <1>2. IsFiniteSet(refs) /\ RefCountExact
    BY FS_EmptySet DEF Init, RefCountExact
  <1> QED
    BY <1>1, <1>2 DEF Init, CacheInv, HeldModelStaysLoaded, HoldersCounted,
       ReferencedModelSafe, PendingHasTask, TasksOwned, IdleModelScheduled,
       NoUserAtExit, NoTaskOutlivesCache, NoTask, Alive

\* References are pairs of the user and a number: different users never share one.
LEMMA RefPairs ==
  /\ \A u \in Users : {u} \X (1..MaxConfigs) \subseteq Users \X (1..MaxConfigs)
  /\ \A u, v \in Users : \A r \in {u} \X (1..MaxConfigs) :
       r \in {v} \X (1..MaxConfigs) => u = v
  OBVIOUS

\* acquire(): the reference it hands out is new, so the count stays exact, and
\* it takes back the pending unload.
LEMMA AcquireRefs ==
  ASSUME CacheInv, NEW u \in Users, CanAcquire(u)
  PROVE  /\ FreshRef(u) \in {u} \X (1..MaxConfigs) /\ FreshRef(u) \notin refs
         /\ refs \cup {FreshRef(u)} \subseteq Users \X (1..MaxConfigs)
         /\ IsFiniteSet(refs \cup {FreshRef(u)})
         /\ Cardinality(refs \cup {FreshRef(u)}) = Cardinality(refs) + 1
  <1>1. FreshRef(u) \in {u} \X (1..MaxConfigs) /\ FreshRef(u) \notin refs
    BY DEF CanAcquire, FreshRef
  <1>2. FreshRef(u) \in Users \X (1..MaxConfigs)
    BY <1>1, RefPairs, Zenon
  <1>3. refs \cup {FreshRef(u)} \subseteq Users \X (1..MaxConfigs)
    BY <1>2, Zenon DEF CacheInv, TypeOK
  <1> QED
    BY <1>1, <1>3, FS_AddElement DEF CacheInv

\* release(): the reference it gives back was handed out.
LEMMA ReleaseRefs ==
  ASSUME CacheInv, NEW u \in Users, CanRelease(u)
  PROVE  /\ ReturnedRef(u) \in {u} \X (1..MaxConfigs) /\ ReturnedRef(u) \in refs
         /\ IsFiniteSet(refs') /\ Cardinality(refs') = Cardinality(refs) - 1
         /\ ref_count > 0
  <1>1. ReturnedRef(u) \in {u} \X (1..MaxConfigs) /\ ReturnedRef(u) \in refs
    BY DEF CacheInv, HoldersCounted, CanRelease, ReturnedRef
  <1>2. IsFiniteSet(refs') /\ Cardinality(refs') = Cardinality(refs) - 1
    BY <1>1, FS_RemoveElement DEF CacheInv, CanRelease
  <1>3. ref_count > 0
    BY <1>1, FS_EmptySet, FS_CardinalityType DEF CacheInv, RefCountExact, TypeOK
  <1> QED
    BY <1>1, <1>2, <1>3

\* Every step of a user, of a timer task, of time and of the destructor
\* re-establishes CacheInv.
LEMMA CacheStepInv == CacheInv /\ [Next]_vars => CacheInv'
  <1> SUFFICES ASSUME CacheInv, [Next]_vars PROVE CacheInv'
    OBVIOUS
  <1> USE DEF CacheInv
  <1>1. ASSUME NEW u \in Users, AcquireCached(u) PROVE CacheInv'
    <2>1. CanAcquire(u) /\ ctx # 0
      BY <1>1 DEF AcquireCached
    <2>2. IsFiniteSet(refs') /\ RefCountExact'
      BY <1>1, <2>1, AcquireRefs DEF AcquireCached, RefCountExact, CountedRefs
    <2>3. unload_pending' \in BOOLEAN
      BY <1>1, Zenon DEF AcquireCached, cancelUnloadLocked
    <2>7. refs' \subseteq Users \X (1..MaxConfigs)
      BY <1>1, <2>1, AcquireRefs DEF AcquireCached
    <2>4. TypeOK'
      BY <1>1, <2>3, <2>7 DEF AcquireCached, TypeOK, CountedRefs
    <2>5. HeldModelStaysLoaded'
      BY <1>1, <2>1 DEF AcquireCached, TypeOK, HeldModelStaysLoaded
    <2>6. HoldersCounted'
      <3> SUFFICES ASSUME NEW v \in Users, held'[v] # 0
                   PROVE  \E r \in {v} \X (1..MaxConfigs) : r \in refs'
        BY DEF HoldersCounted
      <3>1. CASE v = u
        BY <1>1, <2>1, <3>1, AcquireRefs DEF AcquireCached
      <3>2. CASE v # u
        BY <1>1, <3>2 DEF AcquireCached, TypeOK, HoldersCounted
      <3> QED
        BY <3>1, <3>2
    <2> QED
      BY <1>1, <2>1, <2>2, <2>4, <2>5, <2>6 DEF AcquireCached, CanAcquire, cancelUnloadLocked,
         CountedRefs, TypeOK, ReferencedModelSafe, PendingHasTask, TasksOwned,
         IdleModelScheduled, NoUserAtExit, NoTaskOutlivesCache
  <1>2. ASSUME NEW u \in Users, AcquireLoad(u) PROVE CacheInv'
    <2>1. CanAcquire(u) /\ ctx = 0 /\ loads < MaxLoads /\ phase = "up"
      BY <1>2 DEF AcquireLoad, CanAcquire
    <2>2. ref_count = 0
      BY <2>1 DEF ReferencedModelSafe, TypeOK
    <2>3. refs = {} /\ \A v \in Users : held[v] = 0
      BY <2>2, UnreferencedUnheld
    <2>4. IsFiniteSet(refs') /\ RefCountExact'
      BY <1>2, <2>1, <2>2, AcquireRefs DEF AcquireLoad, RefCountExact
    <2>7. unload_pending' \in BOOLEAN
      BY <1>2, Zenon DEF AcquireLoad, cancelUnloadLocked
    <2>8. refs' \subseteq Users \X (1..MaxConfigs)
      BY <1>2, <2>1, AcquireRefs DEF AcquireLoad
    <2>5. TypeOK'
      BY <1>2, <2>1, <2>7, <2>8, CacheConstants DEF CacheConstants, AcquireLoad, TypeOK
    <2>6. HeldModelStaysLoaded' /\ HoldersCounted'
      BY <1>2, <2>1, <2>3, AcquireRefs DEF AcquireLoad, TypeOK, HeldModelStaysLoaded, HoldersCounted
    <2> QED
      BY <1>2, <2>1, <2>4, <2>5, <2>6 DEF AcquireLoad, cancelUnloadLocked,
         TypeOK, ReferencedModelSafe, PendingHasTask, TasksOwned,
         IdleModelScheduled, NoUserAtExit, NoTaskOutlivesCache
  <1>3. ASSUME NEW u \in Users, AcquireFail(u) PROVE CacheInv'
    <2>1. unload_pending' \in BOOLEAN
      BY <1>3, Zenon DEF AcquireFail, cancelUnloadLocked
    <2> QED
     BY <1>3, <2>1 DEF AcquireFail, CanAcquire, cancelUnloadLocked, TypeOK, RefCountExact,
       HeldModelStaysLoaded, HoldersCounted, ReferencedModelSafe, PendingHasTask,
       TasksOwned, IdleModelScheduled, NoUserAtExit, NoTaskOutlivesCache
  <1>4. ASSUME NEW u \in Users, CanRelease(u)
        PROVE  /\ IsFiniteSet(refs') /\ Cardinality(refs') = Cardinality(refs) - 1
               /\ refs' \subseteq Users \X (1..MaxConfigs)
               /\ held' \in [Users -> 0..MaxLoads]
               /\ \A v \in Users : held'[v] # 0 => held'[v] = held[v] /\ v # u
               /\ HoldersCounted' /\ ref_count > 0 /\ phase = "up"
    <2>1. \A v \in Users : held'[v] # 0 => held'[v] = held[v] /\ v # u
      BY <1>4 DEF CanRelease, TypeOK
    <2>2. HoldersCounted'
      <3> SUFFICES ASSUME NEW v \in Users, held'[v] # 0
                   PROVE  \E r \in {v} \X (1..MaxConfigs) : r \in refs'
        BY DEF HoldersCounted
      <3>1. v # u /\ held[v] # 0
        BY <2>1
      <3>2. PICK r \in {v} \X (1..MaxConfigs) : r \in refs
        BY <3>1 DEF HoldersCounted
      <3>3. r # ReturnedRef(u)
        BY <1>4, <3>1, ReleaseRefs, RefPairs, Zenon
      <3> QED
        BY <1>4, <3>2, <3>3, Zenon DEF CanRelease
    <2>3. refs' \subseteq Users \X (1..MaxConfigs) /\ held' \in [Users -> 0..MaxLoads]
      BY <1>4, CacheConstants DEF CacheConstants, CanRelease, TypeOK
    <2> QED
      BY <1>4, <2>1, <2>2, <2>3, ReleaseRefs DEF CanRelease
  <1>5. ASSUME NEW u \in Users, ReleaseShared(u) PROVE CacheInv'
    <2>1. CanRelease(u)
      BY <1>5 DEF ReleaseShared
    <2>2. ref_count' = ref_count - 1 /\ ref_count' > 0
      BY <1>5, <1>4, <2>1 DEF ReleaseShared, TypeOK
    <2>3. TypeOK' /\ RefCountExact'
      BY <1>4, <1>5, <2>1, <2>2 DEF ReleaseShared, TypeOK, RefCountExact
    <2> QED
      BY <1>4, <1>5, <2>1, <2>2, <2>3 DEF ReleaseShared, HeldModelStaysLoaded, TypeOK,
         ReferencedModelSafe, PendingHasTask, TasksOwned, IdleModelScheduled,
         NoUserAtExit, NoTaskOutlivesCache
  <1>6. ASSUME NEW u \in Users, ReleaseLast(u) PROVE CacheInv'
    <2>1. CanRelease(u) /\ ref_count = 1
      BY <1>6 DEF ReleaseLast
    <2>2. refs' = {} /\ IsFiniteSet(refs') /\ Cardinality(refs') = 0
      BY <1>4, <2>1, FS_EmptySet DEF RefCountExact
    <2>3. \A v \in Users : held'[v] = 0
      BY <1>4, <2>1, <2>2 DEF HoldersCounted
    <2>4. ref_count' = 0 /\ ctx' \in {0, ctx} /\ ctx # 0
          /\ UNCHANGED <<loads, phase, ttl_seconds>> /\ ttl_seconds \in Int
      BY <1>4, <1>6, <2>1, TtlNat DEF ReleaseLast, unloadLocked, ReferencedModelSafe
    <2>5. age' \in Nat
      BY <1>6, TtlNat DEF ReleaseLast
    <2>6. CASE ttl_seconds > 0
      <3>1. PICK t \in Tasks : timer[t].st = "free" /\ scheduleUnloadLocked(u, t)
        BY <1>6, <2>4, <2>6 DEF ReleaseLast
      <3>2. unload_pending' \in BOOLEAN /\ unload_pending'
        BY <3>1, Zenon DEF scheduleUnloadLocked
      <3>3. timer' \in [Tasks -> [st : {"free", "started", "waiting", "done"}, left : Nat]]
        BY <3>1, TtlNat DEF scheduleUnloadLocked, TypeOK
      <3>4. /\ drain' \in [Users -> Tasks \cup {NoTask}] /\ unload_future' = t
            /\ drain'[u] = unload_future /\ drain[u] = NoTask
            /\ \A v \in Users : v # u => drain'[v] = drain[v]
            /\ timer'[t].st = "started" /\ t # NoTask
            /\ \A w \in Tasks : w # t => timer'[w] = timer[w]
        BY <3>1, <2>1, CacheConstants DEF CacheConstants, scheduleUnloadLocked, CanRelease, TypeOK, NoTask
      <3>5. TypeOK'
        BY <1>4, <2>1, <2>4, <2>5, <3>2, <3>3, <3>4 DEF TypeOK
      <3>6. TasksOwned'
        <4>1. ASSUME NEW v \in Users, drain'[v] # NoTask
              PROVE  /\ timer'[drain'[v]].st # "free" /\ drain'[v] # unload_future'
                     /\ \A w \in Users : drain'[w] = drain'[v] => w = v
          BY <4>1, <3>1, <3>4 DEF TasksOwned, TypeOK
        <4>2. ASSUME NEW w \in Tasks, timer'[w].st # "free", w # t
              PROVE  \E v \in Users : drain'[v] = w
          <5>1. w = unload_future \/ \E v \in Users : drain[v] = w
            BY <4>2, <3>4 DEF TasksOwned
          <5> QED
            BY <5>1, <3>4, <4>2, CacheConstants DEF CacheConstants, NoTask
        <4> QED
          BY <4>1, <4>2, <3>4 DEF TasksOwned
      <3>7. PendingHasTask' /\ IdleModelScheduled'
        BY <2>4, <2>6, <3>2, <3>4 DEF PendingHasTask, IdleModelScheduled, Alive
      <3> QED
        BY <1>4, <2>1, <2>2, <2>3, <2>4, <3>5, <3>6, <3>7
        DEF RefCountExact, HeldModelStaysLoaded, ReferencedModelSafe, NoUserAtExit, NoTaskOutlivesCache
    <2>7. CASE ttl_seconds <= 0
      <3>1. UNCHANGED <<unload_pending, unload_future, timer, drain>> /\ (ttl_seconds = 0 => ctx' = 0)
        BY <1>6, <2>4, <2>7 DEF ReleaseLast, unloadLocked
      <3>2. TypeOK'
        BY <1>4, <2>1, <2>4, <2>5, <3>1 DEF TypeOK
      <3>3. TasksOwned' /\ PendingHasTask'
        BY <2>4, <3>1 DEF TasksOwned, PendingHasTask
      <3> QED
        BY <1>4, <2>1, <2>2, <2>3, <2>4, <2>7, <3>1, <3>2, <3>3
        DEF RefCountExact, HeldModelStaysLoaded, ReferencedModelSafe,
            IdleModelScheduled, NoUserAtExit, NoTaskOutlivesCache
    <2> QED
      BY <2>4, <2>6, <2>7
  <1>7. ASSUME NEW u \in Users, DrainEnd(u) PROVE CacheInv'
    <2>1. timer' \in [Tasks -> [st : {"free", "started", "waiting", "done"}, left : Nat]]
      BY <1>7, TtlNat DEF DrainEnd, TypeOK
    <2>2. /\ drain[u] # NoTask /\ drain[u] \in Tasks /\ timer[drain[u]].st = "done"
          /\ drain' \in [Users -> Tasks \cup {NoTask}] /\ drain'[u] = NoTask
          /\ \A v \in Users : v # u => drain'[v] = drain[v]
          /\ timer'[drain[u]].st = "free"
          /\ \A w \in Tasks : w # drain[u] => timer'[w] = timer[w]
      BY <1>7 DEF DrainEnd, TypeOK, NoTask
    <2>3. UNCHANGED <<ctx, loads, ref_count, refs, held, unload_pending, unload_future, phase, age,
                     ttl_seconds>>
      BY <1>7 DEF DrainEnd
    <2>4. TypeOK'
      BY <2>1, <2>2, <2>3 DEF TypeOK
    <2>5. TasksOwned'
      BY <2>2, <2>3 DEF TasksOwned, TypeOK
    <2>6. PendingHasTask' /\ IdleModelScheduled' /\ NoTaskOutlivesCache' /\ NoUserAtExit'
      BY <2>2, <2>3 DEF PendingHasTask, IdleModelScheduled, NoTaskOutlivesCache, NoUserAtExit,
         TasksOwned, TypeOK, Alive
    <2> QED
      BY <2>3, <2>4, <2>5, <2>6 DEF RefCountExact, HeldModelStaysLoaded, HoldersCounted,
         ReferencedModelSafe
  <1>8. ASSUME NEW t \in Tasks, timer[t].st # "free", timer[t].st \in Alive \cup {"done"},
               NEW q \in [st : {"waiting", "done"}, left : Nat],
               timer' = [timer EXCEPT ![t] = q], UNCHANGED <<unload_future, drain>>
        PROVE  /\ timer' \in [Tasks -> [st : {"free", "started", "waiting", "done"}, left : Nat]]
               /\ timer'[t] = q /\ \A w \in Tasks : w # t => timer'[w] = timer[w]
               /\ TasksOwned'
    <2>1. /\ timer' \in [Tasks -> [st : {"free", "started", "waiting", "done"}, left : Nat]]
          /\ timer'[t] = q /\ \A w \in Tasks : w # t => timer'[w] = timer[w]
      BY <1>8 DEF TypeOK
    <2>2. \A w \in Tasks : timer'[w].st = "free" <=> timer[w].st = "free"
      BY <1>8, <2>1
    <2> QED
      BY <1>8, <2>1, <2>2 DEF TasksOwned, TypeOK, NoTask
  <1>9. ASSUME NEW t \in Tasks, TimerWait(t) PROVE CacheInv'
    <2>1. ttl_seconds \in Nat /\ timer[t].st = "started"
      BY <1>9, TtlNat DEF TimerWait, PendingHasTask
    <2>2. /\ timer' \in [Tasks -> [st : {"free", "started", "waiting", "done"}, left : Nat]]
          /\ timer'[t].st = "waiting" /\ \A w \in Tasks : w # t => timer'[w] = timer[w]
          /\ TasksOwned'
      BY <1>8, <1>9, <2>1 DEF TimerWait, Deadline, Alive
    <2> QED
      BY <1>9, <2>2 DEF TimerWait, TypeOK, RefCountExact, HeldModelStaysLoaded, HoldersCounted,
         ReferencedModelSafe, PendingHasTask, IdleModelScheduled, NoUserAtExit,
         NoTaskOutlivesCache, Alive, shutdown
  <1>10. ASSUME NEW t \in Tasks, TimerCancelled(t) PROVE CacheInv'
    <2>1. /\ timer' \in [Tasks -> [st : {"free", "started", "waiting", "done"}, left : Nat]]
          /\ timer'[t].st = "done" /\ \A w \in Tasks : w # t => timer'[w] = timer[w]
          /\ TasksOwned'
      BY <1>8, <1>10, TtlNat DEF TimerCancelled, Alive
    <2>2. ~unload_pending
      BY <1>10 DEF TimerCancelled, shutdown, NoUserAtExit
    <2> QED
      BY <1>10, <2>1, <2>2 DEF TimerCancelled, TypeOK, RefCountExact, HeldModelStaysLoaded,
         HoldersCounted, ReferencedModelSafe, PendingHasTask, IdleModelScheduled, NoUserAtExit,
         NoTaskOutlivesCache, Alive
  <1>11. ASSUME NEW t \in Tasks, TimerUnload(t) PROVE CacheInv'
    <2>1. ref_count = 0 /\ phase = "up"
      BY <1>11 DEF TimerUnload, shutdown, ReferencedModelSafe, TypeOK
    <2>2. refs = {} /\ \A u \in Users : held[u] = 0
      BY <2>1, UnreferencedUnheld
    <2>3. /\ ctx' = 0 /\ ref_count' = 0
          /\ UNCHANGED <<loads, refs, held, unload_future, drain, phase, age, ttl_seconds>>
      BY <1>11, <2>1 DEF TimerUnload, unloadLocked
    <2>4. unload_pending' \in BOOLEAN /\ ~unload_pending'
      BY <1>11, Zenon DEF TimerUnload
    <2>5. /\ timer' \in [Tasks -> [st : {"free", "started", "waiting", "done"}, left : Nat]]
          /\ TasksOwned'
      BY <1>8, <1>11, TtlNat DEF TimerUnload, TimerExpired, Alive
    <2>6. TypeOK'
      BY <2>3, <2>4, <2>5, CacheConstants DEF CacheConstants, TypeOK
    <2>7. IsFiniteSet(refs') /\ RefCountExact'
      BY <2>1, <2>3 DEF RefCountExact
    <2>8. HeldModelStaysLoaded' /\ HoldersCounted' /\ ReferencedModelSafe'
      BY <2>2, <2>3 DEF HeldModelStaysLoaded, HoldersCounted, ReferencedModelSafe
    <2>9. PendingHasTask' /\ IdleModelScheduled' /\ NoUserAtExit' /\ NoTaskOutlivesCache'
      BY <2>1, <2>3, <2>4 DEF PendingHasTask, IdleModelScheduled, NoUserAtExit, NoTaskOutlivesCache
    <2> QED
      BY <2>5, <2>6, <2>7, <2>8, <2>9
  <1>12. CASE Tick
    <2>1. /\ timer' \in [Tasks -> [st : {"free", "started", "waiting", "done"}, left : Nat]]
          /\ \A t \in Tasks : timer'[t].st = timer[t].st
      BY <1>12, TtlNat DEF Tick, TypeOK
    <2>2. age' \in Nat
      BY <1>12, TtlNat DEF Tick, TypeOK
    <2>3. UNCHANGED <<ctx, loads, ref_count, refs, held, unload_pending, unload_future, drain, phase,
                     ttl_seconds>>
      BY <1>12 DEF Tick
    <2>4. TypeOK'
      BY <2>1, <2>2, <2>3 DEF TypeOK
    <2>5. TasksOwned' /\ PendingHasTask' /\ IdleModelScheduled' /\ NoTaskOutlivesCache'
      BY <2>1, <2>3 DEF TasksOwned, PendingHasTask, IdleModelScheduled, NoTaskOutlivesCache,
         TypeOK, NoTask
    <2> QED
      BY <2>3, <2>4, <2>5 DEF RefCountExact, HeldModelStaysLoaded, HoldersCounted,
         ReferencedModelSafe, NoUserAtExit
  <1>13. CASE Destroy
    <2>1. unload_pending' \in BOOLEAN /\ ~unload_pending'
      BY <1>13, Zenon DEF Destroy
    <2> QED
      BY <1>13, <2>1 DEF Destroy, TypeOK, RefCountExact, HeldModelStaysLoaded, HoldersCounted,
         ReferencedModelSafe, PendingHasTask, TasksOwned, IdleModelScheduled, NoUserAtExit,
         NoTaskOutlivesCache
  <1>14. CASE DestroyEnd
    <2>1. \A u \in Users : held[u] = 0 /\ drain[u] = NoTask
      BY <1>14 DEF DestroyEnd, NoUserAtExit
    <2>2. \A t \in Tasks : timer[t].st \notin Alive
      BY <1>14, <2>1, CacheConstants
      DEF CacheConstants, DestroyEnd, TaskJoined, TasksOwned, TypeOK, Alive, NoTask
    <2> QED
      BY <1>14, <2>1, <2>2, CacheConstants DEF CacheConstants, DestroyEnd, TypeOK, RefCountExact,
         HeldModelStaysLoaded, HoldersCounted, ReferencedModelSafe, PendingHasTask, TasksOwned,
         IdleModelScheduled, NoUserAtExit, NoTaskOutlivesCache
  <1>15. CASE UNCHANGED vars
    BY <1>15 DEF vars, TypeOK, RefCountExact, HeldModelStaysLoaded, HoldersCounted,
       ReferencedModelSafe, PendingHasTask, TasksOwned, IdleModelScheduled, NoUserAtExit,
       NoTaskOutlivesCache
  <1> QED
    BY <1>1, <1>2, <1>3, <1>5, <1>6, <1>7, <1>9, <1>10, <1>11, <1>12, <1>13, <1>14, <1>15
    DEF Next, TimerStep, Terminated

\* CacheInv holds in every reachable state of the cache.
THEOREM CacheSafe == Spec => []CacheInv
  BY CacheInitInv, CacheStepInv, PTL DEF Spec

\* No user ever computes with a context that a timer, a release or an exit has
\* freed or that a load has replaced.
THEOREM NoUseAfterUnload == Spec => []HeldModelStaysLoaded
  BY CacheSafe, PTL DEF CacheInv

\* The reference count is exact.
THEOREM ExactCount == Spec => []RefCountExact
  BY CacheSafe, PTL DEF CacheInv

\* An unreferenced model that is still loaded has a live timer to unload it.
THEOREM UnloadIsScheduled == Spec => []IdleModelScheduled
  BY CacheSafe, PTL DEF CacheInv

\* No timer task is alive when the cache's destructor has ended.
THEOREM TasksEndBeforeCache == Spec => []NoTaskOutlivesCache
  BY CacheSafe, PTL DEF CacheInv
=============================================================================
