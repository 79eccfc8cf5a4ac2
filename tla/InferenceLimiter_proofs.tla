----------------------- MODULE InferenceLimiter_proofs -----------------------
(***************************************************************************)
(* InferenceLimiter for any number of threads and any limits: the count is *)
(* exact, no wakeup is lost, and no slot is granted above the limit.       *)
(***************************************************************************)
EXTENDS InferenceLimiter, FiniteSetTheorems, TLAPS

\* Sets of threads are finite, so counting them gives a natural number.
LEMMA ThreadSetsFinite ==
  ASSUME TypeOK
  PROVE  /\ IsFiniteSet(holders) /\ IsFiniteSet(blocked) /\ IsFiniteSet(timed)
         /\ IsFiniteSet(notified) /\ IsFiniteSet(Waiters)
         /\ Cardinality(holders) \in Nat /\ Cardinality(notified) \in Nat
<1>1. IsFiniteSet(Threads)
  BY LimiterConstants DEF LimiterConstants
<1>2. /\ holders \subseteq Threads /\ blocked \subseteq Threads /\ timed \subseteq Threads
      /\ Waiters \subseteq Threads /\ notified \subseteq Threads
  BY DEF TypeOK, Waiters
<1>3. /\ IsFiniteSet(holders) /\ IsFiniteSet(blocked) /\ IsFiniteSet(timed)
      /\ IsFiniteSet(notified) /\ IsFiniteSet(Waiters)
  BY <1>1, <1>2, FS_Subset
<1> QED
  BY <1>3, FS_CardinalityType

\* The limiter starts with no guard and no waiter (constructor, main()).
LEMMA LimiterInitInv == Init => LimiterInv
<1> SUFFICES ASSUME Init PROVE LimiterInv
  OBVIOUS
<1>1. TypeOK
  BY LimiterConstants DEF LimiterConstants, Init, TypeOK, Waiters
<1>2. CountMatchesGuards
  BY FS_EmptySet DEF Init, CountMatchesGuards
<1>3. NoLostWakeup
  BY DEF Init, NoLostWakeup, Sleepers, Waiters
<1> QED
  BY <1>1, <1>2, <1>3 DEF LimiterInv

\* Granting a slot, whether at once or after a wait, uses up at most one
\* notified thread together with the slot it was notified for.
LEMMA TakeKeepsInv ==
  ASSUME NEW t \in Threads, LimiterInv, HasCapacity, t \notin holders, Take(t)
  PROVE  LimiterInv'
<1> USE DEF LimiterInv
<1>1. TypeOK'
  BY DEF TypeOK, Take, Waiters
<1>2. CountMatchesGuards'
  <2>1. Cardinality(holders \cup {t}) = Cardinality(holders) + 1
    BY ThreadSetsFinite, FS_AddElement
  <2> QED
    BY <2>1 DEF CountMatchesGuards, Take
<1>3. NoLostWakeup'
  <2>1. Cardinality(notified) - 1 <= Cardinality(notified \ {t}) /\ Cardinality(notified \ {t}) \in Int
    <3>a. IsFiniteSet(notified) /\ Cardinality(notified) \in Nat
      BY ThreadSetsFinite
    <3>1. CASE t \in notified
      <4>1. Cardinality(notified \ {t}) = Cardinality(notified) - 1
        BY <3>a, <3>1, FS_RemoveElement
      <4> QED
        BY <3>a, <4>1
    <3>2. CASE t \notin notified
      <4>1. notified \ {t} = notified
        BY <3>2
      <4>2. Cardinality(notified \ {t}) = Cardinality(notified)
        BY ONLY <4>1, Zenon
      <4> QED
        BY <3>a, <4>2
    <3> QED
      BY <3>1, <3>2
  <2>2. SUFFICES ASSUME Sleepers' # {}
                 PROVE  max_concurrent - (active_count + 1) <= Cardinality(notified \ {t})
    BY DEF NoLostWakeup, Take
  <2>3. Sleepers # {}
    BY <2>2 DEF Sleepers, Waiters, Take
  <2>4. max_concurrent - active_count <= Cardinality(notified)
    BY <2>3 DEF NoLostWakeup
  <2> QED
    BY <2>1, <2>4, ThreadSetsFinite DEF TypeOK
<1> QED
  BY <1>1, <1>2, <1>3

\* Giving a slot back notifies a sleeping thread for it, if there is one.
LEMMA ReleaseKeepsInv ==
  ASSUME NEW t \in Threads, LimiterInv, release(t)
  PROVE  LimiterInv'
<1> USE DEF LimiterInv
<1>1. t \in holders /\ holders' = holders \ {t} /\ UNCHANGED <<max_concurrent, blocked, timed, changes>>
  BY DEF release
<1>2. Cardinality(holders \ {t}) = Cardinality(holders) - 1 /\ Cardinality(holders \ {t}) \in Nat
  BY <1>1, ThreadSetsFinite, FS_RemoveElement, FS_CardinalityType
<1>3. active_count > 0 /\ active_count' = active_count - 1 /\ NotifyOne
  BY <1>2, ThreadSetsFinite DEF CountMatchesGuards, release, TypeOK
<1>4. notified' \subseteq Waiters /\ Waiters' = Waiters
  BY <1>1, <1>3 DEF NotifyOne, Sleepers, Waiters, TypeOK
<1>5. TypeOK'
  BY <1>1, <1>3, <1>4 DEF TypeOK, Waiters
<1>6. CountMatchesGuards'
  BY <1>1, <1>2, <1>3 DEF CountMatchesGuards
<1>7. NoLostWakeup'
  <2>1. SUFFICES ASSUME Sleepers' # {}
                 PROVE  max_concurrent - (active_count - 1) <= Cardinality(notified')
    BY <1>1, <1>3 DEF NoLostWakeup
  <2>2. Sleepers # {}
    BY <2>1, <1>3, <1>4 DEF Sleepers, NotifyOne
  <2>3. PICK w \in Sleepers : notified' = notified \cup {w}
    BY <2>2, <1>3 DEF NotifyOne
  <2>4. Cardinality(notified') = Cardinality(notified) + 1
    BY <2>3, ThreadSetsFinite, FS_AddElement DEF Sleepers
  <2>5. max_concurrent - active_count <= Cardinality(notified)
    BY <2>2 DEF NoLostWakeup
  <2> QED
    BY <2>4, <2>5, ThreadSetsFinite DEF TypeOK
<1> QED
  BY <1>5, <1>6, <1>7

\* One step per operation of the limiter.
LEMMA LimiterStepInv == LimiterInv /\ [Next]_vars => LimiterInv'
<1> SUFFICES ASSUME LimiterInv, [Next]_vars PROVE LimiterInv'
  OBVIOUS
<1> USE DEF LimiterInv
<1>1. ASSUME NEW t \in Threads, TakeAtOnce(t) PROVE LimiterInv'
  BY <1>1, TakeKeepsInv DEF TakeAtOnce, Outside
<1>2. ASSUME NEW t \in Threads, WakeTakes(t) PROVE LimiterInv'
  BY <1>2, TakeKeepsInv DEF WakeTakes, TypeOK
<1>3. ASSUME UNCHANGED vars PROVE LimiterInv'
  BY <1>3 DEF vars, TypeOK, CountMatchesGuards, NoLostWakeup, Sleepers, Waiters
<1>4. ASSUME NEW t \in Threads, try_acquire_fails(t) PROVE LimiterInv'
  BY <1>3, <1>4 DEF try_acquire_fails, TryGuardFails
<1>5. ASSUME NEW t \in Threads, acquire_waits(t) \/ try_acquire_for_waits(t) PROVE LimiterInv'
  <2> USE <1>5 DEF acquire_waits, try_acquire_for_waits
  <2>1. TypeOK'
    BY DEF TypeOK, Waiters, Outside
  <2>2. CountMatchesGuards'
    BY DEF CountMatchesGuards
  <2>3. max_concurrent' - active_count' <= 0 /\ notified' = notified
    BY DEF HasCapacity, TypeOK
  <2>4. NoLostWakeup'
    BY <2>3, ThreadSetsFinite DEF NoLostWakeup, TypeOK
  <2> QED
    BY <2>1, <2>2, <2>4
<1>6. ASSUME NEW t \in Threads, WakeWaits(t) \/ TimesOut(t) PROVE LimiterInv'
  <2> USE <1>6 DEF WakeWaits, TimesOut
  <2>1. TypeOK'
    BY DEF TypeOK, Waiters
  <2>2. CountMatchesGuards'
    BY DEF CountMatchesGuards
  <2>3. max_concurrent' - active_count' <= 0
    BY DEF HasCapacity, TypeOK
  <2>4. Cardinality(notified') \in Nat
    BY ThreadSetsFinite, FS_Subset, FS_CardinalityType
  <2>5. NoLostWakeup'
    BY <2>3, <2>4 DEF NoLostWakeup, TypeOK
  <2> QED
    BY <2>1, <2>2, <2>5
<1>7. ASSUME NEW t \in Threads, release(t) PROVE LimiterInv'
  BY <1>7, ReleaseKeepsInv
<1>8. ASSUME NEW n \in Limits, setMaxConcurrency(n) PROVE LimiterInv'
  <2> USE <1>8 DEF setMaxConcurrency
  <2>1. TypeOK'
    BY LimiterConstants DEF LimiterConstants, TypeOK, Waiters
  <2>2. CountMatchesGuards'
    BY DEF CountMatchesGuards
  <2>3. NoLostWakeup'
    BY DEF NoLostWakeup, Sleepers, Waiters
  <2> QED
    BY <2>1, <2>2, <2>3
<1> QED
  BY <1>1, <1>2, <1>3, <1>4, <1>5, <1>6, <1>7, <1>8 DEF Next

\* The inductive invariant of the limiter holds in every reachable state.
THEOREM LimiterSafe == Spec => []LimiterInv
<1> QED
  BY LimiterInitInv, LimiterStepInv, PTL DEF Spec

\* release() may notify one thread only: no thread sleeps on while a slot is
\* free that no notified thread is on its way to.
THEOREM WakeupsSuffice == Spec => []NoLostWakeup
<1>1. LimiterInv => NoLostWakeup
  BY DEF LimiterInv
<1> QED
  BY <1>1, LimiterSafe, PTL

\* active_count_ is the number of live guards, so release() never underflows it.
THEOREM GuardsCounted == Spec => []CountMatchesGuards
<1>1. LimiterInv => CountMatchesGuards
  BY DEF LimiterInv
<1> QED
  BY <1>1, LimiterSafe, PTL

\* No step of any thread raises active_count_ above the limit in force.
THEOREM NeverAboveLimit == Spec => CapRespected
<1>1. LimiterInv /\ [Next]_vars
        => [active_count' > active_count => active_count' <= max_concurrent']_vars
  <2> SUFFICES ASSUME LimiterInv, Next, active_count' > active_count
               PROVE  active_count' <= max_concurrent'
    OBVIOUS
  <2> USE DEF LimiterInv, TypeOK
  <2>1. ASSUME NEW t \in Threads, TakeAtOnce(t) \/ WakeTakes(t)
        PROVE  active_count' <= max_concurrent'
    BY <2>1 DEF TakeAtOnce, WakeTakes, Take, HasCapacity
  <2>2. ASSUME NEW t \in Threads,
               try_acquire_fails(t) \/ acquire_waits(t) \/ try_acquire_for_waits(t)
                 \/ WakeWaits(t) \/ TimesOut(t)
        PROVE  FALSE
    BY <2>2 DEF try_acquire_fails, TryGuardFails, vars, acquire_waits, try_acquire_for_waits,
                WakeWaits, TimesOut
  <2>3. ASSUME NEW t \in Threads, release(t) PROVE FALSE
    BY <2>3 DEF release
  <2>4. ASSUME NEW n \in Limits, setMaxConcurrency(n) PROVE FALSE
    BY <2>4 DEF setMaxConcurrency
  <2> QED
    BY <2>1, <2>2, <2>3, <2>4 DEF Next
<1> QED
  BY <1>1, LimiterSafe, PTL DEF Spec, CapRespected
=============================================================================
