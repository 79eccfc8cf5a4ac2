-------------------------- MODULE InferenceLimiter --------------------------
(***************************************************************************)
(* The counting semaphore of src/src/whisper/InferenceLimiter.h that caps  *)
(* concurrent whisper inference.                                           *)
(*                                                                         *)
(* A thread takes a slot without waiting (TryGuard: flushLoop(), HTTP      *)
(* requests), waiting for a bounded time (TryGuard with a timeout:         *)
(* handleEnd()) or for as long as it takes (Guard: engine.transcribe()).   *)
(* Every method runs under mutex_ and is one action; a wait on cv_ is left *)
(* in a second action, once the thread has been notified, has timed out or *)
(* wakes up spuriously.                                                    *)
(***************************************************************************)
EXTENDS Integers, FiniteSets

CONSTANTS
  Threads,      \* threads that run inference
  Limits,       \* arguments of setMaxConcurrency()
  MaxChanges    \* bound: calls of setMaxConcurrency()

ASSUME LimiterConstants ==
  /\ IsFiniteSet(Threads)
  /\ Limits \subseteq Int
  /\ MaxChanges \in Nat

VARIABLES
  active_count, max_concurrent,
  holders,      \* threads with a live guard
  blocked,      \* threads in cv_.wait, notified or not
  timed,        \* threads in cv_.wait_for, notified or not
  notified,     \* waiters that were notified and have not run yet
  changes       \* calls of setMaxConcurrency() so far

vars == <<active_count, max_concurrent, holders, blocked, timed, notified, changes>>

Waiters == blocked \cup timed
Outside == Threads \ (holders \cup Waiters)

TypeOK ==
  /\ active_count \in Nat /\ max_concurrent \in Nat \ {0}
  /\ holders \subseteq Threads /\ blocked \subseteq Threads /\ timed \subseteq Threads
  /\ holders \cap Waiters = {} /\ blocked \cap timed = {}
  /\ notified \subseteq Waiters
  /\ changes \in 0..MaxChanges

\* max_concurrent_ starts at 4; main() sets it before the first connection.
Init ==
  /\ active_count = 0 /\ max_concurrent \in {n \in Limits : n > 0}
  /\ holders = {} /\ blocked = {} /\ timed = {} /\ notified = {}
  /\ changes = 0

HasCapacity_OffByOne == active_count <= max_concurrent

\* The condition of try_acquire() and of both waits.
HasCapacity == active_count < max_concurrent

\* t gets a slot; it is no waiter any more.
Take(t) ==
  /\ active_count' = active_count + 1
  /\ holders' = holders \cup {t}
  /\ blocked' = blocked \ {t} /\ timed' = timed \ {t} /\ notified' = notified \ {t}
  /\ UNCHANGED <<max_concurrent, changes>>

\* try_acquire(), or a wait whose predicate holds at once.
TakeAtOnce(t) == t \in Outside /\ HasCapacity /\ Take(t)

TryGuardFails_Released ==
  /\ active_count' = IF active_count > 0 THEN active_count - 1 ELSE 0
  /\ UNCHANGED <<max_concurrent, holders, blocked, timed, notified, changes>>

\* A TryGuard that got no slot gives none back.
TryGuardFails == UNCHANGED vars

try_acquire_fails(t) == t \in Outside /\ ~HasCapacity /\ TryGuardFails

acquire_waits(t) ==
  /\ t \in Outside /\ ~HasCapacity
  /\ blocked' = blocked \cup {t}
  /\ UNCHANGED <<active_count, max_concurrent, holders, timed, notified, changes>>

try_acquire_for_waits(t) ==
  /\ t \in Outside /\ ~HasCapacity
  /\ timed' = timed \cup {t}
  /\ UNCHANGED <<active_count, max_concurrent, holders, blocked, notified, changes>>

\* A waiter runs again (notified, timed out or for no reason) and finds a slot.
WakeTakes(t) == t \in Waiters /\ HasCapacity /\ Take(t)

\* A notified waiter finds that another thread was faster and waits again.
WakeWaits(t) ==
  /\ t \in notified /\ ~HasCapacity
  /\ notified' = notified \ {t}
  /\ UNCHANGED <<active_count, max_concurrent, holders, blocked, timed, changes>>

\* wait_for() times out: the predicate is evaluated once more, and fails.
TimesOut(t) ==
  /\ t \in timed /\ ~HasCapacity
  /\ timed' = timed \ {t} /\ notified' = notified \ {t}
  /\ UNCHANGED <<active_count, max_concurrent, holders, blocked, changes>>

\* The threads cv_ can still notify.
Sleepers == Waiters \ notified

NotifyOne_Missing == UNCHANGED notified

NotifyOne ==
  IF Sleepers = {} THEN UNCHANGED notified
  ELSE \E w \in Sleepers : notified' = notified \cup {w}

\* release(), from a guard's destructor.
release(t) ==
  /\ t \in holders
  /\ holders' = holders \ {t}
  /\ IF active_count > 0
     THEN active_count' = active_count - 1 /\ NotifyOne
     ELSE UNCHANGED <<active_count, notified>>
  /\ UNCHANGED <<max_concurrent, blocked, timed, changes>>

setMaxConcurrency(n) ==
  /\ n > 0 /\ changes < MaxChanges
  /\ max_concurrent' = n /\ notified' = Waiters
  /\ changes' = changes + 1
  /\ UNCHANGED <<active_count, holders, blocked, timed>>

Next ==
  \/ \E t \in Threads :
       \/ TakeAtOnce(t) \/ try_acquire_fails(t) \/ acquire_waits(t) \/ try_acquire_for_waits(t)
       \/ WakeTakes(t) \/ WakeWaits(t) \/ TimesOut(t) \/ release(t)
  \/ \E n \in Limits : setMaxConcurrency(n)

Spec == Init /\ [][Next]_vars

\* A notified thread runs.  Nobody is obliged to ask for a slot, and an
\* inference may last for ever.
Fairness ==
  \A t \in Threads : WF_vars(t \in notified /\ (WakeTakes(t) \/ WakeWaits(t)))

FairSpec == Spec /\ Fairness

(***************************************************************************)
(* Properties                                                              *)
(***************************************************************************)
\* Nobody oversleeps: while a thread waits without having been notified, every
\* free slot has a notified thread on its way to it, although release() only
\* notifies one and any thread may take the slot first or time out.
NoLostWakeup ==
  Sleepers # {} => max_concurrent - active_count <= Cardinality(notified)

\* active_count_ is the number of live guards: it neither leaks nor underflows.
CountMatchesGuards == active_count = Cardinality(holders)

\* The facts above are inductive together: the count decides who may take a
\* slot, and the wakeup argument counts notified threads against free slots.
LimiterInv == TypeOK /\ CountMatchesGuards /\ NoLostWakeup

\* A slot is only granted below the limit in force, also after it was lowered
\* under running inferences.
CapRespected == [][active_count' > active_count => active_count' <= max_concurrent']_vars

\* A free slot with threads waiting for one is taken.
FreeSlotTaken == (Waiters # {} /\ HasCapacity) ~> (Waiters = {} \/ ~HasCapacity)
=============================================================================
