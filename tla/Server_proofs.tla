---------------------------- MODULE Server_proofs ----------------------------
(***************************************************************************)
(* Server for any number of connections: what every thread's exit path     *)
(* leaves behind, and that the server uses ConnectionLimiter as its own    *)
(* specification allows, so that its theorem holds of the server.          *)
(***************************************************************************)
EXTENDS Server, FiniteSetTheorems, TLAPS

(***************************************************************************)
(* ConnectionLimiter for any set of connections, addresses and caps: the   *)
(* counters are exact, and therefore the caps hold.                        *)
(***************************************************************************)
\* What the caps rest on: exact counters over sets of the right type.
LimiterInv == LimiterTypeOK /\ SlotCountsExact /\ CapsHold

\* Any set of connections that hold a slot is finite, and so is countable.
LEMMA SlotSetsFinite ==
  ASSUME LimiterTypeOK
  PROVE  /\ IsFiniteSet(slots) /\ Cardinality(slots) \in Nat
         /\ \A S \in SUBSET slots : IsFiniteSet(S) /\ Cardinality(S) \in Nat
<1>1. IsFiniteSet(slots)
  BY ConnectionConstants, FS_Subset DEF ConnectionConstants, LimiterTypeOK
<1> QED
  BY <1>1, FS_Subset, FS_CardinalityType

\* The limiter is constructed with zero counters.
LEMMA LimiterInitInv == LimiterInit => LimiterInv
<1> SUFFICES ASSUME LimiterInit PROVE LimiterInv
  OBVIOUS
<1>1. LimiterTypeOK
  BY DEF LimiterInit, LimiterTypeOK
<1>2. \A i \in Ips : SlotsOf(i) = {} /\ SlotsOf(i) \ exempt = {}
  BY DEF LimiterInit, SlotsOf
<1>3. SlotCountsExact
  BY <1>2, FS_EmptySet DEF LimiterInit, SlotCountsExact
<1>4. CapsHold
  BY <1>2, FS_EmptySet, ConnectionConstants DEF ConnectionConstants, LimiterInit, CapsHold
<1> QED
  BY <1>1, <1>3, <1>4 DEF LimiterInv

\* tryAcquire() counts the new connection under its own address only, and an
\* untrusted one is below the per-address cap together with the trusted ones.
LEMMA TryAcquireInv ==
  ASSUME LimiterInv, NEW c \in Conns, NEW trusted \in BOOLEAN, tryAcquire(c, trusted)
  PROVE  LimiterInv'
<1> DEFINE ip == IpOf[c]
<1> USE DEF LimiterInv
<1>a. ip \in Ips /\ c \notin slots /\ CanAcquire(c, trusted)
  BY ConnectionConstants DEF ConnectionConstants, tryAcquire
<1>b. /\ slots' = slots \cup {c} /\ total' = total + 1
      /\ per_ip' = [per_ip EXCEPT ![ip] = @ + 1]
      /\ exempt' = IF trusted THEN exempt \cup {c} ELSE exempt
  BY DEF tryAcquire
<1>1. LimiterTypeOK'
  <2>1. per_ip' \in [Ips -> Nat]
    BY <1>a, <1>b DEF LimiterTypeOK
  <2>2. slots' \subseteq Conns /\ exempt' \subseteq slots' /\ total' \in Nat
    BY <1>b DEF LimiterTypeOK
  <2> QED
    BY <2>1, <2>2 DEF LimiterTypeOK
<1>2. SlotsOf(ip)' = SlotsOf(ip) \cup {c} /\ c \notin SlotsOf(ip)
  BY <1>a, <1>b DEF SlotsOf
<1>3. \A i \in Ips \ {ip} : SlotsOf(i)' = SlotsOf(i)
  BY <1>a, <1>b DEF SlotsOf
<1>4. \A i \in Ips : IsFiniteSet(SlotsOf(i)) /\ Cardinality(SlotsOf(i)) \in Nat
  <2> SUFFICES ASSUME NEW i \in Ips PROVE IsFiniteSet(SlotsOf(i)) /\ Cardinality(SlotsOf(i)) \in Nat
    OBVIOUS
  <2>1. SlotsOf(i) \in SUBSET slots
    BY DEF SlotsOf
  <2> QED
    BY <2>1, SlotSetsFinite
<1>5. Cardinality(slots') = Cardinality(slots) + 1
  BY <1>a, <1>b, SlotSetsFinite, FS_AddElement
<1>6. Cardinality(SlotsOf(ip)') = Cardinality(SlotsOf(ip)) + 1
  BY <1>2, <1>4, <1>a, FS_AddElement
<1>7. SlotCountsExact'
  <2>1. total' = Cardinality(slots')
    BY <1>5, <1>b DEF SlotCountsExact
  <2>2. ASSUME NEW i \in Ips PROVE per_ip'[i] = Cardinality(SlotsOf(i)')
    <3>1. CASE i = ip
      BY <3>1, <1>6, <1>b, <1>a DEF SlotCountsExact, LimiterTypeOK
    <3>2. CASE i # ip
      <4>1. per_ip'[i] = per_ip[i]
        BY <3>2, <1>b DEF LimiterTypeOK
      <4> QED
        BY <4>1, <3>2, <1>3 DEF SlotCountsExact
    <3> QED
      BY <3>1, <3>2
  <2> QED
    BY <2>1, <2>2 DEF SlotCountsExact
<1>8. CapsHold'
  <2>1. Cardinality(slots') <= MaxTotal
    BY <1>5, <1>a, SlotSetsFinite, ConnectionConstants
       DEF ConnectionConstants, CanAcquire, SlotCountsExact
  <2>2. ASSUME NEW i \in Ips PROVE Cardinality(SlotsOf(i)' \ exempt') <= MaxPerIp
    <3>1. CASE i # ip
      <4>1. SlotsOf(i)' \ exempt' = SlotsOf(i) \ exempt
        BY <3>1, <1>3, <1>b, <1>a DEF SlotsOf
      <4>2. Cardinality(SlotsOf(i) \ exempt) <= MaxPerIp
        BY DEF CapsHold
      <4> QED
        BY <4>1, <4>2
    <3>2. CASE i = ip /\ trusted
      <4>1. SlotsOf(i)' \ exempt' = SlotsOf(i) \ exempt
        BY <3>2, <1>2, <1>b, <1>a DEF SlotsOf, LimiterTypeOK
      <4>2. Cardinality(SlotsOf(i) \ exempt) <= MaxPerIp
        BY DEF CapsHold
      <4> QED
        BY <4>1, <4>2
    <3>3. CASE i = ip /\ ~trusted
      <4>1. IsFiniteSet(SlotsOf(ip)') /\ SlotsOf(ip)' \ exempt' \subseteq SlotsOf(ip)'
        BY <1>2, <1>4, <1>a, FS_AddElement
      <4>2. /\ Cardinality(SlotsOf(ip)' \ exempt') \in Nat
            /\ Cardinality(SlotsOf(ip)' \ exempt') <= Cardinality(SlotsOf(ip)')
        BY <4>1, FS_Subset, FS_CardinalityType
      <4>3. Cardinality(SlotsOf(ip)) < MaxPerIp
        BY <3>3, <1>a DEF CanAcquire, SlotCountsExact
      <4>4. Cardinality(SlotsOf(ip)') <= MaxPerIp
        BY <4>3, <1>6, <1>4, <1>a, ConnectionConstants DEF ConnectionConstants
      <4>5. Cardinality(SlotsOf(ip)') \in Nat
        BY <4>1, FS_CardinalityType
      <4>6. Cardinality(SlotsOf(ip)' \ exempt') <= MaxPerIp
        BY <4>2, <4>4, <4>5, ConnectionConstants DEF ConnectionConstants
      <4> QED
        BY <3>3, <4>6
    <3> QED
      BY <3>1, <3>2, <3>3
  <2> QED
    BY <2>1, <2>2 DEF CapsHold
<1> QED
  BY <1>1, <1>7, <1>8

\* release() gives back exactly the slot of the connection, so the test against
\* zero in the code never hides a lost decrement.
LEMMA ReleaseInv ==
  ASSUME LimiterInv, NEW c \in Conns, release(c)
  PROVE  LimiterInv'
<1> DEFINE ip == IpOf[c]
<1> USE DEF LimiterInv
<1>a. ip \in Ips /\ c \in slots
  BY ConnectionConstants DEF ConnectionConstants, release
<1>b. /\ slots' = slots \ {c} /\ total' = Decremented(total)
      /\ per_ip' = [per_ip EXCEPT ![ip] = Decremented(@)]
      /\ exempt' = exempt \ {c}
  BY DEF release
<1>1. LimiterTypeOK'
  <2>1. per_ip' \in [Ips -> Nat]
    BY <1>a, <1>b DEF LimiterTypeOK, Decremented
  <2>2. slots' \subseteq Conns /\ exempt' \subseteq slots' /\ total' \in Nat
    BY <1>b DEF LimiterTypeOK, Decremented
  <2> QED
    BY <2>1, <2>2 DEF LimiterTypeOK
<1>2. SlotsOf(ip)' = SlotsOf(ip) \ {c} /\ c \in SlotsOf(ip)
  BY <1>a, <1>b DEF SlotsOf
<1>3. \A i \in Ips \ {ip} : SlotsOf(i)' = SlotsOf(i)
  BY <1>a, <1>b DEF SlotsOf
<1>4. \A i \in Ips : IsFiniteSet(SlotsOf(i)) /\ Cardinality(SlotsOf(i)) \in Nat
  <2> SUFFICES ASSUME NEW i \in Ips PROVE IsFiniteSet(SlotsOf(i)) /\ Cardinality(SlotsOf(i)) \in Nat
    OBVIOUS
  <2>1. SlotsOf(i) \in SUBSET slots
    BY DEF SlotsOf
  <2> QED
    BY <2>1, SlotSetsFinite
<1>5. Cardinality(slots') = Cardinality(slots) - 1 /\ Cardinality(slots') \in Nat
  BY <1>a, <1>b, SlotSetsFinite, FS_RemoveElement, FS_CardinalityType
<1>6. Cardinality(SlotsOf(ip)') = Cardinality(SlotsOf(ip)) - 1 /\ Cardinality(SlotsOf(ip)') \in Nat
  BY <1>2, <1>4, <1>a, FS_RemoveElement, FS_CardinalityType
<1>7. SlotCountsExact'
  <2>1. total' = Cardinality(slots')
    BY <1>5, <1>b, SlotSetsFinite DEF SlotCountsExact, Decremented
  <2>2. ASSUME NEW i \in Ips PROVE per_ip'[i] = Cardinality(SlotsOf(i)')
    <3>1. CASE i = ip
      <4>1. per_ip'[ip] = Decremented(per_ip[ip]) /\ per_ip[ip] = Cardinality(SlotsOf(ip))
        BY <1>b, <1>a DEF SlotCountsExact, LimiterTypeOK
      <4>2. per_ip'[ip] = Cardinality(SlotsOf(ip)')
        BY <4>1, <1>6, <1>4, <1>a DEF Decremented
      <4> QED
        BY <3>1, <4>2
    <3>2. CASE i # ip
      <4>1. per_ip'[i] = per_ip[i]
        BY <3>2, <1>b DEF LimiterTypeOK
      <4> QED
        BY <4>1, <3>2, <1>3 DEF SlotCountsExact
    <3> QED
      BY <3>1, <3>2
  <2> QED
    BY <2>1, <2>2 DEF SlotCountsExact
<1>8. CapsHold'
  <2>1. Cardinality(slots') <= MaxTotal
    BY <1>5, SlotSetsFinite, ConnectionConstants DEF ConnectionConstants, CapsHold
  <2>2. ASSUME NEW i \in Ips PROVE Cardinality(SlotsOf(i)' \ exempt') <= MaxPerIp
    <3>1. SlotsOf(i)' \ exempt' \subseteq SlotsOf(i) \ exempt
      BY <1>b DEF SlotsOf
    <3>2. SlotsOf(i) \ exempt \in SUBSET slots
      BY DEF SlotsOf
    <3>3. IsFiniteSet(SlotsOf(i) \ exempt) /\ Cardinality(SlotsOf(i) \ exempt) \in Nat
      BY <3>2, SlotSetsFinite
    <3>4. /\ Cardinality(SlotsOf(i)' \ exempt') \in Nat
          /\ Cardinality(SlotsOf(i)' \ exempt') <= Cardinality(SlotsOf(i) \ exempt)
      BY <3>1, <3>3, FS_Subset, FS_CardinalityType
    <3>5. Cardinality(SlotsOf(i) \ exempt) <= MaxPerIp
      BY DEF CapsHold
    <3> QED
      BY <3>3, <3>4, <3>5, ConnectionConstants DEF ConnectionConstants
  <2> QED
    BY <2>1, <2>2 DEF CapsHold
<1> QED
  BY <1>1, <1>7, <1>8

\* Both methods keep the counters exact and the caps in force.
LEMMA LimiterStepInv == LimiterInv /\ [LimiterNext]_limiterVars => LimiterInv'
<1> SUFFICES ASSUME LimiterInv, [LimiterNext]_limiterVars PROVE LimiterInv'
  OBVIOUS
<1>1. CASE LimiterNext
  BY <1>1, TryAcquireInv, ReleaseInv DEF LimiterNext
<1>2. CASE UNCHANGED limiterVars
  BY <1>2 DEF limiterVars, LimiterInv, LimiterTypeOK, SlotCountsExact, CapsHold, SlotsOf
<1> QED
  BY <1>1, <1>2

\* Under any use of tryAcquire() and release() that returns each slot once, the
\* counters are exact and neither cap is ever exceeded.
THEOREM LimiterSafe == LimiterSpec => [](SlotCountsExact /\ CapsHold)
<1>1. LimiterInv => SlotCountsExact /\ CapsHold
  BY DEF LimiterInv
<1> QED
  BY <1>1, LimiterInitInv, LimiterStepInv, PTL DEF LimiterSpec

(***************************************************************************)
(* Server                                                                  *)
(***************************************************************************)

\* The conjuncts of ServerInv about the types of the connections' variables.
ConnTypes ==
  /\ conn \in [Conns -> ConnStates]
  /\ sock \in [Conns -> {"none", "open", "shut", "closed"}]
  /\ armed \subseteq Conns /\ tracker \subseteq Conns

\* No connection exists before the accept loop starts.
LEMMA ServerInitInv == Init => ServerInv
<1> SUFFICES ASSUME Init PROVE ServerInv
  OBVIOUS
<1>1. ConnTypes
  BY DEF Init, ConnTypes, ConnStates
<1>2. SlotsMatchConnections /\ TrackedSessionsAlive /\ SocketOwned /\ ThreadsKnown /\ MainSequence
  BY DEF Init, LimiterInit, SlotsMatchConnections, TrackedSessionsAlive, SocketOwned, ThreadsKnown,
         MainSequence, Live, Holds, ThreadStates
<1> QED
  BY <1>1, <1>2 DEF ServerInv, ConnTypes

\* Steps of main(), the signal handler and the refresher that leave every
\* connection alone.
LEMMA MainStepInv ==
  ASSUME ServerInv, UNCHANGED <<connVars, limiterVars>>, MainSequence'
  PROVE  ServerInv'
<1> USE DEF connVars, limiterVars, ServerInv
<1>1. SlotsMatchConnections' /\ TrackedSessionsAlive' /\ SocketOwned' /\ ThreadsKnown'
  BY DEF SlotsMatchConnections, TrackedSessionsAlive, SocketOwned, ThreadsKnown, Live, Holds
<1> QED
  BY <1>1

\* shutdown() on any set of sockets closes none of them: the owners still hold
\* them, wherever they are.
LEMMA ShutInv ==
  ASSUME ServerInv, NEW S, sock' = Shut(S), armed' \subseteq armed,
         UNCHANGED <<main, exit, conn, session_threads, tracker, limiterVars>>
  PROVE  ServerInv'
<1> USE DEF ServerInv, limiterVars
<1>1. \A c \in Conns : Holds(c)' = Holds(c)
  BY DEF Shut, Holds
<1>2. sock' \in [Conns -> {"none", "open", "shut", "closed"}]
  BY DEF Shut
<1>3. SlotsMatchConnections' /\ MainSequence'
  BY DEF SlotsMatchConnections, MainSequence, Live
<1>4. TrackedSessionsAlive' /\ SocketOwned'
  BY <1>1 DEF TrackedSessionsAlive, SocketOwned
<1>5. ThreadsKnown'
  BY DEF ThreadsKnown, Live
<1> QED
  BY <1>2, <1>3, <1>4, <1>5

\* Steps that move one connection, one lemma step per action.
LEMMA ConnStepInv ==
  ASSUME ServerInv, NEW c \in Conns,
         \/ AcceptConn(c) \/ Reject(c) \/ Admit(c) \/ Spawn(c) \/ SpawnFails(c)
         \/ ReadRequest(c) \/ StartSession(c) \/ Unregister(c) \/ LeaveTry(c) \/ ThreadEnds(c)
  PROVE  ServerInv'
<1> USE DEF ServerInv
<1>1. CASE AcceptConn(c)
  <2> USE <1>1 DEF AcceptConn, limiterVars
  <2>1. ConnTypes'
    BY DEF ConnTypes, ConnStates, ThreadStates
  <2>2. SlotsMatchConnections'
    BY DEF SlotsMatchConnections, Live, ThreadStates
  <2>3. TrackedSessionsAlive'
    BY DEF TrackedSessionsAlive, SocketOwned, Holds
  <2>4. SocketOwned'
    BY DEF SocketOwned, TrackedSessionsAlive, Holds
  <2>5. ThreadsKnown'
    BY DEF ThreadsKnown, Live, ThreadStates
  <2>6. MainSequence'
    BY DEF MainSequence, Live, ThreadStates
  <2> QED
    BY <2>1, <2>2, <2>3, <2>4, <2>5, <2>6 DEF ConnTypes
<1>2. CASE Reject(c)
  <2> USE <1>2 DEF Reject, Refused, mainVars, limiterVars
  <2>1. ConnTypes'
    BY DEF ConnTypes, ConnStates, ThreadStates
  <2>2. SlotsMatchConnections'
    BY DEF SlotsMatchConnections, Live, ThreadStates
  <2>3. TrackedSessionsAlive'
    BY DEF TrackedSessionsAlive, SocketOwned, Holds
  <2>4. SocketOwned'
    BY DEF SocketOwned, TrackedSessionsAlive, Holds
  <2>5. ThreadsKnown'
    BY DEF ThreadsKnown, Live, ThreadStates
  <2>6. MainSequence'
    BY DEF MainSequence, Live, ThreadStates
  <2> QED
    BY <2>1, <2>2, <2>3, <2>4, <2>5, <2>6 DEF ConnTypes
<1>3. CASE Admit(c)
  <2> USE <1>3 DEF Admit, tryAcquire, mainVars
  <2>1. ConnTypes'
    BY DEF ConnTypes, ConnStates, ThreadStates
  <2>2. SlotsMatchConnections'
    BY DEF SlotsMatchConnections, Live, ThreadStates
  <2>3. TrackedSessionsAlive'
    BY DEF TrackedSessionsAlive, SocketOwned, Holds
  <2>4. SocketOwned'
    BY DEF SocketOwned, TrackedSessionsAlive, Holds
  <2>5. ThreadsKnown'
    BY DEF ThreadsKnown, Live, ThreadStates
  <2>6. MainSequence'
    BY DEF MainSequence, Live, ThreadStates
  <2> QED
    BY <2>1, <2>2, <2>3, <2>4, <2>5, <2>6 DEF ConnTypes
<1>4. CASE Spawn(c)
  <2> USE <1>4 DEF Spawn, mainVars, limiterVars
  <2>1. ConnTypes'
    BY DEF ConnTypes, ConnStates, ThreadStates
  <2>2. SlotsMatchConnections'
    BY DEF SlotsMatchConnections, Live, ThreadStates
  <2>3. TrackedSessionsAlive'
    BY DEF TrackedSessionsAlive, SocketOwned, Holds
  <2>4. SocketOwned'
    BY DEF SocketOwned, TrackedSessionsAlive, Holds
  <2>5. ThreadsKnown'
    BY DEF ThreadsKnown, Live, ThreadStates
  <2>6. MainSequence'
    BY DEF MainSequence, Live, ThreadStates
  <2> QED
    BY <2>1, <2>2, <2>3, <2>4, <2>5, <2>6 DEF ConnTypes
<1>5. CASE SpawnFails(c)
  <2> USE <1>5 DEF SpawnFails, Refused, release, mainVars
  <2>1. ConnTypes'
    BY DEF ConnTypes, ConnStates, ThreadStates
  <2>2. SlotsMatchConnections'
    BY DEF SlotsMatchConnections, Live, ThreadStates
  <2>3. TrackedSessionsAlive'
    BY DEF TrackedSessionsAlive, SocketOwned, Holds
  <2>4. SocketOwned'
    BY DEF SocketOwned, TrackedSessionsAlive, Holds
  <2>5. ThreadsKnown'
    BY DEF ThreadsKnown, Live, ThreadStates
  <2>6. MainSequence'
    BY DEF MainSequence, Live, ThreadStates
  <2> QED
    BY <2>1, <2>2, <2>3, <2>4, <2>5, <2>6 DEF ConnTypes
<1>6. CASE ReadRequest(c)
  <2> USE <1>6 DEF ReadRequest, mainVars, limiterVars
  <2>1. ConnTypes'
    BY DEF ConnTypes, ConnStates, ThreadStates
  <2>2. SlotsMatchConnections'
    BY DEF SlotsMatchConnections, Live, ThreadStates
  <2>3. TrackedSessionsAlive'
    BY DEF TrackedSessionsAlive, SocketOwned, Holds
  <2>4. SocketOwned'
    BY DEF SocketOwned, TrackedSessionsAlive, Holds
  <2>5. ThreadsKnown'
    BY DEF ThreadsKnown, Live, ThreadStates
  <2>6. MainSequence'
    BY DEF MainSequence, Live, ThreadStates
  <2> QED
    BY <2>1, <2>2, <2>3, <2>4, <2>5, <2>6 DEF ConnTypes
<1>7. CASE StartSession(c)
  <2> USE <1>7 DEF StartSession, mainVars, limiterVars
  <2>1. ConnTypes'
    BY DEF ConnTypes, ConnStates, ThreadStates
  <2>2. SlotsMatchConnections'
    BY DEF SlotsMatchConnections, Live, ThreadStates
  <2>3. TrackedSessionsAlive'
    BY DEF TrackedSessionsAlive, SocketOwned, Holds
  <2>4. SocketOwned'
    BY DEF SocketOwned, TrackedSessionsAlive, Holds
  <2>5. ThreadsKnown'
    BY DEF ThreadsKnown, Live, ThreadStates
  <2>6. MainSequence'
    BY DEF MainSequence, Live, ThreadStates
  <2> QED
    BY <2>1, <2>2, <2>3, <2>4, <2>5, <2>6 DEF ConnTypes
<1>8. CASE LeaveTry(c)
  <2> USE <1>8 DEF LeaveTry, mainVars, limiterVars
  <2>1. ConnTypes'
    BY DEF ConnTypes, ConnStates, ThreadStates
  <2>2. SlotsMatchConnections'
    BY DEF SlotsMatchConnections, Live, ThreadStates
  <2>3. TrackedSessionsAlive'
    BY DEF TrackedSessionsAlive, SocketOwned, Holds
  <2>4. SocketOwned'
    BY DEF SocketOwned, TrackedSessionsAlive, Holds
  <2>5. ThreadsKnown'
    BY DEF ThreadsKnown, Live, ThreadStates
  <2>6. MainSequence'
    BY DEF MainSequence, Live, ThreadStates
  <2> QED
    BY <2>1, <2>2, <2>3, <2>4, <2>5, <2>6 DEF ConnTypes
<1>9. CASE ThreadEnds(c)
  <2> USE <1>9 DEF ThreadEnds, release, mainVars
  <2>1. ConnTypes'
    BY DEF ConnTypes, ConnStates, ThreadStates
  <2>2. SlotsMatchConnections'
    BY DEF SlotsMatchConnections, Live, ThreadStates
  <2>3. TrackedSessionsAlive'
    BY DEF TrackedSessionsAlive, SocketOwned, Holds
  <2>4. SocketOwned'
    BY DEF SocketOwned, TrackedSessionsAlive, Holds
  <2>5. ThreadsKnown'
    BY DEF ThreadsKnown, Live, ThreadStates
  <2>6. MainSequence'
    BY DEF MainSequence, Live, ThreadStates
  <2> QED
    BY <2>1, <2>2, <2>3, <2>4, <2>5, <2>6 DEF ConnTypes
<1>10. CASE Unregister(c)
  <2> USE <1>10 DEF Unregister, mainVars, limiterVars
  <2>1. ConnTypes'
    BY DEF ConnTypes, ConnStates, ThreadStates
  <2>2. SlotsMatchConnections'
    BY DEF SlotsMatchConnections, Live, ThreadStates
  <2>3. TrackedSessionsAlive'
    BY DEF TrackedSessionsAlive, SocketOwned, Holds
  <2>4. SocketOwned'
    BY DEF SocketOwned, TrackedSessionsAlive, Holds
  <2>5. ThreadsKnown'
    BY DEF ThreadsKnown, Live, ThreadStates
  <2>6. MainSequence'
    BY DEF MainSequence, Live, ThreadStates
  <2> QED
    BY <2>1, <2>2, <2>3, <2>4, <2>5, <2>6 DEF ConnTypes
<1> QED
  BY <1>1, <1>2, <1>3, <1>4, <1>5, <1>6, <1>7, <1>8, <1>9, <1>10

\* Every step of every thread preserves the invariant.
LEMMA ServerStepInv == ServerInv /\ [Next]_vars => ServerInv'
<1> SUFFICES ASSUME ServerInv, [Next]_vars PROVE ServerInv'
  OBVIOUS
<1>1. ASSUME NEW c \in Conns,
             \/ AcceptConn(c) \/ Reject(c) \/ Admit(c) \/ Spawn(c) \/ SpawnFails(c)
             \/ ReadRequest(c) \/ StartSession(c) \/ Unregister(c) \/ LeaveTry(c) \/ ThreadEnds(c)
      PROVE  ServerInv'
  BY <1>1, ConnStepInv
<1>2. ASSUME \/ IocRuns \/ RegisterSignals \/ SignalArrives \/ HandlerCloses \/ LoopTest
             \/ EnterAccept \/ AcceptFails \/ Refresh \/ RefresherEnds \/ ForcedExit
      PROVE  ServerInv'
  <2>1. UNCHANGED <<connVars, limiterVars>>
    BY <1>2 DEF IocRuns, RegisterSignals, SignalArrives, HandlerCloses, LoopTest, EnterAccept,
                AcceptFails, Refresh, RefresherEnds, ForcedExit
  <2>2. MainSequence'
    BY <1>2, <2>1 DEF IocRuns, RegisterSignals, SignalArrives, HandlerCloses, LoopTest, EnterAccept,
                      AcceptFails, Refresh, RefresherEnds, ForcedExit, MainSequence, Live,
                      ServerInv, connVars, mainVars
  <2> QED
    BY <2>1, <2>2, MainStepInv
<1>3. ASSUME NEW c \in Conns, RemoteEndpointThrows(c) \/ WatchdogThreadFails(c)
      PROVE  ServerInv'
  BY <1>3, MainStepInv DEF RemoteEndpointThrows, WatchdogThreadFails, MainSequence, Live, ServerInv, connVars
<1>4. ASSUME Joined PROVE ServerInv'
  <2>1. Live' = {} /\ UNCHANGED <<connVars, limiterVars>>
    BY <1>4 DEF Joined, ThreadsJoined, ServerInv, ThreadsKnown, Live, ThreadStates, connVars
  <2>2. MainSequence'
    BY <1>4, <2>1 DEF Joined, MainSequence, ServerInv, connVars
  <2> QED
    BY <2>1, <2>2, MainStepInv
<1>5. ASSUME HandlerShutsDown PROVE ServerInv'
  BY <1>5, ShutInv DEF HandlerShutsDown
<1>6. ASSUME NEW c \in Conns, HandshakeTimeout(c) PROVE ServerInv'
  BY <1>6, ShutInv DEF HandshakeTimeout, mainVars
<1>7. ASSUME NEW c \in Conns, SocketDies(c) PROVE ServerInv'
  BY <1>7, ShutInv DEF SocketDies, mainVars
<1>8. ASSUME UNCHANGED vars PROVE ServerInv'
  BY <1>8, MainStepInv DEF vars, mainVars, connVars, MainSequence, Live, ServerInv
<1> QED
  BY <1>1, <1>2, <1>3, <1>4, <1>5, <1>6, <1>7, <1>8
     DEF Next, Step, MainStep, IocStep, Terminated

\* The inductive invariant of the server holds in every reachable state.
THEOREM ServerSafe == Spec => []ServerInv
<1> QED
  BY ServerInitInv, ServerStepInv, PTL DEF Spec

\* A slot is held by exactly the connections that are being started or have a
\* thread, for any number of them and on every exit path.
THEOREM NoSlotLeaks == Spec => []SlotsMatchConnections
<1>1. ServerInv => SlotsMatchConnections
  BY DEF ServerInv
<1> QED
  BY <1>1, ServerSafe, PTL

\* The signal handler's shutdownAll() never meets a destroyed session.
THEOREM NoDeadSessionTracked == Spec => []TrackedSessionsAlive
<1>1. ServerInv => TrackedSessionsAlive
  BY DEF ServerInv
<1> QED
  BY <1>1, ServerSafe, PTL

\* The server implements the specification of ConnectionLimiter: it acquires a
\* slot for a connection that has none and returns it once.
THEOREM ServerUsesLimiter == Spec => LimiterSpec
<1>1. Init => LimiterInit
  BY DEF Init
<1>2. [Next]_vars => [LimiterNext]_limiterVars
  <2> SUFFICES ASSUME [Next]_vars PROVE LimiterNext \/ UNCHANGED limiterVars
    OBVIOUS
  <2>1. ASSUME NEW c \in Conns, Admit(c) PROVE LimiterNext
    <3>1. isTrusted(IpOf[c]) \in BOOLEAN
      BY Zenon DEF isTrusted
    <3> QED
      BY <2>1, <3>1 DEF Admit, LimiterNext
  <2>2. ASSUME NEW c \in Conns, SpawnFails(c) \/ ThreadEnds(c) PROVE LimiterNext
    BY <2>2 DEF SpawnFails, ThreadEnds, LimiterNext
  <2>3. ASSUME NEW c \in Conns,
               \/ AcceptConn(c) \/ Reject(c) \/ Spawn(c) \/ RemoteEndpointThrows(c)
               \/ WatchdogThreadFails(c) \/ ReadRequest(c) \/ StartSession(c)
               \/ Unregister(c) \/ LeaveTry(c)
               \/ HandshakeTimeout(c) \/ SocketDies(c)
        PROVE  UNCHANGED limiterVars
    BY <2>3 DEF AcceptConn, Reject, Spawn, RemoteEndpointThrows, WatchdogThreadFails,
                ReadRequest, StartSession, Unregister, LeaveTry, HandshakeTimeout, SocketDies
  <2>4. ASSUME \/ IocRuns \/ RegisterSignals \/ SignalArrives \/ HandlerCloses
               \/ HandlerShutsDown \/ LoopTest \/ EnterAccept \/ AcceptFails \/ Refresh \/ RefresherEnds
               \/ Joined \/ ForcedExit \/ UNCHANGED vars
        PROVE  UNCHANGED limiterVars
    BY <2>4 DEF IocRuns, RegisterSignals, SignalArrives, HandlerCloses, HandlerShutsDown,
                LoopTest, EnterAccept, AcceptFails, Refresh, RefresherEnds, Joined, ForcedExit, vars
  <2> QED
    BY <2>1, <2>2, <2>3, <2>4 DEF Next, Step, MainStep, IocStep, Terminated
<1> QED
  BY <1>1, <1>2, PTL DEF Spec, LimiterSpec

\* The server never has more connections than its caps allow, whichever way
\* connections end and whenever addresses gain or lose trust.
THEOREM ServerCapsHold == Spec => []CapsHold
<1>1. (SlotCountsExact /\ CapsHold) => CapsHold
  OBVIOUS
<1> QED
  BY <1>1, ServerUsesLimiter, LimiterSafe, PTL

\* The limiter's counters are exact in the running server: total and per address
\* they are the number of slots that connections hold.
THEOREM ServerCountsExact == Spec => []SlotCountsExact
<1>1. (SlotCountsExact /\ CapsHold) => SlotCountsExact
  OBVIOUS
<1> QED
  BY <1>1, ServerUsesLimiter, LimiterSafe, PTL

\* A graceful exit leaves no thread, slot, session, watchdog or socket behind.
THEOREM GracefulExit == Spec => []GracefulExitClean
<1>1. (ServerInv /\ SlotCountsExact) => GracefulExitClean
  <2> SUFFICES ASSUME ServerInv, SlotCountsExact, exit = "graceful"
               PROVE  /\ Live = {} /\ total = 0 /\ tracker = {} /\ armed = {}
                      /\ \A c \in Conns : ~Holds(c)
    BY DEF GracefulExitClean
  <2> USE DEF ServerInv
  <2>1. Live = {} /\ \A c \in Conns : conn[c] \in {"none", "refused", "ended"}
    BY DEF MainSequence, Live, ThreadStates, ConnStates
  <2>2. \A c \in Conns : ~Holds(c)
    BY <2>1 DEF SocketOwned
  <2>3. tracker = {} /\ armed = {}
    BY <2>1 DEF TrackedSessionsAlive, ThreadsKnown
  <2>4. slots = {}
    BY <2>1 DEF SlotsMatchConnections
  <2>5. total = 0
    BY <2>4, FS_EmptySet DEF SlotCountsExact
  <2> QED
    BY <2>1, <2>2, <2>3, <2>5
<1>2. (SlotCountsExact /\ CapsHold) => SlotCountsExact
  OBVIOUS
<1> QED
  BY <1>1, <1>2, ServerSafe, ServerUsesLimiter, LimiterSafe, PTL
=============================================================================
