-------------------------- MODULE ConnectionLimiter --------------------------
(***************************************************************************)
(* src/src/server/ConnectionLimiter: the global and the per-address cap on *)
(* connections.  Both methods run under mutex_, so each is one action; the *)
(* accept loop calls tryAcquire(), and release() is called by the session  *)
(* threads (~ConnectionGuard) or by the accept loop when no thread could   *)
(* be started.                                                             *)
(***************************************************************************)
EXTENDS Integers, FiniteSets

CONSTANTS
  Conns,      \* connections that arrive in one behaviour
  Ips,        \* client addresses
  IpOf,       \* the address of each connection
  MaxTotal,   \* max_connections
  MaxPerIp    \* max_connections_per_ip

ASSUME ConnectionConstants ==
  /\ IsFiniteSet(Conns) /\ IpOf \in [Conns -> Ips]
  /\ MaxTotal \in Nat /\ MaxPerIp \in Nat

VARIABLES
  total,      \* total_
  per_ip,     \* per_ip_: an address without an entry counts 0
  slots,      \* connections that were granted a slot and have not returned it
  exempt      \* those of them that were granted it as a trusted proxy

limiterVars == <<total, per_ip, slots, exempt>>

LimiterTypeOK ==
  /\ total \in Nat /\ per_ip \in [Ips -> Nat]
  /\ slots \subseteq Conns /\ exempt \subseteq slots

LimiterInit ==
  /\ total = 0 /\ per_ip = [i \in Ips |-> 0]
  /\ slots = {} /\ exempt = {}

CanAcquire_OffByOne(c, trusted) ==
  /\ total < MaxTotal
  /\ trusted \/ per_ip[IpOf[c]] <= MaxPerIp

\* The global cap always applies, the per-address cap not to trusted proxies.
CanAcquire(c, trusted) ==
  /\ total < MaxTotal
  /\ trusted \/ per_ip[IpOf[c]] < MaxPerIp

tryAcquire(c, trusted) ==
  /\ c \notin slots /\ CanAcquire(c, trusted)
  /\ per_ip' = [per_ip EXCEPT ![IpOf[c]] = @ + 1] /\ total' = total + 1
  /\ slots' = slots \cup {c}
  /\ exempt' = IF trusted THEN exempt \cup {c} ELSE exempt

Decremented_KeepsLast(n) == IF n > 1 THEN n - 1 ELSE n

\* A size_t that is never decremented below zero.
Decremented(n) == IF n > 0 THEN n - 1 ELSE n

release(c) ==
  /\ c \in slots
  /\ per_ip' = [per_ip EXCEPT ![IpOf[c]] = Decremented(@)] /\ total' = Decremented(total)
  /\ slots' = slots \ {c} /\ exempt' = exempt \ {c}

LimiterNext ==
  \E c \in Conns : release(c) \/ \E trusted \in BOOLEAN : tryAcquire(c, trusted)

LimiterSpec == LimiterInit /\ [][LimiterNext]_limiterVars

(***************************************************************************)
(* Properties                                                              *)
(***************************************************************************)
SlotsOf(i) == {c \in slots : IpOf[c] = i}

\* The counters are the connections that hold a slot, in total and by address:
\* none leaks and none is returned twice, on whatever path a connection ends.
SlotCountsExact ==
  /\ total = Cardinality(slots)
  /\ \A i \in Ips : per_ip[i] = Cardinality(SlotsOf(i))

\* There are never more connections than max_connections, trusted or not, nor
\* more than max_connections_per_ip untrusted ones of an address, although an
\* address may become trusted or lose its trust while it has connections.
CapsHold ==
  /\ Cardinality(slots) <= MaxTotal
  /\ \A i \in Ips : Cardinality(SlotsOf(i) \ exempt) <= MaxPerIp
=============================================================================
