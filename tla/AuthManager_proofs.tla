------------------------- MODULE AuthManager_proofs -------------------------
(***************************************************************************)
(* A revoked token stays refused, for any set of callers and tokens and    *)
(* every configuration.                                                    *)
(***************************************************************************)
EXTENDS AuthManager, TLAPS

\* What an entry of the cache is: an answer with ticks left, or none at all.
LEMMA EntryFields ==
  ASSUME NEW e \in Entries
  PROVE  e.is_valid \in BOOLEAN /\ e.left \in Int
  <1>1. CASE e \in [is_valid : BOOLEAN, left : Nat]
    BY <1>1
  <1>2. CASE e = NoEntry
    <2>1. e.is_valid = FALSE /\ e.left = -1
      BY <1>2 DEF NoEntry
    <2>2. e.is_valid \in BOOLEAN
      BY <2>1, Zenon
    <2> QED
      BY <2>1, <2>2
  <1> QED
    BY <1>1, <1>2 DEF Entries

\* put() stores an entry, whatever the configured TTL.
LEMMA PutEntry ==
  ASSUME TypeOK, NEW t \in Tokens, NEW allowed \in BOOLEAN, put(t, allowed)
  PROVE  /\ entries' \in [Tokens -> Entries]
         /\ entries'[t].is_valid = allowed
         /\ \A u \in Tokens : u # t => entries'[u] = entries[u]
  <1> DEFINE e == [is_valid |-> allowed, left |-> IF cache_ttl > 0 THEN cache_ttl ELSE 0]
  <1>1. e \in Entries
    BY AuthConstants DEF AuthConstants, TypeOK, Entries
  <1>2. entries' = [entries EXCEPT ![t] = e]
    BY DEF put
  <1>3. entries'[t].is_valid = allowed
    BY <1>2, Zenon DEF TypeOK
  <1> HIDE DEF e
  <1> QED
    BY <1>1, <1>2, <1>3 DEF TypeOK

\* A caller in flight has a token, and the types of all variables are kept.
AuthInv ==
  /\ TypeOK
  /\ \A c \in Callers : pc[c] \in {"ask", "answered"} => token[c] \in Tokens

\* The constructor establishes AuthInv.
LEMMA AuthInit == Init => AuthInv
  BY DEF Init, AuthInv, TypeOK, Entries, AuthResult

\* Every step of a caller, of the service, of time and of the tokens' owner
\* preserves AuthInv.
LEMMA AuthStep == AuthInv /\ [Next]_vars => AuthInv'
  <1> SUFFICES ASSUME AuthInv, [Next]_vars PROVE AuthInv'
    OBVIOUS
  <1> USE DEF AuthInv
  <1>1. ASSUME NEW c \in Callers, NEW t \in Tokens, DecideAlone(c, t) PROVE AuthInv'
    BY <1>1 DEF DecideAlone, Enter, Return, config, TypeOK, AuthResult
  <1>2. ASSUME NEW c \in Callers, NEW t \in Tokens, CacheHit(c, t) PROVE AuthInv'
    BY <1>2 DEF CacheHit, Enter, Return, config, TypeOK, AuthResult
  <1>3. ASSUME NEW c \in Callers, NEW t \in Tokens, CacheMiss(c, t) PROVE AuthInv'
    <2>1. NoEntry \in Entries
      BY DEF Entries
    <2> QED
      BY <1>3, <2>1 DEF CacheMiss, Enter, Looked, config, TypeOK
  <1>4. ASSUME NEW c \in Callers, ApiAnswers(c) PROVE AuthInv'
    <2>1. \A reply : ResultOf(reply) \in AuthResult
      BY DEF ResultOf, AuthResult
    <2> QED
      BY <1>4, <2>1 DEF ApiAnswers, config, TypeOK
  <1>5. ASSUME NEW c \in Callers, CacheAnswer(c) PROVE AuthInv'
    <2>1. entries' \in [Tokens -> Entries]
      <3>1. token[c] \in Tokens
        BY <1>5 DEF CacheAnswer
      <3> QED
        BY <1>5, <3>1, PutEntry DEF CacheAnswer, TypeOK
    <2> QED
      BY <1>5, <2>1 DEF CacheAnswer, Return, config, TypeOK
  <1>6. ASSUME NEW c \in Callers, Leave(c) PROVE AuthInv'
    BY <1>6 DEF Leave, config, TypeOK
  <1>7. CASE Tick
    <2>1. \A t \in Tokens : entries[t].left > 0 =>
            [entries[t] EXCEPT !.left = @ - 1] \in Entries
      BY DEF TypeOK, Entries, NoEntry
    <2> QED
      BY <1>7, <2>1 DEF Tick, config, TypeOK
  <1>8. ASSUME NEW t \in Tokens, Toggle(t) PROVE AuthInv'
    BY <1>8 DEF Toggle, config, TypeOK
  <1>9. CASE UNCHANGED vars
    BY <1>9 DEF vars, config, TypeOK
  <1> QED
    BY <1>1, <1>2, <1>3, <1>4, <1>5, <1>6, <1>7, <1>8, <1>9 DEF Next, CallerStep

\* The types of AuthManager's variables hold in every behaviour.
THEOREM AuthTypes == Spec => []AuthInv
  BY AuthInit, AuthStep, PTL DEF Spec

\* One step: with the service in charge, no step lets a revoked token in.
LEMMA RevokedStep ==
  ASSUME AuthInv, [Next]_vars, NEW t \in Tokens, ApiDecides, Revoked(t), ~active'[t]
  PROVE  Revoked(t)'
  <1> USE DEF AuthInv, Revoked, Granting
  <1>1. ASSUME NEW c \in Callers, NEW u \in Tokens, DecideAlone(c, u) PROVE Revoked(t)'
    BY <1>1 DEF DecideAlone, ApiDecides, auth_enabled
  <1>2. ASSUME NEW c \in Callers, NEW u \in Tokens, CacheHit(c, u) PROVE Revoked(t)'
    BY <1>2 DEF CacheHit, Fresh, Enter, Return, TypeOK
  <1>3. ASSUME NEW c \in Callers, NEW u \in Tokens, CacheMiss(c, u) PROVE Revoked(t)'
    <2>1. entries'[t] \in {entries[t], NoEntry}
      BY <1>3 DEF CacheMiss, Looked, TypeOK
    <2>2. ~(entries'[t].is_valid /\ entries'[t].left > 0)
      BY <2>1 DEF NoEntry
    <2> QED
      BY <1>3, <2>2 DEF CacheMiss, Enter, TypeOK
  <1>4. ASSUME NEW c \in Callers, ApiAnswers(c) PROVE Revoked(t)'
    <2>1. token[c] = t => answer'[c] # "Allowed"
      BY <1>4 DEF ApiAnswers, Replies, ResultOf, TypeOK
    <2> QED
      BY <1>4, <2>1 DEF ApiAnswers, TypeOK
  <1>5. ASSUME NEW c \in Callers, CacheAnswer(c) PROVE Revoked(t)'
    <2>1. token[c] \in Tokens /\ pc[c] = "answered"
      BY <1>5 DEF CacheAnswer
    <2>2. ~(entries'[t].is_valid /\ entries'[t].left > 0)
      BY <1>5, <2>1, PutEntry DEF CacheAnswer, TypeOK
    <2> QED
      BY <1>5, <2>1, <2>2 DEF CacheAnswer, Return, TypeOK
  <1>6. ASSUME NEW c \in Callers, Leave(c) PROVE Revoked(t)'
    BY <1>6 DEF Leave, TypeOK
  <1>7. CASE Tick
    <2>1. entries[t] \in Entries
      BY DEF TypeOK
    <2>2. entries'[t].is_valid = entries[t].is_valid
          /\ (entries'[t].left > 0 => entries[t].left > 0)
      BY <1>7, <2>1, EntryFields DEF Tick, Entries, NoEntry
    <2> QED
      BY <1>7, <2>2 DEF Tick
  <1>8. ASSUME NEW u \in Tokens, Toggle(u) PROVE Revoked(t)'
    BY <1>8 DEF Toggle
  <1>9. CASE UNCHANGED vars
    BY <1>9 DEF vars
  <1> QED
    BY <1>1, <1>2, <1>3, <1>4, <1>5, <1>6, <1>7, <1>8, <1>9 DEF Next, CallerStep

\* A token the service has revoked, with no earlier answer still in force,
\* stays refused until the service takes it back, whatever callers, outages
\* and expiring entries do.
THEOREM AuthRevocationHolds == Spec => RevocationHolds
  <1>1. AuthInv /\ [Next]_vars =>
          [\A t \in Tokens : (ApiDecides /\ Revoked(t) /\ ~active'[t]) => Revoked(t)']_vars
    BY RevokedStep
  <1> QED
    BY <1>1, AuthTypes, PTL DEF Spec, RevocationHolds
=============================================================================
