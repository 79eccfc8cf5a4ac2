---------------------------- MODULE AuthManager ----------------------------
(***************************************************************************)
(* Token checks: AuthManager::validate(), called by every HTTP request and *)
(* every "config" message on the thread of its connection, with the        *)
(* AuthCache all of them share and the ApiAuthClient that asks an external *)
(* service.                                                                *)
(*                                                                         *)
(* AuthCache::get() and put() hold its mutex; the request to the service   *)
(* lies between them and holds nothing.  A caller can therefore be any     *)
(* time between the moment the service decided and the moment the answer   *)
(* is cached, while tokens are revoked and other callers cache theirs.     *)
(***************************************************************************)
EXTENDS Integers

CONSTANTS
  Callers,       \* threads that call validate()
  Tokens,        \* tokens clients present
  StaticTokens,  \* values of --auth-token, NoToken if it is not given
  NoToken,       \* the empty string
  TTLs           \* values of --auth-cache-ttl, in ticks

ASSUME AuthConstants ==
  /\ NoToken \notin Tokens /\ StaticTokens \subseteq Tokens \cup {NoToken}
  /\ TTLs \subseteq Int

VARIABLES
  static_token,  \* static_token_
  api_client,    \* whether there is an api_client_ (--auth-api-url)
  cache_ttl,     \* cache_ttl_seconds_
  entries,       \* AuthCache::entries_: the answer and the ticks it has left
  pc,            \* where each caller is in validate()
  token,         \* the token it was called with
  answer,        \* what ApiAuthClient::validate() returns to it
  verdict,       \* what validate() returns to it, true for "Allowed" only
  active         \* the service's own view of each token

config == <<static_token, api_client, cache_ttl>>
vars == <<config, entries, pc, token, answer, verdict, active>>

AuthResult == {"Allowed", "Denied", "ApiUnavailable"}
NoEntry == [is_valid |-> FALSE, left |-> -1]
Entries == [is_valid : BOOLEAN, left : Nat] \cup {NoEntry}

TypeOK ==
  /\ static_token \in StaticTokens /\ api_client \in BOOLEAN /\ cache_ttl \in TTLs
  /\ entries \in [Tokens -> Entries]
  /\ pc \in [Callers -> {"idle", "ask", "answered", "return"}]
  /\ token \in [Callers -> Tokens \cup {NoToken}]
  /\ answer \in [Callers -> AuthResult] /\ verdict \in [Callers -> AuthResult]
  /\ active \in [Tokens -> BOOLEAN]

\* The constructor, for every configuration; the cache starts empty.
Init ==
  /\ static_token \in StaticTokens /\ api_client \in BOOLEAN /\ cache_ttl \in TTLs
  /\ entries = [t \in Tokens |-> NoEntry]
  /\ pc = [c \in Callers |-> "idle"] /\ token = [c \in Callers |-> NoToken]
  /\ answer = [c \in Callers |-> "Denied"] /\ verdict = [c \in Callers |-> "Denied"]
  /\ active \in [Tokens -> BOOLEAN]

auth_enabled == api_client \/ static_token # NoToken

(***************************************************************************)
(* AuthCache                                                               *)
(***************************************************************************)
Fresh_Ever(t) == entries[t] # NoEntry

\* now() < expires_at
Fresh(t) == entries[t].left > 0

\* get() erases the entry it finds expired.
Looked(t) == IF Fresh(t) THEN entries ELSE [entries EXCEPT ![t] = NoEntry]

\* put() overwrites whatever is there.
put(t, allowed) ==
  entries' = [entries EXCEPT ![t] =
                [is_valid |-> allowed, left |-> IF cache_ttl > 0 THEN cache_ttl ELSE 0]]

(***************************************************************************)
(* AuthManager::validate(t) on the thread of c                             *)
(***************************************************************************)
Return(c, v) ==
  /\ pc' = [pc EXCEPT ![c] = "return"] /\ verdict' = [verdict EXCEPT ![c] = v]

Enter(c, t) == pc[c] = "idle" /\ token' = [token EXCEPT ![c] = t]

\* Authentication is off, or a static token decides alone.
DecideAlone(c, t) ==
  /\ Enter(c, t) /\ (~auth_enabled \/ static_token # NoToken)
  /\ Return(c, IF ~auth_enabled \/ t = static_token THEN "Allowed" ELSE "Denied")
  /\ UNCHANGED <<config, entries, answer, active>>

CacheHit_Renews(c, t) ==
  /\ Enter(c, t) /\ auth_enabled /\ static_token = NoToken /\ Fresh(t)
  /\ Return(c, IF entries[t].is_valid THEN "Allowed" ELSE "Denied")
  /\ put(t, entries[t].is_valid)
  /\ UNCHANGED <<config, answer, active>>

CacheHit(c, t) ==
  /\ Enter(c, t) /\ auth_enabled /\ static_token = NoToken /\ Fresh(t)
  /\ Return(c, IF entries[t].is_valid THEN "Allowed" ELSE "Denied")
  /\ UNCHANGED <<config, entries, answer, active>>

CacheMiss(c, t) ==
  /\ Enter(c, t) /\ auth_enabled /\ static_token = NoToken /\ ~Fresh(t)
  /\ entries' = Looked(t)
  /\ pc' = [pc EXCEPT ![c] = "ask"]
  /\ UNCHANGED <<config, answer, verdict, active>>

(***************************************************************************)
(* ApiAuthClient::validate(): one GET of <base url>/client                 *)
(***************************************************************************)
\* What the service may answer about t: what it thinks of the token, or
\* something the client cannot use.  "no_answer" stands for every way the
\* request can fail (bad URL, no route, connect, TLS, read).
Replies(t) ==
  {"no_answer", "200_garbage", "5xx"} \cup
    IF active[t] THEN {"200_active"} ELSE {"200_inactive", "401", "403"}

ResultOf(reply) ==
  CASE reply \in {"401", "403", "200_inactive"} -> "Denied"
    [] reply = "200_active" -> "Allowed"
    [] OTHER -> "ApiUnavailable"

\* The service decides; the answer is on its way to c.  Nothing obliges the
\* service to answer, and no timer ends the wait: expires_after() does not
\* apply to the synchronous calls the client makes.
ApiAnswers(c) ==
  /\ pc[c] = "ask"
  /\ \E reply \in Replies(token[c]) : answer' = [answer EXCEPT ![c] = ResultOf(reply)]
  /\ pc' = [pc EXCEPT ![c] = "answered"]
  /\ UNCHANGED <<config, entries, token, verdict, active>>

Cacheable_Always(result) == TRUE

\* Not knowing is a refusal, and is not remembered.
Cacheable(result) == result # "ApiUnavailable"

CacheAnswer(c) ==
  /\ pc[c] = "answered"
  /\ IF Cacheable(answer[c]) THEN put(token[c], answer[c] = "Allowed")
                             ELSE UNCHANGED entries
  /\ Return(c, answer[c])
  /\ UNCHANGED <<config, token, answer, active>>

\* The caller goes on with its answer: granted only if it is "Allowed".
Leave(c) ==
  /\ pc[c] = "return" /\ pc' = [pc EXCEPT ![c] = "idle"]
  /\ UNCHANGED <<config, entries, token, answer, verdict, active>>

(***************************************************************************)
(* Environment: steady_clock, and the service's tokens                     *)
(***************************************************************************)
Tick ==
  /\ \E t \in Tokens : entries[t].left > 0
  /\ entries' = [t \in Tokens |-> IF entries[t].left > 0
                                 THEN [entries[t] EXCEPT !.left = @ - 1] ELSE entries[t]]
  /\ UNCHANGED <<config, pc, token, answer, verdict, active>>

Toggle(t) ==
  /\ active' = [active EXCEPT ![t] = ~@]
  /\ UNCHANGED <<config, entries, pc, token, answer, verdict>>

CallerStep(c) == CacheAnswer(c) \/ Leave(c)

Next ==
  \/ \E c \in Callers :
       \/ \E t \in Tokens : DecideAlone(c, t) \/ CacheHit(c, t) \/ CacheMiss(c, t)
       \/ ApiAnswers(c) \/ CallerStep(c)
  \/ Tick
  \/ \E t \in Tokens : Toggle(t)

Spec == Init /\ [][Next]_vars

\* A thread that has its answer goes on, and time passes.  Nothing obliges a
\* client to call or the service to answer.
Fairness == (\A c \in Callers : WF_vars(CallerStep(c))) /\ WF_vars(Tick)

FairSpec == Spec /\ Fairness

(***************************************************************************)
(* Properties                                                              *)
(***************************************************************************)
Granting(c, t) == pc[c] = "return" /\ token[c] = t /\ verdict[c] = "Allowed"
Refusing(c, t) == pc[c] = "return" /\ token[c] = t /\ verdict[c] = "Denied"

\* The service refuses t, and nothing it said earlier is still in force: no
\* unexpired entry and no caller on its way to store or to use an old answer.
Revoked(t) ==
  /\ ~active[t]
  /\ ~(entries[t].is_valid /\ entries[t].left > 0)
  /\ \A c \in Callers : ~(pc[c] = "answered" /\ token[c] = t /\ answer[c] = "Allowed")
  /\ \A c \in Callers : ~Granting(c, t)

ApiDecides == api_client /\ static_token = NoToken

\* A token that is revoked stays refused until the service takes it back: no
\* failure of the service, no expired entry and no order of callers lets it in.
RevocationHolds ==
  [][\A t \in Tokens : (ApiDecides /\ Revoked(t) /\ ~active'[t]) => Revoked(t)']_vars

\* A token the service refuses for good is let in only finitely often, although
\* answers from before may still be in flight and are cached when they arrive.
RefusedInTheEnd ==
  \A t \in Tokens :
    (ApiDecides /\ <>[]~active[t]) => <>[](\A c \in Callers : ~Granting(c, t))

\* A token the service accepts for good is in the end refused only when the
\* service cannot be asked: neither an outage nor an old denial is remembered.
AdmittedInTheEnd ==
  \A t \in Tokens :
    (ApiDecides /\ <>[]active[t]) => <>[](\A c \in Callers : ~Refusing(c, t))

\* "External auth API (takes precedence over --auth-token)": with both given a
\* token the service has revoked is not let in.
ApiTakesPrecedence ==
  [][\A t \in Tokens : (api_client /\ Revoked(t) /\ ~active'[t]) => Revoked(t)']_vars

\* "Auth API request timeout": a request that was made comes to an end.
RequestTimesOut == \A c \in Callers : (pc[c] = "ask") ~> (pc[c] # "ask")
=============================================================================
