--------------------------- MODULE TokenProvider ---------------------------
(***************************************************************************)
(* The OAuth token provider (internal/auth/oauth.go): Token serves the     *)
(* cached credentials while they are fresh and otherwise refreshes them in *)
(* a singleflight shared by all callers, the gRPC calls and the readiness  *)
(* probe.                                                                  *)
(*                                                                         *)
(* Time is discrete.  The server issues tokens in the order 1, 2, ...; it  *)
(* knows when one really expires and may say so (expires_in) or not, in    *)
(* which case the code assumes DefaultTTL.  The code starts the lifetime   *)
(* when the answer has arrived, the server when it issued the token.       *)
(***************************************************************************)
EXTENDS Integers

CONSTANTS
  Callers,       \* the goroutines that call Token
  Lifetimes,     \* lifetimes of tokens announced with expires_in
  DefaultTTL,    \* Provider.defaultTTL
  RefreshAhead,  \* Provider.refreshAhead
  MaxLatency,    \* bound on the time an answer is on its way
  MaxTime,       \* bound on the clock
  MaxTokens      \* bound on the tokens issued

ASSUME TokenProviderAssumption ==
  /\ DefaultTTL \in Nat /\ RefreshAhead \in Nat /\ MaxLatency \in Nat
  /\ MaxTime \in Nat /\ MaxTokens \in Nat /\ Lifetimes \subseteq Nat
  /\ MaxLatency <= RefreshAhead
  /\ MaxLatency < DefaultTTL /\ \A l \in Lifetimes : MaxLatency < l

None == [serial |-> 0, ttl |-> 0, issuedAt |-> 0, validUntil |-> 0]

VARIABLES
  now,
  cached, expiresAt,   \* Provider.cached and Provider.expiresAt
  flight,              \* the callers running the function given to sf.Do
  at,                  \* where each caller is in Token
  answer,              \* answer[c]: the token the server sent to leader c
  result,              \* result[c]: what Token returned to c; None for an error
  issued               \* server: tokens issued so far

vars == <<now, cached, expiresAt, flight, at, answer, result, issued>>

Init ==
  /\ now = 0 /\ cached = None /\ expiresAt = 0
  /\ flight = {} /\ issued = 0
  /\ at = [c \in Callers |-> "idle"]
  /\ answer = [c \in Callers |-> None]
  /\ result = [c \in Callers |-> None]

-----------------------------------------------------------------------------
(* Token *)

\* Mutant: the token is used until it expires, as seen by this process.
FreshUntilExpiry == cached # None /\ expiresAt - now > 0

Fresh == cached # None /\ expiresAt - now > RefreshAhead

CacheHit(c) ==
  /\ at[c] = "idle" /\ Fresh
  /\ at' = [at EXCEPT ![c] = "returned"]
  /\ result' = [result EXCEPT ![c] = cached]
  /\ UNCHANGED <<now, cached, expiresAt, flight, answer, issued>>

\* The lock is released before sf.Do is called.
CacheMiss(c) ==
  /\ at[c] = "idle" /\ ~Fresh
  /\ at' = [at EXCEPT ![c] = "stale"]
  /\ UNCHANGED <<now, cached, expiresAt, flight, answer, result, issued>>

\* Mutant: every caller refreshes on its own.
DoAlone(c) ==
  /\ at[c] = "stale"
  /\ flight' = flight \union {c}
  /\ at' = [at EXCEPT ![c] = "requesting"]
  /\ UNCHANGED <<now, cached, expiresAt, answer, result, issued>>

\* sf.Do: the first caller runs refresh, the others wait for its result.
Do(c) ==
  /\ at[c] = "stale"
  /\ flight' = IF flight = {} THEN {c} ELSE flight
  /\ at' = [at EXCEPT ![c] = IF flight = {} THEN "requesting" ELSE "waiting"]
  /\ UNCHANGED <<now, cached, expiresAt, answer, result, issued>>

\* External: the token endpoint answers.  ttl is what the code makes of the
\* answer's expires_in; without one the token lives for DefaultTTL or longer.
Issue(c) ==
  /\ at[c] = "requesting" /\ issued < MaxTokens
  /\ \E ttl \in Lifetimes \union {DefaultTTL} :
       answer' = [answer EXCEPT ![c] = [serial |-> issued + 1, ttl |-> ttl,
                                        issuedAt |-> now, validUntil |-> now + ttl]]
  /\ issued' = issued + 1
  /\ at' = [at EXCEPT ![c] = "answered"]
  /\ UNCHANGED <<now, cached, expiresAt, flight, result>>

\* refresh stores the credentials of a good answer.
Store(c) ==
  /\ at[c] = "answered"
  /\ cached' = answer[c]
  /\ expiresAt' = now + answer[c].ttl
  /\ at' = [at EXCEPT ![c] = "stored"]
  /\ UNCHANGED <<now, flight, answer, result, issued>>

\* The flight of c lands: c and everyone who waits for it return with r.
Land(c, r) ==
  LET landing == {c} \union {d \in Callers : at[d] = "waiting"} IN
  /\ flight' = flight \ {c}
  /\ at' = [d \in Callers |-> IF d \in landing THEN "returned" ELSE at[d]]
  /\ result' = [d \in Callers |-> IF d \in landing THEN r ELSE result[d]]
  /\ answer' = [answer EXCEPT ![c] = None]
  /\ UNCHANGED <<now, cached, expiresAt, issued>>

Refreshed(c) == at[c] = "stored" /\ Land(c, answer[c])

\* fetchToken fails: no answer, a bad status or body, a missing field, or the
\* context of the caller that leads the flight has ended.
FetchFails(c) == at[c] \in {"requesting", "answered"} /\ Land(c, None)

\* The caller uses what it got, and will call Token again.
CallerGoesOn(c) ==
  /\ at[c] = "returned"
  /\ at' = [at EXCEPT ![c] = "idle"]
  /\ result' = [result EXCEPT ![c] = None]
  /\ UNCHANGED <<now, cached, expiresAt, flight, answer, issued>>

\* Time passes; an answer reaches its caller and is handed on within MaxLatency.
Tick ==
  /\ now < MaxTime
  /\ \A c \in Callers :
       at[c] \in {"answered", "stored"} => now < answer[c].issuedAt + MaxLatency
  /\ now' = now + 1
  /\ UNCHANGED <<cached, expiresAt, flight, at, answer, result, issued>>

Next ==
  \/ \E c \in Callers :
       \/ CacheHit(c) \/ CacheMiss(c) \/ Do(c) \/ Issue(c) \/ Store(c)
       \/ Refreshed(c) \/ FetchFails(c) \/ CallerGoesOn(c)
  \/ Tick

Spec == Init /\ [][Next]_vars

-----------------------------------------------------------------------------
(* Properties *)

Token == [serial : 0..MaxTokens, ttl : Nat, issuedAt : 0..MaxTime, validUntil : Nat]

\* Every variable keeps its type; one flight runs at a time, by the caller that
\* leads it, and whoever waits has a flight to wait for.
TypeOK ==
  /\ now \in 0..MaxTime /\ issued \in 0..MaxTokens
  /\ cached \in Token /\ expiresAt \in Nat
  /\ answer \in [Callers -> Token] /\ result \in [Callers -> Token]
  /\ at \in [Callers -> {"idle", "stale", "waiting", "requesting", "answered",
                         "stored", "returned"}]
  /\ flight = {c \in Callers : at[c] \in {"requesting", "answered", "stored"}}
  /\ \A c, d \in flight : c = d
  /\ (\E c \in Callers : at[c] = "waiting") => flight # {}

\* Token never hands out credentials that the server has already expired,
\* although the code measures their lifetime from the arrival of the answer and
\* shares one answer among callers: refreshAhead covers the difference, also for
\* tokens that live no longer than refreshAhead.
ReturnedIsValid ==
  [][\A c \in Callers :
       at[c] # "returned" /\ at'[c] = "returned" /\ result'[c] # None =>
         now < result'[c].validUntil]_vars

\* A slow answer never replaces a newer token in the cache.
CachedNeverOlder == [][cached'.serial >= cached.serial]_vars

\* "Token returns the cached credentials if still fresh, otherwise refreshes
\* them.  Concurrent callers during a refresh share a single HTTP call": no
\* request is made while fresh credentials are in the cache.
ConcurrentCallersShare == \A c \in Callers : at[c] = "requesting" => ~Fresh
=============================================================================
