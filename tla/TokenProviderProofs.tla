------------------------- MODULE TokenProviderProofs -------------------------
(***************************************************************************)
(* Proofs about TokenProvider, for any callers, any lifetimes of tokens,   *)
(* any refresh margin and any latency within it.                           *)
(***************************************************************************)
EXTENDS TokenProvider, TLAPS

\* The provers to try, with time for a busy machine; a leaf that needs no
\* arithmetic may cite Zenon alone.
USE SMTT(10), Zenon, SMTT(30), SMTT(60)

USE TokenProviderAssumption

Leading == {"requesting", "answered", "stored"}

\* What the code believes of the cached token's lifetime is off by the time the
\* answer was on its way, at most.
CachedOK ==
  /\ cached.serial <= issued
  /\ cached # None => expiresAt <= cached.validUntil + MaxLatency

\* An answer that is handed on is young, and newer than what is cached until it
\* is cached itself.
AnswerOK(c) ==
  at[c] \in {"answered", "stored"} =>
    /\ now <= answer[c].issuedAt + MaxLatency
    /\ answer[c].validUntil = answer[c].issuedAt + answer[c].ttl
    /\ MaxLatency < answer[c].ttl
    /\ answer[c].serial <= issued
    /\ at[c] = "answered" => cached.serial < answer[c].serial

TokenInvariant == TypeOK /\ CachedOK /\ \A c \in Callers : AnswerOK(c)

(* A new provider has nothing cached. *)
LEMMA InitInvariant == Init => TokenInvariant
<1> SUFFICES ASSUME Init PROVE TokenInvariant
  OBVIOUS
<1>1. None \in Token /\ None.serial = 0
  BY DEF None, Token
<1>2. TypeOK
  BY <1>1 DEF Init, TypeOK
<1> QED
  BY <1>1, <1>2 DEF Init, TokenInvariant, CachedOK, AnswerOK

(* A caller that does not lead a flight moves on. *)
LEMMA BystanderInvariant ==
  ASSUME TokenInvariant, NEW c \in Callers,
         CacheHit(c) \/ CacheMiss(c) \/ CallerGoesOn(c)
  PROVE  TokenInvariant'
<1>1. TypeOK /\ CachedOK
  BY DEF TokenInvariant
<1>2. /\ UNCHANGED <<now, cached, expiresAt, flight, answer, issued>>
      /\ at[c] \in {"idle", "returned"}
      /\ \E a \in {"idle", "stale", "returned"} : at' = [at EXCEPT ![c] = a]
  BY DEF CacheHit, CacheMiss, CallerGoesOn
<1>3. result' \in [Callers -> Token]
  <2>1. None \in Token
    BY DEF None, Token
  <2> QED
    BY <1>1, <2>1 DEF TypeOK, CacheHit, CacheMiss, CallerGoesOn
<1>4. /\ at' \in [Callers -> {"idle", "stale", "waiting", "requesting", "answered",
                              "stored", "returned"}]
      /\ \A d \in Callers : at'[d] = at[d] \/ (d = c /\ at'[d] \in {"idle", "stale", "returned"})
  <2>1. PICK a \in {"idle", "stale", "returned"} : at' = [at EXCEPT ![c] = a]
    BY Zenon, <1>2
  <2> QED
    BY <1>1, <2>1 DEF TypeOK
<1>5. \A d \in Callers :
        /\ at'[d] \in Leading <=> at[d] \in Leading
        /\ at'[d] = "waiting" <=> at[d] = "waiting"
        /\ at'[d] \in {"answered", "stored"} => at'[d] = at[d]
  BY <1>2, <1>4 DEF Leading
<1>6. TypeOK'
  <2>1. flight' = {d \in Callers : at'[d] \in Leading}
    BY <1>1, <1>2, <1>5 DEF TypeOK, Leading
  <2> QED
    BY <1>1, <1>2, <1>3, <1>4, <1>5, <2>1 DEF TypeOK, Leading
<1> QED
  BY <1>1, <1>2, <1>5, <1>6 DEF TokenInvariant, CachedOK, AnswerOK

(* sf.Do: a stale caller leads a flight or joins the one that runs. *)
LEMMA DoInvariant ==
  ASSUME TokenInvariant, NEW c \in Callers, Do(c)
  PROVE  TokenInvariant'
<1>1. TypeOK /\ CachedOK
  BY DEF TokenInvariant
<1>2. /\ UNCHANGED <<now, cached, expiresAt, answer, result, issued>>
      /\ at[c] = "stale" /\ flight' = IF flight = {} THEN {c} ELSE flight
      /\ at' = [at EXCEPT ![c] = IF flight = {} THEN "requesting" ELSE "waiting"]
  BY DEF Do
<1>3. /\ at' \in [Callers -> {"idle", "stale", "waiting", "requesting", "answered",
                              "stored", "returned"}]
      /\ \A d \in Callers : d # c => at'[d] = at[d]
      /\ at'[c] = IF flight = {} THEN "requesting" ELSE "waiting"
  BY <1>1, <1>2 DEF TypeOK
<1>4. flight = {d \in Callers : at[d] \in Leading}
  BY <1>1 DEF TypeOK, Leading
<1>5. flight' = {d \in Callers : at'[d] \in Leading}
  BY <1>2, <1>3, <1>4 DEF Leading
<1>6. TypeOK'
  BY <1>1, <1>2, <1>3, <1>5 DEF TypeOK, Leading
<1> QED
  BY <1>1, <1>2, <1>3, <1>6 DEF TokenInvariant, CachedOK, AnswerOK

(* The token endpoint answers the leader. *)
LEMMA IssueInvariant ==
  ASSUME TokenInvariant, NEW c \in Callers, Issue(c)
  PROVE  TokenInvariant'
<1>1. TypeOK /\ CachedOK
  BY DEF TokenInvariant
<1>2. PICK ttl \in Lifetimes \union {DefaultTTL} :
        answer' = [answer EXCEPT ![c] = [serial |-> issued + 1, ttl |-> ttl,
                                         issuedAt |-> now, validUntil |-> now + ttl]]
  BY Zenon DEF Issue
<1> DEFINE token == [serial |-> issued + 1, ttl |-> ttl,
                     issuedAt |-> now, validUntil |-> now + ttl]
<1>3. /\ UNCHANGED <<now, cached, expiresAt, flight, result>>
      /\ at[c] = "requesting" /\ issued < MaxTokens /\ issued' = issued + 1
      /\ at' = [at EXCEPT ![c] = "answered"]
  BY DEF Issue
<1>4. /\ now \in 0..MaxTime /\ issued \in 0..MaxTokens /\ cached.serial \in Nat
      /\ ttl \in Nat /\ MaxLatency < ttl
  BY <1>1 DEF TypeOK, Token
<1>5. token \in Token
  BY <1>3, <1>4 DEF Token
<1>6. token.serial = issued + 1 /\ token.ttl = ttl /\ token.issuedAt = now /\ token.validUntil = now + ttl
  OBVIOUS
<1>7. answer' = [answer EXCEPT ![c] = token]
  BY <1>2
<1> HIDE DEF token
<1>8. /\ answer' \in [Callers -> Token] /\ answer'[c] = token
      /\ \A d \in Callers : d # c => answer'[d] = answer[d]
  BY <1>1, <1>5, <1>7 DEF TypeOK
<1>9. /\ at' \in [Callers -> {"idle", "stale", "waiting", "requesting", "answered",
                              "stored", "returned"}]
      /\ at'[c] = "answered" /\ \A d \in Callers : d # c => at'[d] = at[d]
  BY <1>1, <1>3 DEF TypeOK
<1>10. flight' = {d \in Callers : at'[d] \in {"requesting", "answered", "stored"}}
  BY <1>1, <1>3, <1>9 DEF TypeOK
<1>11. issued' \in 0..MaxTokens
  BY <1>3, <1>4
<1>12. TypeOK'
  BY <1>1, <1>3, <1>8, <1>9, <1>10, <1>11 DEF TypeOK
<1>13. AnswerOK(c)'
  BY <1>1, <1>3, <1>4, <1>6, <1>8 DEF AnswerOK, CachedOK
<1>14. ASSUME NEW d \in Callers, d # c PROVE AnswerOK(d)'
  <2>1. AnswerOK(d) /\ answer[d].serial \in Nat
    BY <1>1 DEF TokenInvariant, TypeOK, Token
  <2> QED
    BY <1>3, <1>4, <1>8, <1>9, <1>14, <2>1 DEF AnswerOK
<1>15. CachedOK'
  BY <1>1, <1>3, <1>4 DEF CachedOK
<1> QED
  BY <1>12, <1>13, <1>14, <1>15 DEF TokenInvariant

(* refresh stores what the server sent to the one leader there is. *)
LEMMA StoreInvariant ==
  ASSUME TokenInvariant, NEW c \in Callers, Store(c)
  PROVE  TokenInvariant' /\ cached'.serial >= cached.serial
<1>1. TypeOK /\ CachedOK /\ AnswerOK(c)
  BY DEF TokenInvariant
<1>2. /\ UNCHANGED <<now, flight, answer, result, issued>>
      /\ at[c] = "answered" /\ at' = [at EXCEPT ![c] = "stored"]
      /\ cached' = answer[c] /\ expiresAt' = now + answer[c].ttl
  BY DEF Store
<1>3. /\ now \in 0..MaxTime /\ answer[c] \in Token /\ issued \in 0..MaxTokens
      /\ answer[c].ttl \in Nat /\ answer[c].issuedAt \in Nat
      /\ answer[c].serial \in Nat /\ cached.serial \in Nat
  BY <1>1 DEF TypeOK, Token
<1>4. /\ at' \in [Callers -> {"idle", "stale", "waiting", "requesting", "answered",
                              "stored", "returned"}]
      /\ at'[c] = "stored" /\ \A d \in Callers : d # c => at'[d] = at[d]
  BY <1>1, <1>2 DEF TypeOK
<1>5. \A d \in Callers : d # c => at[d] \notin {"requesting", "answered", "stored"}
  BY <1>1, <1>2 DEF TypeOK
<1>6. flight' = {d \in Callers : at'[d] \in {"requesting", "answered", "stored"}}
  BY <1>1, <1>2, <1>4 DEF TypeOK
<1>7. expiresAt' \in Nat
  BY <1>2, <1>3
<1>8. TypeOK'
  BY <1>1, <1>2, <1>3, <1>4, <1>6, <1>7 DEF TypeOK
<1>9. CachedOK' /\ AnswerOK(c)' /\ cached'.serial >= cached.serial
  BY <1>1, <1>2, <1>3, <1>4 DEF CachedOK, AnswerOK
<1>10. ASSUME NEW d \in Callers, d # c PROVE AnswerOK(d)'
  BY <1>4, <1>5, <1>10 DEF AnswerOK
<1> QED
  BY <1>8, <1>9, <1>10 DEF TokenInvariant

(* A flight lands: its leader and all who wait for it return. *)
LEMMA LandInvariant ==
  ASSUME TokenInvariant, NEW c \in Callers, NEW r \in Token,
         at[c] \in {"requesting", "answered", "stored"}, Land(c, r)
  PROVE  TokenInvariant'
<1> DEFINE landing == {c} \union {d \in Callers : at[d] = "waiting"}
<1>1. TypeOK /\ CachedOK
  BY DEF TokenInvariant
<1>2. /\ flight' = flight \ {c}
      /\ at' = [d \in Callers |-> IF d \in landing THEN "returned" ELSE at[d]]
      /\ result' = [d \in Callers |-> IF d \in landing THEN r ELSE result[d]]
      /\ answer' = [answer EXCEPT ![c] = None]
      /\ UNCHANGED <<now, cached, expiresAt, issued>>
  BY DEF Land
<1>3. /\ \A d \in Callers : d # c => at[d] \notin {"requesting", "answered", "stored"}
      /\ flight = {c}
  BY <1>1 DEF TypeOK
<1>4. \A d \in Callers : at'[d] \notin {"requesting", "answered", "stored", "waiting"}
  BY <1>1, <1>2, <1>3 DEF TypeOK
<1>5. TypeOK'
  <2>1. answer' \in [Callers -> Token]
    <3>1. None \in Token
      BY DEF None, Token
    <3> QED
      BY <1>1, <1>2, <3>1 DEF TypeOK
  <2>2. result' \in [Callers -> Token]
    BY <1>1, <1>2 DEF TypeOK
  <2>3. at' \in [Callers -> {"idle", "stale", "waiting", "requesting", "answered",
                             "stored", "returned"}]
    BY <1>1, <1>2 DEF TypeOK
  <2>4. flight' = {} /\ flight' = {d \in Callers : at'[d] \in {"requesting", "answered", "stored"}}
    BY <1>2, <1>3, <1>4
  <2> QED
    BY <1>1, <1>2, <1>4, <2>1, <2>2, <2>3, <2>4 DEF TypeOK
<1> QED
  BY <1>1, <1>2, <1>4, <1>5 DEF TokenInvariant, CachedOK, AnswerOK

(* Every step preserves the invariant. *)
LEMMA NextInvariant == TokenInvariant /\ [Next]_vars => TokenInvariant'
<1> SUFFICES ASSUME TokenInvariant, [Next]_vars PROVE TokenInvariant'
  OBVIOUS
<1>0. TypeOK
  BY DEF TokenInvariant
<1>1. CASE UNCHANGED vars
  BY <1>1 DEF vars, TokenInvariant, TypeOK, CachedOK, AnswerOK
<1>2. ASSUME NEW c \in Callers, Refreshed(c) \/ FetchFails(c) PROVE TokenInvariant'
  <2>1. None \in Token /\ answer[c] \in Token
    BY <1>0 DEF None, Token, TypeOK
  <2> QED
    BY <1>2, <2>1, LandInvariant DEF Refreshed, FetchFails
<1>3. CASE Tick
  <2>1. /\ UNCHANGED <<cached, expiresAt, flight, at, answer, result, issued>>
        /\ now' = now + 1 /\ now < MaxTime /\ now \in 0..MaxTime
    BY <1>0, <1>3 DEF Tick, TypeOK
  <2>2. now' \in 0..MaxTime
    BY <2>1
  <2>3. TypeOK'
    BY <1>0, <2>1, <2>2 DEF TypeOK
  <2>4. ASSUME NEW c \in Callers PROVE AnswerOK(c)'
    <3>1. AnswerOK(c) /\ answer[c].issuedAt \in Nat
      BY <1>0 DEF TokenInvariant, TypeOK, Token
    <3>2. at[c] \in {"answered", "stored"} => now < answer[c].issuedAt + MaxLatency
      BY <1>3 DEF Tick
    <3>3. at[c] \in {"answered", "stored"} => now' <= answer[c].issuedAt + MaxLatency
      BY <2>1, <3>1, <3>2
    <3> QED
      BY <2>1, <3>1, <3>3 DEF AnswerOK
  <2> QED
    BY <2>1, <2>3, <2>4 DEF TokenInvariant, CachedOK
<1> QED
  BY <1>1, <1>2, <1>3, BystanderInvariant, DoInvariant, IssueInvariant, StoreInvariant DEF Next

(* The inductive invariant: one flight at a time, the lifetime of the cached token
   overestimated by the latency at most, an answer newer than the cache. *)
THEOREM TokenInvariantHolds == Spec => []TokenInvariant
  BY InitInvariant, NextInvariant, PTL DEF Spec

(* Token never hands out credentials that the server has expired: the refresh
   margin covers the time the answer was on its way. *)
THEOREM ReturnedIsValidHolds == Spec => ReturnedIsValid
<1> DEFINE Valid == \A c \in Callers :
              at[c] # "returned" /\ at'[c] = "returned" /\ result'[c] # None =>
                now < result'[c].validUntil
<1>1. TokenInvariant /\ [Next]_vars => [Valid]_vars
  <2> SUFFICES ASSUME TokenInvariant, Next, NEW d \in Callers,
                      at[d] # "returned", at'[d] = "returned", result'[d] # None
               PROVE  now < result'[d].validUntil
    OBVIOUS
  <2>0. TypeOK /\ CachedOK /\ now \in Nat
    BY DEF TokenInvariant, TypeOK
  <2>1. ASSUME NEW c \in Callers, CacheHit(c) PROVE now < result'[d].validUntil
    <3>1. d = c
      BY <2>0, <2>1 DEF CacheHit, TypeOK
    <3>2. result'[d] = cached /\ cached # None /\ expiresAt - now > RefreshAhead
      BY <2>0, <2>1, <3>1 DEF CacheHit, Fresh, TypeOK
    <3>3. cached.validUntil \in Nat /\ expiresAt \in Nat
      BY <2>0 DEF TypeOK, Token
    <3> QED
      BY <2>0, <3>2, <3>3 DEF CachedOK
  <2>2. ASSUME NEW c \in Callers, Refreshed(c) PROVE now < result'[d].validUntil
    <3>1. result'[d] = answer[c] /\ at[c] = "stored"
      BY <2>2 DEF Refreshed, Land
    <3>2. /\ AnswerOK(c) /\ answer[c].issuedAt \in Nat /\ answer[c].ttl \in Nat
          /\ answer[c].validUntil \in Nat
      BY <2>0 DEF TokenInvariant, TypeOK, Token
    <3> QED
      BY <2>0, <3>1, <3>2 DEF AnswerOK
  <2>3. ASSUME NEW c \in Callers, FetchFails(c) PROVE FALSE
    BY <2>3 DEF FetchFails, Land
  <2>4. ASSUME NEW c \in Callers, CacheMiss(c) \/ Do(c) \/ Issue(c) \/ Store(c) \/ CallerGoesOn(c)
        PROVE  FALSE
    BY <2>0, <2>4 DEF CacheMiss, Do, Issue, Store, CallerGoesOn, TypeOK
  <2>5. CASE Tick
    BY <2>5 DEF Tick
  <2> QED
    BY <2>1, <2>2, <2>3, <2>4, <2>5 DEF Next
<1> QED
  BY <1>1, TokenInvariantHolds, PTL DEF Spec, ReturnedIsValid

(* A slow answer never replaces a newer token in the cache. *)
THEOREM CachedNeverOlderHolds == Spec => CachedNeverOlder
<1>1. TokenInvariant /\ [Next]_vars => [cached'.serial >= cached.serial]_vars
  <2> SUFFICES ASSUME TokenInvariant, Next PROVE cached'.serial >= cached.serial
    OBVIOUS
  <2>1. ASSUME cached' = cached PROVE cached'.serial >= cached.serial
    BY <2>1 DEF TokenInvariant, TypeOK, Token
  <2>2. ASSUME NEW c \in Callers, ~Store(c),
               \/ CacheHit(c) \/ CacheMiss(c) \/ Do(c) \/ Issue(c)
               \/ Refreshed(c) \/ FetchFails(c) \/ CallerGoesOn(c)
        PROVE  cached' = cached
    BY <2>2 DEF CacheHit, CacheMiss, Do, Issue, Refreshed, FetchFails, Land, CallerGoesOn
  <2>3. CASE Tick
    BY <2>1, <2>3 DEF Tick
  <2> QED
    BY <2>1, <2>2, <2>3, StoreInvariant DEF Next
<1> QED
  BY <1>1, TokenInvariantHolds, PTL DEF Spec, CachedNeverOlder

(* Every variable keeps its type. *)
THEOREM TokenProviderTypeOK == Spec => []TypeOK
  BY TokenInvariantHolds, PTL DEF TokenInvariant
=============================================================================
