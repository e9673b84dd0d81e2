------------------------- MODULE SchemaCacheProofs -------------------------
(***************************************************************************)
(* Proofs about SchemaCache, for any sets of callers and schema IDs and    *)
(* any number of answers.  A schema is fetched once because at most one    *)
(* caller of an ID is past sf.Do at a time (TypeOK), because that caller   *)
(* has looked in the map after everyone before it had stored (CallOK), and *)
(* because an answer that counts is in the map or with the caller that     *)
(* will put it there (FetchOK).                                            *)
(***************************************************************************)
EXTENDS SchemaCache, TLAPS

\* The provers to try, with time for a busy machine; a leaf that needs no
\* arithmetic may cite Zenon alone.
USE SMTT(10), Zenon, SMTT(30), SMTT(60)

USE SchemaCacheAssumption

WantsOK == \A c \in Callers : at[c] # "idle" => wants[c] \in IDs

ParsedOK == \A id \in IDs : parsed[id] \in {id, NoSchema}

CallOK ==
  \A c \in Callers :
    /\ at[c] \in {"fetched", "stored"} => raw[c] = wants[c]
    /\ at[c] \in {"calling", "backoff"} => parsed[wants[c]] = NoSchema
    /\ at[c] = "backoff" => attempt[c] # MaxRetryAttempts - 1

InHand(id) == \E c \in Callers : at[c] = "fetched" /\ wants[c] = id

FetchOK ==
  \A id \in IDs \ Unparsable :
    fetches[id] = 0 \/ (fetches[id] = 1 /\ (parsed[id] = id \/ InHand(id)))

CacheInvariant == TypeOK /\ WantsOK /\ ParsedOK /\ CallOK /\ FetchOK /\ RightSchema

(* An empty cache satisfies the invariant. *)
LEMMA InitInvariant == Init => CacheInvariant
<1> SUFFICES ASSUME Init PROVE CacheInvariant
  OBVIOUS
<1>1. TypeOK
  <2>1. /\ attempt \in [Callers -> 0..MaxRetryAttempts - 1]
        /\ fetches \in [IDs -> 0..MaxFetches]
    BY DEF Init, MaxRetryAttempts
  <2>2. \A c \in Callers : at[c] \notin Leading
    BY Zenon DEF Init, Leading
  <2>3. /\ parsed \in [IDs -> IDs \union {NoSchema}]
        /\ wants \in [Callers -> IDs \union {NoSchema}]
        /\ raw \in [Callers -> IDs \union {NoSchema}]
        /\ result \in [Callers -> IDs \union {NoSchema}]
        /\ at \in [Callers -> Leading \union {"idle", "missed", "waiting", "returned"}]
        /\ canceled \in BOOLEAN
    BY Zenon DEF Init
  <2> QED BY <2>1, <2>2, <2>3 DEF TypeOK
<1>2. WantsOK /\ ParsedOK /\ CallOK /\ FetchOK /\ RightSchema
  BY DEF Init, WantsOK, ParsedOK, CallOK, FetchOK, RightSchema
<1> QED
  BY <1>1, <1>2 DEF CacheInvariant

(* The end of a flight, with the schema asked for or with an error: the      *)
(* caller must not be one that holds a schema nobody has stored yet.         *)
LEMMA LandInvariant ==
  ASSUME CacheInvariant, NEW c \in Callers, at[c] \in Leading,
         NEW r \in {wants[c], NoSchema}, Land(c, r), UNCHANGED parsed,
         at[c] = "fetched" => wants[c] \in Unparsable
  PROVE  CacheInvariant'
<1> USE DEF CacheInvariant
<1>1. /\ UNCHANGED <<parsed, wants, canceled, fetches>>
      /\ raw' = [raw EXCEPT ![c] = NoSchema]
      /\ attempt' = [attempt EXCEPT ![c] = 0]
      /\ at \in [Callers -> Leading \union {"idle", "missed", "waiting", "returned"}]
  BY DEF Land, TypeOK
<1>2. /\ at' \in [Callers -> Leading \union {"idle", "missed", "waiting", "returned"}]
      /\ result' \in [Callers -> IDs \union {NoSchema}]
      /\ \A d \in Callers :
           \/ at'[d] = at[d] /\ result'[d] = result[d] /\ d # c
           \/ /\ at'[d] = "returned" /\ result'[d] = r
              /\ at[d] # "idle" /\ wants[d] = wants[c] /\ (d # c => at[d] = "waiting")
  BY <1>1 DEF Land, TypeOK, WantsOK, Leading, SameFlight
<1>3. TypeOK'
  <2>1. attempt' \in [Callers -> 0..MaxRetryAttempts - 1] /\ raw' \in [Callers -> IDs \union {NoSchema}]
    BY <1>1 DEF TypeOK, MaxRetryAttempts
  <2>2. ASSUME NEW d \in Callers, NEW e \in Callers,
               at'[d] \in Leading, at'[e] \in Leading, wants'[d] = wants'[e]
        PROVE  d = e
    <3>1. at[d] \in Leading /\ at[e] \in Leading
      BY <1>2, <2>2 DEF Leading
    <3> QED BY <1>1, <2>2, <3>1 DEF TypeOK
  <2> QED BY <1>1, <1>2, <2>1, <2>2 DEF TypeOK
<1>4. WantsOK' /\ ParsedOK'
  BY <1>1, <1>2 DEF WantsOK, ParsedOK
<1>5. CallOK'
  BY <1>1, <1>2 DEF CallOK, TypeOK
<1>6. FetchOK'
  <2> SUFFICES ASSUME NEW id \in IDs \ Unparsable, InHand(id) PROVE InHand(id)'
    BY <1>1 DEF FetchOK
  <2>1. PICK d \in Callers : at[d] = "fetched" /\ wants[d] = id
    BY DEF InHand
  <2>2. d # c
    BY <2>1
  <2> QED
    BY <1>1, <1>2, <2>1, <2>2 DEF InHand
<1>7. RightSchema'
  BY <1>1, <1>2 DEF RightSchema
<1> QED
  BY <1>3, <1>4, <1>5, <1>6, <1>7

(* Every step of a caller, and the cancellation, preserves the invariant. *)
LEMMA NextInvariant == CacheInvariant /\ [Next]_vars => CacheInvariant'
<1> SUFFICES ASSUME CacheInvariant, [Next]_vars PROVE CacheInvariant'
  OBVIOUS
<1> USE DEF CacheInvariant
<1> DEFINE Places == Leading \union {"idle", "missed", "waiting", "returned"}
<1>0. at \in [Callers -> Places]
  BY DEF TypeOK
<1>1. ASSUME NEW c \in Callers, NEW id \in IDs, Hit(c, id)
      PROVE  CacheInvariant'
  <2>1. TypeOK'
    BY <1>1 DEF Hit, Goto, TypeOK, Leading
  <2>2. FetchOK' /\ WantsOK' /\ ParsedOK' /\ CallOK' /\ RightSchema'
    BY <1>1 DEF Hit, Goto, TypeOK, FetchOK, InHand, WantsOK, ParsedOK, CallOK, RightSchema
  <2> QED BY <2>1, <2>2
<1>2. ASSUME NEW c \in Callers, NEW id \in IDs, Miss(c, id)
      PROVE  CacheInvariant'
  <2>1. TypeOK'
    BY <1>2 DEF Miss, Goto, TypeOK, Leading
  <2>2. FetchOK' /\ WantsOK' /\ ParsedOK' /\ CallOK' /\ RightSchema'
    BY <1>2 DEF Miss, Goto, TypeOK, FetchOK, InHand, WantsOK, ParsedOK, CallOK, RightSchema
  <2> QED BY <2>1, <2>2
<1>3. ASSUME NEW c \in Callers, Do(c)
      PROVE  CacheInvariant'
  <2>1. CASE \E d \in Callers : at[d] \in Leading /\ SameFlight(c, d)
    <3>1. /\ at' = [at EXCEPT ![c] = "waiting"] /\ at[c] = "missed"
          /\ UNCHANGED <<parsed, wants, raw, result, attempt, canceled, fetches>>
      BY Zenon, <1>3, <2>1 DEF Do, Goto
    <3> QED BY <3>1 DEF TypeOK, Leading, FetchOK, InHand, WantsOK, ParsedOK, CallOK, RightSchema
  <2>2. CASE \A d \in Callers : at[d] \in Leading => wants[c] # wants[d]
    <3>1. /\ at' = [at EXCEPT ![c] = "leading"] /\ at[c] = "missed"
          /\ UNCHANGED <<parsed, wants, raw, result, attempt, canceled, fetches>>
      BY Zenon, <1>3, <2>2 DEF Do, Goto, SameFlight
    <3>2. TypeOK'
      BY <3>1, <2>2 DEF TypeOK, Leading
    <3> QED BY <3>1, <3>2 DEF TypeOK, FetchOK, InHand, WantsOK, ParsedOK, CallOK, RightSchema
  <2> QED BY <2>1, <2>2 DEF SameFlight
<1>4. ASSUME NEW c \in Callers, FoundInside(c)
      PROVE  CacheInvariant'
  <2>1. parsed[wants[c]] = wants[c] /\ at[c] = "leading"
    BY <1>4 DEF FoundInside, WantsOK, ParsedOK
  <2> QED BY <1>4, <2>1, LandInvariant DEF FoundInside, Leading
<1>5. ASSUME NEW c \in Callers, Fetch(c)
      PROVE  CacheInvariant'
  <2>1. TypeOK'
    BY <1>5 DEF Fetch, Goto, TypeOK, Leading
  <2>2. FetchOK' /\ WantsOK' /\ ParsedOK' /\ CallOK' /\ RightSchema'
    BY <1>5 DEF Fetch, Goto, TypeOK, FetchOK, InHand, WantsOK, ParsedOK, CallOK, RightSchema
  <2> QED BY <2>1, <2>2
<1>6. ASSUME NEW c \in Callers, SourceAnswers(c)
      PROVE  CacheInvariant'
  <2>1. /\ wants[c] \in IDs /\ parsed[wants[c]] = NoSchema /\ at[c] = "calling"
        /\ UNCHANGED <<parsed, wants, result, attempt, canceled>>
        /\ at' = [at EXCEPT ![c] = "fetched"]
        /\ raw' = [raw EXCEPT ![c] = wants[c]]
        /\ fetches' = [fetches EXCEPT ![wants[c]] = @ + 1]
        /\ fetches[wants[c]] < MaxFetches
    BY <1>6 DEF SourceAnswers, Goto, WantsOK, CallOK
  <2>2. TypeOK'
    BY <2>1 DEF TypeOK, Leading
  <2>3. FetchOK'
    <3>1. ~InHand(wants[c])
      BY <2>1 DEF InHand, TypeOK, Leading
    <3> SUFFICES ASSUME NEW id \in IDs \ Unparsable
                 PROVE  fetches'[id] = 0 \/ (fetches'[id] = 1 /\ (parsed'[id] = id \/ InHand(id)'))
      BY DEF FetchOK
    <3>2. CASE id = wants[c]
      <4>1. fetches[id] = 0
        BY <2>1, <3>1, <3>2 DEF FetchOK
      <4> QED BY <2>1, <3>2, <4>1 DEF TypeOK, InHand
    <3>3. CASE id # wants[c]
      <4>1. fetches'[id] = fetches[id]
        BY <2>1, <3>3 DEF TypeOK
      <4>2. InHand(id) => InHand(id)'
        BY <2>1 DEF TypeOK, InHand
      <4> QED BY <2>1, <4>1, <4>2 DEF FetchOK
    <3> QED BY <3>2, <3>3
  <2>4. WantsOK' /\ ParsedOK' /\ CallOK' /\ RightSchema'
    BY <2>1 DEF TypeOK, WantsOK, ParsedOK, CallOK, RightSchema
  <2> QED BY <2>2, <2>3, <2>4
<1>7. ASSUME NEW c \in Callers, NEW code \in Codes, CallFails(c, code)
      PROVE  CacheInvariant'
  <2>1. TypeOK'
    BY <1>7 DEF CallFails, Goto, TypeOK, Leading
  <2>2. FetchOK' /\ WantsOK' /\ ParsedOK' /\ CallOK' /\ RightSchema'
    BY <1>7 DEF CallFails, Goto, TypeOK, FetchOK, InHand, WantsOK, ParsedOK, CallOK, RightSchema
  <2> QED BY <2>1, <2>2
<1>8. ASSUME NEW c \in Callers, NEW code \in Codes, FetchFails(c, code)
      PROVE  CacheInvariant'
  BY <1>8, LandInvariant DEF FetchFails, Leading
<1>9. ASSUME NEW c \in Callers, Retry(c)
      PROVE  CacheInvariant'
  <2>1. TypeOK'
    BY <1>9 DEF Retry, Goto, TypeOK, CallOK, Leading, MaxRetryAttempts
  <2>2. FetchOK' /\ WantsOK' /\ ParsedOK' /\ CallOK' /\ RightSchema'
    BY <1>9 DEF Retry, Goto, TypeOK, FetchOK, InHand, WantsOK, ParsedOK, CallOK, RightSchema
  <2> QED BY <2>1, <2>2
<1>10. ASSUME NEW c \in Callers, RetryCanceled(c)
       PROVE  CacheInvariant'
  BY <1>10, LandInvariant DEF RetryCanceled, Leading
<1>11. ASSUME NEW c \in Callers, ParseFails(c)
       PROVE  CacheInvariant'
  <2>1. at[c] = "fetched" /\ wants[c] \in Unparsable
    BY <1>11 DEF ParseFails, CallOK
  <2> QED BY <1>11, <2>1, LandInvariant DEF ParseFails, Leading
<1>12. ASSUME NEW c \in Callers, Store(c)
       PROVE  CacheInvariant'
  <2>1. /\ at[c] = "fetched" /\ raw[c] = wants[c] /\ wants[c] \in IDs
        /\ UNCHANGED <<wants, raw, result, attempt, canceled, fetches>>
        /\ at' = [at EXCEPT ![c] = "stored"]
        /\ parsed' = [parsed EXCEPT ![wants[c]] = wants[c]]
    BY Zenon, <1>12 DEF Store, Goto, WantsOK, CallOK
  <2>2. TypeOK'
    BY <2>1 DEF TypeOK, Leading
  <2>3. FetchOK'
    <3> SUFFICES ASSUME NEW id \in IDs \ Unparsable
                 PROVE  fetches'[id] = 0 \/ (fetches'[id] = 1 /\ (parsed'[id] = id \/ InHand(id)'))
      BY DEF FetchOK
    <3>1. CASE id = wants[c]
      BY <2>1, <3>1 DEF TypeOK, FetchOK
    <3>2. CASE id # wants[c]
      <4>1. InHand(id) => InHand(id)'
        BY <2>1, <3>2 DEF TypeOK, InHand
      <4> QED BY <2>1, <3>2, <4>1 DEF TypeOK, FetchOK
    <3> QED BY <3>1, <3>2
  <2>4. CallOK'
    BY <2>1, <2>2 DEF TypeOK, WantsOK, CallOK, Leading
  <2>5. WantsOK' /\ ParsedOK' /\ RightSchema'
    BY <2>1 DEF TypeOK, WantsOK, ParsedOK, RightSchema
  <2> QED BY <2>2, <2>3, <2>4, <2>5
<1>13. ASSUME NEW c \in Callers, Fetched(c)
       PROVE  CacheInvariant'
  <2>1. at[c] = "stored" /\ raw[c] = wants[c]
    BY <1>13 DEF Fetched, CallOK
  <2> QED BY <1>13, <2>1, LandInvariant DEF Fetched, Leading
<1>14. ASSUME NEW c \in Callers, CallerGoesOn(c)
       PROVE  CacheInvariant'
  <2>1. TypeOK'
    BY <1>14 DEF CallerGoesOn, Goto, TypeOK, Leading
  <2>2. FetchOK' /\ WantsOK' /\ ParsedOK' /\ CallOK' /\ RightSchema'
    BY <1>14 DEF CallerGoesOn, Goto, TypeOK, FetchOK, InHand, WantsOK, ParsedOK, CallOK, RightSchema
  <2> QED BY <2>1, <2>2
<1>15. CASE Cancel
  BY <1>15 DEF Cancel, TypeOK, FetchOK, InHand, WantsOK, ParsedOK, CallOK, RightSchema
<1>16. CASE UNCHANGED vars
  BY <1>16 DEF vars, TypeOK, FetchOK, InHand, WantsOK, ParsedOK, CallOK, RightSchema
<1> QED
  BY <1>1, <1>2, <1>3, <1>4, <1>5, <1>6, <1>7, <1>8, <1>9, <1>10, <1>11, <1>12, <1>13, <1>14,
     <1>15, <1>16 DEF Next, CallReturns

(* The inductive invariant holds in every reachable state of the cache. *)
THEOREM CacheInvariantHolds == Spec => []CacheInvariant
  BY InitInvariant, NextInvariant, PTL DEF Spec

(* Get returns the schema that was asked for or an error, also to a caller   *)
(* that waited for the flight of another.                                    *)
THEOREM RightSchemaHolds == Spec => []RightSchema
  BY CacheInvariantHolds, PTL DEF CacheInvariant

(* "Concurrent calls for the same id share a single underlying fetch": a     *)
(* schema that parses is fetched once, however many workers miss it at       *)
(* whatever moments, and however often the interceptor repeats the call.     *)
THEOREM FetchedOnceHolds == Spec => []FetchedOnce
<1>1. CacheInvariant => FetchedOnce
  BY DEF CacheInvariant, FetchOK, FetchedOnce
<1> QED
  BY <1>1, CacheInvariantHolds, PTL

(* Every variable keeps its type. *)
THEOREM SchemaCacheTypeOK == Spec => []TypeOK
  BY CacheInvariantHolds, PTL DEF CacheInvariant
=============================================================================
