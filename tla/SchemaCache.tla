---------------------------- MODULE SchemaCache ----------------------------
(***************************************************************************)
(* The schema cache (internal/schema/cache.go): Get looks in the map of    *)
(* parsed schemas and otherwise fetches and parses the schema in a         *)
(* singleflight per schema ID, looking in the map once more inside it; the *)
(* fetch is a unary call, which the client's interceptor                   *)
(* (internal/pubsub/interceptor.go) repeats.                               *)
(*                                                                         *)
(* The schema of an ID is represented by the ID.                           *)
(***************************************************************************)
EXTENDS Integers

CONSTANTS
  Callers,      \* the workers
  IDs,          \* schema IDs
  Unparsable,   \* the IDs whose schema avro.Parse refuses
  NoSchema,     \* Get returned an error
  MaxFetches    \* bound on the answers of the source for one ID

ASSUME SchemaCacheAssumption ==
  Unparsable \subseteq IDs /\ NoSchema \notin IDs /\ MaxFetches \in Nat

VARIABLES
  parsed,    \* Cache.parsed: the schema of an ID, NoSchema if absent
  at,        \* where each caller is in Get
  wants,     \* wants[c]: the ID that c asked for
  raw,       \* raw[c]: what the source returned to c
  result,    \* result[c]: what Get returned to c
  attempt,   \* attempt[c]: the interceptor's loop variable
  canceled,  \* the workers' context is done
  fetches    \* history: fetches[id]: answers of the source for id

vars == <<parsed, at, wants, raw, result, attempt, canceled, fetches>>

Init ==
  /\ parsed = [id \in IDs |-> NoSchema]
  /\ at = [c \in Callers |-> "idle"]
  /\ wants = [c \in Callers |-> NoSchema]
  /\ raw = [c \in Callers |-> NoSchema]
  /\ result = [c \in Callers |-> NoSchema]
  /\ attempt = [c \in Callers |-> 0] /\ canceled = FALSE
  /\ fetches = [id \in IDs |-> 0]

Leading == {"leading", "calling", "backoff", "fetched", "stored"}

Goto(c, place) == at' = [at EXCEPT ![c] = place]

-----------------------------------------------------------------------------
(* Get *)

Hit(c, id) ==
  /\ at[c] = "idle" /\ parsed[id] # NoSchema
  /\ wants' = [wants EXCEPT ![c] = id]
  /\ result' = [result EXCEPT ![c] = parsed[id]]
  /\ Goto(c, "returned")
  /\ UNCHANGED <<parsed, raw, attempt, canceled, fetches>>

Miss(c, id) ==
  /\ at[c] = "idle" /\ parsed[id] = NoSchema
  /\ wants' = [wants EXCEPT ![c] = id]
  /\ Goto(c, "missed")
  /\ UNCHANGED <<parsed, raw, result, attempt, canceled, fetches>>

\* Mutant: one flight is shared by the callers of all IDs.
SameFlightAlways(c, d) == TRUE

\* Mutant: sf.Do is not used, every caller that misses fetches.
NoSharedFlight(c, d) == FALSE

\* The calls of sf.Do by c and d have the same key.
SameFlight(c, d) == wants[c] = wants[d]

\* sf.Do: the first caller of an ID runs the function, the others wait.
Do(c) ==
  /\ at[c] = "missed"
  /\ Goto(c, IF \E d \in Callers : at[d] \in Leading /\ SameFlight(c, d)
             THEN "waiting" ELSE "leading")
  /\ UNCHANGED <<parsed, wants, raw, result, attempt, canceled, fetches>>

\* The flight of c lands: c and everyone who waits for it return with r.
Land(c, r) ==
  LET landing == {c} \union {d \in Callers : at[d] = "waiting" /\ SameFlight(c, d)} IN
  /\ at' = [d \in Callers |-> IF d \in landing THEN "returned" ELSE at[d]]
  /\ result' = [d \in Callers |-> IF d \in landing THEN r ELSE result[d]]
  /\ raw' = [raw EXCEPT ![c] = NoSchema] /\ attempt' = [attempt EXCEPT ![c] = 0]
  /\ UNCHANGED <<wants, canceled, fetches>>

\* The second look finds what an earlier flight has stored.
FoundInside(c) ==
  /\ at[c] = "leading" /\ parsed[wants[c]] # NoSchema
  /\ Land(c, parsed[wants[c]])
  /\ UNCHANGED parsed

\* Mutant: there is no second look.
FetchAnyway(c) ==
  /\ at[c] = "leading"
  /\ Goto(c, "calling")
  /\ UNCHANGED <<parsed, wants, raw, result, attempt, canceled, fetches>>

Fetch(c) ==
  /\ at[c] = "leading" /\ parsed[wants[c]] = NoSchema
  /\ Goto(c, "calling")
  /\ UNCHANGED <<parsed, wants, raw, result, attempt, canceled, fetches>>

-----------------------------------------------------------------------------
(* GetSchema, a unary call made by the interceptor *)

MaxRetryAttempts == 5

Codes == {"Unavailable", "DeadlineExceeded", "NotFound", "Canceled"}

isRetryable(code) == code \in {"Unavailable", "DeadlineExceeded"}

\* External: the invoker returns with an answer.
SourceAnswers(c) ==
  /\ at[c] = "calling" /\ ~canceled /\ fetches[wants[c]] < MaxFetches
  /\ raw' = [raw EXCEPT ![c] = wants[c]]
  /\ fetches' = [fetches EXCEPT ![wants[c]] = @ + 1]
  /\ Goto(c, "fetched")
  /\ UNCHANGED <<parsed, wants, result, attempt, canceled>>

\* The invoker fails: a transient error is worth another attempt.
CallFails(c, code) ==
  /\ at[c] = "calling" /\ (code = "Canceled" => canceled)
  /\ isRetryable(code) /\ attempt[c] # MaxRetryAttempts - 1
  /\ Goto(c, "backoff")
  /\ UNCHANGED <<parsed, wants, raw, result, attempt, canceled, fetches>>

\* The error is not transient, or it is the error of the last attempt.
FetchFails(c, code) ==
  /\ at[c] = "calling" /\ (code = "Canceled" => canceled)
  /\ ~isRetryable(code) \/ attempt[c] = MaxRetryAttempts - 1
  /\ Land(c, NoSchema)
  /\ UNCHANGED parsed

\* Mutant: the attempts are not counted.
RetryUncounted(c) ==
  /\ at[c] = "backoff"
  /\ Goto(c, "calling")
  /\ UNCHANGED <<parsed, wants, raw, result, attempt, canceled, fetches>>

\* The delay is over.
Retry(c) ==
  /\ at[c] = "backoff"
  /\ attempt' = [attempt EXCEPT ![c] = @ + 1]
  /\ Goto(c, "calling")
  /\ UNCHANGED <<parsed, wants, raw, result, canceled, fetches>>

RetryCanceled(c) ==
  /\ at[c] = "backoff" /\ canceled
  /\ Land(c, NoSchema)
  /\ UNCHANGED parsed

-----------------------------------------------------------------------------
(* The rest of Get *)

ParseFails(c) ==
  /\ at[c] = "fetched" /\ raw[c] \in Unparsable
  /\ Land(c, NoSchema)
  /\ UNCHANGED parsed

Store(c) ==
  /\ at[c] = "fetched" /\ raw[c] \notin Unparsable
  /\ parsed' = [parsed EXCEPT ![wants[c]] = raw[c]]
  /\ Goto(c, "stored")
  /\ UNCHANGED <<wants, raw, result, attempt, canceled, fetches>>

Fetched(c) ==
  /\ at[c] = "stored"
  /\ Land(c, raw[c])
  /\ UNCHANGED parsed

\* process of internal/worker goes on: it decodes, or it calls Get again later.
CallerGoesOn(c) ==
  /\ at[c] = "returned"
  /\ wants' = [wants EXCEPT ![c] = NoSchema]
  /\ result' = [result EXCEPT ![c] = NoSchema]
  /\ Goto(c, "idle")
  /\ UNCHANGED <<parsed, raw, attempt, canceled, fetches>>

\* gctx is canceled.
Cancel ==
  /\ ~canceled
  /\ canceled' = TRUE
  /\ UNCHANGED <<parsed, at, wants, raw, result, attempt, fetches>>

\* An attempt comes to its end, one way or another.
CallReturns(c) ==
  SourceAnswers(c) \/ \E code \in Codes : CallFails(c, code) \/ FetchFails(c, code)

Next ==
  \/ \E c \in Callers :
       \/ \E id \in IDs : Hit(c, id) \/ Miss(c, id)
       \/ Do(c) \/ FoundInside(c) \/ Fetch(c) \/ CallReturns(c) \/ Retry(c) \/ RetryCanceled(c)
       \/ ParseFails(c) \/ Store(c) \/ Fetched(c) \/ CallerGoesOn(c)
  \/ Cancel

Spec == Init /\ [][Next]_vars

\* A caller inside Get goes on; every attempt returns; a delay ends.
FairSpec ==
  /\ Spec
  /\ \A c \in Callers :
       /\ WF_vars(Do(c)) /\ WF_vars(FoundInside(c) \/ Fetch(c))
       /\ WF_vars(CallReturns(c)) /\ WF_vars(Retry(c) \/ RetryCanceled(c))
       /\ WF_vars(ParseFails(c) \/ Store(c)) /\ WF_vars(Fetched(c))

-----------------------------------------------------------------------------
(* Properties *)

\* Every variable keeps its type, and at most one caller fetches an ID at a time.
TypeOK ==
  /\ parsed \in [IDs -> IDs \union {NoSchema}]
  /\ at \in [Callers -> Leading \union {"idle", "missed", "waiting", "returned"}]
  /\ wants \in [Callers -> IDs \union {NoSchema}]
  /\ raw \in [Callers -> IDs \union {NoSchema}]
  /\ result \in [Callers -> IDs \union {NoSchema}]
  /\ attempt \in [Callers -> 0..MaxRetryAttempts - 1] /\ canceled \in BOOLEAN
  /\ fetches \in [IDs -> 0..MaxFetches]
  /\ \A c, d \in Callers :
       at[c] \in Leading /\ at[d] \in Leading /\ wants[c] = wants[d] => c = d

\* A caller that shares the flight of another gets the schema it asked for.
RightSchema ==
  \A c \in Callers : at[c] = "returned" => result[c] \in {wants[c], NoSchema}

\* "Concurrent calls for the same id share a single underlying fetch": a schema
\* that can be parsed is fetched from Salesforce once, whoever missed it when.
FetchedOnce == \A id \in IDs \ Unparsable : fetches[id] <= 1

\* However long Salesforce stays unavailable, Get returns to its caller, the one
\* that fetches as well as those that wait for its flight: the interceptor gives
\* up after the last attempt.
GetReturns == \A c \in Callers : at[c] = "missed" ~> at[c] = "returned"
=============================================================================
