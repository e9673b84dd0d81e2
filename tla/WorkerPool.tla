----------------------------- MODULE WorkerPool -----------------------------
(***************************************************************************)
(* The worker pool (internal/worker/pool.go) running the handler chain     *)
(* (internal/handler): the Redis dedup cache around the Postgres persist   *)
(* step and the Kafka forward step, with retries, cancellation, and the    *)
(* redelivery that follows a restart.                                      *)
(*                                                                         *)
(* One topic, whose events are 1..N in stream order.  Workers share the    *)
(* channel of received events, in which nextIn..N are still to come: how   *)
(* many of them the server may send depends on the flow-control window,    *)
(* which has FlowBatchSize slots and more after a reconnect, so the next   *)
(* event may come at any time and is sure to come while one of the         *)
(* FlowBatchSize slots is free (InWindow, Fairness).  The replay cursor is *)
(* kept by the committer, of which only the promise (LowWaterMark) is used *)
(* here: the durable cursor moves to some event up to which everything was *)
(* acked, at any time.  A restart reads the channel from the cursor again. *)
(*                                                                         *)
(* Every call of an external service may fail, and a write that is         *)
(* reported as failed may have been carried out.  A database call that is  *)
(* made with a canceled context fails without effect: the pool hands out   *)
(* no connection for it.                                                   *)
(***************************************************************************)
EXTENDS Integers, Sequences, FiniteSets

CONSTANTS
  Workers,        \* the worker goroutines
  N,              \* number of events
  Undecodable,    \* the events whose payload does not decode
  Unstorable,     \* the events that decode but that json.Marshal or Postgres refuses
  DedupEnabled,   \* cfg.Redis.Enabled
  KafkaEnabled,   \* cfg.Kafka.Enabled
  FlowBatchSize,  \* cfg.Worker.FlowBatchSize
  MaxRestarts,    \* bound on crashes and restarts
  MaxUnanswered   \* bound on produces that are written but reported as failed

Events == 1..N

ASSUME WorkerPoolAssumption ==
  /\ N \in Nat /\ MaxRestarts \in Nat /\ MaxUnanswered \in Nat
  /\ Undecodable \subseteq Events /\ Unstorable \subseteq Events \ Undecodable
  /\ DedupEnabled \in BOOLEAN /\ KafkaEnabled \in BOOLEAN
  /\ FlowBatchSize \in Nat \ {0}

VARIABLES
  nextIn,       \* the next event in the channel
  stage,        \* where each worker is in process
  job,          \* the event each worker holds
  live,         \* whether ctx was still live when the worker entered its stage
  canceled,     \* the pool's ctx
  acked,        \* the events acked since the process started
  cursor,       \* the durable replay cursor
  db,           \* processed_events
  kafka,        \* the partition of the topic's records
  redis,        \* the processed-event cache
  restarts,
  unanswered,   \* produces that were written but reported as failed
  finished      \* history: the events acked by any run of the process

services == <<db, kafka, redis, unanswered>>
process == <<nextIn, stage, job, live, acked>>
vars == <<nextIn, stage, job, live, canceled, acked, cursor, db, kafka, redis,
          restarts, unanswered, finished>>

Stages == {"idle", "schema", "schemaBackoff", "lookup", "persist", "forward",
           "mark", "ack", "handlerBackoff", "stopped"}

Init ==
  /\ nextIn = 1
  /\ stage = [w \in Workers |-> "idle"]
  /\ job = [w \in Workers |-> 0]
  /\ live = [w \in Workers |-> TRUE]
  /\ canceled = FALSE
  /\ acked = {} /\ cursor = 0
  /\ db = {} /\ kafka = <<>> /\ redis = {}
  /\ restarts = 0 /\ unanswered = 0
  /\ finished = {}

-----------------------------------------------------------------------------
(* The order of the stages, as New of internal/app wires them *)

\* Mutant: the chain forwards before it persists, and forgets to persist.
ForwardFirst == "forward"

ChainStart == "persist"

HandlerStart == IF DedupEnabled THEN "lookup" ELSE ChainStart

ChainEnd == IF DedupEnabled THEN "mark" ELSE "ack"

AfterPersist == IF KafkaEnabled THEN "forward" ELSE ChainEnd

Goto(w, s) ==
  /\ stage' = [stage EXCEPT ![w] = s]
  /\ live' = [live EXCEPT ![w] = ~canceled]

-----------------------------------------------------------------------------
(* worker and process *)

\* The select of worker: an event may be taken even after the cancellation.
Take(w) ==
  /\ stage[w] = "idle" /\ nextIn <= N
  /\ job' = [job EXCEPT ![w] = nextIn]
  /\ nextIn' = nextIn + 1
  /\ Goto(w, "schema")
  /\ UNCHANGED <<canceled, acked, cursor, services, restarts, finished>>

\* Mutant: a canceled worker returns in the middle of an event.
WorkerStopsAnywhere(w) ==
  /\ stage[w] # "stopped" /\ canceled
  /\ Goto(w, "stopped")
  /\ UNCHANGED <<nextIn, job, canceled, acked, cursor, services, restarts, finished>>

WorkerStops(w) ==
  /\ stage[w] = "idle" /\ canceled
  /\ Goto(w, "stopped")
  /\ UNCHANGED <<nextIn, job, canceled, acked, cursor, services, restarts, finished>>

\* The schema is there and the payload is decoded; an event that does not
\* decode is skipped: acked without being handled.
SchemaOk(w) ==
  /\ stage[w] = "schema"
  /\ Goto(w, IF job[w] \in Undecodable THEN "ack" ELSE HandlerStart)
  /\ UNCHANGED <<nextIn, job, canceled, acked, cursor, services, restarts, finished>>

SchemaFails(w) ==
  /\ stage[w] = "schema"
  /\ Goto(w, "schemaBackoff")
  /\ UNCHANGED <<nextIn, job, canceled, acked, cursor, services, restarts, finished>>

\* The ack callback: the event is done.
Ack(w) ==
  /\ stage[w] = "ack"
  /\ acked' = acked \union {job[w]}
  /\ finished' = finished \union {job[w]}
  /\ job' = [job EXCEPT ![w] = 0]
  /\ Goto(w, "idle")
  /\ UNCHANGED <<nextIn, canceled, cursor, services, restarts>>

\* Mutant: retry gives up after the first failure.
GiveUp(w) ==
  /\ stage[w] \in {"schemaBackoff", "handlerBackoff"}
  /\ job' = [job EXCEPT ![w] = 0]
  /\ Goto(w, "idle")
  /\ UNCHANGED <<nextIn, canceled, acked, cursor, services, restarts, finished>>

\* retry: the backoff ends and the function is called again, unless ctx.Err()
\* was already set when the function failed.
Retry(w) ==
  /\ stage[w] \in {"schemaBackoff", "handlerBackoff"} /\ live[w]
  /\ Goto(w, IF stage[w] = "schemaBackoff" THEN "schema" ELSE HandlerStart)
  /\ UNCHANGED <<nextIn, job, canceled, acked, cursor, services, restarts, finished>>

\* retry: the context is canceled and the event is abandoned, not acked.
Abandon(w) ==
  /\ stage[w] \in {"schemaBackoff", "handlerBackoff"} /\ canceled
  /\ job' = [job EXCEPT ![w] = 0]
  /\ Goto(w, "idle")
  /\ UNCHANGED <<nextIn, canceled, acked, cursor, services, restarts, finished>>

-----------------------------------------------------------------------------
(* The handlers *)

\* DedupHandler: an event that was seen is done.
SeenHit(w) ==
  /\ stage[w] = "lookup" /\ job[w] \in redis
  /\ Goto(w, "ack")
  /\ UNCHANGED <<nextIn, job, canceled, acked, cursor, services, restarts, finished>>

\* DedupHandler: a miss, an expired entry or an error falls through.
SeenMiss(w) ==
  /\ stage[w] = "lookup"
  /\ Goto(w, ChainStart)
  /\ UNCHANGED <<nextIn, job, canceled, acked, cursor, services, restarts, finished>>

\* Mutant: the event is marked as seen once it is persisted.
PersistMarks(w) ==
  /\ stage[w] = "persist" /\ live[w]
  /\ db' = db \union {job[w]}
  /\ redis' = IF DedupEnabled THEN redis \union {job[w]} ELSE redis
  /\ Goto(w, AfterPersist)
  /\ UNCHANGED <<nextIn, job, canceled, acked, cursor, kafka, unanswered, restarts, finished>>

\* PersistHandler: the insert, which does nothing for an event already there.
PersistOk(w) ==
  /\ stage[w] = "persist" /\ live[w] /\ job[w] \notin Unstorable
  /\ db' = db \union {job[w]}
  /\ Goto(w, AfterPersist)
  /\ UNCHANGED <<nextIn, job, canceled, acked, cursor, kafka, redis, unanswered,
                 restarts, finished>>

PersistFails(w) ==
  /\ stage[w] = "persist"
  /\ \/ db' = db
     \/ live[w] /\ job[w] \notin Unstorable /\ db' = db \union {job[w]}
  /\ Goto(w, "handlerBackoff")
  /\ UNCHANGED <<nextIn, job, canceled, acked, cursor, kafka, redis, unanswered,
                 restarts, finished>>

\* ForwardHandler: ProduceSync returns when the record is written.
ForwardOk(w) ==
  /\ stage[w] = "forward"
  /\ kafka' = Append(kafka, job[w])
  /\ Goto(w, ChainEnd)
  /\ UNCHANGED <<nextIn, job, canceled, acked, cursor, db, redis, unanswered,
                 restarts, finished>>

\* Mutant: a record that could not be written does not fail the handler.
ForwardFailsQuietly(w) ==
  /\ stage[w] = "forward"
  /\ Goto(w, ChainEnd)
  /\ UNCHANGED <<nextIn, job, canceled, acked, cursor, services, restarts, finished>>

\* ForwardHandler: ProduceSync fails or times out.  The record may be there all
\* the same, as when the replicas lag and the leader answers that the request
\* timed out.  The retry is a new call of Produce and thus a new record, whose
\* sequence number does not tell the broker that it has the event already.
ForwardFails(w) ==
  /\ stage[w] = "forward"
  /\ \/ UNCHANGED <<kafka, unanswered>>
     \/ /\ unanswered < MaxUnanswered
        /\ kafka' = Append(kafka, job[w])
        /\ unanswered' = unanswered + 1
  /\ Goto(w, "handlerBackoff")
  /\ UNCHANGED <<nextIn, job, canceled, acked, cursor, db, redis, restarts, finished>>

\* Mutant: a failed MarkSeen fails the handler.
MarkSeenFailsHandler(w) ==
  /\ stage[w] = "mark"
  /\ \/ redis' = redis \union {job[w]} /\ Goto(w, "ack")
     \/ redis' = redis /\ Goto(w, "handlerBackoff")
  /\ UNCHANGED <<nextIn, job, canceled, acked, cursor, db, kafka, unanswered,
                 restarts, finished>>

\* DedupHandler: every stage has succeeded; a failed MarkSeen is ignored.
MarkSeen(w) ==
  /\ stage[w] = "mark"
  /\ redis' \in {redis, redis \union {job[w]}}
  /\ Goto(w, "ack")
  /\ UNCHANGED <<nextIn, job, canceled, acked, cursor, db, kafka, unanswered,
                 restarts, finished>>

-----------------------------------------------------------------------------
(* External: the cache's TTL, the committer, the process *)

SeenExpires ==
  /\ \E e \in redis : redis' = redis \ {e}
  /\ UNCHANGED <<process, canceled, cursor, db, kafka, unanswered, restarts, finished>>

Commit ==
  /\ \E c \in (cursor + 1)..N : (cursor + 1)..c \subseteq acked /\ cursor' = c
  /\ UNCHANGED <<process, canceled, services, restarts, finished>>

Cancel ==
  /\ ~canceled /\ restarts < MaxRestarts
  /\ canceled' = TRUE
  /\ UNCHANGED <<process, cursor, services, restarts, finished>>

StartAgain ==
  /\ nextIn' = cursor + 1
  /\ stage' = [w \in Workers |-> "idle"]
  /\ job' = [w \in Workers |-> 0]
  /\ live' = [w \in Workers |-> TRUE]
  /\ acked' = {}
  /\ canceled' = FALSE
  /\ restarts' = restarts + 1
  /\ UNCHANGED <<cursor, services, finished>>

\* The process dies at any point.
Crash == restarts < MaxRestarts /\ StartAgain

\* The pool has stopped after a cancellation; the next process starts.
Restart == canceled /\ (\A w \in Workers : stage[w] = "stopped") /\ StartAgain

-----------------------------------------------------------------------------

Step(w) ==
  \/ Take(w) \/ WorkerStops(w) \/ SchemaOk(w) \/ SchemaFails(w) \/ Ack(w)
  \/ Retry(w) \/ Abandon(w) \/ SeenHit(w) \/ SeenMiss(w) \/ PersistOk(w)
  \/ PersistFails(w) \/ ForwardOk(w) \/ ForwardFails(w) \/ MarkSeen(w)

Next ==
  \/ \E w \in Workers : Step(w)
  \/ SeenExpires \/ Commit \/ Cancel \/ Crash \/ Restart

Spec == Init /\ [][Next]_vars

\* Mutant: ack moves the replay cursor but does not return the slot.
SlotsKept == Cardinality((cursor + 1)..(nextIn - 1)) < FlowBatchSize

\* A received event keeps its slot in the window until app.ack returns it with
\* sub.Ack(1); while a slot is free the server sends the next event.
InWindow ==
  Cardinality({e \in (cursor + 1)..(nextIn - 1) : e \notin acked}) < FlowBatchSize

\* Workers keep working, an event with a slot in the window is received, a
\* stopped process is started again, and no service fails for ever: a stage
\* tried again and again succeeds at last.  A worker whose context is canceled
\* does not ignore ctx.Done() for ever.
Fairness ==
  /\ WF_vars(Restart)
  /\ \A w \in Workers :
       /\ WF_vars(InWindow /\ Take(w))
       /\ WF_vars(stage[w] # "idle" /\ Step(w))
       /\ SF_vars(SchemaOk(w)) /\ SF_vars(PersistOk(w)) /\ SF_vars(ForwardOk(w))
       /\ SF_vars(WorkerStops(w)) /\ SF_vars(Abandon(w))

FairSpec == Spec /\ Fairness

-----------------------------------------------------------------------------
(* Properties *)

Forwarded == {kafka[i] : i \in 1..Len(kafka)}

\* Every variable keeps its type, and a worker holds an event exactly while it
\* processes one.
TypeOK ==
  /\ nextIn \in 1..(N + 1)
  /\ stage \in [Workers -> Stages]
  /\ job \in [Workers -> 0..N] /\ live \in [Workers -> BOOLEAN]
  /\ \A w \in Workers : job[w] = 0 <=> stage[w] \in {"idle", "stopped"}
  /\ canceled \in BOOLEAN
  /\ acked \subseteq Events /\ cursor \in 0..N
  /\ db \subseteq Events /\ kafka \in Seq(Events) /\ redis \subseteq Events
  /\ restarts \in 0..MaxRestarts /\ unanswered \in 0..MaxUnanswered
  /\ finished \subseteq Events

\* What an ack means: an event that any run of the process acked is in the
\* database and, with the sink on, in Kafka, unless its payload is undecodable;
\* also when the ack came from a cache entry written by an earlier run.
AckedIsDurable ==
  \A e \in finished \ Undecodable : e \in db /\ (KafkaEnabled => e \in Forwarded)

\* "seen" means "finished every stage", not "reached the cache".
SeenIsDurable ==
  \A e \in redis : e \in db /\ (KafkaEnabled => e \in Forwarded)

\* Persistence runs before forwarding: no record is in Kafka whose event is not
\* in the database, whichever step fails and however often it is retried.
ForwardedIsPersisted == Forwarded \subseteq db

\* Within one run of the process an event is forwarded once, but for produces
\* that were written and reported as failed (which RetryWritesOnce is about): a
\* stage that succeeded is not repeated because a later, unimportant one failed.
DuplicatesHaveACause ==
  \A e \in Events :
    Cardinality({i \in 1..Len(kafka) : kafka[i] = e}) <= 1 + restarts + unanswered

\* Events that are not acked are not forgotten while the process runs: they are
\* in the channel, in a worker's hands, or below the resume point.
NothingDropped ==
  ~canceled =>
    \A e \in Events :
      e <= cursor \/ e \in acked \/ e >= nextIn \/ \E w \in Workers : job[w] = e

\* Every event that can be stored is handled to the end, over restarts and
\* outages, although an event that cannot is retried for ever and keeps its
\* worker and its slot in the flow-control window, as long as there are more
\* workers and more slots than such events.
EventuallyFinished ==
  /\ Cardinality(Unstorable) < Cardinality(Workers)
  /\ Cardinality(Unstorable) < FlowBatchSize
  => \A e \in Events \ Unstorable : <>(e \in finished)

\* "a produce retried after a timeout cannot write the record twice": within
\* one run of the process no event has two records in the partition.
RetryWritesOnce ==
  restarts = 0 =>
    \A i, j \in 1..Len(kafka) : kafka[i] = kafka[j] => i = j

\* "Keying by Salesforce topic sends every event from one channel to the same
\* partition, which is what preserves their relative order downstream": the
\* first record of an event comes after those of the events before it.
KafkaKeepsOrder ==
  \A i \in 1..Len(kafka) :
    \A e \in Events \ Undecodable :
      e < kafka[i] => \E j \in 1..(i - 1) : kafka[j] = e

\* Nothing is left to do for the event: it is where it belongs, or was skipped.
Settled ==
  {e \in Events : \/ e \in db /\ (KafkaEnabled => e \in Forwarded)
                  \/ e \in Undecodable /\ e \in finished}

Topic == {"topic"}
Promise == INSTANCE Delivery WITH
  Topics <- Topic, MaxEvents <- N,
  published <- [t \in Topic |-> N], base <- [t \in Topic |-> 0],
  delivered <- Topic \X Settled, cursor <- [t \in Topic |-> cursor]

\* The pool keeps the promise of at-least-once delivery for the databases: over
\* retries, cache hits, unanswered writes and restarts the durable cursor moves
\* only over events that are stored and forwarded, or that do not decode.
ImplementsDelivery == Promise!Spec
=============================================================================
