# A TLA+ verification of the Pub/Sub event processor

The service reads Salesforce Pub/Sub topics over gRPC, takes every event through
a chain of handlers (Postgres, Kafka, with a Redis cache in front), and keeps a
replay cursor per topic so that a restart resumes without losing an event. This
project models its parts and their composition in TLA+, checks them with TLC on
small instances, and proves their safety properties with TLAPS for every size.

`PROJECT.json` has the details: every component, run, mutant, hazard and theorem,
and, for each definition, the source lines it models.

## The system and how its parts interact

    server --stream--> Subscriber --out--> fanIn --events--> worker pool
      ^                    ^                                   |  schema cache, decode
      |  FetchRequest      | Ack(1)                            |  dedup( persist, forward )
      +-- sender <---------+---------------- App.ack <---------+
                                                |
                                       Committer.Done --ticker / final Flush--> replay_state

- **Subscriber** (`internal/pubsub/subscriber.go`), one per topic. `Run`
  reconnects for ever; `runOnce` drives a stream with a sender and a receiver
  goroutine; `Ack` returns flow-control slots.
- **fanIn** (`internal/app/app.go`), one goroutine per subscriber, merges the
  topics into one channel.
- **Worker pool** (`internal/worker/pool.go`): each worker fetches the schema,
  decodes, runs the handler chain with unbounded retry, and acks. A canceled
  context makes it abandon the event unacked.
- **Handlers** (`internal/handler`): persist, then forward; the dedup handler
  wraps both and remembers an event only after both succeeded.
- **Replay committer** (`internal/replay/committer.go`): follows the low-water
  mark of each topic and saves it every second and at shutdown.
- **Token provider** and **schema cache** (`internal/auth`, `internal/schema`):
  caches with a shared flight for concurrent misses.
- **gRPC client and interceptor** (`internal/pubsub`): every unary call, such as
  the fetch of a schema, is attempted several times with a backoff.
- **Configuration and migrations** (`internal/config`, `internal/storage`): what
  a start needs before there is anything to run.
- **Admin HTTP server and health checks** (`internal/httpserver`, `internal/health`):
  `/readyz` asks every dependency, one after another, each with a timeout.
- **App** and `main`: construction with cleanup, errgroup, signals, the final
  flush, `Close`, the exit code.

## Modules

| Module | Models | State and actions |
|---|---|---|
| `LowWaterMark` | what the committer promises | finished events, committed cursors; `Finish`, `Commit` |
| `TopicStream` | what a topic's subscriber promises | the position reached, the last event emitted, the cursor; `Connect`, `Emit`, `Disconnect`, `Restart` |
| `Delivery` | what the service promises for its topics | delivered events, durable cursors; `Deliver`, `Commit`, and `Follow` for a topic without a cursor |
| `Committer` | `replay/committer.go`, `replay_repo.go` | the fields of `topicCursor`, `flushMu`, a flush's unsaved snapshot, the rows. `Done` is one step (it holds `mu`); `Flush` is `BeginFlush` (lock and snapshot), one `SaveOk` or `SaveFails` per topic, `EndFlush` |
| `Subscriber` | `pubsub/subscriber.go` | the position of `Run`, of the sender and of the receiver; the channels `out` and `ackWake`, `pendingAck`, `lastReplayID`; the server's credit and wire. Every goroutine step between two synchronisations is an action, e.g. the receive on `ackWake`, the swap and the send are three |
| `Backoff` | `reconnectDelay`, `backoffDelay`, the delay of `retry` | functions of the attempt, or of the delay before. A shifted duration is the set of its binary digits, so the 64-bit shift that overflows is exact |
| `WorkerPool` | `worker/pool.go`, `handler/*`, `rediscache`, `kafka`, `storage/event_repo.go` | the stage and event of each worker, the database, the partition, the cache, the cursor; one action per outcome of a stage |
| `Pipeline` | `app/app.go`, `main.go`, and the parts above composed | one process after another over the same database: subscribers, channels, workers, `INSTANCE Committer`, ticker, final flush, cancellation, exit, crash, start |
| `TokenProvider` | `auth/oauth.go` | clock, cached token, shared flight; lookup, joining, answer, store and landing are separate steps |
| `SchemaCache` | `schema/cache.go`, `pubsub/interceptor.go` | parsed schemas, a flight per ID, the second lookup, the attempts of a fetch |
| `Config` | `config/config.go` | `Load` and each check of `Validate`, as predicates on a configuration |
| `Service` | `cmd/processor`, `New`, `discoverTopics`, `Run` and `Close` of `app.go`, migrations, metric registration, `httpserver`, `health` | the phase of the process, what it holds, the metrics registered, the migration row, the goroutines of the group, a readiness request, timers, the exit code; each step of the start has an action that succeeds and one that fails with its cleanup |
| `*Proofs` | | the theorems about the module they are named after; `PipelineDeliveryProofs` continues `PipelineProofs` |

`MC*` modules only declare model values and the configurations of `Service`.
Operators introduced by a comment "Mutant:" are wrong variants of a definition,
not used by any specification; each property is violated when one of them
replaces the right one.

Abstractions that hold throughout: a replay ID is the event's position in its
topic (0: none), since the code only stores and returns IDs; an event is its
position, with a sequence number where the code counts; logs, formats and the
values of metrics are left out. Delays are left out where they only order retries,
so a timer may fire at any time. They are kept where their length matters: in
`Service`, for the way out, as countdown timers in thirds of a second, and in
`Backoff`.

`Service` and `Pipeline` split the process between them. `Pipeline` has what
events, cursors and streams do in a running process; `Service` has everything
before and after, and of the streams and workers only that they run and that they
return once the context is canceled.

## What the runs check

| Run | Instance | Shows |
|---|---|---|
| `committer` | 2 topics x 4 events, 2 flushing goroutines | the cursor is exactly the low-water mark; refinement of `LowWaterMark`, so rows cover only finished events and never move back; every advance reaches the database |
| `subscriber` | batch 2, 4 events, 2 breaks, `out` of 1, a cursor or LATEST, attempts up to 70 | no event skipped, repeated or reordered over reconnects; refinement of `TopicStream`; no wake-up lost; the window never falls below a batch on a working stream and grows by one batch per stream at most; everything published after a cursor is emitted; a canceled `Run` returns; the three delays stay between their bounds and never shrink, also once the shift has overflowed (before the jitter) |
| `worker_pool` | 2 workers, 3 events, one undecodable and one that can never be stored, a window of 2, 2 restarts, 1 unanswered produce | an ack means persisted and forwarded; "seen" means finished; nothing forwarded without its row; duplicates only from restarts and unanswered produces; nothing dropped; refinement of `Delivery`, where delivered means persisted and forwarded or undecodable; the event that is stuck for ever keeps a worker and a place of the window, and the others are finished all the same |
| `pipeline` | 2 topics x 2 events, 2 stops | the stored cursor never skips an unfinished event; a process that is not being stopped has finished, or still holds, every event its streams are past; a clean shutdown saves every cursor; refinement of `Delivery`, where delivered means acked |
| `pipeline_live` | 1 topic, 3 events, cursor 1, 2 stops | every event of a committed topic is finished at last; shutdown completes |
| `token_provider` | 3 callers, 7 ticks, 3 tokens | no expired token handed out; the cache never goes back |
| `schema_cache` | 3 workers, 2 schemas, one unparsable | each caller gets its schema, fetched once; every `Get` returns, however long Salesforce is unavailable |
| `service` | 10 configurations, 2 migrations, 2 processes | whatever step fails, all that was opened is closed, once; a process that subscribes runs on the schema of its binary; the streams, the workers and the final flush use nothing that `Close` has closed; without Redis a signal alone does not end in an error, whatever a probe waits for; the way out is over within the grace period; a canceled process ends; no metric is registered twice |

Four runs show where a comment or the README says something else than the code
does (`findings` in `PROJECT.json` has the quotations):

- `pipeline_abandoned`: a topic that was never committed loses the events held at
  shutdown, because the next start subscribes at LATEST.
- `worker_pool_order`: with more than one worker, keying records by topic does
  not keep their order.
- `worker_pool_retry`: a produce that was written but reported as failed is made
  again by the pool, and the event is in Kafka twice. The idempotent producer
  deduplicates what the client resends of one record; each call of `Produce` makes
  a new record, with a sequence number of its own.
- `token_provider_share`: a caller can refresh a token that a concurrent refresh
  has just renewed.

### Bounds

Every bound is a constant. They are small, but past the point where the
interesting cases occur: four events give every shape of gap (two holes, a hole
that closes and releases a run of buffered completions); two flushing goroutines
are all the code has; channels of capacity 1 fill up at once; two breaks
let a resumed stream break in its turn; two stops allow a
crash in the process that recovers from a crash; two workers and three events let
one worker overtake the other while a third event waits. A token's lifetime in
the instance is at the refresh margin (2) or above it (4, and the default 5).

The attempts of `subscriber` go past the 55th, from which on the shift is 0. The
configurations of `service` are one without Kafka and Redis, one with Kafka and two
topics (its partition count is wrong, which is accepted because it is not used), one
that also creates its Kafka topic, one with Redis, whose check makes a probe outlast
the wait for it, and six with wrong settings. Kafka and Redis
together are left to the proofs: they would only add a fourth check to a probe.
The database may start at any version, one newer than the binary's included. The
grace period is that of the deployment, 30 s.

What the bounds leave out: in run `worker_pool` one of the three events is
undecodable and one is never stored, so that only one gets through the whole chain,
as often as it is redelivered. The instance is that small because the run also
checks liveness; every safety property of the run is proved for any events and
workers. Run `pipeline` has two topics with two events each, and run
`pipeline_live` one topic with three; no token's lifetime is below the refresh
margin.

Symmetry is used only where a run checks invariants and action properties and the
permuted model values (topics, workers, callers) are interchangeable.

### Fairness

Liveness runs use `FairSpec`. A goroutine that can take a step takes one (weak
fairness, the Go scheduler). Strong fairness is used for what is retried: a save,
a stage of the chain, opening a stream. It says that the database, Kafka or the
network does not fail for ever, without which nothing the code does can finish an
event. It is also used for a `select` between a context that is done and another
ready case, which Go chooses between at random. The liveness runs of
`WorkerPool` and `Pipeline` assume that a stopped process is started again, as
the deployment's restart policy does. Nothing is assumed of crashes, breaks,
cancellations or published events.

Strong fairness of opening a stream means in particular that Salesforce accepts the
stored cursor. After an outage longer than its retention window it does not, and
the subscriber reconnects for ever, as the repository's README says (line 326):
`EverythingEmitted` and `CommittedTopicLosesNothing` are about the other case.

In `WorkerPool` a worker takes an event (weak fairness) only while fewer than
`FlowBatchSize` events of the topic are unacked (`InWindow`): an event's place in the
flow-control window is returned by its ack, so a stuck event keeps one. With
`FLOW_BATCH_SIZE=1` one event that can never be stored stops its topic, and
`EventuallyFinished` says so: there must be fewer such events than workers, and
fewer than places. The guard is not one of `Take` itself, because after a reconnect the
window may be larger (`WindowBounds`); safety is checked and proved for any window.

`Service` assumes that a canceled process goes on, in whatever order its goroutines
run, while one of them can or time can pass (`Progress`, weak fairness). It
assumes nothing of Salesforce: a call may stay unanswered for ever, and ends only
with its context. `SchemaCache` assumes that a call ends with an answer or an
error, never that it succeeds.

### Assumptions about the outside

- A write that is reported as failed was carried out before the error returned,
  or never. A save that the database applies after a later save of the same row
  is not modelled.
- A database call made with a canceled context has no effect.
- A stream delivers events in order, after the requested position, within the
  credit requested.
- Without `expires_in` a token lives for the default TTL at least, and an answer
  arrives within the refresh margin.
- A call of Postgres or Kafka ends with its context at the latest. A call of Redis
  does not: go-redis applies a context's deadline to reads only with
  `ContextTimeoutEnabled`, which `rediscache.New` does not set. The context ends
  the attempts to connect and to retry; a reply that is being waited for is given up
  after the client's read timeout of 3 s (`RedisReadTimeout`). So a check of Redis
  takes 3 s more than its deadline at most (`RedisCheckTimeout`), and a worker may
  return 3 s after the cancellation (`WorkerLag`). A server that answers each message
  of a connection's handshake just in time is not modelled.
- `Shutdown` of `net/http` looks for requests at intervals of half a second and a tenth
  of it at most (`PollInterval`, rounded up to two thirds of a second).
- golang-migrate marks the row dirty before a migration and clean after it, and
  refuses a dirty database; it is modelled from how `Migrate` uses it.
- One readiness request is answered at a time.
- The topics of `SF_TOPICS` are distinct, which `Validate` does not check.

## What is proved

Eight modules hold proofs. Each is for every value of the constants of its
module, under the module's named assumption: bounds are naturals, capacities and
the batch size are positive, and what is said below. Every safety property that a
run checks is stated by a theorem.

**`CommitterProofs`**: `CursorInvariantHolds`, `LowWaterHolds`,
`StoredCoversOnlyDoneHolds`, `NoForgottenAdvanceHolds`,
`StoredNeverMovesBackHolds` (what `flushMu` is there for) and the refinement
`CommitterImplementsLowWaterMark`. That a row covers only finished events follows
from the row being behind the cursor; that saving keeps it behind needs to know
that a value waiting in a flush is behind the cursor too; that a save does not
move the row back needs that value to be ahead of the row, and this survives only
because one flush runs at a time. `CursorInvariant` says this of each topic
(`CursorOK`), of each unsaved value (`PendingOK`) and of the lock (`OneFlush`). The
loop of `Done` is described by where it stops (`StopsAt`) rather than by
iteration, so it needs no induction. `CursorInvariant`, `StoredCoversOnlyDone` and
`StoredNeverMovesBack` are not checked by a run of their own: the run checks the
refinement, which implies the last two.

**`PipelineProofs`** has `CursorNeverSkipsHolds`, and **`PipelineDeliveryProofs`**,
which builds on it, `NothingSkippedHolds` and `CleanShutdownCommitsAllHolds`, all
over any number of stops. Sequence numbers start
again with every process and replay positions do not. `PipelineInvariant` ties
them together: a process receives a topic without holes after the position it
resumed from, so sequence number `s` is position `Offset(t) + s` in the channels,
with the workers, in the committer and in a flush; and everything up to the offset
that the service has followed is finished. `NothingSkipped` adds that each received
position is finished or in one place of the process (`Held`); the clean shutdown
adds what the final flush has already saved (`FlushOK`).

`PipelineImplementsDelivery` and `PipelineImplementsTopicStream` are proved step by
step: every action of `Pipeline` is a step of the abstract specification or leaves
its variables unchanged. They need to know where a process stands relative to the
durable cursor (`PlaceOK`): a topic's row is behind every value that a flush still
holds, that value is behind the committer's cursor, and the cursor is behind the
last event received, which is behind what is published. Saving keeps the first of
these only because one flush runs at a time, which is part of `FlushOK`. That a
committed position is covered by delivered events comes from `PipelineInvariant`.
`PipelineTypeOK` is proved here too.

**`SubscriberProofs`**: `NoLostWakeupHolds`, `WindowBoundsHolds` and
`StreamOrderHolds`, on `ControlInvariant`, which says that the goroutines of a
stream do not outlive `runOnce` and counts streams against breaks. `StreamOrder`
needs to know where the wire and the batch stand relative to `lastReplayID`
(`StreamOK`), the window that every slot is in exactly one place. On the same
facts rests `SubscriberImplementsTopicStream`: the steps of the sender, of the
server and of the window are invisible to `TopicStream`, and an emission is right
after its predecessor. `Pipeline`'s reduced subscriber implements the same
specification. That the reduced one also allows all that `TopicStream` does, so that
it may stand for the detailed one in every respect, is not stated formally.
`DelaysInOrderHolds` is for any number of attempts: the first few delays are
computed digit by digit, and for the later ones the highest digit left by the
shift decides (too large, negative or nothing left, each of which gives the
maximum). `DigitsAssumption`, which TLC evaluates, ties the sets of digits to the
numbers they stand for.

**`WorkerPoolProofs`**: `AckedIsDurableHolds`, `SeenIsDurableHolds`,
`ForwardedIsPersistedHolds`, `NothingDroppedHolds`, `DuplicatesHaveACauseHolds`.
`StageOK` says what is durable of the event a worker holds at each stage, and that
no one else holds it. The count of an event's records needs the second part.
`WorkerPoolImplementsDelivery` takes an event as delivered when it is settled, that
is persisted and forwarded, or skipped as undecodable (`Settled`). `CommitOK` says
that the cursor covers acked events only, and an acked event is settled.

**`TokenProviderProofs`**: `ReturnedIsValidHolds`, `CachedNeverOlderHolds`, provided
an answer arrives within the refresh margin and before the token it carries ends.
`CachedOK` bounds the error in the believed lifetime by the latency of an answer,
`AnswerOK` says that an answer is newer than what is cached.

**`SchemaCacheProofs`**: `RightSchemaHolds`, `FetchedOnceHolds`. An answer that
counts is in the map or with the one caller of its ID that is past `sf.Do`, and
that caller has looked after everyone before it had stored.

**`ServiceProofs`**: `RunsOnLatestSchemaHolds`, `ReleasesOnceHolds`,
`ClosedAfterUseHolds`, `StopsWithoutErrorHolds`, `ProbeBeforeCloseHolds`,
`WithinGraceHolds` and `RegisteredOnce`. `HeldInvariant` gives what is open as a
function of the phase, and with `GroupInvariant`, which says who is still there,
`ClosedAfterUse` for every configuration. `BudgetInvariant` compares what a probe may
still take with what `Shutdown` still waits: three checks of 3 s and the poll after
them take 9 2/3 s of its 10 s. A fourth check, or one of Redis, does not fit, so
`StopsWithoutError` and `ProbeBeforeClose` (the checks of a probe use nothing that
`Close` has closed) are about configurations without Redis (`BudgetOK`).
`TimeInvariant` adds the timers up: the way out takes 13 s at most, so
`WithinGraceHolds` assumes a grace period above that (`GracePeriod > 39` thirds of a
second) and nothing else. `TypesAndMetricsHolds` adds the control state (`ControlOK`)
and the ranges of counters and timers (`NumbersOK`), for which a schema must be asked
for only while a topic is left.

`SubscriberTypeOK`, `WorkerPoolTypeOK`, `PipelineTypeOK`, `TokenProviderTypeOK`,
`SchemaCacheTypeOK` and `TypesAndMetricsHolds` state type correctness, which the
invariants above contain.

Model-checked only is all liveness, which is out of the prover's reach:
`AdvanceIsPersisted`, `EverythingEmitted`, `RunReturns`, `EventuallyFinished`,
`CommittedTopicLosesNothing`, `ShutdownCompletes`, `GetReturns`, `Stops`. The other
way round, `Pipeline`'s `ImplementsTopicStream` and `Service`'s `ProbeBeforeClose` are
proved and not part of a run.

## What is not modelled

- Avro, JSON, SQL and the Kafka protocol are represented by their outcomes; they
  belong to libraries. Event types and logging have no behaviour over time.
  `LogHandler` is not wired by `New`.
- `clampToInt32` and `reasonFromErr`: a cap that only counts of 2^31 and more
  reach, and the label of a metric.
- A topic listed twice in `SF_TOPICS` (two subscribers with one cursor).
- A save that the database applies after a later one of the same row. It would
  cost a redelivery, not an event.
- Connections that have not sent a request when `Shutdown` runs.
- Salesforce's retention window (see Fairness).
- The waiting time in the interceptor, the token provider's HTTP client and the
  pool of database connections: a call takes some time, or ends with its context.

Facts about the code that a reader of the models should know, and that no
property states:

- With Redis enabled, a Redis that does not answer lets a readiness probe outlast
  `Shutdown`'s wait when the other checks hang too: the process then ends with an
  error after a signal. `config.go:62` says of `REDIS_TIMEOUT` that it "bounds a single
  cache operation"; it does not bound the wait for a reply, and a handler may wait 3 s
  for `Seen` and again for `MarkSeen`.
- A signal during `New` with `KAFKA_CREATE_TOPIC` makes `EnsureTopic` fail, and
  the process ends with an error.
- `discoverTopics` runs before the HTTP server, without a deadline: while
  Salesforce accepts a call and does not answer, `/healthz` is not served, although
  the repository's README says it "answers 200 whenever the process is alive".
- `FLOW_BATCH_SIZE` has no upper bound, and twice its value is the capacity of a
  channel.
