------------------------------- MODULE Service -------------------------------
(***************************************************************************)
(* The life of the process: run of cmd/processor, App.New, Run and Close   *)
(* of internal/app, the migrations, the registration of metrics, the admin *)
(* HTTP server with its readiness probe, and the way out.                  *)
(*                                                                         *)
(* What the streams and the workers do between start and stop is module    *)
(* Pipeline; here they run, and return when the context is canceled.  What *)
(* takes time on the way out has a countdown timer, in thirds of a second  *)
(* (whole seconds are too coarse for PollInterval): a timer at 0 fires     *)
(* before time goes on.                                                    *)
(*                                                                         *)
(* A call of an external service ends with its context at the latest, and  *)
(* otherwise whenever it likes, or never.  Redis is the exception: the     *)
(* client is made without ContextTimeoutEnabled, so that a context ends a  *)
(* connection attempt and a retry, but not the wait for a reply.           *)
(***************************************************************************)
EXTENDS Config

CONSTANTS
  Configs,         \* the configurations a process may be started with
  Migrations,      \* number of migrations embedded in the binary
  GracePeriod,     \* terminationGracePeriodSeconds of the deployment
  MaxStarts        \* bound on the processes started one after another

ASSUME ServiceAssumption ==
  /\ Migrations \in Nat /\ GracePeriod \in Nat /\ MaxStarts \in Nat \ {0}
  /\ \A c \in Configs : c.topics \in Seq(STRING) /\ c.redis.timeout \in Nat

VARIABLES
  cfg,         \* the configuration of this process
  phase,       \* where run, New and Run are
  res,         \* what the process holds: absent, open, closed or broken
  registry,    \* registry[m]: how often metric m was registered
  version, dirty,        \* the row of schema_migrations
  topic,       \* discoverTopics: index of the topic it asks about
  canceled,    \* ctx, or the group's context gctx
  streams,     \* subscribers and ticker: off, running, returned
  pool,        \* the pool's goroutine: off, running, flushing, returned
  http,        \* Server.Run: off, binding, serving, stopping, returned
  probe,       \* the request to /readyz that is being answered
  waiting,     \* who waits for the token refresh of the probe
  flushLeft, stopLeft,   \* timers of flushReplay and of Shutdown
  elapsed,     \* time since the cancellation
  code,        \* how the process ended: none, ok, error, killed
  starts,
  signaled,    \* history: this process got a signal
  failed       \* history: something else than a signal went wrong

database == <<version, dirty>>
timers == <<flushLeft, stopLeft, elapsed>>
running == <<topic, canceled, streams, pool, http, probe, waiting, timers>>
vars == <<cfg, phase, res, registry, database, running, code, starts, signaled, failed>>

Resources == {"migrator", "client", "store", "producer", "redis", "listener"}

AuthMetrics == {"auth_token_refresh_total", "auth_token_expiry_seconds"}
ClientMetrics == {"pubsub_grpc_rpc_duration_seconds", "pubsub_grpc_rpc_total",
                  "pubsub_grpc_rpc_retries_total"}
SchemaMetrics == {"schema_cache_hits_total", "schema_cache_misses_total"}
SubscriberMetrics == {"pubsub_events_received_total", "pubsub_reconnects_total",
                      "pubsub_stream_open"}
ProducerMetrics == {"kafka_records_produced_total", "kafka_records_failed_total",
                    "kafka_record_bytes_total", "kafka_produce_duration_seconds"}
DedupMetrics == {"dedup_cache_hits_total", "dedup_cache_misses_total",
                 "dedup_cache_errors_total"}
CommitterMetrics == {"replay_cursor_commits_total"}
PoolMetrics == {"events_processed_total", "events_failed_total",
                "processing_latency_seconds"}
Metrics == AuthMetrics \union ClientMetrics \union SchemaMetrics \union SubscriberMetrics
           \union ProducerMetrics \union DedupMetrics \union CommitterMetrics \union PoolMetrics

NoProbe == [todo |-> {}, check |-> "none", left |-> 0, follows |-> FALSE]

Init ==
  /\ cfg \in Configs /\ starts = 1
  /\ version \in 0..(Migrations + 1) /\ dirty = FALSE
  /\ phase = "load"
  /\ res = [r \in Resources |-> "absent"] /\ registry = [m \in Metrics |-> 0]
  /\ topic = 1 /\ canceled = FALSE
  /\ streams = "off" /\ pool = "off" /\ http = "off"
  /\ probe = NoProbe /\ waiting = {}
  /\ flushLeft = 0 /\ stopLeft = 0 /\ elapsed = 0
  /\ code = "none" /\ signaled = FALSE /\ failed = FALSE

Opened(r) == [res EXCEPT ![r] = "open"]

\* What is closed should be there, and open.
Released(S) ==
  [r \in Resources |->
     IF r \notin S THEN res[r] ELSE IF res[r] = "open" THEN "closed" ELSE "broken"]

\* MustRegister, which panics at a name that is taken.
Registers(names) ==
  [m \in Metrics |-> IF m \in names THEN registry[m] + 1 ELSE registry[m]]

\* Mutant: every subscriber registers metrics of its own.
RegistersEach(names, n) ==
  [m \in Metrics |-> IF m \in names THEN registry[m] + n ELSE registry[m]]

\* registerOrReuse, called n times: the first call registers, the others reuse.
RegistersOrReuses(names, n) ==
  [m \in Metrics |-> IF m \in names /\ registry[m] = 0 /\ n > 0 THEN 1 ELSE registry[m]]

-----------------------------------------------------------------------------
(* run: configuration, logger and migrations *)

\* The next step of a start, with what it leaves open and registered.
GoOn(next, resources, metrics) ==
  /\ phase' = next /\ res' = resources /\ registry' = metrics
  /\ UNCHANGED <<cfg, running, code, starts, signaled, failed>>

\* run returns an error before there is an App.
Fails(resources, metrics) ==
  /\ phase' = "exited" /\ code' = "error" /\ failed' = TRUE
  /\ res' = resources /\ registry' = metrics
  /\ UNCHANGED <<cfg, database, running, starts, signaled>>

Load ==
  /\ phase = "load" /\ Loads(cfg)
  /\ GoOn("logger", res, registry) /\ UNCHANGED database

LoadFails ==
  /\ phase = "load" /\ ~Loads(cfg)
  /\ Fails(res, registry)

\* zapcore.ParseLevel is the first to look at LOG_LEVEL.
NewLogger ==
  /\ phase = "logger" /\ cfg.level = "info"
  /\ GoOn("migrate", res, registry) /\ UNCHANGED database

NewLoggerFails ==
  /\ phase = "logger" /\ cfg.level # "info"
  /\ Fails(res, registry)

OpenMigrator ==
  /\ phase = "migrate"
  /\ GoOn("up", Opened("migrator"), registry) /\ UNCHANGED database

OpenMigratorFails ==
  /\ phase = "migrate"
  /\ Fails(res, registry)

\* External: Up records a version as dirty, runs its SQL, and cleans the mark.
UpBegins ==
  /\ phase = "up" /\ ~dirty /\ version < Migrations
  /\ version' = version + 1 /\ dirty' = TRUE
  /\ GoOn("applying", res, registry)

UpApplies ==
  /\ phase = "applying"
  /\ dirty' = FALSE
  /\ GoOn("up", res, registry) /\ UNCHANGED version

\* Up is through, or has returned ErrNoChange.
Migrated ==
  /\ phase = "up" /\ ~dirty /\ version = Migrations
  /\ GoOn("dial", Released({"migrator"}), registry) /\ UNCHANGED database

\* Mutant: a failed Up is logged, and the service starts all the same.
MigrateFailsQuietly ==
  /\ phase \in {"up", "applying"}
  /\ GoOn("dial", Released({"migrator"}), registry) /\ UNCHANGED database

\* Up fails: a dirty or unknown version, or an error of the database.
MigrateFails ==
  /\ phase \in {"up", "applying"}
  /\ Fails(Released({"migrator"}), registry)

-----------------------------------------------------------------------------
(* App.New *)

\* auth.New and pubsub.Dial.
Dial ==
  /\ phase = "dial"
  /\ GoOn("store", Opened("client"), Registers(AuthMetrics \union ClientMetrics))
  /\ UNCHANGED database

DialFails ==
  /\ phase = "dial"
  /\ Fails(res, Registers(AuthMetrics \union ClientMetrics))

\* schema.NewCache, storage.NewPool.
NewPool ==
  /\ phase = "store"
  /\ GoOn("subscribers", Opened("store"), Registers(SchemaMetrics))
  /\ UNCHANGED database

NewPoolFails ==
  /\ phase = "store"
  /\ Fails(Released({"client"}), Registers(SchemaMetrics))

NewSubscribers ==
  /\ phase = "subscribers"
  /\ GoOn(IF cfg.kafka.enabled THEN "kafka" ELSE "redis", res,
          RegistersOrReuses(SubscriberMetrics, Len(cfg.topics)))
  /\ UNCHANGED database

NewProducer ==
  /\ phase = "kafka"
  /\ GoOn(IF cfg.kafka.createTopic THEN "ensure" ELSE "redis",
          Opened("producer"), Registers(ProducerMetrics))
  /\ UNCHANGED database

NewProducerFails ==
  /\ phase = "kafka"
  /\ Fails(Released({"store", "client"}), registry)

\* Mutant: the producer is left open when the topic cannot be created.
EnsureTopicFailsOpen ==
  /\ phase = "ensure"
  /\ Fails(Released({"store", "client"}), registry)

\* EnsureTopic: created, or already there.
EnsureTopic ==
  /\ phase = "ensure" /\ ~canceled
  /\ GoOn("redis", res, registry) /\ UNCHANGED database

EnsureTopicFails ==
  /\ phase = "ensure"
  /\ Fails(Released({"producer", "store", "client"}), registry)

\* rediscache.New does not dial, and cannot fail.
NewDedup ==
  /\ phase = "redis" /\ cfg.redis.enabled
  /\ GoOn("assemble", Opened("redis"), Registers(DedupMetrics)) /\ UNCHANGED database

\* Neither can the rest of New: committer, HTTP server and worker pool.
Assemble ==
  /\ phase = "assemble" \/ (phase = "redis" /\ ~cfg.redis.enabled)
  /\ GoOn("discover", res, Registers(CommitterMetrics \union PoolMetrics))
  /\ UNCHANGED database

-----------------------------------------------------------------------------
(* App.Run: discovery, then the group *)

\* discoverTopics asks for a topic; without an answer it waits, with no
\* deadline of its own, until ctx is canceled.
GetTopic(ok) ==
  /\ phase = "discover" /\ topic <= Len(cfg.topics)
  /\ ok => ~canceled
  /\ phase' = IF ok THEN "schema" ELSE "discover"
  /\ topic' = IF ok THEN topic ELSE topic + 1
  /\ UNCHANGED <<cfg, res, registry, database, canceled, streams, pool, http, probe, waiting,
                 timers, code, starts, signaled, failed>>

\* An error is logged and skipped like an answer.
GetSchema ==
  /\ phase = "schema"
  /\ phase' = "discover" /\ topic' = topic + 1
  /\ UNCHANGED <<cfg, res, registry, database, canceled, streams, pool, http, probe, waiting,
                 timers, code, starts, signaled, failed>>

StartGroup ==
  /\ phase = "discover" /\ topic > Len(cfg.topics)
  /\ phase' = "running" /\ streams' = "running" /\ pool' = "running" /\ http' = "binding"
  /\ UNCHANGED <<cfg, res, registry, database, topic, canceled, probe, waiting, timers, code,
                 starts, signaled, failed>>

\* A goroutine of the group changes state; all but the server return nil.
GroupStep ==
  /\ phase \in {"running", "closing"}
  /\ UNCHANGED <<cfg, phase, registry, database, topic, elapsed, code, starts, signaled>>

\* Mutant: the subscribers run with ctx, not with the group's context.
StreamsIgnoreGroup ==
  /\ streams = "running" /\ signaled /\ "streams" \notin waiting
  /\ streams' = "returned"
  /\ GroupStep
  /\ UNCHANGED <<res, canceled, pool, http, probe, waiting, flushLeft, stopLeft, failed>>

\* Subscribers, fanIn and ticker return when gctx is done, once the token
\* refresh they may have joined is over.
StreamsReturn ==
  /\ streams = "running" /\ canceled /\ "streams" \notin waiting
  /\ streams' = "returned"
  /\ GroupStep
  /\ UNCHANGED <<res, canceled, pool, http, probe, waiting, flushLeft, stopLeft, failed>>

\* Mutant: the final flush has no deadline to speak of.
PatientFlushTimeout == 180

\* replayFlushTimeout
FlushTimeout == 15

\* External: how long the client waits for a reply of Redis, with the options
\* that New leaves at their defaults.
RedisReadTimeout == 9

\* How long a worker may stay in a call although its context is canceled: in
\* Seen or MarkSeen until the reply, in every other call not at all.
WorkerLag(c) == IF c.redis.enabled THEN RedisReadTimeout ELSE 0

\* The workers have returned; flushReplay starts with a deadline of its own.
WorkersReturn ==
  /\ pool = "running" /\ canceled /\ "pool" \notin waiting
  /\ pool' = "flushing" /\ flushLeft' = FlushTimeout
  /\ GroupStep
  /\ UNCHANGED <<res, canceled, streams, http, probe, waiting, stopLeft, failed>>

\* A failed flush is logged: the pool returns nil all the same.
FlushReturns ==
  /\ pool = "flushing"
  /\ pool' = "returned" /\ flushLeft' = 0
  /\ GroupStep
  /\ UNCHANGED <<res, canceled, streams, http, probe, waiting, stopLeft, failed>>

-----------------------------------------------------------------------------
(* Server.Run and serve *)

Listen ==
  /\ http = "binding"
  /\ http' = "serving" /\ res' = Opened("listener")
  /\ GroupStep
  /\ UNCHANGED <<canceled, streams, pool, probe, waiting, flushLeft, stopLeft, failed>>

\* A canceled context ends the lookup of a host name, which is no failure.
ListenFails ==
  /\ http = "binding"
  /\ http' = "returned"
  /\ \/ failed' = TRUE /\ canceled' = TRUE
     \/ canceled /\ UNCHANGED <<failed, canceled>>
  /\ GroupStep
  /\ UNCHANGED <<res, streams, pool, probe, waiting, flushLeft, stopLeft>>

\* Serve returns an error, and closes the listener; requests go on.
ServeFails ==
  /\ http = "serving"
  /\ http' = "returned" /\ res' = Released({"listener"})
  /\ failed' = TRUE /\ canceled' = TRUE
  /\ GroupStep
  /\ UNCHANGED <<streams, pool, probe, waiting, flushLeft, stopLeft>>

\* shutdownTimeout
StopTimeout == 30

\* External: Shutdown looks for requests at intervals that grow to half a second
\* and a tenth more, so it may notice that late that the last one was answered.
PollInterval == 2

\* Shutdown closes the listener and waits for the requests.
Shutdown ==
  /\ http = "serving" /\ canceled
  /\ http' = "stopping" /\ res' = Released({"listener"}) /\ stopLeft' = StopTimeout
  /\ GroupStep
  /\ UNCHANGED <<canceled, streams, pool, probe, waiting, flushLeft, failed>>

\* Shutdown returns: it finds no request, or its context is over.
ShutdownReturns ==
  /\ http = "stopping" /\ probe.todo = {} /\ probe.check = "none"
  /\ http' = "returned" /\ stopLeft' = 0 /\ probe' = NoProbe
  /\ GroupStep
  /\ UNCHANGED <<res, canceled, streams, pool, waiting, flushLeft, failed>>

ShutdownTimesOut ==
  /\ http = "stopping" /\ stopLeft = 0
  /\ http' = "timedOut"
  /\ GroupStep
  /\ UNCHANGED <<res, canceled, streams, pool, probe, waiting, flushLeft, stopLeft, failed>>

-----------------------------------------------------------------------------
(* /readyz *)

Checkers(c) ==
  {"auth", "database"} \union {k \in {"kafka"} : c.kafka.enabled}
                       \union {k \in {"redis"} : c.redis.enabled}

\* authCheckTimeout
AuthCheckTimeout == 9

\* Mutant: the dependencies get five seconds each.
PatientDbCheckTimeout == 15

\* dbCheckTimeout, which all the others get
DbCheckTimeout == 9

\* Cache.Check has a deadline of its own, which ends the attempts to connect;
\* the reply to the last attempt is awaited all the same.
RedisCheckTimeout(c) ==
  RedisReadTimeout + IF c.redis.timeout < DbCheckTimeout THEN c.redis.timeout ELSE DbCheckTimeout

CheckTimeout(c, k) ==
  CASE k = "auth" -> AuthCheckTimeout
    [] k = "redis" -> RedisCheckTimeout(c)
    [] OTHER -> DbCheckTimeout

\* What a check talks to.
Dependency == [auth |-> "none", database |-> "store", kafka |-> "producer", redis |-> "redis"]

ProbeStep ==
  /\ phase \in {"running", "closing"}
  /\ UNCHANGED <<cfg, phase, res, registry, database, topic, canceled, streams, pool, http,
                 timers, code, starts, signaled, failed>>

\* The server takes a request.
ProbeArrives ==
  /\ http = "serving" /\ ~canceled /\ probe = NoProbe
  /\ probe' = [NoProbe EXCEPT !.todo = Checkers(cfg)]
  /\ ProbeStep /\ UNCHANGED waiting

\* Readiness takes the checkers in the order of a map, one by one.  Token may
\* find a refresh that a stream started, and then waits for that one's context.
CheckBegins(k) ==
  /\ k \in probe.todo /\ probe.check = "none"
  /\ \E follows \in {f \in BOOLEAN : f => k = "auth" /\ ~canceled} :
       probe' = [todo |-> probe.todo \ {k}, check |-> k,
                 left |-> IF follows THEN 0 ELSE CheckTimeout(cfg, k), follows |-> follows]
  /\ ProbeStep /\ UNCHANGED waiting

\* A stream or a worker joins the refresh of the probe.
JoinRefresh(w) ==
  /\ probe.check = "auth" /\ ~probe.follows /\ ~canceled
  /\ w \notin waiting /\ "running" = IF w = "streams" THEN streams ELSE pool
  /\ waiting' = waiting \union {w}
  /\ ProbeStep /\ UNCHANGED probe

\* A check ends, well or not; the next one runs in any case.  After the last
\* one, what is left is the time until Shutdown, if it runs, looks again.
CheckEnds ==
  /\ probe.check # "none"
  /\ probe' = [NoProbe EXCEPT !.todo = probe.todo,
                              !.left = IF probe.todo = {} /\ http = "stopping"
                                         THEN PollInterval ELSE 0]
  /\ waiting' = IF probe.check = "auth" THEN {} ELSE waiting
  /\ ProbeStep

-----------------------------------------------------------------------------
(* Time, signals and the end *)

\* What a canceled context, or a request, does without waiting for anything.
Prompt ==
  \/ canceled /\ streams = "running" /\ "streams" \notin waiting
  \/ canceled /\ pool = "running" /\ "pool" \notin waiting /\ elapsed >= WorkerLag(cfg)
  \/ canceled /\ (http \in {"binding", "serving"} \/ probe.follows)
  \/ probe.check = "none" /\ probe.todo # {}
  \/ http = "stopping" /\ probe = NoProbe
  \/ phase = "running" /\ streams = "returned" /\ pool = "returned"
       /\ http \in {"returned", "timedOut"}
  \/ phase = "closing" /\ probe.check # "database"

Expired ==
  \/ probe.check # "none" /\ ~probe.follows /\ probe.left = 0
  \/ pool = "flushing" /\ flushLeft = 0
  \/ http = "stopping" /\ stopLeft = 0

\* A timer that runs goes down.
Less(n) == IF n > 0 THEN n - 1 ELSE 0

\* A third of a second passes.
Tick ==
  /\ phase \in {"running", "closing"} /\ ~Prompt /\ ~Expired
  /\ canceled \/ probe.left > 0
  /\ probe' = [probe EXCEPT !.left = Less(@)]
  /\ flushLeft' = Less(flushLeft) /\ stopLeft' = Less(stopLeft)
  /\ elapsed' = IF canceled THEN elapsed + 1 ELSE elapsed
  /\ UNCHANGED <<cfg, phase, res, registry, database, topic, canceled, streams, pool, http,
                 waiting, code, starts, signaled, failed>>

\* Mutant: Run does not wait for the flush.
GroupEndsEarly ==
  /\ phase = "running" /\ streams = "returned" /\ http \in {"returned", "timedOut"}
  /\ phase' = "closing"
  /\ res' = Released({"redis", "producer"} \intersect {r \in Resources : res[r] = "open"})
  /\ UNCHANGED <<cfg, registry, database, running, code, starts, signaled, failed>>

\* g.Wait returns, then Run; Close starts with the cache and the producer.
GroupEnds ==
  /\ phase = "running" /\ streams = "returned" /\ pool = "returned"
  /\ http \in {"returned", "timedOut"}
  /\ phase' = "closing"
  /\ res' = Released({r \in {"redis"} : cfg.redis.enabled}
                     \union {r \in {"producer"} : cfg.kafka.enabled})
  /\ UNCHANGED <<cfg, registry, database, running, code, starts, signaled, failed>>

\* The pool's Close waits for connections in use.  Then run returns what Run
\* returned: the error of the server, if it had one.
CloseStore ==
  /\ phase = "closing" /\ probe.check # "database"
  /\ res' = Released({"store", "client"})
  /\ phase' = "exited"
  /\ code' = IF failed \/ http = "timedOut" THEN "error" ELSE "ok"
  /\ UNCHANGED <<cfg, registry, database, running, starts, signaled, failed>>

\* SIGTERM or SIGINT: until NotifyContext is called it ends the process.
Signal ==
  /\ phase # "exited" /\ ~signaled
  /\ signaled' = TRUE
  /\ IF phase \in {"load", "logger", "migrate", "up", "applying"}
       THEN phase' = "exited" /\ code' = "killed" /\ UNCHANGED canceled
       ELSE canceled' = TRUE /\ UNCHANGED <<phase, code>>
  /\ UNCHANGED <<cfg, res, registry, database, topic, streams, pool, http, probe, waiting,
                 timers, starts, failed>>

\* Memory without a process, or of one that has done nothing yet.
Fresh ==
  /\ res' = [r \in Resources |-> "absent"] /\ registry' = [m \in Metrics |-> 0]
  /\ topic' = 1 /\ canceled' = FALSE
  /\ streams' = "off" /\ pool' = "off" /\ http' = "off"
  /\ probe' = NoProbe /\ waiting' = {}
  /\ flushLeft' = 0 /\ stopLeft' = 0 /\ elapsed' = 0
  /\ signaled' = FALSE /\ failed' = FALSE

Crash ==
  /\ phase # "exited"
  /\ phase' = "exited" /\ code' = "killed" /\ Fresh
  /\ UNCHANGED <<cfg, database, starts>>

\* The next process has fresh memory, and the same database.
Restart ==
  /\ phase = "exited" /\ starts < MaxStarts
  /\ starts' = starts + 1 /\ cfg' \in Configs /\ UNCHANGED database
  /\ phase' = "load" /\ code' = "none" /\ Fresh

-----------------------------------------------------------------------------
Start ==
  \/ Load \/ LoadFails \/ NewLogger \/ NewLoggerFails
  \/ OpenMigrator \/ OpenMigratorFails \/ UpBegins \/ UpApplies \/ Migrated \/ MigrateFails
  \/ Dial \/ DialFails \/ NewPool \/ NewPoolFails \/ NewSubscribers
  \/ NewProducer \/ NewProducerFails \/ EnsureTopic \/ EnsureTopicFails \/ NewDedup \/ Assemble

Serve ==
  \/ StreamsReturn \/ WorkersReturn \/ FlushReturns
  \/ Listen \/ ListenFails \/ ServeFails \/ Shutdown \/ ShutdownReturns \/ ShutdownTimesOut
  \/ ProbeArrives \/ (\E k \in Checkers(cfg) : CheckBegins(k))
  \/ (\E w \in {"streams", "pool"} : JoinRefresh(w)) \/ CheckEnds

Next ==
  \/ Start
  \/ (\E ok \in BOOLEAN : GetTopic(ok)) \/ GetSchema \/ StartGroup
  \/ Serve \/ Tick \/ GroupEnds \/ CloseStore
  \/ Signal \/ Crash \/ Restart

Spec == Init /\ [][Next]_vars

\* What a canceled process does without help: the steps of its goroutines, the
\* end of a call whose time is over, and the passing of time.  That Salesforce
\* answers is not among them, nor is a refresh that it holds up.
Progress ==
  /\ canceled
  /\ \/ Tick \/ StreamsReturn \/ WorkersReturn \/ (flushLeft = 0 /\ FlushReturns)
     \/ Listen \/ ListenFails \/ Shutdown \/ ShutdownReturns \/ ShutdownTimesOut
     \/ (\E k \in Checkers(cfg) : CheckBegins(k)) \/ (probe.left = 0 /\ CheckEnds)
     \/ GroupEnds \/ CloseStore \/ GetTopic(FALSE) \/ GetSchema \/ StartGroup \/ Start

\* A process that can go on does, in whatever order its goroutines are run.
FairSpec == Spec /\ WF_vars(Progress)

-----------------------------------------------------------------------------
(* Properties *)

\* Every variable keeps its type; in particular no metric is registered twice,
\* at which MustRegister would panic, whatever is enabled and however many topics
\* there are, and no timer runs longer than its timeout.
TypesAndMetrics ==
  /\ cfg \in Configs
  /\ phase \in {"load", "logger", "migrate", "up", "applying", "dial", "store", "subscribers",
                "kafka", "ensure", "redis", "assemble", "discover", "schema", "running",
                "closing", "exited"}
  /\ res \in [Resources -> {"absent", "open", "closed", "broken"}]
  /\ registry \in [Metrics -> {0, 1}]
  /\ version \in 0..(Migrations + 1) /\ dirty \in BOOLEAN
  /\ topic \in 1..(Len(cfg.topics) + 1) /\ canceled \in BOOLEAN
  /\ streams \in {"off", "running", "returned"}
  /\ pool \in {"off", "running", "flushing", "returned"}
  /\ http \in {"off", "binding", "serving", "stopping", "returned", "timedOut"}
  /\ probe \in [todo : SUBSET Checkers(cfg), check : Checkers(cfg) \union {"none"},
                left : Nat, follows : BOOLEAN]
  /\ waiting \subseteq {"streams", "pool"}
  /\ flushLeft \in 0..FlushTimeout /\ stopLeft \in 0..StopTimeout /\ elapsed \in Nat
  /\ code \in {"none", "ok", "error", "killed"} /\ starts \in 1..MaxStarts
  /\ signaled \in BOOLEAN /\ failed \in BOOLEAN

\* A process that returns from run, at whichever step of the start or of the
\* shutdown, has released everything it opened, each thing once: the cleanup
\* paths of New and Close do not miss or repeat one.
ReleasesOnce ==
  /\ \A r \in Resources : res[r] # "broken"
  /\ code \in {"ok", "error"} => \A r \in Resources : res[r] # "open"

\* A process that subscribes runs on the schema of its binary, also after a
\* predecessor that died in the middle of a migration, or with a database that
\* a newer binary has migrated.
RunsOnLatestSchema ==
  phase \notin {"load", "logger", "migrate", "up", "applying", "exited"}
    => version = Migrations /\ ~dirty

\* Nothing is used after Close: not by the streams and the workers, nor by the
\* final flush, whichever of them is the last to return.
ClosedAfterUse ==
  /\ streams = "running" => res["client"] = "open"
  /\ pool \in {"running", "flushing"} => res["store"] = "open"

\* The checks of a probe, one after another, end half a second before Shutdown
\* gives up: three of three seconds each do, but the one of Redis takes longer.
BudgetOK(c) ==
  ~c.redis.enabled

\* A process that was up ends with an error only when something failed: a
\* signal alone, even during a slow probe, ends it with success.
StopsWithoutError ==
  code = "error" /\ BudgetOK(cfg) => failed

\* Nor does a probe use what Close has closed, as long as its checks fit into
\* the shutdown and the server itself did not fail.
ProbeBeforeClose ==
  BudgetOK(cfg) /\ ~failed /\ phase # "exited" /\ probe.check \notin {"none", "auth"}
    => res[Dependency[probe.check]] = "open"

\* The shutdown is over before the grace period is, whatever it waits for.
WithinGrace ==
  elapsed < GracePeriod

\* A canceled process ends.
Stops ==
  canceled ~> phase = "exited"
=============================================================================
