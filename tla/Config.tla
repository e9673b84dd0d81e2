------------------------------- MODULE Config -------------------------------
(***************************************************************************)
(* The configuration (internal/config/config.go): Load parses the          *)
(* environment and Validate collects what is wrong with it; a process      *)
(* starts only when nothing is.                                            *)
(*                                                                         *)
(* An address is "host:port", "other" (net.SplitHostPort refuses it) or    *)
(* empty, a URL "absolute", "other" or empty.  Durations are numbers of    *)
(* thirds of a second, rounded up.  Names, passwords and the like, which   *)
(* nothing checks, are left out.                                           *)
(***************************************************************************)
EXTENDS Integers, Sequences

\* Config, with the default of every setting that has one.
Defaults(topics) ==
  [parses |-> TRUE,      \* env.Parse finds the required settings, all well formed
   level |-> "info",
   loginURL |-> "absolute", endpoint |-> "host:port", webhook |-> "",
   topics |-> topics,
   maxConns |-> 20, workers |-> 8, flowBatchSize |-> 100,
   redis |-> [enabled |-> FALSE, addr |-> "", ttl |-> 259200, timeout |-> 2],
   kafka |-> [enabled |-> FALSE, brokers |-> <<>>, topic |-> "salesforce.events",
              produceTimeout |-> 90, createTopic |-> FALSE,
              partitions |-> 3, replication |-> 1]]

RedisProblems(r) ==
  IF ~r.enabled THEN {} ELSE
    {p \in {"REDIS_ADDR"} : r.addr # "host:port"}
    \union {p \in {"REDIS_TTL"} : r.ttl <= 0}
    \union {p \in {"REDIS_TIMEOUT"} : r.timeout <= 0}

TopicProblems(k) ==
  IF ~k.createTopic THEN {} ELSE
    {p \in {"KAFKA_TOPIC_PARTITIONS"} : k.partitions < 1}
    \union {p \in {"KAFKA_TOPIC_REPLICATION_FACTOR"} : k.replication < 1}

KafkaProblems(k) ==
  IF ~k.enabled THEN {} ELSE
    {p \in {"KAFKA_BROKERS"} :
       k.brokers = <<>> \/ \E i \in DOMAIN k.brokers : k.brokers[i] # "host:port"}
    \union {p \in {"KAFKA_TOPIC"} : k.topic = ""}
    \union {p \in {"KAFKA_PRODUCE_TIMEOUT"} : k.produceTimeout <= 0}
    \union TopicProblems(k)

\* Validate: the settings it complains about; errors.Join of none is nil.
Problems(c) ==
  {p \in {"WORKER_COUNT"} : c.workers < 1}
  \union {p \in {"FLOW_BATCH_SIZE"} : c.flowBatchSize < 1}
  \union {p \in {"DATABASE_MAX_CONNS"} : c.maxConns < 1 \/ c.maxConns > 1000}
  \union {p \in {"SF_TOPICS"} : c.topics = <<>> \/ \E i \in DOMAIN c.topics : c.topics[i] = ""}
  \union {p \in {"PUBSUB_ENDPOINT"} : c.endpoint # "host:port"}
  \union {p \in {"SF_LOGIN_URL"} : c.loginURL # "absolute"}
  \union {p \in {"SINK_WEBHOOK_URL"} : c.webhook \notin {"", "absolute"}}
  \union RedisProblems(c.redis)
  \union KafkaProblems(c.kafka)

Loads(c) == c.parses /\ Problems(c) = {}
=============================================================================
