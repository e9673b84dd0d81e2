------------------------------ MODULE MCService ------------------------------
(* Instance of Service for TLC. *)
EXTENDS Service

Plain == Defaults(<<"t1">>)

\* With the sink; the settings of the topic it does not create may be wrong.
WithKafka ==
  [Defaults(<<"t1", "t2">>) EXCEPT !.kafka.enabled = TRUE, !.kafka.brokers = <<"host:port">>,
                                   !.kafka.partitions = 0]

CreatesTopic == [WithKafka EXCEPT !.kafka.createTopic = TRUE, !.kafka.partitions = 3]

\* With the cache; the checks of this one take longer than the server waits.
WithRedis ==
  [Plain EXCEPT !.redis.enabled = TRUE, !.redis.addr = "host:port",
                !.redis.timeout = 6]

Wrong ==
  {[Plain EXCEPT !.parses = FALSE], [Plain EXCEPT !.level = "loud"],
   [Plain EXCEPT !.topics = <<>>], [Plain EXCEPT !.workers = 0],
   [WithRedis EXCEPT !.redis.timeout = 0], [CreatesTopic EXCEPT !.kafka.partitions = 0]}

MCConfigs == {Plain, WithKafka, CreatesTopic, WithRedis} \union Wrong
=============================================================================
