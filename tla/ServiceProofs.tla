---------------------------- MODULE ServiceProofs ----------------------------
(***************************************************************************)
(* Proofs about Service, for any configurations, any number of migrations  *)
(* and any number of processes one after another.                          *)
(***************************************************************************)
EXTENDS Service, TLAPS

\* The provers to try, with time for a busy machine; a leaf that needs no
\* arithmetic may cite Zenon alone.
USE SMTT(10), Zenon, SMTT(30), SMTT(60)

USE ServiceAssumption

Unopened == {"load", "logger", "migrate"}
Migrating == {"up", "applying"}
NoClient == Unopened \union Migrating \union {"dial"}
NoStore == NoClient \union {"store"}
NoProducer == NoStore \union {"subscribers", "kafka"}
NoRedis == NoProducer \union {"ensure", "redis"}

-----------------------------------------------------------------------------
(* Migrations *)

(* Whatever state of the database a process finds, and wherever its          *)
(* predecessors died, it dials Salesforce only on the schema of its binary.  *)
THEOREM RunsOnLatestSchemaHolds == Spec => []RunsOnLatestSchema
<1> USE DEF RunsOnLatestSchema
<1>1. Init => RunsOnLatestSchema
  BY DEF Init
<1>2. RunsOnLatestSchema /\ [Next]_vars => RunsOnLatestSchema'
  <2> SUFFICES ASSUME RunsOnLatestSchema, [Next]_vars PROVE RunsOnLatestSchema'
    OBVIOUS
  <2> USE DEF GoOn, Fails, GroupStep, ProbeStep, database, timers, running
  <2>1. CASE Start
    <3>1. CASE Load \/ LoadFails \/ NewLogger \/ NewLoggerFails \/ OpenMigrator \/ OpenMigratorFails
      BY <3>1 DEF Load, LoadFails, NewLogger, NewLoggerFails, OpenMigrator, OpenMigratorFails
    <3>2. CASE UpBegins \/ UpApplies \/ Migrated \/ MigrateFails
      BY <3>2 DEF UpBegins, UpApplies, Migrated, MigrateFails
    <3>3. CASE Dial \/ DialFails \/ NewPool \/ NewPoolFails \/ NewSubscribers
      BY <3>3 DEF Dial, DialFails, NewPool, NewPoolFails, NewSubscribers
    <3>4. CASE \/ NewProducer \/ NewProducerFails \/ EnsureTopic \/ EnsureTopicFails
               \/ NewDedup \/ Assemble
      BY <3>4 DEF NewProducer, NewProducerFails, EnsureTopic, EnsureTopicFails, NewDedup, Assemble
    <3> QED BY <2>1, <3>1, <3>2, <3>3, <3>4 DEF Start
  <2>2. CASE Serve
    <3>1. UNCHANGED <<phase, version, dirty>>
      BY <2>2 DEF Serve, StreamsReturn, WorkersReturn, FlushReturns, Listen, ListenFails, ServeFails,
                  Shutdown, ShutdownReturns, ShutdownTimesOut, ProbeArrives, CheckBegins,
                  JoinRefresh, CheckEnds
    <3> QED BY <3>1
  <2>3. ASSUME NEW ok \in BOOLEAN, GetTopic(ok) PROVE RunsOnLatestSchema'
    BY <2>3 DEF GetTopic
  <2>4. CASE GetSchema \/ StartGroup \/ Tick \/ GroupEnds \/ CloseStore
    BY <2>4 DEF GetSchema, StartGroup, Tick, GroupEnds, CloseStore
  <2>5. CASE Signal \/ Crash \/ Restart
    BY <2>5 DEF Signal, Crash, Restart, Fresh
  <2>6. CASE UNCHANGED vars
    BY <2>6 DEF vars
  <2> QED BY <2>1, <2>2, <2>3, <2>4, <2>5, <2>6 DEF Next
<1> QED BY <1>1, <1>2, PTL DEF Spec

-----------------------------------------------------------------------------
(* Resources *)

\* What is open at each step of run, and what has been closed.
HeldInvariant ==
  /\ res \in [Resources -> {"absent", "open", "closed"}]
  /\ code \in {"ok", "error"} => phase = "exited" /\ \A r \in Resources : res[r] # "open"
  /\ phase # "exited" =>
       /\ res["migrator"] = IF phase \in Unopened THEN "absent"
                            ELSE IF phase \in Migrating THEN "open" ELSE "closed"
       /\ res["client"] = IF phase \in NoClient THEN "absent" ELSE "open"
       /\ res["store"] = IF phase \in NoStore THEN "absent" ELSE "open"
       /\ res["producer"] = IF phase \in NoProducer \/ ~cfg.kafka.enabled THEN "absent"
                            ELSE IF phase = "closing" THEN "closed" ELSE "open"
       /\ res["redis"] = IF phase \in NoRedis \/ ~cfg.redis.enabled THEN "absent"
                         ELSE IF phase = "closing" THEN "closed" ELSE "open"
       /\ phase \in {"kafka", "ensure"} => cfg.kafka.enabled
       /\ phase = "assemble" => cfg.redis.enabled
       /\ phase \notin {"running", "closing"} => http = "off"
       /\ phase = "closing" => http \in {"returned", "timedOut"}
       /\ http \in {"off", "binding"} => res["listener"] = "absent"
       /\ http = "serving" => res["listener"] = "open"
       /\ http \notin {"off", "binding", "serving"} => res["listener"] # "open"

(* The steps of a start keep the table, the failing ones release it all. *)
LEMMA StartHeld ==
  ASSUME HeldInvariant, Start PROVE HeldInvariant'
<1> USE DEF HeldInvariant, Opened, Released, Resources, GoOn, Fails, database, timers, running,
            Unopened, Migrating, NoClient, NoStore, NoProducer, NoRedis
<1>1. CASE Load \/ LoadFails \/ NewLogger \/ NewLoggerFails
  BY <1>1 DEF Load, LoadFails, NewLogger, NewLoggerFails
<1>2. CASE OpenMigrator
  BY <1>2 DEF OpenMigrator
<1>3. CASE OpenMigratorFails
  BY <1>3 DEF OpenMigratorFails
<1>4. CASE UpBegins \/ UpApplies
  BY <1>4 DEF UpBegins, UpApplies
<1>5. CASE Migrated
  BY <1>5 DEF Migrated
<1>6. CASE MigrateFails
  BY <1>6 DEF MigrateFails
<1>7. CASE Dial
  BY <1>7 DEF Dial
<1>8. CASE DialFails
  BY <1>8 DEF DialFails
<1>9. CASE NewPool
  BY <1>9 DEF NewPool
<1>10. CASE NewPoolFails
  BY <1>10 DEF NewPoolFails
<1>11. CASE NewSubscribers
  BY <1>11 DEF NewSubscribers
<1>12. CASE NewProducer
  BY <1>12 DEF NewProducer
<1>13. CASE NewProducerFails
  BY <1>13 DEF NewProducerFails
<1>14. CASE EnsureTopic
  BY <1>14 DEF EnsureTopic
<1>15. CASE EnsureTopicFails
  BY <1>15 DEF EnsureTopicFails
<1>16. CASE NewDedup
  BY <1>16 DEF NewDedup
<1>17. CASE Assemble
  BY <1>17 DEF Assemble
<1> QED
  BY Zenon, <1>1, <1>2, <1>3, <1>4, <1>5, <1>6, <1>7, <1>8, <1>9, <1>10, <1>11, <1>12, <1>13, <1>14,
     <1>15, <1>16, <1>17 DEF Start

(* The steps of the group only touch the listener. *)
LEMMA ServeHeld ==
  ASSUME HeldInvariant, Serve PROVE HeldInvariant'
<1> USE DEF HeldInvariant, GroupStep, ProbeStep, database, timers
<1>1. CASE \/ StreamsReturn \/ WorkersReturn \/ FlushReturns
           \/ ProbeArrives \/ (\E k \in Checkers(cfg) : CheckBegins(k))
           \/ (\E w \in {"streams", "pool"} : JoinRefresh(w)) \/ CheckEnds
  <2>1. UNCHANGED <<cfg, phase, res, http, code>>
    BY <1>1 DEF StreamsReturn, WorkersReturn, FlushReturns, ProbeArrives, CheckBegins, JoinRefresh,
                CheckEnds
  <2> QED BY <2>1
<1> USE DEF Opened, Released, Resources, NoClient, NoStore, NoProducer, NoRedis, Unopened, Migrating
<1>2. CASE Listen
  BY <1>2 DEF Listen
<1>3. CASE ListenFails
  BY <1>3 DEF ListenFails
<1>4. CASE ServeFails
  BY <1>4 DEF ServeFails
<1>5. CASE Shutdown
  BY <1>5 DEF Shutdown
<1>6. CASE ShutdownReturns \/ ShutdownTimesOut
  BY <1>6 DEF ShutdownReturns, ShutdownTimesOut
<1> QED
  BY <1>1, <1>2, <1>3, <1>4, <1>5, <1>6 DEF Serve

(* Every step keeps the table. *)
LEMMA NextHeld == HeldInvariant /\ [Next]_vars => HeldInvariant'
<1> SUFFICES ASSUME HeldInvariant, [Next]_vars PROVE HeldInvariant'
  OBVIOUS
<1> USE DEF HeldInvariant, database, timers, running
<1>1. CASE Start
  BY <1>1, StartHeld
<1>2. CASE Serve
  BY <1>2, ServeHeld
<1> USE DEF Unopened, Migrating, NoClient, NoStore, NoProducer, NoRedis
<1>3. ASSUME NEW ok \in BOOLEAN, GetTopic(ok) PROVE HeldInvariant'
  BY <1>3 DEF GetTopic
<1>4. CASE GetSchema \/ StartGroup \/ Tick
  BY <1>4 DEF GetSchema, StartGroup, Tick
<1>5. CASE GroupEnds
  BY <1>5 DEF GroupEnds, Released, Resources
<1>6. CASE CloseStore
  BY <1>6 DEF CloseStore, Released, Resources
<1>7. CASE Signal
  BY <1>7 DEF Signal
<1>8. CASE Crash \/ Restart
  BY <1>8 DEF Crash, Restart, Fresh, Resources
<1>9. CASE UNCHANGED vars
  BY <1>9 DEF vars
<1> QED
  BY Zenon, <1>1, <1>2, <1>3, <1>4, <1>5, <1>6, <1>7, <1>8, <1>9 DEF Next

(* The table holds at every step of every process. *)
THEOREM HeldInvariantHolds == Spec => []HeldInvariant
<1>1. Init => HeldInvariant
  BY DEF Init, HeldInvariant, Resources, Unopened, Migrating, NoClient, NoStore, NoProducer, NoRedis
<1> QED
  BY <1>1, NextHeld, PTL DEF Spec

(* Every cleanup path of New, and Close, releases what was opened, once: no  *)
(* configuration and no failure half-way leaks a resource or closes it twice. *)
THEOREM ReleasesOnceHolds == Spec => []ReleasesOnce
<1>1. HeldInvariant => ReleasesOnce
  BY DEF HeldInvariant, ReleasesOnce
<1> QED
  BY <1>1, HeldInvariantHolds, PTL

-----------------------------------------------------------------------------
(* The group *)

\* Who is still there, in a process that starts, runs, is canceled and closes.
GroupInvariant ==
  /\ cfg \in Configs /\ canceled \in BOOLEAN
  /\ probe \in [todo : SUBSET Checkers(cfg), check : Checkers(cfg) \union {"none"},
                left : Nat, follows : BOOLEAN]
  /\ probe.check = "none" => ~probe.follows /\ (probe.todo # {} => probe.left = 0)
  /\ phase \notin {"running", "closing", "exited"} =>
       /\ streams = "off" /\ pool = "off" /\ http = "off"
       /\ probe = NoProbe /\ waiting = {} /\ elapsed = 0
  /\ phase = "running" =>
       /\ streams \in {"running", "returned"} /\ pool \in {"running", "flushing", "returned"}
       /\ http \in {"binding", "serving", "stopping", "returned", "timedOut"}
       /\ ~canceled => /\ streams = "running" /\ pool = "running"
                       /\ http \in {"binding", "serving"}
  /\ phase = "closing" =>
       /\ canceled /\ streams = "returned" /\ pool = "returned"
       /\ http \in {"returned", "timedOut"}
  /\ http = "binding" => probe = NoProbe

(* The steps of a start leave the group alone, and the discovery starts it. *)
LEMMA StartGroupInvariant ==
  ASSUME GroupInvariant,
         Start \/ (\E ok \in BOOLEAN : GetTopic(ok)) \/ GetSchema \/ StartGroup
  PROVE  GroupInvariant'
<1> USE DEF database, timers, running, GoOn, Fails
<1>1. CASE Start
  <2>1. /\ UNCHANGED <<cfg, canceled, streams, pool, http, probe, waiting, elapsed>>
        /\ phase \notin {"running", "closing", "exited"} /\ phase' \notin {"running", "closing"}
    BY Zenon, <1>1 DEF Start, Load, LoadFails, NewLogger, NewLoggerFails, OpenMigrator, OpenMigratorFails,
                UpBegins, UpApplies, Migrated, MigrateFails, Dial, DialFails, NewPool, NewPoolFails,
                NewSubscribers, NewProducer, NewProducerFails, EnsureTopic, EnsureTopicFails,
                NewDedup, Assemble
  <2> QED BY <2>1 DEF GroupInvariant
<1>2. CASE (\E ok \in BOOLEAN : GetTopic(ok)) \/ GetSchema
  <2>1. /\ UNCHANGED <<cfg, canceled, streams, pool, http, probe, waiting, elapsed>>
        /\ phase \notin {"running", "closing", "exited"}
        /\ phase' \notin {"running", "closing", "exited"}
    BY <1>2 DEF GetTopic, GetSchema
  <2> QED BY <2>1 DEF GroupInvariant
<1>3. CASE StartGroup
  BY <1>3 DEF GroupInvariant, StartGroup
<1> QED BY <1>1, <1>2, <1>3

(* The probe that is none. *)
LEMMA NoProbeFields ==
  /\ NoProbe.todo = {} /\ NoProbe.check = "none" /\ NoProbe.left = 0 /\ NoProbe.follows = FALSE
  /\ [NoProbe EXCEPT !.left = Less(@)] = NoProbe
  /\ \A S : NoProbe \in [todo : SUBSET S, check : S \union {"none"}, left : Nat, follows : BOOLEAN]
  BY DEF NoProbe, Less

(* Time only changes what is left of a probe. *)
LEMMA TickProbe ==
  ASSUME GroupInvariant, Tick
  PROVE  /\ probe' \in [todo : SUBSET Checkers(cfg), check : Checkers(cfg) \union {"none"},
                        left : Nat, follows : BOOLEAN]
         /\ probe'.todo = probe.todo /\ probe'.check = probe.check
         /\ (probe'.follows <=> probe.follows)
         /\ probe'.left = IF probe.left > 0 THEN probe.left - 1 ELSE 0
<1> DEFINE Checks == Checkers(cfg)
<1>1. probe \in [todo : SUBSET Checks, check : Checks \union {"none"}, left : Nat, follows : BOOLEAN]
  BY DEF GroupInvariant
<1>2. probe' = [probe EXCEPT !.left = Less(@)]
  BY DEF Tick
<1> HIDE DEF Checks
<1>3. /\ probe' \in [todo : SUBSET Checks, check : Checks \union {"none"},
                     left : Nat, follows : BOOLEAN]
      /\ probe'.todo = probe.todo /\ probe'.check = probe.check /\ (probe'.follows <=> probe.follows)
      /\ probe'.left = IF probe.left > 0 THEN probe.left - 1 ELSE 0
  BY <1>1, <1>2 DEF Less
<1> QED BY <1>3 DEF Checks

(* CheckTimeout is a number. *)
LEMMA CheckTimeoutNat ==
  ASSUME NEW c \in Configs, NEW k PROVE CheckTimeout(c, k) \in Nat
  BY DEF CheckTimeout, RedisCheckTimeout, AuthCheckTimeout, DbCheckTimeout, RedisReadTimeout

(* A check that ends leaves those that are still to do, or the poll. *)
LEMMA CheckEndsProbe ==
  ASSUME GroupInvariant, CheckEnds
  PROVE  /\ probe' \in [todo : SUBSET Checkers(cfg), check : Checkers(cfg) \union {"none"},
                        left : Nat, follows : BOOLEAN]
         /\ probe'.todo = probe.todo /\ probe'.check = "none" /\ ~probe'.follows
         /\ probe'.left = IF probe.todo = {} /\ http = "stopping" THEN PollInterval ELSE 0
<1> DEFINE Checks == Checkers(cfg)
           n == IF probe.todo = {} /\ http = "stopping" THEN PollInterval ELSE 0
<1>1. probe.todo \in SUBSET Checks
  BY DEF GroupInvariant
<1>2. probe' = [NoProbe EXCEPT !.todo = probe.todo, !.left = n] /\ n \in Nat
  BY DEF CheckEnds, PollInterval
<1> HIDE DEF Checks, n
<1>3. /\ probe' \in [todo : SUBSET Checks, check : Checks \union {"none"},
                     left : Nat, follows : BOOLEAN]
      /\ probe'.todo = probe.todo /\ probe'.check = "none" /\ ~probe'.follows /\ probe'.left = n
  BY <1>1, <1>2 DEF NoProbe
<1> QED BY <1>3 DEF Checks, n

(* Every step keeps the shape of the group. *)
LEMMA NextGroup == GroupInvariant /\ [Next]_vars => GroupInvariant'
<1> SUFFICES ASSUME GroupInvariant, [Next]_vars PROVE GroupInvariant'
  OBVIOUS
<1> USE DEF database, timers, running, GroupStep, ProbeStep
<1>1. CASE Start \/ (\E ok \in BOOLEAN : GetTopic(ok)) \/ GetSchema \/ StartGroup
  BY <1>1, StartGroupInvariant
<1>2. CASE StreamsReturn \/ WorkersReturn \/ FlushReturns
  BY <1>2 DEF GroupInvariant, StreamsReturn, WorkersReturn, FlushReturns
<1>3. CASE Listen \/ ListenFails \/ ServeFails
  BY Zenon, <1>3 DEF GroupInvariant, Listen, ListenFails, ServeFails
<1>4. CASE Shutdown \/ ShutdownReturns \/ ShutdownTimesOut
  <2>1. CASE Shutdown \/ ShutdownTimesOut
    BY <2>1 DEF GroupInvariant, Shutdown, ShutdownTimesOut
  <2>2. CASE ShutdownReturns
    BY <2>2, NoProbeFields DEF GroupInvariant, ShutdownReturns
  <2> QED BY <1>4, <2>1, <2>2
<1>5. CASE ProbeArrives
  BY Zenon, <1>5 DEF GroupInvariant, ProbeArrives, NoProbe
<1>6. ASSUME NEW k \in Checkers(cfg), CheckBegins(k) PROVE GroupInvariant'
  <2>1. PICK follows \in BOOLEAN :
          probe' = [todo |-> probe.todo \ {k}, check |-> k,
                    left |-> IF follows THEN 0 ELSE CheckTimeout(cfg, k), follows |-> follows]
    BY Zenon, <1>6 DEF CheckBegins
  <2>2. k # "none" /\ CheckTimeout(cfg, k) \in Nat
    BY CheckTimeoutNat DEF Checkers, GroupInvariant
  <2>3. http # "binding"
    BY <1>6, NoProbeFields DEF CheckBegins, GroupInvariant
  <2>4. /\ UNCHANGED <<cfg, phase, canceled, streams, pool, http, waiting, elapsed>>
        /\ phase \in {"running", "closing"}
    BY <1>6 DEF CheckBegins
  <2>5. probe' \in [todo : SUBSET Checkers(cfg), check : Checkers(cfg) \union {"none"},
                    left : Nat, follows : BOOLEAN]
    BY <2>1, <2>2 DEF GroupInvariant
  <2> QED BY <2>1, <2>2, <2>3, <2>4, <2>5 DEF GroupInvariant
<1>7. CASE (\E w \in {"streams", "pool"} : JoinRefresh(w))
  BY <1>7 DEF GroupInvariant, JoinRefresh
<1>8. CASE CheckEnds
  <2>1. /\ UNCHANGED <<cfg, phase, canceled, streams, pool, http, elapsed>>
        /\ phase \in {"running", "closing"} /\ http # "binding"
    BY <1>8, NoProbeFields DEF CheckEnds, GroupInvariant
  <2> QED BY <2>1, <1>8, CheckEndsProbe DEF GroupInvariant
<1>9. CASE Tick
  <2>1. /\ UNCHANGED <<cfg, phase, canceled, streams, pool, http, waiting>>
        /\ phase \in {"running", "closing"}
        /\ probe = NoProbe => probe' = NoProbe
    BY <1>9, NoProbeFields DEF Tick
  <2>2. probe.left \in Nat
    BY DEF GroupInvariant
  <2> QED BY <1>9, <2>1, <2>2, TickProbe DEF GroupInvariant
<1>10. CASE GroupEnds \/ CloseStore
  BY <1>10 DEF GroupInvariant, GroupEnds, CloseStore
<1>11. CASE Signal
  BY Zenon, <1>11 DEF GroupInvariant, Signal
<1>12. CASE Crash \/ Restart
  BY Zenon, <1>12, NoProbeFields DEF GroupInvariant, Crash, Restart, Fresh
<1>13. CASE UNCHANGED vars
  BY <1>13 DEF GroupInvariant, vars
<1> QED
  BY <1>1, <1>2, <1>3, <1>4, <1>5, <1>6, <1>7, <1>8, <1>9, <1>10, <1>11, <1>12, <1>13
  DEF Next, Serve

(* No process starts with a group. *)
LEMMA InitGroup == Init => GroupInvariant
  BY Zenon, NoProbeFields DEF Init, GroupInvariant

-----------------------------------------------------------------------------
(* Time *)

\* How long each part may still take: streams and workers wait for a token
\* refresh of a probe, the pool then flushes, the server waits for its requests,
\* and Close waits for one more check of the database.
TimeInvariant ==
  /\ elapsed \in Nat /\ flushLeft \in Nat /\ stopLeft \in Nat
  /\ elapsed <= 39 /\ (~canceled => elapsed = 0)
  /\ probe.check \in {"auth", "database"} => probe.left <= 9
  /\ probe.check = "database" => "database" \notin probe.todo
  /\ waiting # {} => probe.check = "auth" /\ ~probe.follows
  /\ phase = "running" =>
       /\ elapsed <= 30
       /\ http \in {"binding", "serving"} => elapsed = 0
       /\ http = "stopping" => elapsed + stopLeft <= 30
       /\ streams = "running" \/ pool = "running" => elapsed <= 9
       /\ waiting # {} => elapsed + probe.left <= 9
       /\ pool = "flushing" => elapsed + flushLeft <= 24
  /\ phase = "closing" =>
       \/ elapsed <= 30
       \/ "database" \notin probe.todo /\ (probe.check = "database" => elapsed + probe.left <= 39)

(* Time passes only while a timer runs that bounds the wait. *)
LEMMA TickTime ==
  ASSUME GroupInvariant, TimeInvariant, Tick PROVE TimeInvariant'
<1>1. /\ probe.left \in Nat /\ elapsed \in Nat /\ flushLeft \in Nat /\ stopLeft \in Nat
      /\ canceled \in BOOLEAN
  BY DEF GroupInvariant, TimeInvariant
<1>2. /\ probe'.todo = probe.todo /\ probe'.check = probe.check /\ (probe'.follows <=> probe.follows)
      /\ probe'.left = IF probe.left > 0 THEN probe.left - 1 ELSE 0
  BY TickProbe
<1>3. /\ flushLeft' = IF flushLeft > 0 THEN flushLeft - 1 ELSE 0
      /\ stopLeft' = IF stopLeft > 0 THEN stopLeft - 1 ELSE 0
      /\ elapsed' = IF canceled THEN elapsed + 1 ELSE elapsed
      /\ UNCHANGED <<phase, canceled, streams, pool, http, waiting>>
      /\ phase \in {"running", "closing"}
      /\ probe.check # "none" /\ ~probe.follows => probe.left # 0
      /\ pool = "flushing" => flushLeft # 0
      /\ http = "stopping" => stopLeft # 0
      /\ canceled /\ streams = "running" => waiting # {}
      /\ canceled /\ pool = "running" => waiting # {} \/ elapsed < WorkerLag(cfg)
      /\ canceled => http \notin {"binding", "serving"}
      /\ ~(phase = "running" /\ streams = "returned" /\ pool = "returned"
             /\ http \in {"returned", "timedOut"})
      /\ phase = "closing" => probe.check = "database"
      /\ canceled => ~probe.follows
  <2>1. WorkerLag(cfg) \in Nat
    BY DEF WorkerLag, RedisReadTimeout
  <2> QED BY <1>1, <2>1 DEF Tick, Less, Prompt, Expired, timers
<1>4. CASE ~canceled
  BY <1>1, <1>2, <1>3, <1>4 DEF TimeInvariant, GroupInvariant
<1>5. CASE canceled /\ phase = "running"
  <2>1. elapsed' = elapsed + 1
    BY <1>3, <1>5
  <2>2. waiting # {} => elapsed' + probe'.left <= 9
    BY <1>1, <1>2, <1>3, <1>5, <2>1 DEF TimeInvariant
  <2>3. /\ pool = "flushing" => elapsed' + flushLeft' <= 24
        /\ http = "stopping" => elapsed' + stopLeft' <= 30
    BY <1>1, <1>3, <1>5, <2>1 DEF TimeInvariant
  <2>4. streams = "running" \/ pool = "running" => elapsed' <= 9
    <3>1. WorkerLag(cfg) \in 0..9
      BY DEF WorkerLag, RedisReadTimeout
    <3> QED BY <1>1, <1>2, <1>3, <1>5, <2>1, <2>2, <3>1
  <2>5. elapsed' <= 30
    <3>1. \/ streams = "running" \/ pool = "running" \/ pool = "flushing" \/ http = "stopping"
      BY <1>3, <1>5 DEF GroupInvariant
    <3> QED BY <1>1, <1>3, <2>1, <2>3, <2>4, <3>1
  <2> QED BY <1>1, <1>2, <1>3, <1>5, <2>1, <2>2, <2>3, <2>4, <2>5 DEF TimeInvariant
<1>6. CASE canceled /\ phase = "closing"
  <2>1. probe.left > 0 /\ probe.left <= 9 /\ waiting = {}
    BY <1>1, <1>3, <1>6 DEF TimeInvariant
  <2>2. elapsed' + probe'.left <= 39 /\ probe'.left \in Nat /\ elapsed' \in Nat
    BY <1>1, <1>2, <1>3, <1>6, <2>1 DEF TimeInvariant
  <2> QED BY <1>1, <1>2, <1>3, <1>6, <2>1, <2>2 DEF TimeInvariant
<1> QED
  BY <1>3, <1>4, <1>5, <1>6

(* Every step keeps what is left of the shutdown within its bounds. *)
LEMMA NextTime == GroupInvariant /\ TimeInvariant /\ [Next]_vars => TimeInvariant'
<1> SUFFICES ASSUME GroupInvariant, TimeInvariant, [Next]_vars PROVE TimeInvariant'
  OBVIOUS
<1> USE DEF database, timers, running, GroupStep, ProbeStep
<1>0. probe.left \in Nat /\ elapsed \in Nat /\ flushLeft \in Nat /\ stopLeft \in Nat
  BY DEF GroupInvariant, TimeInvariant
<1>1. CASE Start \/ (\E ok \in BOOLEAN : GetTopic(ok)) \/ GetSchema
  <2>1. /\ UNCHANGED <<canceled, streams, pool, http, probe, waiting, elapsed, flushLeft, stopLeft>>
        /\ phase' \notin {"running", "closing"}
    BY Zenon, <1>1 DEF Start, GoOn, Fails, Load, LoadFails, NewLogger, NewLoggerFails, OpenMigrator,
                OpenMigratorFails, UpBegins, UpApplies, Migrated, MigrateFails, Dial, DialFails,
                NewPool, NewPoolFails, NewSubscribers, NewProducer, NewProducerFails, EnsureTopic,
                EnsureTopicFails, NewDedup, Assemble, GetTopic, GetSchema
  <2> QED BY <2>1 DEF TimeInvariant
<1>2. CASE StartGroup
  BY <1>2, <1>0 DEF TimeInvariant, GroupInvariant, StartGroup
<1>3. CASE StreamsReturn \/ WorkersReturn \/ FlushReturns
  BY <1>3, <1>0 DEF TimeInvariant, StreamsReturn, WorkersReturn, FlushReturns, FlushTimeout
<1>4. CASE Listen \/ ServeFails
  BY <1>4, <1>0 DEF TimeInvariant, GroupInvariant, Listen, ServeFails
<1>5. CASE ListenFails
  BY <1>5, <1>0 DEF TimeInvariant, GroupInvariant, ListenFails
<1>6. CASE Shutdown \/ ShutdownReturns \/ ShutdownTimesOut
  <2>1. CASE Shutdown
    BY <1>0, <2>1 DEF TimeInvariant, GroupInvariant, Shutdown, StopTimeout
  <2>2. CASE ShutdownReturns
    BY <1>0, <2>2, NoProbeFields DEF TimeInvariant, ShutdownReturns
  <2>3. CASE ShutdownTimesOut
    BY <1>0, <2>3 DEF TimeInvariant, ShutdownTimesOut
  <2> QED BY <1>6, <2>1, <2>2, <2>3
<1>7. CASE ProbeArrives
  <2>1. probe'.check = "none" /\ probe'.left = 0 /\ waiting = {}
    BY <1>7, NoProbeFields DEF ProbeArrives, NoProbe, TimeInvariant
  <2>2. /\ UNCHANGED <<phase, canceled, streams, pool, http, waiting, elapsed, flushLeft, stopLeft>>
        /\ phase # "closing"
    BY <1>7 DEF ProbeArrives, GroupInvariant
  <2> QED BY <1>0, <2>1, <2>2 DEF TimeInvariant
<1>8. ASSUME NEW k \in Checkers(cfg), CheckBegins(k) PROVE TimeInvariant'
  <2>1. PICK follows \in BOOLEAN :
          probe' = [todo |-> probe.todo \ {k}, check |-> k,
                    left |-> IF follows THEN 0 ELSE CheckTimeout(cfg, k), follows |-> follows]
    BY ZenonT(30), <1>8 DEF CheckBegins
  <2>2. /\ UNCHANGED <<phase, canceled, streams, pool, http, waiting, elapsed, flushLeft, stopLeft>>
        /\ k \in probe.todo /\ waiting = {}
    BY <1>8 DEF CheckBegins, TimeInvariant
  <2>3. k \in {"auth", "database"} => CheckTimeout(cfg, k) = 9
    BY DEF CheckTimeout, AuthCheckTimeout, DbCheckTimeout
  <2>4. /\ probe'.check = k /\ probe'.todo = probe.todo \ {k}
        /\ k \in {"auth", "database"} => probe'.left <= 9
    BY <2>1, <2>3
  <2> QED BY <1>0, <2>2, <2>4 DEF TimeInvariant
<1>9. CASE (\E w \in {"streams", "pool"} : JoinRefresh(w))
  BY <1>9, <1>0 DEF TimeInvariant, GroupInvariant, JoinRefresh
<1>10. CASE CheckEnds
  <2>1. probe'.check = "none" /\ probe'.todo = probe.todo /\ waiting' = {}
    BY <1>10, CheckEndsProbe DEF CheckEnds, TimeInvariant
  <2>2. UNCHANGED <<phase, canceled, streams, pool, http, elapsed, flushLeft, stopLeft>>
    BY <1>10 DEF CheckEnds
  <2> QED BY <1>0, <2>1, <2>2 DEF TimeInvariant
<1>11. CASE Tick
  BY <1>11, TickTime
<1>12. CASE GroupEnds \/ CloseStore
  BY <1>12, <1>0 DEF TimeInvariant, GroupEnds, CloseStore
<1>13. CASE Signal
  BY <1>13, <1>0 DEF TimeInvariant, GroupInvariant, Signal
<1>14. CASE Crash \/ Restart
  BY <1>14, NoProbeFields DEF TimeInvariant, Crash, Restart, Fresh
<1>15. CASE UNCHANGED vars
  BY <1>15 DEF TimeInvariant, vars
<1> QED
  BY <1>1, <1>2, <1>3, <1>4, <1>5, <1>6, <1>7, <1>8, <1>9, <1>10, <1>11, <1>12, <1>13, <1>14, <1>15
  DEF Next, Serve

(* The shutdown takes 13 seconds at most, whatever the streams, the workers, *)
(* the flush, a probe and the pool's Close wait for: any longer grace period *)
(* is enough, for every configuration.                                       *)
THEOREM WithinGraceHolds ==
  ASSUME GracePeriod > 39 PROVE Spec => []WithinGrace
<1>1. Init => TimeInvariant
  BY NoProbeFields DEF Init, TimeInvariant
<1>2. TimeInvariant => WithinGrace
  BY DEF TimeInvariant, WithinGrace
<1> QED
  BY <1>1, <1>2, InitGroup, NextGroup, NextTime, PTL DEF Spec

-----------------------------------------------------------------------------
(* A probe during the shutdown *)

\* What the running check and those left to do may take, without Redis.
Left(todo, left) ==
  left + (IF "auth" \in todo THEN 9 ELSE 0) + (IF "database" \in todo THEN 9 ELSE 0)
       + (IF "kafka" \in todo THEN 9 ELSE 0)

\* After the last check, Shutdown still has to look.
Polls == IF probe.todo # {} \/ probe.check # "none" THEN 2 ELSE 0

Remaining == Left(probe.todo, probe.left) + Polls

\* The request that Shutdown waits for is over before Shutdown gives up.
BudgetInvariant ==
  /\ stopLeft \in Nat
  /\ code = "error" /\ BudgetOK(cfg) => failed
  /\ http = "stopping" => canceled
  /\ BudgetOK(cfg) =>
       /\ Remaining <= 29 /\ http # "timedOut"
       /\ http = "stopping" => Remaining < stopLeft
       /\ http = "returned" /\ ~failed => probe = NoProbe

(* What is left is a number. *)
LEMMA LeftNat ==
  ASSUME NEW todo, NEW left \in Nat PROVE Left(todo, left) \in Nat
  BY DEF Left

(* So is what remains. *)
LEMMA RemainingNat == GroupInvariant => Remaining \in Nat /\ Polls \in {0, 2}
<1> SUFFICES ASSUME GroupInvariant PROVE Remaining \in Nat /\ Polls \in {0, 2}
  OBVIOUS
<1>1. Polls \in {0, 2}
  BY DEF Polls
<1>2. Left(probe.todo, probe.left) \in Nat
  BY LeftNat DEF GroupInvariant
<1> QED
  BY <1>1, <1>2 DEF Remaining

(* A probe that arrives finds a budget that is large enough. *)
LEMMA ArrivalBudget ==
  ASSUME GroupInvariant, BudgetInvariant, ProbeArrives PROVE BudgetInvariant'
<1>1. /\ UNCHANGED <<cfg, stopLeft, code, failed, http, canceled>> /\ http = "serving"
      /\ probe'.left = 0
  BY DEF ProbeArrives, ProbeStep, timers, NoProbe, GroupInvariant
<1>2. Remaining' <= 29
  <2> DEFINE todo == probe'.todo
  <2>1. Remaining' = Left(todo, 0) + Polls' /\ Polls' \in {0, 2}
    BY <1>1 DEF Remaining, Polls
  <2> HIDE DEF todo
  <2>2. Left(todo, 0) \in 0..27
    BY DEF Left
  <2>3. \A m \in 0..27, n \in {0, 2} : m + n <= 29
    OBVIOUS
  <2> QED BY Zenon, <2>1, <2>2, <2>3
<1>3. BudgetOK(cfg)' <=> BudgetOK(cfg)
  BY <1>1 DEF BudgetOK
<1> QED
  BY <1>1, <1>2, <1>3 DEF BudgetInvariant

(* Starting a check spends what was set aside for it. *)
LEMMA CheckBudget ==
  ASSUME GroupInvariant, BudgetInvariant, NEW k \in Checkers(cfg), CheckBegins(k)
  PROVE  BudgetInvariant'
<1>1. PICK follows \in BOOLEAN :
        probe' = [todo |-> probe.todo \ {k}, check |-> k,
                  left |-> IF follows THEN 0 ELSE CheckTimeout(cfg, k), follows |-> follows]
  BY Zenon DEF CheckBegins
<1>2. /\ UNCHANGED <<cfg, stopLeft, code, failed, http, canceled>>
      /\ k \in probe.todo /\ probe.left = 0 /\ probe # NoProbe
  BY NoProbeFields DEF CheckBegins, ProbeStep, timers, GroupInvariant
<1>3. /\ probe'.todo = probe.todo \ {k} /\ probe'.check = k
      /\ probe'.left \in {0, CheckTimeout(cfg, k)}
  BY <1>1
<1>4. BudgetOK(cfg)' <=> BudgetOK(cfg)
  BY <1>2 DEF BudgetOK
<1>5. ASSUME BudgetOK(cfg) PROVE Remaining' <= Remaining /\ Remaining' \in Nat /\ Remaining \in Nat
  <2> DEFINE todo == probe.todo
             left == probe'.left
  <2>1. k \in {"auth", "database", "kafka"} /\ CheckTimeout(cfg, k) = 9
    BY <1>5 DEF Checkers, CheckTimeout, AuthCheckTimeout, DbCheckTimeout, BudgetOK
  <2>2. Polls = 2 /\ Polls' = 2
    BY <1>2, <1>3, <2>1 DEF Polls
  <2>3. /\ Remaining = Left(todo, 0) + 2 /\ Remaining' = Left(todo \ {k}, left) + 2
        /\ k \in todo /\ left \in {0, 9}
    BY <1>2, <1>3, <2>1, <2>2 DEF Remaining
  <2> HIDE DEF todo, left
  <2>4. CASE k = "auth"
    BY <2>3, <2>4 DEF Left
  <2>5. CASE k = "database"
    BY <2>3, <2>5 DEF Left
  <2>6. CASE k = "kafka"
    BY <2>3, <2>6 DEF Left
  <2> QED BY <2>1, <2>4, <2>5, <2>6
<1> QED
  BY <1>2, <1>4, <1>5 DEF BudgetInvariant

(* Ending a check leaves the others, and the poll after the last one. *)
LEMMA EndBudget ==
  ASSUME GroupInvariant, BudgetInvariant, CheckEnds PROVE BudgetInvariant'
<1>1. /\ UNCHANGED <<cfg, canceled, http, stopLeft, code, failed>>
      /\ probe.check # "none" /\ probe # NoProbe /\ probe.left \in Nat
  BY NoProbeFields DEF CheckEnds, ProbeStep, timers, GroupInvariant
<1>2. BudgetOK(cfg)' <=> BudgetOK(cfg)
  BY <1>1 DEF BudgetOK
<1>3. Remaining' <= Remaining /\ Remaining' \in Nat /\ Remaining \in Nat
  <2> DEFINE todo == probe.todo
             left == probe.left
             next == probe'.left
  <2>1. next = 0 \/ (todo = {} /\ next = 2)
    BY CheckEndsProbe DEF PollInterval
  <2>2. probe'.todo = todo /\ probe'.check = "none"
    BY CheckEndsProbe
  <2>3. /\ Remaining = Left(todo, left) + 2 /\ left \in Nat
        /\ Remaining' = Left(todo, next) + IF todo # {} THEN 2 ELSE 0
    BY <1>1, <2>2 DEF Remaining, Polls
  <2> HIDE DEF todo, left, next
  <2>4. CASE next = 0
    BY <2>3, <2>4 DEF Left
  <2>5. CASE todo = {} /\ next = 2
    BY <2>3, <2>5 DEF Left
  <2> QED BY <2>1, <2>4, <2>5
<1> QED
  BY <1>1, <1>2, <1>3 DEF BudgetInvariant

(* Time spends the budget of the check that runs, or of the poll. *)
LEMMA TickBudget ==
  ASSUME GroupInvariant, BudgetInvariant, Tick PROVE BudgetInvariant'
<1>1. /\ UNCHANGED <<cfg, code, failed, http, canceled>>
      /\ probe.left \in Nat /\ stopLeft \in Nat
      /\ stopLeft' = IF stopLeft > 0 THEN stopLeft - 1 ELSE 0
  BY DEF Tick, Less, GroupInvariant, BudgetInvariant
<1>2. /\ probe'.todo = probe.todo /\ probe'.check = probe.check
      /\ probe'.left = IF probe.left > 0 THEN probe.left - 1 ELSE 0
  BY TickProbe
<1>4. /\ Remaining \in Nat /\ Remaining' \in Nat
      /\ Remaining' = IF probe.left > 0 THEN Remaining - 1 ELSE Remaining
  <2> DEFINE todo == probe.todo
             left == probe.left
             polls == Polls
  <2>1. /\ Remaining = Left(todo, left) + polls /\ polls \in {0, 2} /\ left \in Nat
        /\ Remaining' = Left(todo, IF left > 0 THEN left - 1 ELSE 0) + polls
    BY <1>1, <1>2 DEF Remaining, Polls
  <2> HIDE DEF todo, left, polls
  <2>2. /\ Remaining \in Nat /\ Remaining' \in Nat
        /\ Remaining' = IF left > 0 THEN Remaining - 1 ELSE Remaining
    BY <2>1 DEF Left
  <2> QED BY <2>2 DEF left
<1>5. probe = NoProbe => probe' = NoProbe
  BY NoProbeFields DEF Tick
<1>6. http = "stopping" => stopLeft > 0 /\ probe.left > 0
  <2> SUFFICES ASSUME http = "stopping" PROVE stopLeft > 0 /\ probe.left > 0
    OBVIOUS
  <2>1. canceled /\ stopLeft # 0 /\ probe # NoProbe /\ ~probe.follows
    BY DEF BudgetInvariant, Tick, Prompt, Expired
  <2>2. CASE probe.check # "none"
    BY <1>1, <2>1, <2>2 DEF Tick, Expired
  <2>3. CASE probe.check = "none"
    <3>1. probe.todo = {} /\ probe.follows = FALSE
      BY <2>3 DEF Tick, Prompt, GroupInvariant
    <3>2. probe.left = 0 => probe = NoProbe
      BY <2>3, <3>1 DEF GroupInvariant, NoProbe
    <3> QED BY <1>1, <2>1, <3>2
  <2> QED BY <2>2, <2>3
<1>7. BudgetOK(cfg)' <=> BudgetOK(cfg)
  BY <1>1 DEF BudgetOK
<1> QED
  BY <1>1, <1>4, <1>5, <1>6, <1>7 DEF BudgetInvariant

(* Every step keeps the probe within the budget of the shutdown. *)
LEMMA NextBudget == GroupInvariant /\ BudgetInvariant /\ [Next]_vars => BudgetInvariant'
<1> SUFFICES ASSUME GroupInvariant, BudgetInvariant, [Next]_vars PROVE BudgetInvariant'
  OBVIOUS
<1> USE DEF database, timers, running, GroupStep, ProbeStep
<1>0. /\ Remaining \in Nat /\ stopLeft \in Nat
      /\ UNCHANGED <<cfg, probe>> => Remaining' = Remaining /\ (BudgetOK(cfg)' <=> BudgetOK(cfg))
  BY RemainingNat DEF BudgetInvariant, Remaining, Polls, BudgetOK
<1>1. CASE Start \/ (\E ok \in BOOLEAN : GetTopic(ok)) \/ GetSchema
  <2>1. /\ UNCHANGED <<cfg, canceled, http, probe, stopLeft>>
        /\ UNCHANGED <<code, failed>> \/ failed'
    BY Zenon, <1>1 DEF Start, GoOn, Fails, Load, LoadFails, NewLogger, NewLoggerFails, OpenMigrator,
                OpenMigratorFails, UpBegins, UpApplies, Migrated, MigrateFails, Dial, DialFails,
                NewPool, NewPoolFails, NewSubscribers, NewProducer, NewProducerFails, EnsureTopic,
                EnsureTopicFails, NewDedup, Assemble, GetTopic, GetSchema
  <2> QED BY <1>0, <2>1 DEF BudgetInvariant
<1>2. CASE StartGroup \/ StreamsReturn \/ WorkersReturn \/ FlushReturns \/ Listen
  <2>1. /\ UNCHANGED <<cfg, canceled, probe, stopLeft, code, failed>>
        /\ http' = http \/ http' \in {"binding", "serving"}
    BY <1>2 DEF StartGroup, StreamsReturn, WorkersReturn, FlushReturns, Listen
  <2> QED BY <1>0, <2>1 DEF BudgetInvariant
<1>3. CASE ListenFails \/ ServeFails
  <2>1. /\ UNCHANGED <<cfg, probe, stopLeft, code>> /\ http' = "returned"
        /\ failed' \/ (UNCHANGED failed /\ probe = NoProbe)
    BY Zenon, <1>3 DEF ListenFails, ServeFails, GroupInvariant
  <2> QED BY <1>0, <2>1 DEF BudgetInvariant
<1>4. CASE Shutdown
  BY <1>0, <1>4 DEF BudgetInvariant, Shutdown, StopTimeout
<1>5. CASE ShutdownReturns \/ ShutdownTimesOut
  <2>1. CASE ShutdownReturns
    <3>1. Remaining' = 0
      BY <2>1, NoProbeFields DEF ShutdownReturns, Remaining, Polls, Left
    <3>2. BudgetOK(cfg)' <=> BudgetOK(cfg)
      BY <2>1 DEF ShutdownReturns, BudgetOK
    <3> QED BY <2>1, <3>1, <3>2 DEF BudgetInvariant, ShutdownReturns
  <2>2. CASE ShutdownTimesOut
    BY <1>0, <2>2 DEF BudgetInvariant, ShutdownTimesOut
  <2> QED BY <1>5, <2>1, <2>2
<1>6. CASE ProbeArrives
  BY <1>6, ArrivalBudget
<1>7. ASSUME NEW k \in Checkers(cfg), CheckBegins(k) PROVE BudgetInvariant'
  BY <1>7, CheckBudget
<1>8. CASE (\E w \in {"streams", "pool"} : JoinRefresh(w))
  BY <1>0, <1>8 DEF BudgetInvariant, JoinRefresh
<1>9. CASE CheckEnds
  BY <1>9, EndBudget
<1>10. CASE Tick
  BY <1>10, TickBudget
<1>11. CASE GroupEnds
  BY <1>0, <1>11 DEF BudgetInvariant, GroupEnds
<1>12. CASE CloseStore
  BY <1>0, <1>12 DEF BudgetInvariant, CloseStore
<1>13. CASE Signal
  BY <1>0, <1>13 DEF BudgetInvariant, Signal
<1>14. CASE Crash \/ Restart
  <2>1. Remaining' = 0
    BY <1>14, NoProbeFields DEF Crash, Restart, Fresh, Remaining, Polls, Left
  <2> QED BY <1>14, <2>1 DEF BudgetInvariant, Crash, Restart, Fresh
<1>15. CASE UNCHANGED vars
  BY <1>0, <1>15 DEF BudgetInvariant, vars
<1> QED
  BY <1>1, <1>2, <1>3, <1>4, <1>5, <1>6, <1>7, <1>8, <1>9, <1>10, <1>11, <1>12, <1>13, <1>14, <1>15
  DEF Next, Serve

(* The budget holds at every step of every process. *)
THEOREM BudgetInvariantHolds == Spec => []BudgetInvariant
<1>1. Init => BudgetInvariant
  <2>1. Init => Remaining = 0
    BY NoProbeFields DEF Init, Remaining, Polls, Left
  <2> QED BY <2>1 DEF Init, BudgetInvariant
<1> QED
  BY <1>1, InitGroup, NextGroup, NextBudget, PTL DEF Spec

(* A signal alone never makes a service without Redis exit with an error,    *)
(* whatever probe is being answered: its checks, one after another, and the  *)
(* poll of Shutdown after them are over before Shutdown gives up.            *)
THEOREM StopsWithoutErrorHolds == Spec => []StopsWithoutError
<1>1. BudgetInvariant => StopsWithoutError
  BY DEF BudgetInvariant, StopsWithoutError
<1> QED
  BY <1>1, BudgetInvariantHolds, PTL

(* Nothing is used after Close: not by the streams and the workers, nor by   *)
(* the final flush, for every configuration and with every probe.            *)
THEOREM ClosedAfterUseHolds == Spec => []ClosedAfterUse
<1>1. Init => ClosedAfterUse
  BY DEF Init, ClosedAfterUse
<1> USE DEF ClosedAfterUse
<1>2. HeldInvariant /\ GroupInvariant /\ GroupInvariant' /\ HeldInvariant' /\ ClosedAfterUse /\ [Next]_vars
        => ClosedAfterUse'
  <2> SUFFICES ASSUME HeldInvariant, GroupInvariant, GroupInvariant', HeldInvariant', ClosedAfterUse,
                      [Next]_vars
               PROVE  ClosedAfterUse'
    OBVIOUS
  <2>1. CASE phase' # "exited"
    BY <2>1 DEF HeldInvariant, GroupInvariant, NoClient, NoStore, Unopened, Migrating
  <2>2. CASE phase' = "exited"
    <3> USE DEF database, timers, running
    <3>1. CASE Start
      <4>1. UNCHANGED <<streams, pool>> /\ phase \notin {"running", "closing", "exited"}
        BY Zenon, <3>1 DEF Start, GoOn, Fails, Load, LoadFails, NewLogger, NewLoggerFails, OpenMigrator,
                    OpenMigratorFails, UpBegins, UpApplies, Migrated, MigrateFails, Dial, DialFails,
                    NewPool, NewPoolFails, NewSubscribers, NewProducer, NewProducerFails,
                    EnsureTopic, EnsureTopicFails, NewDedup, Assemble
      <4> QED BY <4>1 DEF GroupInvariant
    <3>2. ~Serve
      BY <2>2 DEF Serve, GroupStep, ProbeStep, StreamsReturn, WorkersReturn, FlushReturns, Listen,
                  ListenFails, ServeFails, Shutdown, ShutdownReturns, ShutdownTimesOut,
                  ProbeArrives, CheckBegins, JoinRefresh, CheckEnds
    <3>3. ~((\E ok \in BOOLEAN : GetTopic(ok)) \/ GetSchema \/ StartGroup \/ Tick \/ GroupEnds \/ Restart)
      BY <2>2 DEF GetTopic, GetSchema, StartGroup, Tick, GroupEnds, Restart
    <3>4. CASE CloseStore
      BY <3>4 DEF CloseStore, GroupInvariant
    <3>5. CASE Signal \/ Crash \/ UNCHANGED vars
      BY <3>5 DEF Signal, Crash, Fresh, vars
    <3> QED BY <3>1, <3>2, <3>3, <3>4, <3>5 DEF Next
  <2> QED BY <2>1, <2>2
<1> QED
  BY <1>1, <1>2, HeldInvariantHolds, InitGroup, NextGroup, PTL DEF Spec

(* Without Redis no check of a probe uses what Close has closed, unless the  *)
(* server itself failed.                                                     *)
THEOREM ProbeBeforeCloseHolds == Spec => []ProbeBeforeClose
<1>1. HeldInvariant /\ GroupInvariant /\ BudgetInvariant => ProbeBeforeClose
  <2> SUFFICES ASSUME HeldInvariant, GroupInvariant, BudgetInvariant,
                      BudgetOK(cfg), ~failed, phase # "exited", probe.check \notin {"none", "auth"}
               PROVE  res[Dependency[probe.check]] = "open"
    BY DEF ProbeBeforeClose
  <2>1. phase = "running"
    BY NoProbeFields DEF GroupInvariant, BudgetInvariant
  <2>2. /\ res["store"] = "open"
        /\ cfg.kafka.enabled => res["producer"] = "open"
        /\ cfg.redis.enabled => res["redis"] = "open"
    BY <2>1 DEF HeldInvariant, NoStore, NoClient, NoProducer, NoRedis, Unopened, Migrating
  <2>3. \/ probe.check = "database"
        \/ probe.check = "kafka" /\ cfg.kafka.enabled
        \/ probe.check = "redis" /\ cfg.redis.enabled
    BY DEF GroupInvariant, Checkers
  <2>4. /\ Dependency["database"] = "store" /\ Dependency["kafka"] = "producer"
        /\ Dependency["redis"] = "redis"
    BY DEF Dependency
  <2> QED BY Zenon, <2>2, <2>3, <2>4
<1> QED
  BY <1>1, HeldInvariantHolds, InitGroup, NextGroup, BudgetInvariantHolds, PTL DEF Spec

-----------------------------------------------------------------------------
(* Types and metrics *)

\* What each step of New is going to register is not registered yet.
MetricsInvariant ==
  /\ registry \in [Metrics -> {0, 1}]
  /\ \A m \in Metrics :
       /\ phase \in NoClient /\ m \in AuthMetrics \union ClientMetrics => registry[m] = 0
       /\ phase \in NoStore /\ m \in SchemaMetrics => registry[m] = 0
       /\ phase \in NoProducer /\ m \in ProducerMetrics => registry[m] = 0
       /\ phase \in NoRedis /\ m \in DedupMetrics => registry[m] = 0
       /\ phase \in NoRedis \union {"assemble"} /\ m \in CommitterMetrics \union PoolMetrics
            => registry[m] = 0

(* No two parts of the service use the same name. *)
LEMMA MetricsDisjoint ==
  /\ (AuthMetrics \union ClientMetrics) \intersect (SchemaMetrics \union SubscriberMetrics
        \union ProducerMetrics \union DedupMetrics \union CommitterMetrics \union PoolMetrics) = {}
  /\ SchemaMetrics \intersect (SubscriberMetrics \union ProducerMetrics \union DedupMetrics
        \union CommitterMetrics \union PoolMetrics) = {}
  /\ SubscriberMetrics \intersect (ProducerMetrics \union DedupMetrics \union CommitterMetrics
        \union PoolMetrics) = {}
  /\ ProducerMetrics \intersect (DedupMetrics \union CommitterMetrics \union PoolMetrics) = {}
  /\ DedupMetrics \intersect (CommitterMetrics \union PoolMetrics) = {}
  BY DEF AuthMetrics, ClientMetrics, SchemaMetrics, SubscriberMetrics, ProducerMetrics,
         DedupMetrics, CommitterMetrics, PoolMetrics

(* A step of New registers names that are free. *)
LEMMA StartMetrics ==
  ASSUME MetricsInvariant, Start PROVE MetricsInvariant'
<1> USE DEF MetricsInvariant, GoOn, Fails
<1>1. CASE \/ Load \/ LoadFails \/ NewLogger \/ NewLoggerFails \/ OpenMigrator \/ OpenMigratorFails
           \/ UpBegins \/ UpApplies \/ Migrated \/ MigrateFails
           \/ NewProducerFails \/ EnsureTopic \/ EnsureTopicFails
  <2>1. /\ registry' = registry
        /\ phase \in NoClient \/ (phase = "kafka" /\ phase' = "exited") \/ phase = "ensure"
        /\ phase = "ensure" => phase' \in {"redis", "exited"}
    BY <1>1 DEF Load, LoadFails, NewLogger, NewLoggerFails, OpenMigrator, OpenMigratorFails,
                UpBegins, UpApplies, Migrated, MigrateFails, NewProducerFails, EnsureTopic,
                EnsureTopicFails, NoClient, Unopened, Migrating
  <2> QED BY <2>1 DEF NoRedis, NoProducer, NoStore, NoClient, Unopened, Migrating
<1>2. CASE Dial \/ DialFails
  <2>1. /\ registry' = Registers(AuthMetrics \union ClientMetrics)
        /\ phase = "dial" /\ phase' \in {"store", "exited"}
    BY ZenonT(30), <1>2 DEF Dial, DialFails
  <2> QED BY <2>1, MetricsDisjoint DEF Registers, NoRedis, NoProducer, NoStore, NoClient, Unopened, Migrating
<1>3. CASE NewPool \/ NewPoolFails
  <2>1. /\ registry' = Registers(SchemaMetrics)
        /\ phase = "store" /\ phase' \in {"subscribers", "exited"}
    BY <1>3 DEF NewPool, NewPoolFails
  <2> QED BY <2>1, MetricsDisjoint DEF Registers, NoRedis, NoProducer, NoStore, NoClient, Unopened, Migrating
<1>4. CASE NewSubscribers
  <2>1. /\ registry' = RegistersOrReuses(SubscriberMetrics, Len(cfg.topics))
        /\ phase = "subscribers" /\ phase' \in {"kafka", "redis"}
    BY <1>4 DEF NewSubscribers
  <2> QED BY <2>1, MetricsDisjoint DEF RegistersOrReuses, NoRedis, NoProducer, NoStore, NoClient, Unopened, Migrating
<1>5. CASE NewProducer
  <2>1. /\ registry' = Registers(ProducerMetrics)
        /\ phase = "kafka" /\ phase' \in {"ensure", "redis"}
    BY Zenon, <1>5 DEF NewProducer
  <2> QED BY <2>1, MetricsDisjoint DEF Registers, NoRedis, NoProducer, NoStore, NoClient, Unopened, Migrating
<1>6. CASE NewDedup
  <2>1. registry' = Registers(DedupMetrics) /\ phase = "redis" /\ phase' = "assemble"
    BY <1>6 DEF NewDedup
  <2> QED BY <2>1, MetricsDisjoint DEF Registers, NoRedis, NoProducer, NoStore, NoClient, Unopened, Migrating
<1>7. CASE Assemble
  <2>1. /\ registry' = Registers(CommitterMetrics \union PoolMetrics)
        /\ phase \in {"redis", "assemble"} /\ phase' = "discover"
    BY <1>7 DEF Assemble
  <2> QED BY <2>1, MetricsDisjoint DEF Registers, NoRedis, NoProducer, NoStore, NoClient, Unopened, Migrating
<1> QED
  BY Zenon, <1>1, <1>2, <1>3, <1>4, <1>5, <1>6, <1>7 DEF Start

(* Nothing is registered after New. *)
LEMMA NextMetrics == MetricsInvariant /\ [Next]_vars => MetricsInvariant'
<1> SUFFICES ASSUME MetricsInvariant, [Next]_vars PROVE MetricsInvariant'
  OBVIOUS
<1>1. CASE Start
  BY <1>1, StartMetrics
<1>2. CASE Crash \/ Restart
  <2>1. registry' = [m \in Metrics |-> 0]
    BY Zenon, <1>2 DEF Crash, Restart, Fresh
  <2> QED BY ZenonT(30), <2>1 DEF MetricsInvariant
<1>3. CASE \/ Serve \/ (\E ok \in BOOLEAN : GetTopic(ok)) \/ GetSchema \/ StartGroup \/ Tick
           \/ GroupEnds \/ CloseStore \/ Signal \/ UNCHANGED vars
  <2>1. /\ registry' = registry
        /\ phase' = phase \/ phase' \in {"discover", "schema", "running", "closing", "exited"}
    BY Zenon, <1>3 DEF Serve, GroupStep, ProbeStep, StreamsReturn, WorkersReturn, FlushReturns, Listen,
                ListenFails, ServeFails, Shutdown, ShutdownReturns, ShutdownTimesOut, ProbeArrives,
                CheckBegins, JoinRefresh, CheckEnds, GetTopic, GetSchema, StartGroup, Tick,
                GroupEnds, CloseStore, Signal, vars, database, timers, running
  <2> QED BY <2>1 DEF MetricsInvariant, NoRedis, NoProducer, NoStore, NoClient, Unopened, Migrating
<1> QED
  BY <1>1, <1>2, <1>3 DEF Next

(* No metric is registered twice, which would panic: for any number of       *)
(* topics, with or without Kafka and Redis, at every start.                  *)
THEOREM RegisteredOnce == Spec => [](registry \in [Metrics -> {0, 1}])
<1>1. Init => MetricsInvariant
  BY DEF Init, MetricsInvariant
<1>2. MetricsInvariant => registry \in [Metrics -> {0, 1}]
  BY DEF MetricsInvariant
<1> QED
  BY <1>1, <1>2, NextMetrics, PTL DEF Spec

\* The states of the process and of its parts.
ControlOK ==
  /\ phase \in {"load", "logger", "migrate", "up", "applying", "dial", "store", "subscribers",
                "kafka", "ensure", "redis", "assemble", "discover", "schema", "running",
                "closing", "exited"}
  /\ streams \in {"off", "running", "returned"}
  /\ pool \in {"off", "running", "flushing", "returned"}
  /\ http \in {"off", "binding", "serving", "stopping", "returned", "timedOut"}
  /\ waiting \subseteq {"streams", "pool"}
  /\ code \in {"none", "ok", "error", "killed"}
  /\ signaled \in BOOLEAN /\ failed \in BOOLEAN

\* The row of the migrations, the topic that is asked about and the timers; a
\* schema is only asked for while there is a topic.
NumbersOK ==
  /\ version \in 0..(Migrations + 1) /\ dirty \in BOOLEAN
  /\ topic \in 1..(Len(cfg.topics) + 1)
  /\ phase = "schema" => topic <= Len(cfg.topics)
  /\ flushLeft \in 0..FlushTimeout /\ stopLeft \in 0..StopTimeout /\ elapsed \in Nat
  /\ starts \in 1..MaxStarts

(* A step of the start leads to another one, or out. *)
LEMMA NextControl == ControlOK /\ [Next]_vars => ControlOK'
<1> SUFFICES ASSUME ControlOK, [Next]_vars PROVE ControlOK'
  OBVIOUS
<1> USE DEF GoOn, Fails, GroupStep, ProbeStep, database, timers, running
<1>1. CASE Start
  <2>1. /\ UNCHANGED <<streams, pool, http, waiting, signaled>>
        /\ code' = code \/ code' = "error"
        /\ failed' = failed \/ failed' = TRUE
        /\ phase' \in {"logger", "migrate", "up", "applying", "dial", "store", "subscribers",
                       "kafka", "ensure", "redis", "assemble", "discover", "exited"}
    BY Zenon, <1>1
       DEF Start, Load, LoadFails, NewLogger, NewLoggerFails, OpenMigrator, OpenMigratorFails,
           UpBegins, UpApplies, Migrated, MigrateFails, Dial, DialFails, NewPool, NewPoolFails,
           NewSubscribers, NewProducer, NewProducerFails, EnsureTopic, EnsureTopicFails,
           NewDedup, Assemble
  <2>2. code' \in {"none", "ok", "error", "killed"} /\ failed' \in BOOLEAN
    BY <2>1, Zenon DEF ControlOK
  <2>3. /\ streams' \in {"off", "running", "returned"}
        /\ pool' \in {"off", "running", "flushing", "returned"}
        /\ http' \in {"off", "binding", "serving", "stopping", "returned", "timedOut"}
        /\ waiting' \subseteq {"streams", "pool"} /\ signaled' \in BOOLEAN
    BY <2>1, Zenon DEF ControlOK
  <2>4. phase' \in {"load", "logger", "migrate", "up", "applying", "dial", "store",
                    "subscribers", "kafka", "ensure", "redis", "assemble", "discover",
                    "schema", "running", "closing", "exited"}
    <3> HIDE DEF GoOn, Fails, GroupStep, ProbeStep, database, timers, running
    <3> QED
      BY <2>1, Zenon
  <2> QED
    BY <2>2, <2>3, <2>4, Zenon DEF ControlOK
<1>2. CASE (\E ok \in BOOLEAN : GetTopic(ok)) \/ GetSchema \/ StartGroup
  <2>1. /\ UNCHANGED <<waiting, code, signaled, failed>>
        /\ phase' \in {"schema", "discover", "running"}
    BY Zenon, <1>2 DEF GetTopic, GetSchema, StartGroup
  <2>2. /\ streams' = streams \/ streams' = "running"
        /\ pool' = pool \/ pool' = "running"
        /\ http' = http \/ http' = "binding"
    BY Zenon, <1>2 DEF GetTopic, GetSchema, StartGroup
  <2>3. /\ streams' \in {"off", "running", "returned"}
        /\ pool' \in {"off", "running", "flushing", "returned"}
        /\ http' \in {"off", "binding", "serving", "stopping", "returned", "timedOut"}
    BY <2>2, Zenon DEF ControlOK
  <2> QED
    BY <2>1, <2>3, Zenon DEF ControlOK
<1>3. CASE Serve
  <2>1. UNCHANGED <<phase, code, signaled>>
    BY Zenon, <1>3
       DEF Serve, StreamsReturn, WorkersReturn, FlushReturns, Listen, ListenFails, ServeFails,
           Shutdown, ShutdownReturns, ShutdownTimesOut, ProbeArrives, CheckBegins, JoinRefresh,
           CheckEnds
  <2>2. /\ streams' = streams \/ streams' = "returned"
        /\ pool' = pool \/ pool' \in {"flushing", "returned"}
        /\ http' = http \/ http' \in {"serving", "stopping", "returned", "timedOut"}
        /\ failed' = failed \/ failed' = TRUE
    BY Zenon, <1>3
       DEF Serve, StreamsReturn, WorkersReturn, FlushReturns, Listen, ListenFails, ServeFails,
           Shutdown, ShutdownReturns, ShutdownTimesOut, ProbeArrives, CheckBegins, JoinRefresh,
           CheckEnds
  <2>3. waiting' \subseteq waiting \union {"streams", "pool"}
    BY Zenon, <1>3
       DEF Serve, StreamsReturn, WorkersReturn, FlushReturns, Listen, ListenFails, ServeFails,
           Shutdown, ShutdownReturns, ShutdownTimesOut, ProbeArrives, CheckBegins, JoinRefresh,
           CheckEnds
  <2>4. /\ streams' \in {"off", "running", "returned"}
        /\ pool' \in {"off", "running", "flushing", "returned"}
        /\ http' \in {"off", "binding", "serving", "stopping", "returned", "timedOut"}
        /\ failed' \in BOOLEAN
    BY <2>2, Zenon DEF ControlOK
  <2> QED
    BY <2>1, <2>3, <2>4, Zenon DEF ControlOK
<1>4. CASE Tick \/ GroupEnds \/ CloseStore \/ UNCHANGED vars
  <2>1. UNCHANGED <<streams, pool, http, waiting, signaled, failed>>
    BY Zenon, <1>4 DEF Tick, GroupEnds, CloseStore, vars
  <2>2. /\ phase' = phase \/ phase' \in {"closing", "exited"}
        /\ code' = code \/ code' \in {"ok", "error"}
    BY Zenon, <1>4 DEF Tick, GroupEnds, CloseStore, vars
  <2>3. code' \in {"none", "ok", "error", "killed"}
    BY <2>2, Zenon DEF ControlOK
  <2>4. CASE phase' = phase
    BY <2>1, <2>3, <2>4 DEF ControlOK
  <2>5. CASE phase' \in {"closing", "exited"}
    BY <2>1, <2>3, <2>5, Zenon DEF ControlOK
  <2> QED
    BY <2>2, <2>4, <2>5, Zenon
<1>5. CASE Signal
  <2>1. /\ UNCHANGED <<streams, pool, http, waiting, failed>> /\ signaled' = TRUE
        /\ phase' = phase \/ phase' = "exited"
        /\ code' = code \/ code' = "killed"
    BY Zenon, <1>5 DEF Signal
  <2>2. code' \in {"none", "ok", "error", "killed"}
    BY <2>1, Zenon DEF ControlOK
  <2>3. phase' \in {"load", "logger", "migrate", "up", "applying", "dial", "store",
                    "subscribers", "kafka", "ensure", "redis", "assemble", "discover",
                    "schema", "running", "closing", "exited"}
    <3>1. CASE phase' = phase
      BY <3>1, Zenon DEF ControlOK
    <3>2. CASE phase' = "exited"
      BY <3>2, Zenon
    <3> QED
      BY <2>1, <3>1, <3>2, Zenon
  <2>4. /\ UNCHANGED <<streams, pool, http, waiting, failed>> /\ signaled' = TRUE
    BY <2>1, Zenon
  <2> QED
    BY <2>2, <2>3, <2>4, Zenon DEF ControlOK
<1>6. CASE Crash \/ Restart
  BY Zenon, <1>6 DEF Crash, Restart, Fresh, ControlOK
<1> QED
  BY <1>1, <1>2, <1>3, <1>4, <1>5, <1>6, Zenon DEF Next

(* Every step keeps the numbers in their ranges. *)
LEMMA NextNumbers == GroupInvariant /\ NumbersOK /\ [Next]_vars => NumbersOK'
<1> SUFFICES ASSUME GroupInvariant, NumbersOK, [Next]_vars PROVE NumbersOK'
  OBVIOUS
<1> DEFINE n == Len(cfg.topics)
<1>0. n \in Nat
  BY DEF GroupInvariant
<1> USE DEF GoOn, Fails, GroupStep, ProbeStep, database, timers, running
<1>1. ASSUME UNCHANGED <<cfg, topic, flushLeft, stopLeft, elapsed, starts>>,
             version' \in 0..(Migrations + 1), dirty' \in BOOLEAN,
             phase' = "schema" => phase = "schema"
      PROVE  NumbersOK'
  BY <1>1, Zenon DEF NumbersOK
<1>2. CASE UNCHANGED vars
  BY <1>1, <1>2, Zenon DEF vars, NumbersOK
<1>3. CASE UpBegins
  <2>1. version' \in 0..(Migrations + 1)
    BY <1>3 DEF UpBegins, NumbersOK
  <2> QED
    BY <1>1, <1>3, <2>1 DEF UpBegins
<1>4. CASE Start /\ ~UpBegins
  <2>1. /\ UNCHANGED <<cfg, topic, flushLeft, stopLeft, elapsed, starts, version>>
        /\ dirty' \in {dirty, FALSE} /\ phase' # "schema"
    BY <1>4
       DEF Start, Load, LoadFails, NewLogger, NewLoggerFails, OpenMigrator, OpenMigratorFails,
           UpApplies, Migrated, MigrateFails, Dial, DialFails, NewPool, NewPoolFails,
           NewSubscribers, NewProducer, NewProducerFails, EnsureTopic, EnsureTopicFails,
           NewDedup, Assemble
  <2> QED
    BY <1>1, <2>1, Zenon DEF NumbersOK
<1>5. CASE (\E ok \in BOOLEAN : GetTopic(ok)) \/ GetSchema
  <2>1. /\ UNCHANGED <<cfg, version, dirty, flushLeft, stopLeft, elapsed, starts>>
        /\ topic' = topic \/ topic' = topic + 1
        /\ topic <= n
        /\ phase' = "schema" => topic' = topic
    BY <1>5 DEF GetTopic, GetSchema, NumbersOK
  <2>2. topic \in 1..(n + 1)
    BY DEF NumbersOK
  <2>3. n' = n
    BY <2>1
  <2> HIDE DEF n
  <2>4. topic' \in 1..(n + 1) /\ (phase' = "schema" => topic' <= n)
    BY <1>0, <2>1, <2>2
  <2>5. topic' \in 1..(Len(cfg'.topics) + 1) /\ (phase' = "schema" => topic' <= Len(cfg'.topics))
    BY <2>3, <2>4 DEF n
  <2> QED
    BY <2>1, <2>5, Zenon DEF NumbersOK
<1>6. CASE StartGroup \/ GroupEnds \/ CloseStore \/ Signal
  <2>1. /\ UNCHANGED <<cfg, topic, flushLeft, stopLeft, elapsed, starts, version, dirty>>
        /\ phase' = "schema" => phase = "schema"
    BY <1>6 DEF StartGroup, GroupEnds, CloseStore, Signal
  <2> QED
    BY <1>1, <2>1, Zenon DEF NumbersOK
<1>7. CASE Serve
  <2>1. /\ UNCHANGED <<cfg, phase, topic, elapsed, starts, version, dirty>>
        /\ flushLeft' \in {flushLeft, 0, FlushTimeout} /\ stopLeft' \in {stopLeft, 0, StopTimeout}
    BY <1>7
       DEF Serve, StreamsReturn, WorkersReturn, FlushReturns, Listen, ListenFails, ServeFails,
           Shutdown, ShutdownReturns, ShutdownTimesOut, ProbeArrives, CheckBegins, JoinRefresh,
           CheckEnds
  <2>2. flushLeft' \in 0..FlushTimeout /\ stopLeft' \in 0..StopTimeout
    BY <2>1 DEF NumbersOK, FlushTimeout, StopTimeout
  <2> QED
    BY <2>1, <2>2, Zenon DEF NumbersOK
<1>8. CASE Tick
  <2>1. /\ UNCHANGED <<cfg, phase, topic, starts, version, dirty>>
        /\ flushLeft' = Less(flushLeft) /\ stopLeft' = Less(stopLeft)
        /\ elapsed' \in {elapsed, elapsed + 1}
    BY <1>8 DEF Tick
  <2>2. flushLeft' \in 0..FlushTimeout /\ stopLeft' \in 0..StopTimeout /\ elapsed' \in Nat
    BY <2>1 DEF NumbersOK, Less, FlushTimeout, StopTimeout
  <2> QED
    BY <2>1, <2>2, Zenon DEF NumbersOK
<1>9. CASE Crash \/ Restart
  <2>1. /\ UNCHANGED <<version, dirty>> /\ cfg' \in Configs /\ topic' = 1 /\ phase' # "schema"
        /\ flushLeft' = 0 /\ stopLeft' = 0 /\ elapsed' = 0
        /\ starts' = starts \/ (starts < MaxStarts /\ starts' = starts + 1)
    BY <1>9 DEF Crash, Restart, Fresh, GroupInvariant
  <2>2. Len(cfg'.topics) \in Nat
    BY <2>1
  <2>3. /\ topic' \in 1..(Len(cfg'.topics) + 1) /\ starts' \in 1..MaxStarts
        /\ flushLeft' \in 0..FlushTimeout /\ stopLeft' \in 0..StopTimeout /\ elapsed' \in Nat
    BY <2>1, <2>2 DEF NumbersOK, FlushTimeout, StopTimeout
  <2> QED
    BY <2>1, <2>3, Zenon DEF NumbersOK
<1> QED
  BY <1>2, <1>3, <1>4, <1>5, <1>6, <1>7, <1>8, <1>9, Zenon DEF Next

(* Every variable keeps its type; in particular no metric is registered twice
   and no timer runs longer than its timeout. *)
THEOREM TypesAndMetricsHolds == Spec => []TypesAndMetrics
<1>1. Init => ControlOK /\ NumbersOK
  <2> SUFFICES ASSUME Init PROVE ControlOK /\ NumbersOK
    OBVIOUS
  <2>1. ControlOK
    BY DEF Init, ControlOK
  <2>2. cfg \in Configs /\ Len(cfg.topics) \in Nat
    BY DEF Init
  <2>3. /\ topic \in 1..(Len(cfg.topics) + 1) /\ starts \in 1..MaxStarts
        /\ flushLeft \in 0..FlushTimeout /\ stopLeft \in 0..StopTimeout /\ elapsed \in Nat
    <3>1. topic = 1 /\ starts = 1 /\ flushLeft = 0 /\ stopLeft = 0 /\ elapsed = 0
      BY Zenon DEF Init
    <3> QED
      BY <2>2, <3>1 DEF FlushTimeout, StopTimeout
  <2>4. version \in 0..(Migrations + 1) /\ dirty \in BOOLEAN /\ phase # "schema"
    BY DEF Init
  <2>5. NumbersOK
    BY <2>3, <2>4, Zenon DEF NumbersOK
  <2> QED
    BY <2>1, <2>5
<1>2. HeldInvariant /\ GroupInvariant /\ registry \in [Metrics -> {0, 1}] /\ ControlOK /\ NumbersOK
        => TypesAndMetrics
  <2> SUFFICES ASSUME HeldInvariant, GroupInvariant, registry \in [Metrics -> {0, 1}],
                      ControlOK, NumbersOK
               PROVE  TypesAndMetrics
    OBVIOUS
  <2>1. res \in [Resources -> {"absent", "open", "closed", "broken"}]
    <3>1. res \in [Resources -> {"absent", "open", "closed"}]
      BY Zenon DEF HeldInvariant
    <3> QED
      BY <3>1
  <2> QED
    BY <2>1, Zenon DEF GroupInvariant, ControlOK, NumbersOK, TypesAndMetrics
<1> QED
  BY <1>1, <1>2, NextControl, NextNumbers, HeldInvariantHolds, InitGroup, NextGroup,
     RegisteredOnce, PTL DEF Spec
=============================================================================
