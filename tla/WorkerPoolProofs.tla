-------------------------- MODULE WorkerPoolProofs --------------------------
(***************************************************************************)
(* Proofs about WorkerPool, for any number of workers, events, restarts    *)
(* and unanswered produces, with or without the cache and the sink.        *)
(*                                                                         *)
(* The invariant follows an event through the chain: StageOK says what is  *)
(* already durable of the event that a worker holds at each stage, and     *)
(* that no one else holds or has acked it.  The count of an event's        *)
(* records needs the second part: it passes the forward step once in a     *)
(* run of the process, since it is taken from the channel once.            *)
(***************************************************************************)
EXTENDS WorkerPool, FiniteSetTheorems, TLAPS

\* The provers to try, with time for a busy machine; a leaf that needs no
\* arithmetic may cite Zenon alone.
USE SMTT(10), Zenon, SMTT(30), SMTT(60)

USE WorkerPoolAssumption

Durable(e) == e \in db /\ (KafkaEnabled => e \in Forwarded)

StageOK(w) ==
  /\ stage[w] \in {"forward", "mark"} => job[w] \in db
  /\ stage[w] = "mark" => Durable(job[w])
  /\ stage[w] = "ack" => job[w] \in Undecodable \/ Durable(job[w])
  /\ job[w] < nextIn /\ job[w] \notin acked
  /\ \A v \in Workers : job[v] = job[w] /\ job[w] # 0 => v = w

PoolInvariant ==
  /\ TypeOK
  /\ canceled => restarts < MaxRestarts
  /\ \A w \in Workers : StageOK(w)
  /\ \A e \in acked : e < nextIn
  /\ AckedIsDurable /\ SeenIsDurable /\ ForwardedIsPersisted /\ NothingDropped

(* A record that is written is the last one, and no other is lost. *)
LEMMA Forwards ==
  ASSUME kafka \in Seq(Events), NEW e \in Events, kafka' = Append(kafka, e)
  PROVE  kafka' \in Seq(Events) /\ Forwarded' = Forwarded \union {e}
<1>1. /\ kafka' \in Seq(Events) /\ Len(kafka) \in Nat /\ Len(kafka') = Len(kafka) + 1
      /\ kafka'[Len(kafka) + 1] = e
      /\ \A i \in 1..Len(kafka) : kafka'[i] = kafka[i]
  OBVIOUS
<1>2. Forwarded' \subseteq Forwarded \union {e}
  BY <1>1 DEF Forwarded
<1>3. Forwarded \union {e} \subseteq Forwarded'
  BY <1>1 DEF Forwarded
<1> QED
  BY <1>1, <1>2, <1>3

(* The pool of a new process over new services satisfies the invariant. *)
LEMMA InitInvariant == Init => PoolInvariant
<1> SUFFICES ASSUME Init PROVE PoolInvariant
  OBVIOUS
<1>1. TypeOK
  <2>1. /\ nextIn \in 1..(N + 1) /\ cursor \in 0..N /\ kafka \in Seq(Events)
        /\ restarts \in 0..MaxRestarts /\ unanswered \in 0..MaxUnanswered
    BY DEF Init
  <2>2. /\ stage \in [Workers -> Stages] /\ live \in [Workers -> BOOLEAN] /\ job \in [Workers -> 0..N]
        /\ \A w \in Workers : job[w] = 0 <=> stage[w] \in {"idle", "stopped"}
    BY DEF Init, Stages
  <2>3. /\ acked \subseteq Events /\ db \subseteq Events /\ redis \subseteq Events
        /\ finished \subseteq Events /\ canceled \in BOOLEAN
    BY Zenon DEF Init
  <2> QED BY <2>1, <2>2, <2>3 DEF TypeOK
<1>2. (\A w \in Workers : StageOK(w)) /\ (\A e \in acked : e < nextIn)
  BY DEF Init, StageOK
<1>3. AckedIsDurable /\ SeenIsDurable /\ ForwardedIsPersisted /\ NothingDropped
  BY DEF Init, AckedIsDurable, SeenIsDurable, ForwardedIsPersisted, NothingDropped, Forwarded, Events
<1> QED
  BY <1>1, <1>2, <1>3 DEF Init, PoolInvariant

(* A worker goes from one stage to the next with its event, which a stage    *)
(* may have made durable; what must be durable by then.                      *)
LEMMA MoveInvariant ==
  ASSUME PoolInvariant, NEW w \in Workers, NEW s \in Stages, Goto(w, s),
         UNCHANGED <<nextIn, job, canceled, acked, cursor, restarts, finished>>,
         job[w] = 0 <=> s \in {"idle", "stopped"},
         db' = db \/ (db' = db \union {job[w]} /\ job[w] # 0),
         kafka' = kafka \/ (kafka' = Append(kafka, job[w]) /\ job[w] \in db),
         redis' = redis \/ (redis' = redis \union {job[w]} /\ job[w] # 0 /\ Durable(job[w])),
         unanswered' \in 0..MaxUnanswered,
         s \in {"forward", "mark"} => job[w] \in db',
         s = "mark" => Durable(job[w])',
         s = "ack" => job[w] \in Undecodable \/ Durable(job[w])'
  PROVE  PoolInvariant'
<1>1. /\ TypeOK /\ stage' = [stage EXCEPT ![w] = s] /\ live' = [live EXCEPT ![w] = ~canceled]
      /\ kafka \in Seq(Events) /\ db \subseteq Events /\ job[w] \in 0..N
  BY DEF PoolInvariant, Goto, TypeOK
<1>2. /\ kafka' \in Seq(Events) /\ Forwarded \subseteq Forwarded' /\ db \subseteq db'
      /\ Forwarded' \subseteq Forwarded \union {e \in {job[w]} : e \in db}
  <2>1. CASE kafka' = kafka
    BY <1>1, <2>1 DEF Forwarded
  <2>2. CASE kafka' = Append(kafka, job[w]) /\ job[w] \in db
    <3>1. job[w] \in Events
      BY <1>1, <2>2
    <3>2. kafka' \in Seq(Events) /\ Forwarded' = Forwarded \union {job[w]}
      BY <1>1, <2>2, <3>1, Forwards
    <3> QED BY <2>2, <3>2
  <2> QED BY <2>1, <2>2
<1>3. TypeOK'
  <2>1. db' \subseteq Events /\ redis' \subseteq Events
    <3>1. job[w] # 0 => job[w] \in Events
      BY <1>1 DEF Events
    <3>2. redis \subseteq Events
      BY <1>1 DEF TypeOK
    <3> QED BY <1>1, <3>1, <3>2
  <2>2. /\ stage' \in [Workers -> Stages] /\ live' \in [Workers -> BOOLEAN]
        /\ \A v \in Workers : job'[v] = 0 <=> stage'[v] \in {"idle", "stopped"}
    BY <1>1 DEF TypeOK
  <2> QED BY <1>1, <1>2, <2>1, <2>2 DEF TypeOK
<1>4. \A e : Durable(e) => Durable(e)'
  BY <1>2 DEF Durable
<1>5. ASSUME NEW v \in Workers PROVE StageOK(v)'
  <2>1. StageOK(v) /\ stage'[v] = IF v = w THEN s ELSE stage[v]
    BY <1>1 DEF PoolInvariant, TypeOK
  <2> QED BY <1>2, <1>4, <2>1 DEF StageOK
<1>6. AckedIsDurable' /\ SeenIsDurable'
  BY <1>4 DEF PoolInvariant, AckedIsDurable, SeenIsDurable, Durable
<1>7. ForwardedIsPersisted' /\ NothingDropped'
  BY <1>2 DEF PoolInvariant, ForwardedIsPersisted, NothingDropped
<1> QED
  BY <1>3, <1>5, <1>6, <1>7 DEF PoolInvariant

(* The steps that only change a worker's stage. *)
LEMMA StagesInvariant ==
  ASSUME PoolInvariant, NEW w \in Workers,
         \/ WorkerStops(w) \/ SchemaOk(w) \/ SchemaFails(w) \/ Retry(w) \/ SeenHit(w) \/ SeenMiss(w)
  PROVE  PoolInvariant'
<1>1. /\ UNCHANGED <<nextIn, job, canceled, acked, cursor, restarts, finished>>
      /\ UNCHANGED <<db, kafka, redis, unanswered>> /\ unanswered \in 0..MaxUnanswered
      /\ stage \in [Workers -> Stages]
      /\ job[w] = 0 <=> stage[w] \in {"idle", "stopped"}
  BY DEF PoolInvariant, TypeOK, services, WorkerStops, SchemaOk, SchemaFails, Retry, SeenHit, SeenMiss
<1>2. HandlerStart \in {"lookup", "persist"} /\ ChainStart = "persist"
  BY DEF HandlerStart, ChainStart
<1>3. CASE WorkerStops(w)
  BY <1>1, <1>3, MoveInvariant DEF WorkerStops, Stages
<1>4. CASE SchemaOk(w)
  <2>1. CASE job[w] \in Undecodable
    BY <1>1, <1>4, <2>1, MoveInvariant DEF SchemaOk, Stages
  <2>2. CASE job[w] \notin Undecodable
    BY <1>1, <1>2, <1>4, <2>2, MoveInvariant DEF SchemaOk, Stages
  <2> QED BY <2>1, <2>2
<1>5. CASE SchemaFails(w)
  BY <1>1, <1>5, MoveInvariant DEF SchemaFails, Stages
<1>6. CASE Retry(w)
  <2>1. CASE stage[w] = "schemaBackoff"
    BY <1>1, <1>6, <2>1, MoveInvariant DEF Retry, Stages
  <2>2. CASE stage[w] = "handlerBackoff"
    BY <1>1, <1>2, <1>6, <2>2, MoveInvariant DEF Retry, Stages
  <2> QED BY <1>6, <2>1, <2>2 DEF Retry
<1>7. CASE SeenHit(w)
  <2>1. Durable(job[w]) /\ Durable(job[w])'
    BY <1>1, <1>7 DEF SeenHit, PoolInvariant, SeenIsDurable, Durable, Forwarded
  <2> QED BY <1>1, <1>7, <2>1, MoveInvariant DEF SeenHit, Stages
<1>8. CASE SeenMiss(w)
  BY <1>1, <1>2, <1>8, MoveInvariant DEF SeenMiss, Stages
<1> QED
  BY <1>3, <1>4, <1>5, <1>6, <1>7, <1>8

(* The steps of the handlers that write something. *)
LEMMA HandlersInvariant ==
  ASSUME PoolInvariant, NEW w \in Workers,
         \/ PersistOk(w) \/ PersistFails(w) \/ ForwardOk(w) \/ ForwardFails(w) \/ MarkSeen(w)
  PROVE  PoolInvariant'
<1>1. /\ UNCHANGED <<nextIn, job, canceled, acked, cursor, restarts, finished>>
      /\ unanswered \in 0..MaxUnanswered /\ kafka \in Seq(Events)
      /\ stage[w] \in {"persist", "forward", "mark"} /\ job[w] \in Events
      /\ StageOK(w)
  BY DEF PoolInvariant, TypeOK, Events, PersistOk, PersistFails, ForwardOk, ForwardFails, MarkSeen
<1>2. CASE PersistOk(w)
  <2>1. UNCHANGED <<kafka, redis, unanswered>> /\ db' = db \union {job[w]} /\ Goto(w, AfterPersist)
    BY <1>2 DEF PersistOk
  <2>2. CASE KafkaEnabled
    BY <1>1, <2>1, <2>2, MoveInvariant DEF AfterPersist, Stages, Events
  <2>3. CASE ~KafkaEnabled
    <3>1. Durable(job[w])' /\ AfterPersist \in {"mark", "ack"}
      BY <1>1, <2>1, <2>3 DEF Durable, AfterPersist, ChainEnd
    <3> QED BY <1>1, <2>1, <3>1, MoveInvariant DEF Stages, Events
  <2> QED BY <2>2, <2>3
<1>3. CASE PersistFails(w)
  <2>1. /\ UNCHANGED <<kafka, redis, unanswered>> /\ Goto(w, "handlerBackoff")
        /\ db' = db \/ db' = db \union {job[w]}
    BY <1>3 DEF PersistFails
  <2> QED BY <1>1, <2>1, MoveInvariant DEF Stages, Events
<1>4. CASE ForwardOk(w)
  <2>1. /\ UNCHANGED <<db, redis, unanswered>> /\ Goto(w, ChainEnd)
        /\ kafka' = Append(kafka, job[w]) /\ job[w] \in db
    BY <1>1, <1>4 DEF ForwardOk, StageOK
  <2>2. Forwarded' = Forwarded \union {job[w]}
    BY <1>1, <2>1, Forwards
  <2>3. Durable(job[w])' /\ ChainEnd \in {"mark", "ack"}
    BY <1>1, <2>1, <2>2 DEF Durable, ChainEnd
  <2> QED BY <1>1, <2>1, <2>3, MoveInvariant DEF Stages, Events
<1>5. CASE ForwardFails(w)
  <2>1. /\ UNCHANGED <<db, redis>> /\ Goto(w, "handlerBackoff")
        /\ kafka' = kafka \/ (kafka' = Append(kafka, job[w]) /\ job[w] \in db)
        /\ unanswered' \in 0..MaxUnanswered
    BY <1>1, <1>5 DEF ForwardFails, StageOK
  <2> QED BY <1>1, <2>1, MoveInvariant DEF Stages, Events
<1>6. CASE MarkSeen(w)
  <2>1. /\ UNCHANGED <<db, kafka, unanswered>> /\ Goto(w, "ack")
        /\ redis' \in {redis, redis \union {job[w]}} /\ Durable(job[w])
    BY <1>1, <1>6 DEF MarkSeen, StageOK
  <2>2. Durable(job[w])'
    BY <1>1, <2>1 DEF Durable, Forwarded
  <2> QED BY <1>1, <2>1, <2>2, MoveInvariant DEF Stages, Events
<1> QED
  BY <1>2, <1>3, <1>4, <1>5, <1>6

(* Take, Ack and Abandon change the event that a worker holds. *)
LEMMA JobInvariant ==
  ASSUME PoolInvariant, NEW w \in Workers, Take(w) \/ Ack(w) \/ Abandon(w)
  PROVE  PoolInvariant'
<1> USE DEF services
<1>0. /\ TypeOK /\ UNCHANGED <<canceled, cursor, db, kafka, redis, unanswered, restarts>>
      /\ Forwarded' = Forwarded /\ \A v \in Workers : StageOK(v)
  BY DEF PoolInvariant, Take, Ack, Abandon, Forwarded
<1>1. CASE Take(w)
  <2>1. /\ stage' = [stage EXCEPT ![w] = "schema"] /\ live' = [live EXCEPT ![w] = ~canceled]
        /\ job' = [job EXCEPT ![w] = nextIn] /\ nextIn' = nextIn + 1 /\ nextIn \in 1..N
        /\ UNCHANGED <<acked, finished>> /\ stage[w] = "idle" /\ job[w] = 0
    BY <1>0, <1>1 DEF Take, Goto, TypeOK
  <2>2. TypeOK'
    BY <1>0, <2>1 DEF TypeOK, Stages
  <2>3. (\A e \in acked' : e < nextIn') /\ nextIn \notin acked
    BY <1>0, <2>1 DEF PoolInvariant, TypeOK, Events
  <2>4. ASSUME NEW v \in Workers PROVE StageOK(v)'
    <3>1. \A u \in Workers : job[u] \in Nat /\ job[u] < nextIn /\ job'[u] = IF u = w THEN nextIn ELSE job[u]
      BY <1>0, <2>1 DEF TypeOK, StageOK
    <3>2. stage'[v] = IF v = w THEN "schema" ELSE stage[v]
      BY <1>0, <2>1 DEF TypeOK
    <3> QED BY <1>0, <2>1, <2>3, <3>1, <3>2 DEF StageOK, Durable
  <2>5. AckedIsDurable' /\ SeenIsDurable' /\ ForwardedIsPersisted'
    BY <1>0, <2>1 DEF PoolInvariant, AckedIsDurable, SeenIsDurable, ForwardedIsPersisted
  <2>6. NothingDropped'
    <3> SUFFICES ASSUME ~canceled, NEW e \in Events
                 PROVE  \/ e <= cursor \/ e \in acked \/ e >= nextIn'
                        \/ \E v \in Workers : job'[v] = e
      BY <1>0, <2>1 DEF NothingDropped
    <3>1. e <= cursor \/ e \in acked \/ e >= nextIn \/ \E v \in Workers : job[v] = e
      BY DEF PoolInvariant, NothingDropped
    <3>2. CASE e = nextIn
      BY <1>0, <2>1, <3>2 DEF TypeOK
    <3>3. CASE \E v \in Workers : job[v] = e
      BY <1>0, <2>1, <3>3 DEF TypeOK, Events
    <3> QED BY <1>0, <2>1, <3>1, <3>2, <3>3 DEF TypeOK, Events
  <2> QED BY <1>0, <2>2, <2>3, <2>4, <2>5, <2>6 DEF PoolInvariant
<1>2. CASE Ack(w)
  <2>1. /\ stage' = [stage EXCEPT ![w] = "idle"] /\ live' = [live EXCEPT ![w] = ~canceled]
        /\ job' = [job EXCEPT ![w] = 0] /\ nextIn' = nextIn /\ job[w] \in Events
        /\ acked' = acked \union {job[w]} /\ finished' = finished \union {job[w]}
        /\ stage[w] = "ack"
    BY <1>0, <1>2 DEF Ack, Goto, TypeOK, Events
  <2>2. TypeOK'
    BY <1>0, <2>1 DEF TypeOK, Stages
  <2>3. \A e \in acked' : e < nextIn'
    BY <1>0, <2>1 DEF PoolInvariant, StageOK
  <2>4. ASSUME NEW v \in Workers PROVE StageOK(v)'
    <3>1. \A u \in Workers : job'[u] = IF u = w THEN 0 ELSE job[u]
      BY <1>0, <2>1 DEF TypeOK
    <3>2. stage'[v] = IF v = w THEN "idle" ELSE stage[v]
      BY <1>0, <2>1 DEF TypeOK
    <3>3. job'[v] < nextIn' /\ job'[v] \notin acked'
      BY <1>0, <2>1, <3>1 DEF TypeOK, StageOK, Events
    <3> QED BY <1>0, <2>1, <3>1, <3>2, <3>3 DEF StageOK, Durable
  <2>5. AckedIsDurable' /\ SeenIsDurable' /\ ForwardedIsPersisted'
    BY <1>0, <2>1 DEF PoolInvariant, AckedIsDurable, SeenIsDurable, ForwardedIsPersisted, StageOK, Durable
  <2>6. NothingDropped'
    BY <1>0, <2>1 DEF PoolInvariant, NothingDropped, TypeOK
  <2> QED BY <1>0, <2>2, <2>3, <2>4, <2>5, <2>6 DEF PoolInvariant
<1>3. CASE Abandon(w)
  <2>1. /\ stage' = [stage EXCEPT ![w] = "idle"] /\ live' = [live EXCEPT ![w] = ~canceled]
        /\ job' = [job EXCEPT ![w] = 0] /\ canceled
        /\ UNCHANGED <<nextIn, acked, finished>>
    BY <1>3 DEF Abandon, Goto
  <2>2. TypeOK'
    BY <1>0, <2>1 DEF TypeOK, Stages
  <2>3. ASSUME NEW v \in Workers PROVE StageOK(v)'
    <3>1. \A u \in Workers : job'[u] = IF u = w THEN 0 ELSE job[u]
      BY <1>0, <2>1 DEF TypeOK
    <3>2. stage'[v] = IF v = w THEN "idle" ELSE stage[v]
      BY <1>0, <2>1 DEF TypeOK
    <3>3. job'[v] < nextIn' /\ job'[v] \notin acked'
      BY <1>0, <2>1, <3>1 DEF TypeOK, StageOK, Events
    <3> QED BY <1>0, <2>1, <3>1, <3>2, <3>3 DEF StageOK, Durable
  <2>4. AckedIsDurable' /\ SeenIsDurable' /\ ForwardedIsPersisted' /\ NothingDropped'
    BY <1>0, <2>1 DEF PoolInvariant, AckedIsDurable, SeenIsDurable, ForwardedIsPersisted, NothingDropped
  <2> QED BY <1>0, <2>1, <2>2, <2>3, <2>4 DEF PoolInvariant
<1> QED
  BY <1>1, <1>2, <1>3

(* A new process reads the channel from the cursor on. *)
LEMMA StartInvariant ==
  ASSUME PoolInvariant, StartAgain, restarts < MaxRestarts
  PROVE  PoolInvariant'
<1> USE DEF StartAgain, services
<1>1. TypeOK /\ UNCHANGED <<cursor, db, kafka, redis, unanswered, finished>>
  BY DEF PoolInvariant
<1>2. TypeOK'
  <2>0. canceled' \in BOOLEAN
    BY Zenon
  <2>1. nextIn' \in 1..(N + 1) /\ restarts' \in 0..MaxRestarts
    <3>1. cursor \in 0..N /\ restarts \in 0..MaxRestarts
      BY <1>1 DEF TypeOK
    <3>2. nextIn' = cursor + 1 /\ restarts' = restarts + 1
      OBVIOUS
    <3> HIDE DEF StartAgain
    <3> QED BY <3>1, <3>2
  <2>2. /\ stage' \in [Workers -> Stages] /\ live' \in [Workers -> BOOLEAN]
        /\ job' \in [Workers -> 0..N] /\ acked' \subseteq Events
        /\ \A v \in Workers : job'[v] = 0 <=> stage'[v] \in {"idle", "stopped"}
    BY DEF Stages
  <2> QED BY <1>1, <2>0, <2>1, <2>2 DEF TypeOK
<1>3. Forwarded' = Forwarded /\ cursor \in 0..N
  BY <1>1 DEF Forwarded, TypeOK
<1>4. (\A v \in Workers : StageOK(v)') /\ (\A e \in acked' : e < nextIn')
  BY <1>1, <1>3 DEF StageOK
<1>5. AckedIsDurable' /\ SeenIsDurable' /\ ForwardedIsPersisted'
  BY <1>1, <1>3 DEF PoolInvariant, AckedIsDurable, SeenIsDurable, ForwardedIsPersisted
<1>6. NothingDropped'
  BY <1>1, <1>3 DEF NothingDropped, Events
<1> QED
  BY <1>2, <1>4, <1>5, <1>6 DEF PoolInvariant

(* Every step of the pool and of what surrounds it preserves the invariant. *)
LEMMA NextInvariant == PoolInvariant /\ [Next]_vars => PoolInvariant'
<1> SUFFICES ASSUME PoolInvariant, [Next]_vars PROVE PoolInvariant'
  OBVIOUS
<1>0. TypeOK
  BY DEF PoolInvariant
<1> USE DEF services, process
<1>1. ASSUME NEW w \in Workers, Step(w) PROVE PoolInvariant'
  BY <1>1, StagesInvariant, HandlersInvariant, JobInvariant DEF Step
<1>2. CASE SeenExpires
  <2>1. /\ UNCHANGED <<nextIn, stage, job, live, acked, canceled, cursor, db, kafka, unanswered,
                       restarts, finished>>
        /\ redis' \subseteq redis
    BY <1>2 DEF SeenExpires
  <2> QED BY <1>0, <2>1 DEF PoolInvariant, TypeOK, StageOK, Durable, Forwarded, AckedIsDurable,
                            SeenIsDurable, ForwardedIsPersisted, NothingDropped
<1>3. CASE Commit
  <2>1. /\ UNCHANGED <<nextIn, stage, job, live, acked, canceled, db, kafka, redis, unanswered,
                       restarts, finished>>
        /\ cursor' \in 0..N /\ cursor' > cursor /\ cursor \in Nat
    BY <1>0, <1>3 DEF Commit, TypeOK
  <2>2. NothingDropped'
    BY <2>1 DEF PoolInvariant, NothingDropped, Events
  <2> QED BY <1>0, <2>1, <2>2 DEF PoolInvariant, TypeOK, StageOK, Durable, Forwarded, AckedIsDurable,
                                  SeenIsDurable, ForwardedIsPersisted
<1>4. CASE Cancel
  <2>1. /\ UNCHANGED <<nextIn, stage, job, live, acked, cursor, db, kafka, redis, unanswered,
                       restarts, finished>>
        /\ canceled' = TRUE /\ restarts < MaxRestarts
    BY <1>4 DEF Cancel
  <2> QED BY <1>0, <2>1 DEF PoolInvariant, TypeOK, StageOK, Durable, Forwarded, AckedIsDurable,
                            SeenIsDurable, ForwardedIsPersisted, NothingDropped
<1>5. CASE Crash
  BY <1>5, StartInvariant DEF Crash
<1>6. CASE Restart
  BY <1>6, StartInvariant DEF Restart, PoolInvariant
<1>7. CASE UNCHANGED vars
  BY <1>7 DEF vars, PoolInvariant, TypeOK, StageOK, Durable, Forwarded, AckedIsDurable,
              SeenIsDurable, ForwardedIsPersisted, NothingDropped
<1> QED
  BY <1>1, <1>2, <1>3, <1>4, <1>5, <1>6, <1>7 DEF Next

(* The invariant holds over all restarts. *)
THEOREM PoolInvariantHolds == Spec => []PoolInvariant
  BY InitInvariant, NextInvariant, PTL DEF Spec

(* What an ack means: whatever failed, was retried, expired or crashed, an   *)
(* acked event that decodes is in the database and in Kafka.                 *)
THEOREM AckedIsDurableHolds == Spec => []AckedIsDurable
  BY PoolInvariantHolds, PTL DEF PoolInvariant

(* The cache never vouches for an event that has not finished every stage.   *)
THEOREM SeenIsDurableHolds == Spec => []SeenIsDurable
  BY PoolInvariantHolds, PTL DEF PoolInvariant

(* Kafka never has a record whose event is not in the database.              *)
THEOREM ForwardedIsPersistedHolds == Spec => []ForwardedIsPersisted
  BY PoolInvariantHolds, PTL DEF PoolInvariant

(* No worker drops an event while the process is not canceled.               *)
THEOREM NothingDroppedHolds == Spec => []NothingDropped
  BY PoolInvariantHolds, PTL DEF PoolInvariant

-----------------------------------------------------------------------------
(* Duplicates *)

Records(e) == {i \in 1..Len(kafka) : kafka[i] = e}

\* This run of the process has forwarded e, and will not do so again.
Passed(e) == e \in acked \/ \E w \in Workers : job[w] = e /\ stage[w] \in {"mark", "ack"}

CountOK ==
  \A e \in Events :
    /\ IsFiniteSet(Records(e))
    /\ Cardinality(Records(e)) <= restarts + unanswered + (IF Passed(e) THEN 1 ELSE 0)

(* A record more of the event that is written, and none of the others. *)
LEMMA RecordsGrow ==
  ASSUME kafka \in Seq(Events), NEW j \in Events, kafka' = Append(kafka, j),
         NEW e \in Events, IsFiniteSet(Records(e))
  PROVE  /\ IsFiniteSet(Records(e)')
         /\ Cardinality(Records(e)') = Cardinality(Records(e)) + (IF e = j THEN 1 ELSE 0)
<1>1. /\ Len(kafka) \in Nat /\ Len(kafka') = Len(kafka) + 1 /\ kafka'[Len(kafka) + 1] = j
      /\ \A i \in 1..Len(kafka) : kafka'[i] = kafka[i]
  OBVIOUS
<1>2. CASE e = j
  <2>1. Records(e)' = Records(e) \union {Len(kafka) + 1}
    BY <1>1, <1>2 DEF Records
  <2>2. Len(kafka) + 1 \notin Records(e)
    BY <1>1 DEF Records
  <2> DEFINE old == Records(e)
             last == Len(kafka) + 1
  <2> HIDE DEF old, last
  <2>3. IsFiniteSet(old) /\ last \notin old
    BY <2>2 DEF old, last
  <2>4. IsFiniteSet(old \union {last}) /\ Cardinality(old \union {last}) = Cardinality(old) + 1
    BY <2>3, FS_AddElement
  <2>5. (IF e = j THEN 1 ELSE 0) = 1
    BY <1>2
  <2> QED BY <2>1, <2>4, <2>5, Zenon DEF old, last
<1>3. CASE e # j
  <2>1. Records(e)' = Records(e)
    BY <1>1, <1>3 DEF Records
  <2>2. Cardinality(Records(e)) = Cardinality(Records(e)) + 0
    BY FS_CardinalityType
  <2>3. (IF e = j THEN 1 ELSE 0) = 0
    BY <1>3
  <2> QED BY <2>1, <2>2, <2>3, Zenon
<1> QED
  BY <1>2, <1>3

(* A step that writes no record keeps what has been passed. *)
LEMMA NoRecordCount ==
  ASSUME CountOK, restarts \in Nat, unanswered \in Nat, UNCHANGED kafka,
         restarts' \in Nat, unanswered' = unanswered,
         \/ restarts' = restarts + 1
         \/ restarts' = restarts /\ \A e \in Events : Passed(e) => Passed(e)'
  PROVE  CountOK'
<1> SUFFICES ASSUME NEW e \in Events
             PROVE  /\ IsFiniteSet(Records(e)')
                    /\ Cardinality(Records(e)') <= restarts' + unanswered' + (IF Passed(e)' THEN 1 ELSE 0)
  BY DEF CountOK
<1>1. Records(e)' = Records(e)
  BY DEF Records
<1>2. IsFiniteSet(Records(e)) /\ Cardinality(Records(e)) \in Nat
  BY FS_CardinalityType DEF CountOK
<1>3. Cardinality(Records(e)) <= restarts + unanswered + (IF Passed(e) THEN 1 ELSE 0)
  BY DEF CountOK
<1> QED
  BY <1>1, <1>2, <1>3

(* The count over every step. *)
LEMMA NextCount == PoolInvariant /\ CountOK /\ [Next]_vars => CountOK'
<1> SUFFICES ASSUME PoolInvariant, CountOK, [Next]_vars PROVE CountOK'
  OBVIOUS
<1> USE DEF services, process
<1>0. /\ TypeOK /\ restarts \in Nat /\ unanswered \in Nat /\ kafka \in Seq(Events)
      /\ stage \in [Workers -> Stages] /\ job \in [Workers -> 0..N]
  BY DEF PoolInvariant, TypeOK
<1>1. ASSUME NEW w \in Workers, ForwardOk(w) PROVE CountOK'
  <2>1. /\ kafka' = Append(kafka, job[w]) /\ job[w] \in Events /\ stage[w] = "forward"
        /\ stage' = [stage EXCEPT ![w] = ChainEnd] /\ ChainEnd \in {"mark", "ack"}
        /\ UNCHANGED <<job, acked, restarts, unanswered>>
    BY <1>0, <1>1 DEF ForwardOk, Goto, ChainEnd, TypeOK, Events
  <2>2. ~Passed(job[w])
    BY <2>1 DEF Passed, PoolInvariant, StageOK, Events
  <2>3. Passed(job[w])' /\ \A e \in Events : Passed(e) => Passed(e)'
    BY <1>0, <2>1 DEF Passed
  <2> SUFFICES ASSUME NEW e \in Events
               PROVE  /\ IsFiniteSet(Records(e)')
                      /\ Cardinality(Records(e)') <= restarts' + unanswered' + (IF Passed(e)' THEN 1 ELSE 0)
    BY DEF CountOK
  <2>4. /\ IsFiniteSet(Records(e)) /\ Cardinality(Records(e)) \in Nat
        /\ Cardinality(Records(e)) <= restarts + unanswered + (IF Passed(e) THEN 1 ELSE 0)
    BY FS_CardinalityType DEF CountOK
  <2>5. /\ IsFiniteSet(Records(e)')
        /\ Cardinality(Records(e)') = Cardinality(Records(e)) + (IF e = job[w] THEN 1 ELSE 0)
    BY <1>0, <2>1, <2>4, RecordsGrow
  <2> QED BY <1>0, <2>1, <2>2, <2>3, <2>4, <2>5
<1>2. ASSUME NEW w \in Workers, ForwardFails(w) PROVE CountOK'
  <2>1. /\ stage[w] = "forward" /\ stage' = [stage EXCEPT ![w] = "handlerBackoff"]
        /\ UNCHANGED <<job, acked, restarts>> /\ job[w] \in Events
        /\ \/ UNCHANGED <<kafka, unanswered>>
           \/ kafka' = Append(kafka, job[w]) /\ unanswered' = unanswered + 1
    <3>1. stage[w] = "forward" /\ job[w] \in 0..N /\ job[w] # 0
      BY <1>0, <1>2 DEF ForwardFails, TypeOK
    <3> QED BY <1>2, <3>1 DEF ForwardFails, Goto, Events
  <2>2. \A e \in Events : Passed(e) => Passed(e)'
    BY <1>0, <2>1 DEF Passed
  <2>3. CASE UNCHANGED <<kafka, unanswered>>
    BY <1>0, <2>1, <2>2, <2>3, NoRecordCount
  <2>4. CASE kafka' = Append(kafka, job[w]) /\ unanswered' = unanswered + 1
    <3> SUFFICES ASSUME NEW e \in Events
                 PROVE  /\ IsFiniteSet(Records(e)')
                        /\ Cardinality(Records(e)') <= restarts' + unanswered' + (IF Passed(e)' THEN 1 ELSE 0)
      BY DEF CountOK
    <3>1. /\ IsFiniteSet(Records(e)) /\ Cardinality(Records(e)) \in Nat
          /\ Cardinality(Records(e)) <= restarts + unanswered + (IF Passed(e) THEN 1 ELSE 0)
      BY FS_CardinalityType DEF CountOK
    <3>2. /\ IsFiniteSet(Records(e)')
          /\ Cardinality(Records(e)') = Cardinality(Records(e)) + (IF e = job[w] THEN 1 ELSE 0)
      BY <1>0, <2>1, <2>4, <3>1, RecordsGrow
    <3> QED BY <1>0, <2>1, <2>2, <2>4, <3>1, <3>2
  <2> QED BY <2>1, <2>3, <2>4
<1>3. ASSUME NEW w \in Workers,
             \/ Take(w) \/ WorkerStops(w) \/ SchemaOk(w) \/ SchemaFails(w) \/ Retry(w) \/ Abandon(w)
             \/ SeenHit(w) \/ SeenMiss(w) \/ PersistOk(w) \/ PersistFails(w) \/ MarkSeen(w) \/ Ack(w)
      PROVE  CountOK'
  <2>1. UNCHANGED <<kafka, unanswered, restarts>>
    BY Zenon, <1>3 DEF Take, WorkerStops, SchemaOk, SchemaFails, Retry, Abandon, SeenHit,
                       SeenMiss, PersistOk, PersistFails, MarkSeen, Ack
  <2>2. CASE Ack(w)
    <3>1. \A e \in Events : Passed(e) => Passed(e)'
      BY <1>0, <2>2 DEF Ack, Goto, Passed
    <3> QED BY <1>0, <2>1, <3>1, NoRecordCount
  <2>3. CASE MarkSeen(w)
    <3>1. \A e \in Events : Passed(e) => Passed(e)'
      BY <1>0, <2>3 DEF MarkSeen, Goto, Passed
    <3> QED BY <1>0, <2>1, <3>1, NoRecordCount
  <2>4. CASE ~Ack(w) /\ ~MarkSeen(w)
    <3>1. /\ stage[w] \notin {"mark", "ack"} /\ acked' = acked
          /\ \A v \in Workers : v # w => stage'[v] = stage[v] /\ job'[v] = job[v]
      BY <1>0, <1>3, <2>4 DEF Take, WorkerStops, SchemaOk, SchemaFails, Retry, Abandon, SeenHit,
                              SeenMiss, PersistOk, PersistFails, Goto
    <3>2. \A e \in Events : Passed(e) => Passed(e)'
      BY <3>1 DEF Passed
    <3> QED BY <1>0, <2>1, <3>2, NoRecordCount
  <2> QED BY <2>2, <2>3, <2>4
<1>4. CASE SeenExpires \/ Commit \/ Cancel \/ UNCHANGED vars
  <2>1. UNCHANGED <<kafka, unanswered, restarts, acked, job, stage>>
    BY <1>4 DEF SeenExpires, Commit, Cancel, vars
  <2>2. \A e \in Events : Passed(e) => Passed(e)'
    BY <2>1 DEF Passed
  <2> QED BY <1>0, <2>1, <2>2, NoRecordCount
<1>5. CASE Crash \/ Restart
  <2>1. UNCHANGED <<kafka, unanswered>> /\ restarts' = restarts + 1
    BY <1>5 DEF Crash, Restart, StartAgain
  <2> QED BY <1>0, <2>1, NoRecordCount
<1> QED
  BY <1>1, <1>2, <1>3, <1>4, <1>5 DEF Next, Step

(* Duplicates in Kafka come from restarts and from produces that were        *)
(* written and reported as failed, and from nothing else.                    *)
THEOREM DuplicatesHaveACauseHolds == Spec => []DuplicatesHaveACause
<1>1. Init => CountOK
  <2> SUFFICES ASSUME Init, NEW e \in Events
               PROVE  /\ IsFiniteSet(Records(e))
                      /\ Cardinality(Records(e)) <= restarts + unanswered + (IF Passed(e) THEN 1 ELSE 0)
    BY DEF CountOK
  <2>1. Records(e) = {}
    BY DEF Init, Records
  <2> QED BY <2>1, FS_EmptySet DEF Init
<1>2. PoolInvariant /\ CountOK => DuplicatesHaveACause
  <2> SUFFICES ASSUME PoolInvariant, CountOK, NEW e \in Events
               PROVE  Cardinality(Records(e)) <= 1 + restarts + unanswered
    BY DEF DuplicatesHaveACause, Records
  <2>1. /\ Cardinality(Records(e)) \in Nat /\ restarts \in Nat /\ unanswered \in Nat
        /\ Cardinality(Records(e)) <= restarts + unanswered + (IF Passed(e) THEN 1 ELSE 0)
    BY FS_CardinalityType DEF CountOK, PoolInvariant, TypeOK
  <2> QED BY <2>1
<1> QED
  BY <1>1, <1>2, PoolInvariantHolds, NextCount, PTL DEF Spec

-----------------------------------------------------------------------------
(* At-least-once delivery *)

\* The cursor covers events that some run of the process acked.
CommitOK == acked \subseteq finished /\ \A e \in Events : e <= cursor => e \in finished

(* Every step keeps the cursor below what is acked. *)
LEMMA NextCommit == PoolInvariant /\ CommitOK /\ [Next]_vars => CommitOK'
<1> SUFFICES ASSUME PoolInvariant, CommitOK, [Next]_vars PROVE CommitOK'
  OBVIOUS
<1> USE DEF CommitOK
<1>1. ASSUME UNCHANGED <<acked, cursor, finished>> PROVE CommitOK'
  BY <1>1, Zenon
<1>2. ASSUME NEW w \in Workers, Step(w) PROVE CommitOK'
  <2>1. CASE Ack(w)
    BY <2>1, Zenon DEF Ack
  <2>2. CASE ~Ack(w)
    <3>1. UNCHANGED <<acked, cursor, finished>>
      BY <1>2, <2>2, Zenon
         DEF Step, Take, WorkerStops, SchemaOk, SchemaFails, Retry, Abandon, SeenHit, SeenMiss,
             PersistOk, PersistFails, ForwardOk, ForwardFails, MarkSeen
    <3> QED
      BY <1>1, <3>1
  <2> QED
    BY <2>1, <2>2
<1>3. CASE Commit
  <2>1. PICK c \in (cursor + 1)..N : (cursor + 1)..c \subseteq acked /\ cursor' = c
    BY <1>3 DEF Commit
  <2>2. cursor \in 0..N /\ UNCHANGED <<acked, finished>>
    BY <1>3 DEF Commit, process, PoolInvariant, TypeOK
  <2>3. ASSUME NEW e \in Events, e <= c PROVE e \in finished
    <3>1. CASE e <= cursor
      BY <3>1
    <3>2. CASE e > cursor
      <4>1. e \in (cursor + 1)..c
        BY <2>2, <2>3, <3>2 DEF Events
      <4> QED
        BY <2>1, <4>1
    <3> QED
      BY <2>2, <3>1, <3>2 DEF Events
  <2> QED
    BY <2>1, <2>2, <2>3
<1>4. CASE SeenExpires \/ Cancel \/ UNCHANGED vars
  BY <1>1, <1>4, Zenon DEF SeenExpires, Cancel, process, vars
<1>5. CASE Crash \/ Restart
  BY <1>5, Zenon DEF Crash, Restart, StartAgain
<1> QED
  BY <1>2, <1>3, <1>4, <1>5 DEF Next

(* A step that may have done something for event e settles e or nothing. *)
LEMMA Settles ==
  ASSUME NEW e \in Events,
         db \subseteq db', db' \subseteq db \union {e},
         Forwarded \subseteq Forwarded', Forwarded' \subseteq Forwarded \union {e},
         finished \subseteq finished', finished' \subseteq finished \union {e}
  PROVE  Settled' = Settled \/ Settled' = Settled \union {e}
<1>1. Settled \subseteq Settled' /\ Settled' \subseteq Settled \union {e}
  BY Zenon DEF Settled
<1> QED
  BY <1>1

(* No step of a worker or a service unsettles an event, or settles two. *)
LEMMA NextSettles ==
  ASSUME PoolInvariant, NEW w \in Workers, Step(w)
  PROVE  /\ cursor' = cursor
         /\ Settled' = Settled \/ \E e \in Events : Settled' = Settled \union {e}
<1>0. /\ job[w] \in 0..N /\ kafka \in Seq(Events)
      /\ job[w] = 0 <=> stage[w] \in {"idle", "stopped"}
  BY DEF PoolInvariant, TypeOK
<1>1. cursor' = cursor
  BY Zenon
     DEF Step, Take, WorkerStops, SchemaOk, SchemaFails, Ack, Retry, Abandon, SeenHit, SeenMiss,
         PersistOk, PersistFails, ForwardOk, ForwardFails, MarkSeen
<1>2. CASE UNCHANGED <<db, kafka, finished>>
  BY <1>1, <1>2, Zenon DEF Settled, Forwarded
<1>3. CASE ~UNCHANGED <<db, kafka, finished>>
  <2>1. Ack(w) \/ PersistOk(w) \/ PersistFails(w) \/ ForwardOk(w) \/ ForwardFails(w)
    BY <1>3, Zenon
       DEF Step, Take, WorkerStops, SchemaOk, SchemaFails, Retry, Abandon, SeenHit, SeenMiss,
           MarkSeen, services
  <2>2. job[w] \in Events
    BY <1>0, <2>1 DEF Ack, PersistOk, PersistFails, ForwardOk, ForwardFails, Events
  <2>3. CASE Ack(w)
    <3>1. finished' = finished \union {job[w]} /\ UNCHANGED <<db, kafka>>
      BY <2>3, Zenon DEF Ack, services
    <3>2. Forwarded' = Forwarded
      BY <3>1, Zenon DEF Forwarded
    <3> QED
      BY <1>1, <2>2, <3>1, <3>2, Settles, Zenon
  <2>4. CASE PersistOk(w) \/ PersistFails(w)
    <3>1. db' \in {db, db \union {job[w]}} /\ UNCHANGED <<kafka, finished>>
      BY <2>4, Zenon DEF PersistOk, PersistFails
    <3>2. Forwarded' = Forwarded
      BY <3>1, Zenon DEF Forwarded
    <3> QED
      BY <1>1, <2>2, <3>1, <3>2, Settles, Zenon
  <2>5. CASE ForwardOk(w) \/ ForwardFails(w)
    <3>1. kafka' \in {kafka, Append(kafka, job[w])} /\ UNCHANGED <<db, finished>>
      BY <2>5, Zenon DEF ForwardOk, ForwardFails
    <3>2. Forwarded' = Forwarded \/ Forwarded' = Forwarded \union {job[w]}
      <4>1. CASE kafka' = kafka
        BY <4>1, Zenon DEF Forwarded
      <4>2. CASE kafka' = Append(kafka, job[w])
        BY <1>0, <2>2, <4>2, Forwards, Zenon
      <4> QED
        BY <3>1, <4>1, <4>2, Zenon
    <3> QED
      BY <1>1, <2>2, <3>1, <3>2, Settles, Zenon
  <2> QED
    BY <2>1, <2>3, <2>4, <2>5
<1> QED
  BY <1>2, <1>3

(* Every step of the pool is a step of Delivery for its topic, or none. *)
LEMMA DeliveryStep ==
  PoolInvariant /\ CommitOK /\ [Next]_vars => [Promise!Next]_(Promise!vars)
<1> SUFFICES ASSUME PoolInvariant, CommitOK, [Next]_vars
             PROVE  [Promise!Next]_(Promise!vars)
  OBVIOUS
<1>0. cursor \in 0..N
  BY DEF PoolInvariant, TypeOK
<1>1. ASSUME Settled' = Settled, cursor' = cursor PROVE [Promise!Next]_(Promise!vars)
  BY <1>1, Zenon DEF Promise!vars
<1>2. ASSUME NEW e \in Events, Settled' = Settled \union {e}, cursor' = cursor
      PROVE  Promise!Next
  <2>1. Topic \X Settled' = (Topic \X Settled) \union {<<"topic", e>>}
    BY <1>2 DEF Topic
  <2>2. [t \in Topic |-> 0]["topic"] < e /\ e <= [t \in Topic |-> N]["topic"]
    BY DEF Topic, Events
  <2>3. Promise!Deliver("topic", e)
    BY <1>2, <2>1, <2>2, Zenon DEF Promise!Deliver
  <2> QED
    BY <2>3, Zenon DEF Promise!Next, Promise!Positions, Topic, Events
<1>3. CASE Commit
  <2>1. PICK c \in (cursor + 1)..N : (cursor + 1)..c \subseteq acked /\ cursor' = c
    BY <1>3 DEF Commit
  <2>2. UNCHANGED <<acked, finished, db, kafka>>
    BY <1>3, Zenon DEF Commit, process, services
  <2>3. Settled' = Settled
    BY <2>2, Zenon DEF Settled, Forwarded
  <2>4. c \in Events /\ c \in Nat
    BY <1>0, <2>1 DEF Events
  <2>5. \A q \in Events : q <= c => q \in finished
    <3> SUFFICES ASSUME NEW q \in Events, q <= c PROVE q \in finished
      OBVIOUS
    <3>1. CASE q <= cursor
      BY <3>1 DEF CommitOK
    <3>2. CASE q > cursor
      <4>1. q \in (cursor + 1)..c
        BY <1>0, <2>4, <3>2 DEF Events
      <4> QED
        BY <2>1, <4>1 DEF CommitOK
    <3> QED
      BY <1>0, <3>1, <3>2 DEF Events
  <2>6. \A q \in Events : q \in finished => q \in Settled
    BY Zenon DEF PoolInvariant, AckedIsDurable, Settled
  <2>7. Promise!Covered("topic", c)
    BY <2>5, <2>6 DEF Promise!Covered, Promise!Positions, Topic, Events
  <2>8. [t \in Topic |-> cursor'] = [[t \in Topic |-> cursor] EXCEPT !["topic"] = c]
    BY <2>1 DEF Topic
  <2>9. [t \in Topic |-> cursor]["topic"] < c /\ c <= [t \in Topic |-> N]["topic"]
    BY <1>0, <2>1 DEF Topic
  <2>10. Promise!Commit("topic", c)
    BY <2>3, <2>7, <2>8, <2>9, Zenon DEF Promise!Commit
  <2> QED
    BY <2>4, <2>10, Zenon DEF Promise!Next, Promise!Positions, Topic, Events
<1>4. ASSUME NEW w \in Workers, Step(w) PROVE [Promise!Next]_(Promise!vars)
  BY <1>1, <1>2, <1>4, NextSettles, Zenon
<1>5. CASE SeenExpires \/ Cancel \/ Crash \/ Restart \/ UNCHANGED vars
  <2>1. UNCHANGED <<db, kafka, finished, cursor>>
    BY <1>5, Zenon
       DEF SeenExpires, Cancel, Crash, Restart, StartAgain, process, services, vars
  <2> QED
    BY <1>1, <2>1, Zenon DEF Settled, Forwarded
<1> QED
  BY <1>3, <1>4, <1>5 DEF Next

(* The pool implements Delivery: the write that settles an event maps to
   Deliver, a save of the cursor to Commit, and a restart to nothing. *)
THEOREM WorkerPoolImplementsDelivery == Spec => ImplementsDelivery
<1>1. Init => CommitOK /\ Promise!Init
  <2> SUFFICES ASSUME Init PROVE CommitOK /\ Promise!Init
    OBVIOUS
  <2>1. CommitOK
    BY DEF Init, CommitOK, Events
  <2>2. Settled = {}
    BY DEF Init, Settled
  <2>3. Promise!Init
    BY <2>2 DEF Init, Promise!Init
  <2> QED
    BY <2>1, <2>3
<1> QED
  BY <1>1, NextCommit, DeliveryStep, PoolInvariantHolds, PTL
     DEF Spec, ImplementsDelivery, Promise!Spec

(* Every variable keeps its type, and a worker holds an event exactly while it
   processes one. *)
THEOREM WorkerPoolTypeOK == Spec => []TypeOK
  BY PoolInvariantHolds, PTL DEF PoolInvariant
=============================================================================
