----------------------- MODULE PipelineDeliveryProofs -----------------------
(***************************************************************************)
(* More about Pipeline, from its invariant: a clean shutdown saves every   *)
(* cursor; a process that is not being stopped loses nothing it has        *)
(* received; the composed service implements Delivery and, for each topic, *)
(* TopicStream.                                                            *)
(***************************************************************************)
EXTENDS PipelineProofs

\* The provers to try, with time for a busy machine; a leaf that needs no
\* arithmetic may cite Zenon alone.
USE SMTT(10), Zenon, SMTT(30), SMTT(60)

USE PipelineAssumption DEF Positions, NoReplay, C!NoReplay, C!Seqs

-----------------------------------------------------------------------------
(* The final flush *)

\* One flush runs at a time; a cursor that is not in the database is dirty or on
\* its way; once the final flush has begun nothing becomes dirty any more.
FlushOK ==
  /\ \A f \in Flushers : f \notin flushing => \A t \in Topics : pending[f][t] = 0
  /\ \A f, g \in flushing : f = g
  /\ \A f \in Flushers, t \in Topics :
       pending[f][t] # 0 /\ pending[f][t] # replayID[t] => dirty[t]
  /\ \A t \in Topics : replayID[t] # 0 /\ stored[t] # replayID[t] =>
       dirty[t] \/ pending["ticker"][t] # 0 \/ pending["final"][t] # 0
  /\ final # "no" => PoolStopped
  /\ final \in {"no", "done"} => "final" \notin flushing
  /\ final = "running" => "final" \in flushing
  /\ final \in {"running", "done"} =>
       \A t \in Topics : ~dirty[t] /\ pending["ticker"][t] = 0

(* A process that starts has nothing to flush. *)
LEMMA InitFlushOK == Init => FlushOK
  BY DEF Init, FlushOK, EveryTopic, Flushers

(* A step outside the committer: a stopped worker stays stopped. *)
LEMMA OtherFlushOK ==
  ASSUME FlushOK, UNCHANGED <<cursors, stored, final>>,
         \A w \in Workers : worker[w] = Stopped => worker'[w] = Stopped
  PROVE  FlushOK'
<1>1. UNCHANGED <<flushing, pending, replayID, dirty, stored, final>>
  BY DEF cursors
<1>2. PoolStopped => PoolStopped'
  BY DEF PoolStopped
<1> QED
  BY <1>1, <1>2 DEF FlushOK

(* A flush begins; for the final one, nothing is dirty afterwards. *)
LEMMA BeginFlushOK ==
  ASSUME FlushOK, C!TypeOK, NEW f \in Flushers, C!BeginFlush(f), worker' = worker,
         \/ f = "ticker" /\ final' = final
         \/ f = "final" /\ final = "no" /\ final' = "running" /\ PoolStopped
  PROVE  FlushOK'
<1> USE DEF Flushers
<1>1. /\ flushing = {} /\ flushing' = {f} /\ UNCHANGED <<replayID, stored>>
      /\ \A t \in Topics : ~dirty'[t]
  BY DEF C!BeginFlush, C!FlushMuFree
<1>2. \A g \in Flushers, t \in Topics : pending[g][t] = 0
  BY <1>1 DEF FlushOK
<1> DEFINE p == [t \in Topics |-> IF dirty[t] THEN replayID[t] ELSE NoReplay]
<1>3. pending' = [pending EXCEPT ![f] = p] /\ pending \in [Flushers -> [Topics -> Nat]]
  BY DEF C!BeginFlush, C!TypeOK
<1>4. \A t \in Topics : p[t] = IF dirty[t] THEN replayID[t] ELSE 0
  OBVIOUS
<1> HIDE DEF p
<1>5. /\ \A t \in Topics : pending'[f][t] = IF dirty[t] THEN replayID[t] ELSE 0
      /\ \A g \in Flushers, t \in Topics : g # f => pending'[g][t] = 0
  BY <1>2, <1>3, <1>4
<1>6. \A t \in Topics : replayID'[t] # 0 /\ stored'[t] # replayID'[t] =>
        dirty'[t] \/ pending'["ticker"][t] # 0 \/ pending'["final"][t] # 0
  BY <1>1, <1>2, <1>5 DEF FlushOK
<1>7. final' # "no" => PoolStopped'
  BY DEF FlushOK, PoolStopped
<1>8. /\ final' \in {"no", "done"} => "final" \notin flushing'
      /\ final' = "running" => "final" \in flushing'
  BY <1>1 DEF FlushOK
<1>9. final' \in {"running", "done"} =>
        \A t \in Topics : ~dirty'[t] /\ pending'["ticker"][t] = 0
  BY <1>1, <1>5 DEF FlushOK
<1>10. /\ \A g \in Flushers : g \notin flushing' => \A t \in Topics : pending'[g][t] = 0
       /\ \A g, h \in flushing' : g = h
       /\ \A g \in Flushers, t \in Topics :
            pending'[g][t] # 0 /\ pending'[g][t] # replayID'[t] => dirty'[t]
  BY <1>1, <1>5
<1> QED
  BY <1>6, <1>7, <1>8, <1>9, <1>10 DEF FlushOK

(* A flush ends when it has nothing left to save. *)
LEMMA EndFlushOK ==
  ASSUME FlushOK, NEW f \in Flushers, EndFlush(f)
  PROVE  FlushOK'
<1> USE DEF Flushers
<1>1. /\ f \in flushing /\ flushing' = flushing \ {f}
      /\ \A t \in Topics : pending[f][t] = 0
      /\ UNCHANGED <<replayID, dirty, pending, stored, worker>>
      /\ final' = IF f = "final" /\ final = "running" THEN "done" ELSE final
  BY DEF EndFlush, C!EndFlush, rest
<1>2. /\ final' \in {"no", "done"} => "final" \notin flushing'
      /\ final' = "running" => "final" \in flushing'
      /\ final' # "no" => PoolStopped
  BY <1>1 DEF FlushOK
<1>3. PoolStopped => PoolStopped'
  BY <1>1 DEF PoolStopped
<1>4. final' \in {"running", "done"} => final \in {"running", "done"}
  BY <1>1
<1>5. \A g \in Flushers : g \notin flushing' => \A t \in Topics : pending'[g][t] = 0
  BY <1>1 DEF FlushOK
<1> QED
  BY <1>1, <1>2, <1>3, <1>4, <1>5 DEF FlushOK

(* A save succeeds, or fails and leaves the topic dirty and the final flush
   failed; the ticker has nothing to save once the final flush has begun. *)
LEMMA SaveFlushOK ==
  ASSUME FlushOK, C!TypeOK, NEW f \in Flushers, NEW t \in Topics,
         SaveOk(f, t) \/ SaveFails(f, t)
  PROVE  FlushOK'
<1>1. /\ pending[f][t] # 0 /\ pending' = [pending EXCEPT ![f][t] = 0]
      /\ UNCHANGED <<replayID, flushing, worker>>
      /\ pending \in [Flushers -> [Topics -> Nat]] /\ dirty \in [Topics -> BOOLEAN]
      /\ stored \in [Topics -> Nat]
  BY DEF SaveOk, SaveFails, C!SaveOk, C!SaveFails, rest, C!TypeOK
<1>2. /\ pending'[f][t] = 0
      /\ \A g \in Flushers, u \in Topics : <<g, u>> # <<f, t>> => pending'[g][u] = pending[g][u]
  BY <1>1
<1>3. f \in flushing
  BY <1>1 DEF FlushOK
<1>4. \A g \in Flushers : g # f => g \notin flushing
  BY <1>3 DEF FlushOK
<1>5. /\ \A g \in Flushers : g \notin flushing' => \A u \in Topics : pending'[g][u] = 0
      /\ \A g, h \in flushing' : g = h
  BY <1>1, <1>2 DEF FlushOK
<1>6. f = "final" \/ f = "ticker"
  BY DEF Flushers
<1>7. f = "ticker" => final \notin {"running", "done"}
  BY <1>1 DEF FlushOK
<1>8. f = "final" => final # "no" /\ PoolStopped
  BY <1>3 DEF FlushOK
<1>9. PoolStopped => PoolStopped'
  BY <1>1 DEF PoolStopped
<1>10. CASE SaveOk(f, t)
  <2>1. stored' = [stored EXCEPT ![t] = pending[f][t]] /\ UNCHANGED <<dirty, final>>
    BY <1>10 DEF SaveOk, C!SaveOk
  <2>2. stored'[t] = pending[f][t] /\ \A u \in Topics : u # t => stored'[u] = stored[u]
    BY <1>1, <2>1
  <2>3. \A g \in Flushers, u \in Topics :
          pending'[g][u] # 0 /\ pending'[g][u] # replayID'[u] => dirty'[u]
    BY <1>1, <1>2, <2>1 DEF FlushOK
  <2>4. ASSUME NEW u \in Topics, replayID'[u] # 0, stored'[u] # replayID'[u]
        PROVE  dirty'[u] \/ pending'["ticker"][u] # 0 \/ pending'["final"][u] # 0
    <3>1. CASE u = t
      BY <1>1, <2>1, <2>2, <2>4, <3>1 DEF FlushOK
    <3>2. CASE u # t
      BY <1>1, <1>2, <2>1, <2>2, <2>4, <3>2 DEF FlushOK, Flushers
    <3> QED
      BY <3>1, <3>2
  <2>5. final' \in {"running", "done"} =>
          \A u \in Topics : ~dirty'[u] /\ pending'["ticker"][u] = 0
    BY <1>2, <2>1 DEF FlushOK, Flushers
  <2> QED
    BY <1>1, <1>5, <1>9, <2>1, <2>3, <2>4, <2>5 DEF FlushOK
<1>11. CASE SaveFails(f, t)
  <2>1. /\ dirty' = [dirty EXCEPT ![t] = TRUE]
        /\ stored' \in {stored, [stored EXCEPT ![t] = pending[f][t]]}
        /\ final' = IF f = "final" THEN "failed" ELSE final
    BY <1>11 DEF SaveFails, C!SaveFails
  <2>2. /\ dirty'[t] /\ \A u \in Topics : u # t => dirty'[u] = dirty[u]
        /\ \A u \in Topics : u # t => stored'[u] = stored[u]
    BY <1>1, <2>1
  <2>3. \A g \in Flushers, u \in Topics :
          pending'[g][u] # 0 /\ pending'[g][u] # replayID'[u] => dirty'[u]
    BY <1>1, <1>2, <2>2 DEF FlushOK
  <2>4. ASSUME NEW u \in Topics, replayID'[u] # 0, stored'[u] # replayID'[u]
        PROVE  dirty'[u] \/ pending'["ticker"][u] # 0 \/ pending'["final"][u] # 0
    <3>1. CASE u = t
      BY <2>2, <3>1
    <3>2. CASE u # t
      BY <1>1, <1>2, <2>2, <2>4, <3>2 DEF FlushOK, Flushers
    <3> QED
      BY <3>1, <3>2
  <2>5. final' \notin {"running", "done"}
    BY <1>6, <1>7, <2>1
  <2>6. final' \in {"no", "done"} => "final" \notin flushing'
    BY <1>1, <1>6, <2>1 DEF FlushOK
  <2>7. final' # "no" => PoolStopped'
    BY <1>8, <1>9, <2>1 DEF FlushOK
  <2> QED
    BY <1>5, <2>3, <2>4, <2>5, <2>6, <2>7 DEF FlushOK
<1> QED
  BY <1>10, <1>11

(* Every step preserves FlushOK. *)
LEMMA NextFlushOK == PipelineInvariant /\ FlushOK /\ [Next]_vars => FlushOK'
<1> SUFFICES ASSUME PipelineInvariant, FlushOK, [Next]_vars PROVE FlushOK'
  OBVIOUS
<1>0. TypeOK /\ C!TypeOK
  BY Zenon DEF PipelineInvariant, TypeOK
<1>1. CASE UNCHANGED vars
  BY <1>1, OtherFlushOK DEF vars
<1>2. ASSUME NEW t \in Topics, TopicStep(t) PROVE FlushOK'
  <2>1. UNCHANGED <<cursors, stored, final, worker>>
    BY <1>2 DEF TopicStep, Publish, Connect, Disconnect, Receive, FanIn, FanInStops
  <2> QED
    BY <2>1, OtherFlushOK
<1>3. ASSUME NEW w \in Workers, WorkerStep(w) PROVE FlushOK'
  <2>1. Idle # Stopped /\ Stopped.doing = "stopped"
    <3>1. Idle.doing = "idle" /\ Stopped.doing = "stopped"
      BY DEF Idle, Stopped
    <3> QED
      BY <3>1
  <2>2. worker[w] = Stopped => worker[w].doing # "process"
    BY <2>1
  <2>3. CASE Take(w) \/ Abandon(w) \/ WorkerStops(w)
    <3>1. UNCHANGED <<cursors, stored, final>>
      BY <2>3 DEF Take, Abandon, WorkerStops
    <3>2. \A v \in Workers : worker[v] = Stopped => worker'[v] = Stopped
      BY <1>0, <2>1, <2>2, <2>3 DEF Take, Abandon, WorkerStops, TypeOK
    <3> QED
      BY <3>1, <3>2, OtherFlushOK
  <2>4. CASE Finish(w)
    <3>1. ~PoolStopped
      BY <2>2, <2>4 DEF Finish, PoolStopped
    <3>2. final = "no" /\ final' = final
      BY <2>4, <3>1 DEF FlushOK, Finish
    <3>3. /\ \A u \in Topics :
               (replayID'[u] # replayID[u] => dirty'[u]) /\ (dirty[u] => dirty'[u])
          /\ UNCHANGED <<flushing, pending, stored>>
      BY <2>4, FinishInvariant
    <3>4. /\ \A f \in Flushers, u \in Topics :
               pending'[f][u] # 0 /\ pending'[f][u] # replayID'[u] => dirty'[u]
          /\ \A u \in Topics : replayID'[u] # 0 /\ stored'[u] # replayID'[u] =>
               dirty'[u] \/ pending'["ticker"][u] # 0 \/ pending'["final"][u] # 0
      BY <3>3 DEF FlushOK
    <3> QED
      BY <3>2, <3>3, <3>4 DEF FlushOK
  <2> QED
    BY <1>3, <2>3, <2>4 DEF WorkerStep
<1>4. CASE CommitterStep
  <2>1. "ticker" \in Flushers /\ "final" \in Flushers
    BY DEF Flushers
  <2>2. CASE TickerFlush
    BY <1>0, <2>1, <2>2, BeginFlushOK DEF TickerFlush, rest
  <2>3. CASE TickerStops
    BY <2>3, OtherFlushOK DEF TickerStops, rest
  <2>4. CASE FinalFlush
    BY <1>0, <2>1, <2>4, BeginFlushOK DEF FinalFlush, rest
  <2> QED
    BY <1>0, <1>4, <2>2, <2>3, <2>4, EndFlushOK, SaveFlushOK DEF CommitterStep
<1>5. CASE Cancel \/ Start
  BY <1>5, OtherFlushOK DEF Cancel, Start
<1>6. CASE Exit \/ Crash
  BY <1>6 DEF Exit, Crash, Dies, EveryTopic, FlushOK, Flushers
<1> QED
  BY <1>1, <1>2, <1>3, <1>4, <1>5, <1>6 DEF Next

(* After a final flush without an error, the database has every cursor that the
   process moved: the flush waits for the workers and for flushMu. *)
THEOREM CleanShutdownCommitsAllHolds == Spec => []CleanShutdownCommitsAll
<1>1. FlushOK => CleanShutdownCommitsAll
  BY DEF FlushOK, CleanShutdownCommitsAll, Flushers
<1> QED
  BY <1>1, InitFlushOK, NextFlushOK, PipelineInvariantHolds, PTL DEF Spec

-----------------------------------------------------------------------------
(* Nothing received is lost before the cancellation *)

\* Every event this process received was finished or is still in the process.
Held ==
  ~canceled => \A t \in Topics, p \in Positions :
    Offset(t) < p /\ p <= lastReplayID[t] => <<t, p>> \in finished \/ InProcess(t, p)

(* A step that receives nothing and loses nothing. *)
LEMMA KeepsHeld ==
  ASSUME Held, canceled' \/ ~canceled, UNCHANGED <<seq, lastReplayID>>,
         finished \subseteq finished',
         ~canceled' => \A t \in Topics : \A p :
           InProcess(t, p) => InProcess(t, p)' \/ <<t, p>> \in finished'
  PROVE  Held'
  BY DEF Held, Offset

(* fanIn moves the head of a subscriber's channel to the end of events. *)
LEMMA FanInHeld ==
  ASSUME PipelineInvariant, Held, NEW t \in Topics, FanIn(t)
  PROVE  Held'
<1>1. /\ out \in [Topics -> Seq(Event)] /\ out[t] \in Seq(Event) /\ events \in Seq(Event)
  BY DEF PipelineInvariant, TypeOK
<1>2. /\ out[t] # <<>> /\ events' = Append(events, Head(out[t]))
      /\ out' = [out EXCEPT ![t] = Tail(@)]
      /\ UNCHANGED <<canceled, seq, lastReplayID, worker, finished>>
  BY DEF FanIn, streams, history
<1>3. /\ Len(events') = Len(events) + 1 /\ events'[Len(events) + 1] = out[t][1]
      /\ \A i \in 1..Len(events) : events'[i] = events[i]
      /\ Len(events) \in Nat
  BY <1>1, <1>2
<1>4. /\ out'[t] = Tail(out[t]) /\ Len(out'[t]) = Len(out[t]) - 1 /\ Len(out[t]) \in Nat
      /\ \A i \in 1..Len(out'[t]) : out'[t][i] = out[t][i + 1]
      /\ \A u \in Topics : u # t => out'[u] = out[u]
  BY <1>1, <1>2
<1>5. ASSUME NEW u \in Topics, NEW p, InProcess(u, p) PROVE InProcess(u, p)'
  <2> DEFINE is(e) == e.topic = u /\ e.pos = p
  <2>1. CASE \E i \in 1..Len(out[u]) : is(out[u][i])
    <3>1. PICK i \in 1..Len(out[u]) : is(out[u][i])
      BY <2>1
    <3>2. CASE u # t
      BY <1>4, <3>1, <3>2 DEF InProcess
    <3>3. CASE u = t /\ i = 1
      <4>1. is(events'[Len(events) + 1]) /\ Len(events) + 1 \in 1..Len(events')
        BY <1>3, <3>1, <3>3
      <4> QED
        BY <4>1 DEF InProcess
    <3>4. CASE u = t /\ i # 1
      <4>1. i - 1 \in 1..Len(out'[u]) /\ (i - 1) + 1 = i
        <5>1. i \in 1..Len(out[t]) /\ Len(out'[u]) = Len(out[t]) - 1 /\ i # 1
          BY Zenon, <1>4, <3>4
        <5> QED
          BY <1>4, <5>1
      <4>2. is(out'[u][i - 1])
        BY Zenon, <1>4, <3>1, <3>4, <4>1
      <4> QED
        BY <4>1, <4>2 DEF InProcess
    <3> QED
      BY <3>2, <3>3, <3>4
  <2>2. CASE \E i \in 1..Len(events) : is(events[i])
    <3>1. PICK i \in 1..Len(events) : is(events[i])
      BY <2>2
    <3>2. i \in 1..Len(events') /\ is(events'[i])
      BY <1>3, <3>1
    <3> QED
      BY <3>2 DEF InProcess
  <2>3. CASE \E v \in Workers : worker[v].doing = "process" /\ is(worker[v].event)
    BY <1>2, <2>3 DEF InProcess
  <2> QED
    BY <1>5, <2>1, <2>2, <2>3 DEF InProcess
<1> QED
  BY <1>2, <1>5, KeepsHeld

(* A worker takes the head of events. *)
LEMMA TakeHeld ==
  ASSUME PipelineInvariant, Held, NEW w \in Workers, Take(w)
  PROVE  Held'
<1>1. worker \in [Workers -> {Idle, Stopped} \union {Busy(e) : e \in Event}] /\ events \in Seq(Event)
  BY DEF PipelineInvariant, TypeOK
<1>2. /\ events # <<>> /\ events' = Tail(events) /\ worker[w] = Idle
      /\ worker' = [worker EXCEPT ![w] = Busy(Head(events))]
      /\ UNCHANGED <<canceled, seq, lastReplayID, out, finished>>
  BY DEF Take, streams, history
<1>3. /\ Len(events') = Len(events) - 1 /\ Len(events) \in Nat
      /\ \A i \in 1..Len(events') : events'[i] = events[i + 1]
      /\ Head(events) = events[1]
  BY <1>1, <1>2
<1>4. /\ worker'[w].doing = "process" /\ worker'[w].event = events[1]
      /\ worker[w].doing # "process"
      /\ \A v \in Workers : v # w => worker'[v] = worker[v]
  <2>1. worker'[w] = Busy(events[1]) /\ \A v \in Workers : v # w => worker'[v] = worker[v]
    BY <1>1, <1>2, <1>3
  <2> QED
    BY <1>2, <2>1 DEF Busy, Idle
<1>5. ASSUME NEW u \in Topics, NEW p, InProcess(u, p) PROVE InProcess(u, p)'
  <2> DEFINE is(e) == e.topic = u /\ e.pos = p
  <2>1. CASE \E i \in 1..Len(out[u]) : is(out[u][i])
    BY <1>2, <2>1 DEF InProcess
  <2>2. CASE \E i \in 1..Len(events) : is(events[i])
    <3>1. PICK i \in 1..Len(events) : is(events[i])
      BY <2>2
    <3>2. CASE i = 1
      BY <1>4, <3>1, <3>2 DEF InProcess
    <3>3. CASE i # 1
      <4>1. i - 1 \in 1..Len(events') /\ (i - 1) + 1 = i
        BY <1>3, <3>3
      <4>2. is(events'[i - 1])
        BY <1>3, <3>1, <4>1
      <4> QED
        BY <4>1, <4>2 DEF InProcess
    <3> QED
      BY <3>2, <3>3
  <2>3. CASE \E v \in Workers : worker[v].doing = "process" /\ is(worker[v].event)
    BY <1>4, <2>3 DEF InProcess
  <2> QED
    BY <1>5, <2>1, <2>2, <2>3 DEF InProcess
<1> QED
  BY <1>2, <1>5, KeepsHeld

(* An event leaves its worker when it is finished. *)
LEMMA FinishHeld ==
  ASSUME PipelineInvariant, Held, NEW w \in Workers, Finish(w)
  PROVE  Held'
<1>1. worker \in [Workers -> {Idle, Stopped} \union {Busy(e) : e \in Event}]
  BY DEF PipelineInvariant, TypeOK
<1>2. /\ worker' = [worker EXCEPT ![w] = Idle]
      /\ finished' = finished \union {<<worker[w].event.topic, worker[w].event.pos>>}
      /\ UNCHANGED <<canceled, seq, lastReplayID, out, events>>
  BY DEF Finish, streams, channels
<1>3. \A v \in Workers : v # w => worker'[v] = worker[v]
  BY <1>1, <1>2
<1>4. ASSUME NEW u \in Topics, NEW p, InProcess(u, p)
      PROVE  InProcess(u, p)' \/ <<u, p>> \in finished'
  BY <1>2, <1>3, <1>4 DEF InProcess
<1> QED
  BY <1>2, <1>4, KeepsHeld

(* An event that is received enters the subscriber's channel. *)
LEMMA ReceiveHeld ==
  ASSUME PipelineInvariant, Held, NEW t \in Topics, Receive(t)
  PROVE  Held'
<1> DEFINE e == [topic |-> t, seq |-> seq[t] + 1, pos |-> streamPos[t] + 1]
<1>1. /\ PipelineInvariant'
      /\ seq'[t] = seq[t] + 1
      /\ \A u \in Topics : u # t => seq'[u] = seq[u]
      /\ \A u \in Topics : seq[u] # 0 => Offset(u)' = Offset(u)
      /\ lastReplayID'[t] = streamPos[t] + 1
  BY ReceiveInvariant
<1>2. /\ out' = [out EXCEPT ![t] = Append(@, e)]
      /\ UNCHANGED <<canceled, events, worker, finished>>
  BY DEF Receive
<1>3. /\ out \in [Topics -> Seq(Event)] /\ out[t] \in Seq(Event)
      /\ \A u \in Topics : seq[u] \in Nat
      /\ lastReplayID'[t] \in Nat /\ streamPos[t] \in Nat
  <2>1. TypeOK /\ TypeOK'
    BY Zenon, <1>1 DEF PipelineInvariant
  <2>2. out \in [Topics -> Seq(Event)]
    BY Zenon, <2>1 DEF TypeOK
  <2>3. /\ seq \in [Topics -> 0..MaxEvents] /\ streamPos \in [Topics -> 0..MaxEvents]
        /\ lastReplayID' \in [Topics -> 0..MaxEvents]
    BY Zenon, <2>1 DEF TypeOK
  <2>4. \A n \in 0..MaxEvents : n \in Nat
    OBVIOUS
  <2> QED
    BY Zenon, <2>2, <2>3, <2>4
<1>4. /\ out'[t] = Append(out[t], e) /\ \A u \in Topics : u # t => out'[u] = out[u]
  BY <1>2, <1>3
<1>5. e.topic = t /\ e.pos = streamPos[t] + 1
  OBVIOUS
<1> HIDE DEF e
<1>6. /\ Len(out'[t]) = Len(out[t]) + 1 /\ out'[t][Len(out[t]) + 1] = e
      /\ \A i \in 1..Len(out[t]) : out'[t][i] = out[t][i]
      /\ Len(out[t]) \in Nat
  BY <1>3, <1>4
<1>7. ASSUME NEW u \in Topics, NEW p, InProcess(u, p) PROVE InProcess(u, p)'
  <2> DEFINE is(k) == k.topic = u /\ k.pos = p
  <2>1. CASE \E i \in 1..Len(out[u]) : is(out[u][i])
    <3>1. PICK i \in 1..Len(out[u]) : is(out[u][i])
      BY <2>1
    <3>2. i \in 1..Len(out'[u]) /\ out'[u][i] = out[u][i]
      BY <1>4, <1>6, <3>1
    <3> QED
      BY <3>1, <3>2 DEF InProcess
  <2>2. CASE \/ \E i \in 1..Len(events) : is(events[i])
             \/ \E v \in Workers : worker[v].doing = "process" /\ is(worker[v].event)
    BY <1>2, <2>2 DEF InProcess
  <2> QED
    BY <1>7, <2>1, <2>2 DEF InProcess
<1>8. ASSUME NEW p, p = lastReplayID'[t] PROVE InProcess(t, p)'
  <2>1. Len(out[t]) + 1 \in 1..Len(out'[t])
    BY <1>6
  <2>2. e.pos = p
    BY <1>1, <1>5, <1>8
  <2> QED
    BY <1>5, <1>6, <2>1, <2>2 DEF InProcess
<1>9. ASSUME ~canceled, NEW u \in Topics, NEW p \in Positions,
             Offset(u)' < p, p <= lastReplayID'[u]
      PROVE  <<u, p>> \in finished \/ InProcess(u, p)'
  <2>1. ASSUME Offset(u)' = Offset(u), p <= lastReplayID[u]
        PROVE  <<u, p>> \in finished \/ InProcess(u, p)'
    BY <1>7, <1>9, <2>1 DEF Held
  <2>2. CASE u # t
    <3>1. lastReplayID'[u] = lastReplayID[u] /\ seq'[u] = seq[u]
      BY <1>1, <2>2 DEF Receive, PipelineInvariant, TypeOK
    <3> QED
      BY <1>9, <2>1, <3>1 DEF Offset
  <2>3. CASE u = t /\ p = lastReplayID'[t]
    BY <1>8, <2>3
  <2>4. CASE u = t /\ p # lastReplayID'[t]
    <3>1. p <= streamPos[t]
      BY <1>1, <1>3, <1>9, <2>4
    <3>2. seq[t] # 0
      BY <1>1, <1>3, <1>9, <2>4, <3>1 DEF Offset
    <3>3. streamPos[t] = lastReplayID[t]
      BY <3>2 DEF PipelineInvariant, StreamOK, Receive
    <3> QED
      BY <1>1, <2>1, <2>4, <3>1, <3>2, <3>3
  <2> QED
    BY <2>2, <2>3, <2>4
<1> QED
  BY <1>2, <1>9 DEF Held

(* Every step preserves Held. *)
LEMMA NextHeld == PipelineInvariant /\ Held /\ [Next]_vars => Held'
<1> SUFFICES ASSUME PipelineInvariant, Held, [Next]_vars PROVE Held'
  OBVIOUS
<1>0. canceled \in BOOLEAN
  BY Zenon DEF PipelineInvariant, TypeOK
<1>1. ASSUME UNCHANGED <<canceled, seq, lastReplayID, out, events, worker, finished>> PROVE Held'
  BY <1>0, <1>1, KeepsHeld DEF InProcess
<1>2. ASSUME canceled' PROVE Held'
  BY <1>2 DEF Held
<1>3. ASSUME NEW t \in Topics, TopicStep(t) PROVE Held'
  <2>1. CASE Publish(t) \/ Connect(t) \/ Disconnect(t)
    BY <1>1, <2>1 DEF Publish, Connect, Disconnect, streams, channels, history
  <2>2. CASE FanInStops(t)
    BY <1>2, <2>2 DEF FanInStops
  <2> QED
    BY <1>3, <2>1, <2>2, ReceiveHeld, FanInHeld DEF TopicStep
<1>4. ASSUME NEW w \in Workers, WorkerStep(w) PROVE Held'
  <2>1. CASE Abandon(w) \/ WorkerStops(w)
    BY <1>2, <2>1 DEF Abandon, WorkerStops
  <2> QED
    BY <1>4, <2>1, TakeHeld, FinishHeld DEF WorkerStep
<1>5. CASE CommitterStep
  BY <1>1, <1>5 DEF CommitterStep, TickerFlush, TickerStops, FinalFlush, EndFlush, SaveOk,
                    SaveFails, rest, streams, channels, history
<1>6. CASE Cancel
  BY <1>2, <1>6 DEF Cancel
<1>7. CASE Start \/ UNCHANGED vars
  BY <1>1, <1>7 DEF Start, vars, streams, channels, history
<1>8. CASE Exit \/ Crash
  <2>1. \A t \in Topics : lastReplayID'[t] = 0
    BY <1>8 DEF Exit, Crash, Dies, EveryTopic
  <2> QED
    BY <2>1 DEF Held
<1> QED
  BY <1>3, <1>4, <1>5, <1>6, <1>7, <1>8 DEF Next

(* Until the cancellation, the process has finished or still holds every event
   that a stream of it is past, over reconnections, crashes and restarts. *)
THEOREM NothingSkippedHolds == Spec => []NothingSkipped
<1>1. Init => Held
  BY DEF Init, EveryTopic, Held
<1>2. PipelineInvariant /\ Held => NothingSkipped
  <2> SUFFICES ASSUME PipelineInvariant, Held, ~canceled,
                      NEW t \in Topics, NEW p \in Positions,
                      connected[t], base[t] < p, p <= streamPos[t]
               PROVE  <<t, p>> \in finished \/ InProcess(t, p)
    BY DEF NothingSkipped
  <2>1. /\ lastReplayID[t] \in Nat /\ seq[t] \in Nat /\ base[t] \in Nat /\ stored[t] \in Nat
        /\ StreamOK(t) /\ CursorNeverSkips
    BY DEF PipelineInvariant, TypeOK, C!TypeOK
  <2>2. CASE seq[t] = 0
    <3>1. p <= stored[t]
      BY <2>1, <2>2 DEF StreamOK
    <3> QED
      BY <2>1, <3>1 DEF CursorNeverSkips
  <2>3. CASE seq[t] # 0
    <3>1. p <= lastReplayID[t] /\ Offset(t) \in Int
      BY <2>1, <2>3 DEF StreamOK, Offset
    <3>2. CASE p <= Offset(t)
      BY <2>1, <2>3, <3>2 DEF StreamOK
    <3>3. CASE Offset(t) < p
      BY <3>1, <3>3 DEF Held
    <3> QED
      BY <3>1, <3>2, <3>3
  <2> QED
    BY <2>2, <2>3
<1> QED
  BY <1>1, <1>2, NextHeld, PipelineInvariantHolds, PTL DEF Spec

-----------------------------------------------------------------------------
(* Refinement of Delivery and TopicStream *)

\* Where the positions of a topic stand: nothing is ahead of what is published,
\* the process resumed after the position the topic is followed from, and the
\* row is behind the cursor and behind what is on its way to it.
Place(t) ==
  /\ base[t] <= published[t] /\ stored[t] <= published[t] /\ lastReplayID[t] <= published[t]
  /\ stored[t] # 0 => base[t] <= stored[t]
  /\ seq[t] # 0 => base[t] <= Offset(t) /\ stored[t] <= Offset(t) + (next[t] - 1)
  /\ dirty[t] => next[t] # 1
  /\ \A f \in Flushers :
       pending[f][t] # 0 => Offset(t) < pending[f][t] /\ stored[t] <= pending[f][t]

PlaceOK == \A t \in Topics : Place(t)

(* The types of a topic's positions, and how its numbers relate to them. *)
LEMMA TopicFacts ==
  ASSUME PipelineInvariant, NEW t \in Topics
  PROVE  /\ published[t] \in Nat /\ base[t] \in Nat /\ stored[t] \in Nat
         /\ seq[t] \in Nat /\ lastReplayID[t] \in Nat /\ next[t] \in Nat /\ next[t] >= 1
         /\ Offset(t) \in Nat /\ Offset(t) + seq[t] = lastReplayID[t]
         /\ next[t] # 1 => next[t] - 1 <= seq[t] /\ seq[t] # 0
         /\ replayID[t] = IF next[t] = 1 THEN 0 ELSE Offset(t) + (next[t] - 1)
         /\ \A f \in Flushers : pending[f][t] \in Nat /\ pending[f][t] <= replayID[t]
<1>1. TypeOK /\ StreamOK(t) /\ MarkOK(t)
  BY DEF PipelineInvariant
<1>2. /\ published[t] \in 0..MaxEvents /\ base[t] \in 0..MaxEvents /\ stored[t] \in Nat
      /\ seq[t] \in 0..MaxEvents /\ lastReplayID[t] \in 0..MaxEvents
      /\ next[t] \in 1..(MaxEvents + 1)
      /\ \A f \in Flushers : pending[f][t] \in Nat
  BY <1>1 DEF TypeOK, C!TypeOK
<1>3. Offset(t) \in Nat /\ Offset(t) + seq[t] = lastReplayID[t]
  BY <1>1, <1>2 DEF StreamOK, Offset
<1>4. ASSUME next[t] # 1 PROVE next[t] - 1 <= seq[t] /\ seq[t] # 0
  <2>1. next[t] - 1 \in Positions /\ next[t] - 1 < next[t]
    BY <1>2, <1>4
  <2>2. next[t] - 1 \in reported[t]
    BY Zenon, <1>1, <2>1 DEF MarkOK
  <2>3. next[t] - 1 <= seq[t]
    BY Zenon, <1>1, <2>2 DEF MarkOK
  <2> QED
    BY <1>2, <2>1, <2>3
<1> QED
  BY <1>1, <1>2, <1>3, <1>4 DEF MarkOK

(* A pending value lies between the row and what was received. *)
LEMMA PendingFacts ==
  ASSUME PipelineInvariant, PlaceOK, NEW t \in Topics, NEW f \in Flushers, pending[f][t] # 0
  PROVE  /\ stored[t] <= pending[f][t] /\ pending[f][t] <= lastReplayID[t]
         /\ pending[f][t] <= published[t] /\ base[t] <= pending[f][t]
         /\ pending[f][t] <= Offset(t) + (next[t] - 1) /\ seq[t] # 0
<1>1. Place(t)
  BY DEF PlaceOK
<1>2. /\ stored[t] <= pending[f][t] /\ Offset(t) < pending[f][t]
      /\ lastReplayID[t] <= published[t]
      /\ seq[t] # 0 => base[t] <= Offset(t)
  BY <1>1 DEF Place
<1> DEFINE p == pending[f][t]
<1>3. /\ p \in Nat /\ p <= replayID[t] /\ p # 0
      /\ replayID[t] = IF next[t] = 1 THEN 0 ELSE Offset(t) + (next[t] - 1)
      /\ next[t] # 1 => next[t] - 1 <= seq[t] /\ seq[t] # 0
      /\ next[t] \in Nat /\ seq[t] \in Nat /\ Offset(t) \in Nat /\ base[t] \in Nat
      /\ lastReplayID[t] \in Nat /\ Offset(t) + seq[t] = lastReplayID[t]
      /\ published[t] \in Nat
  BY TopicFacts
<1>4. stored[t] <= p /\ Offset(t) < p
  BY <1>2
<1> HIDE DEF p
<1>5. next[t] # 1
  BY <1>3
<1>6. p <= Offset(t) + (next[t] - 1) /\ next[t] - 1 <= seq[t] /\ seq[t] # 0
  BY <1>3, <1>5
<1>7. p <= lastReplayID[t] /\ p <= published[t] /\ base[t] <= p
  BY <1>2, <1>3, <1>4, <1>6
<1> QED
  BY <1>4, <1>6, <1>7 DEF p

(* The loop of Committer.Done moves forward and marks what it moves. *)
LEMMA DoneGrows ==
  ASSUME C!TypeOK, NEW t \in Topics, NEW s, NEW r, C!Done(t, s, r), NEW u \in Topics
  PROVE  /\ next'[u] \in Nat /\ next[u] <= next'[u]
         /\ dirty'[u] => dirty[u] \/ next'[u] # 1
<1>1. next \in [Topics -> 1..(MaxEvents + 1)] /\ dirty \in [Topics -> BOOLEAN]
  BY Zenon DEF C!TypeOK
<1>2. CASE UNCHANGED <<next, dirty>>
  BY <1>1, <1>2
<1>3. CASE C!Advance(t, s, r)
  <2>1. PICK n \in next[t]..(MaxEvents + 1) :
          /\ next' = [next EXCEPT ![t] = n]
          /\ dirty' = [dirty EXCEPT ![t] = @ \/ n # next[t]]
    BY <1>3 DEF C!Advance
  <2>2. next[t] \in 1..(MaxEvents + 1) /\ n \in Nat /\ next[t] <= n /\ n >= 1
    BY <1>1, <2>1
  <2>3. CASE u = t
    <3>1. next'[u] = n /\ (dirty'[u] <=> dirty[t] \/ n # next[t])
      BY <1>1, <2>1, <2>3
    <3> QED
      BY <2>2, <2>3, <3>1
  <2>4. CASE u # t
    BY <1>1, <2>1, <2>4
  <2> QED
    BY <2>3, <2>4
<1> QED
  BY <1>2, <1>3 DEF C!Done, C!cursorVars

(* The first process starts where the topics are followed. *)
LEMMA InitPlace == Init => PlaceOK
<1> SUFFICES ASSUME Init, NEW t \in Topics PROVE Place(t)
  BY DEF PlaceOK
<1>1. /\ published[t] = FirstCursor /\ stored[t] = FirstCursor /\ base[t] = FirstCursor
      /\ lastReplayID[t] = 0 /\ seq[t] = 0 /\ ~dirty[t]
      /\ \A f \in Flushers : pending[f][t] = 0
  BY DEF Init, EveryTopic
<1>2. FirstCursor <= FirstCursor /\ 0 <= FirstCursor
  OBVIOUS
<1> QED
  BY <1>1, <1>2, Zenon DEF Place

(* A step that moves no position. *)
LEMMA StillPlace ==
  ASSUME PlaceOK, UNCHANGED <<published, base, stored, lastReplayID, seq, next, dirty, pending>>
  PROVE  PlaceOK'
  BY Zenon DEF PlaceOK, Place, Offset

(* An event is published. *)
LEMMA PublishPlace ==
  ASSUME PipelineInvariant, PlaceOK, NEW t \in Topics, Publish(t)
  PROVE  PlaceOK'
<1>1. UNCHANGED <<base, stored, lastReplayID, seq, next, dirty, pending>>
  BY Zenon DEF Publish, streams, cursors, history
<1>2. published \in [Topics -> 0..MaxEvents]
  BY DEF PipelineInvariant, TypeOK
<1>3. \A u \in Topics : published[u] \in Nat /\ published'[u] \in Nat /\ published[u] <= published'[u]
  BY <1>2 DEF Publish
<1>4. ASSUME NEW u \in Topics PROVE Place(u)'
  <2>1. Place(u)
    BY DEF PlaceOK
  <2>2. base[u] \in Nat /\ stored[u] \in Nat /\ lastReplayID[u] \in Nat
    BY TopicFacts
  <2>3. base[u] <= published'[u] /\ stored[u] <= published'[u] /\ lastReplayID[u] <= published'[u]
    BY <1>3, <2>1, <2>2 DEF Place
  <2> QED
    BY <1>1, <2>1, <2>3, Zenon DEF Place, Offset
<1> QED
  BY <1>4 DEF PlaceOK

(* A stream is opened; a topic that nobody committed is followed anew. *)
LEMMA ConnectPlace ==
  ASSUME PipelineInvariant, PlaceOK, NEW t \in Topics, Connect(t)
  PROVE  /\ PlaceOK'
         /\ \/ base' = base
            \/ stored[t] = 0 /\ base' = [base EXCEPT ![t] = published[t]]
<1>1. UNCHANGED <<published, stored, lastReplayID, seq, next, dirty, pending>>
  BY Zenon DEF Connect, cursors
<1>2. base \in [Topics -> 0..MaxEvents]
  BY DEF PipelineInvariant, TypeOK
<1>3. \/ base' = base
      \/ lastReplayID[t] = 0 /\ stored[t] = 0 /\ base' = [base EXCEPT ![t] = published[t]]
  <2> DEFINE cursor == IF lastReplayID[t] # 0 THEN lastReplayID[t] ELSE stored[t]
  <2>1. base' = [base EXCEPT ![t] = IF cursor = 0 THEN published[t] ELSE base[t]]
    BY Zenon DEF Connect
  <2>2. cursor = 0 => lastReplayID[t] = 0 /\ stored[t] = 0
    OBVIOUS
  <2> HIDE DEF cursor
  <2>3. [base EXCEPT ![t] = base[t]] = base
    BY <1>2
  <2> QED
    BY <2>1, <2>2, <2>3
<1>4. CASE base' = base
  BY <1>1, <1>4, StillPlace
<1>5. CASE lastReplayID[t] = 0 /\ stored[t] = 0 /\ base' = [base EXCEPT ![t] = published[t]]
  <2>1. base'[t] = published[t] /\ \A u \in Topics : u # t => base'[u] = base[u]
    BY <1>2, <1>5
  <2>2. seq[t] = 0
    BY <1>5, TopicFacts
  <2>3. ASSUME NEW u \in Topics PROVE Place(u)'
    <3>1. Place(u)
      BY DEF PlaceOK
    <3>2. CASE u # t
      BY <1>1, <2>1, <3>1, <3>2, Zenon DEF Place, Offset
    <3>3. CASE u = t
      <4>1. published[t] \in Nat
        BY TopicFacts
      <4>2. published[t] <= published[t]
        BY <4>1
      <4> QED
        BY <1>1, <1>5, <2>1, <2>2, <3>1, <3>3, <4>2, Zenon DEF Place, Offset
    <3> QED
      BY <3>2, <3>3
  <2> QED
    BY <1>5, <2>3 DEF PlaceOK
<1> QED
  BY <1>3, <1>4, <1>5

(* The first event of a process fixes the offset at the row, or at the position
   from which the topic is followed. *)
LEMMA ReceivePlace ==
  ASSUME PipelineInvariant, PlaceOK, NEW t \in Topics, Receive(t)
  PROVE  PlaceOK'
<1>1. UNCHANGED <<published, base, stored, next, dirty, pending, connected>>
  BY Zenon DEF Receive, cursors
<1>2. connected[t] /\ streamPos[t] < published[t]
  BY DEF Receive
<1>3. /\ PipelineInvariant' /\ seq'[t] = seq[t] + 1
      /\ \A u \in Topics : u # t => seq'[u] = seq[u]
      /\ \A u \in Topics : seq[u] # 0 => Offset(u)' = Offset(u)
      /\ lastReplayID'[t] = streamPos[t] + 1
  BY ReceiveInvariant
<1>4. \A u \in Topics : u # t => lastReplayID'[u] = lastReplayID[u]
  BY DEF Receive, PipelineInvariant, TypeOK
<1>5. ASSUME NEW u \in Topics PROVE Place(u)'
  <2>1. Place(u)
    BY DEF PlaceOK
  <2>2. CASE u # t
    BY <1>1, <1>3, <1>4, <2>1, <2>2, Zenon DEF Place, Offset
  <2>3. CASE u = t /\ seq[t] # 0
    <3>1. lastReplayID'[t] <= published[t]
      <4>1. streamPos \in [Topics -> 0..MaxEvents]
        BY Zenon DEF PipelineInvariant, TypeOK
      <4>2. streamPos[t] \in Nat
        BY <4>1
      <4>3. published[t] \in Nat
        BY TopicFacts
      <4> QED
        BY <1>2, <1>3, <4>2, <4>3
    <3>2. Offset(t)' = Offset(t)
      BY <1>3, <2>3
    <3> QED
      BY <1>1, <2>1, <2>3, <3>1, <3>2, Zenon DEF Place
  <2>4. CASE u = t /\ seq[t] = 0
    <3>1. streamPos[t] = IF stored[t] # 0 THEN stored[t] ELSE base[t]
      BY <1>2, <2>4 DEF PipelineInvariant, StreamOK
    <3>2. /\ published[t] \in Nat /\ base[t] \in Nat /\ stored[t] \in Nat
          /\ next[t] = 1 /\ \A f \in Flushers : pending[f][t] = 0
      <4>1. next[t] = 1 /\ \A f \in Flushers : pending[f][t] \in Nat /\ pending[f][t] <= 0
        BY <2>4, TopicFacts
      <4> QED
        BY <4>1, TopicFacts
    <3>3. Offset(t)' = streamPos[t] /\ streamPos[t] \in Nat
      BY <1>3, <2>4, <3>1, <3>2 DEF Offset
    <3>4. base[t] <= streamPos[t] /\ stored[t] <= streamPos[t] + (next[t] - 1)
      BY <2>1, <2>4, <3>1, <3>2 DEF Place
    <3>5. lastReplayID'[t] <= published[t]
      <4>1. lastReplayID'[t] = streamPos[t] + 1 /\ streamPos[t] < published[t]
        BY Zenon, <1>2, <1>3
      <4>2. published[t] \in Nat /\ streamPos[t] \in Nat
        BY Zenon, <3>2, <3>3
      <4> QED
        BY <4>1, <4>2
    <3> QED
      BY <1>1, <2>1, <2>4, <3>2, <3>3, <3>4, <3>5, Zenon DEF Place
  <2> QED
    BY <2>2, <2>3, <2>4
<1> QED
  BY <1>5 DEF PlaceOK

(* A flush begins with the cursors that are dirty. *)
LEMMA BeginFlushPlace ==
  ASSUME PipelineInvariant, PlaceOK, NEW f \in Flushers, C!BeginFlush(f), UNCHANGED rest
  PROVE  PlaceOK'
<1>1. /\ UNCHANGED <<published, base, stored, lastReplayID, seq, next>>
      /\ \A t \in Topics : ~dirty'[t]
  BY DEF rest, streams, history, C!BeginFlush
<1> DEFINE p == [t \in Topics |-> IF dirty[t] THEN replayID[t] ELSE 0]
<1>2. pending' = [pending EXCEPT ![f] = p] /\ pending \in [Flushers -> [Topics -> Nat]]
  BY Zenon DEF C!BeginFlush, PipelineInvariant, TypeOK, C!TypeOK
<1>3. \A t \in Topics : p[t] = IF dirty[t] THEN replayID[t] ELSE 0
  OBVIOUS
<1> HIDE DEF p
<1>4. /\ \A t \in Topics : pending'[f][t] = IF dirty[t] THEN replayID[t] ELSE 0
      /\ \A g \in Flushers, t \in Topics : g # f => pending'[g][t] = pending[g][t]
  BY <1>2, <1>3
<1>5. ASSUME NEW t \in Topics PROVE Place(t)'
  <2>1. Place(t)
    BY DEF PlaceOK
  <2>2. ASSUME NEW g \in Flushers, pending'[g][t] # 0
        PROVE  Offset(t) < pending'[g][t] /\ stored[t] <= pending'[g][t]
    <3>1. CASE g # f
      BY <1>4, <2>1, <2>2, <3>1 DEF Place
    <3>2. CASE g = f
      <4>1. dirty[t] /\ pending'[g][t] = replayID[t]
        BY <1>4, <2>2, <3>2
      <4>2. next[t] # 1
        BY <2>1, <4>1 DEF Place
      <4>3. /\ replayID[t] = Offset(t) + (next[t] - 1) /\ seq[t] # 0
            /\ next[t] \in Nat /\ next[t] >= 1 /\ Offset(t) \in Nat /\ stored[t] \in Nat
        BY <4>2, TopicFacts
      <4>4. stored[t] <= Offset(t) + (next[t] - 1)
        BY <2>1, <4>3 DEF Place
      <4> QED
        BY <4>1, <4>2, <4>3, <4>4
    <3> QED
      BY <3>1, <3>2
  <2> QED
    BY <1>1, <2>1, <2>2, Zenon DEF Place, Offset
<1> QED
  BY <1>5 DEF PlaceOK

(* A save moves the row up to a value that was on its way; the other flusher
   has none. *)
LEMMA SavePlace ==
  ASSUME PipelineInvariant, FlushOK, PlaceOK, NEW f \in Flushers, NEW t \in Topics,
         C!SaveOk(f, t) \/ C!SaveFails(f, t), UNCHANGED rest
  PROVE  /\ PlaceOK' /\ pending[f][t] # 0
         /\ stored' = stored \/ stored' = [stored EXCEPT ![t] = pending[f][t]]
<1>1. UNCHANGED <<published, base, lastReplayID, seq, next, replayID>>
  BY Zenon DEF rest, streams, history, C!SaveOk, C!SaveFails
<1>2. /\ pending[f][t] # 0 /\ pending' = [pending EXCEPT ![f][t] = 0]
      /\ stored' = stored \/ stored' = [stored EXCEPT ![t] = pending[f][t]]
      /\ dirty' = dirty \/ dirty' = [dirty EXCEPT ![t] = TRUE]
  BY DEF C!SaveOk, C!SaveFails
<1>3. /\ pending \in [Flushers -> [Topics -> Nat]] /\ stored \in [Topics -> Nat]
      /\ dirty \in [Topics -> BOOLEAN]
  BY Zenon DEF PipelineInvariant, TypeOK, C!TypeOK
<1>4. /\ stored'[t] = stored[t] \/ stored'[t] = pending[f][t]
      /\ \A u \in Topics : u # t => stored'[u] = stored[u] /\ dirty'[u] = dirty[u]
  BY <1>2, <1>3
<1>5. /\ pending'[f][t] = 0
      /\ \A g \in Flushers, u \in Topics : <<g, u>> # <<f, t>> => pending'[g][u] = pending[g][u]
  BY <1>2, <1>3
<1>6. \A g \in Flushers : pending'[g][t] = 0
  <2>1. f \in flushing
    BY <1>2 DEF FlushOK
  <2>2. \A g \in Flushers : g # f => pending[g][t] = 0
    BY <2>1 DEF FlushOK
  <2> QED
    BY <1>5, <2>2
<1>7. ASSUME NEW u \in Topics PROVE Place(u)'
  <2>1. Place(u)
    BY DEF PlaceOK
  <2>2. CASE u # t
    <3>1. UNCHANGED <<stored[u], dirty[u]>> /\ \A g \in Flushers : pending'[g][u] = pending[g][u]
      BY <1>4, <1>5, <2>2
    <3> QED
      BY <1>1, <2>1, <3>1, Zenon DEF Place, Offset
  <2>3. CASE u = t
    <3> DEFINE p == pending[f][t]
    <3>1. /\ p <= published[t] /\ base[t] <= p /\ p <= Offset(t) + (next[t] - 1) /\ seq[t] # 0
      BY <1>2, PendingFacts
    <3>2. next[t] # 1
      <4>1. /\ p # 0 /\ p \in Nat /\ p <= replayID[t]
            /\ replayID[t] = IF next[t] = 1 THEN 0 ELSE Offset(t) + (next[t] - 1)
        BY <1>2, TopicFacts
      <4> QED
        BY <4>1
    <3>3. stored'[t] = stored[t] \/ stored'[t] = p
      BY <1>4
    <3> HIDE DEF p
    <3> QED
      BY <1>1, <1>6, <2>1, <2>3, <3>1, <3>2, <3>3, Zenon DEF Place, Offset
  <2> QED
    BY <2>2, <2>3
<1> QED
  BY <1>2, <1>7 DEF PlaceOK

(* A worker finishes an event: the cursor moves up and the row stays. *)
LEMMA FinishPlace ==
  ASSUME PipelineInvariant, PlaceOK, NEW w \in Workers, Finish(w)
  PROVE  /\ PlaceOK'
         /\ \E t \in Topics, p \in Positions :
              /\ base[t] < p /\ p <= published[t]
              /\ finished' = finished \union {<<t, p>>}
<1> DEFINE e == worker[w].event
<1>1. e \in Known
  <2>1. worker[w].doing = "process" /\ InFlight
    BY DEF Finish, PipelineInvariant
  <2>2. worker[w] # Idle /\ worker[w] # Stopped
    BY <2>1 DEF Idle, Stopped
  <2>3. PICK k \in Known : worker[w] = Busy(k)
    BY <2>1, <2>2 DEF InFlight
  <2> QED
    BY <2>3 DEF Busy
<1>2. /\ C!Done(e.topic, e.seq, e.pos) /\ finished' = finished \union {<<e.topic, e.pos>>}
      /\ UNCHANGED <<published, base, lastReplayID, seq>>
  BY DEF Finish, streams
<1>3. UNCHANGED <<pending, stored>>
  BY <1>2 DEF C!Done
<1>4. /\ e.topic \in Topics /\ e.seq \in Positions /\ e.pos \in Positions
      /\ e.seq <= seq[e.topic] /\ e.pos = Offset(e.topic) + e.seq
  BY <1>1 DEF Known, Event
<1> HIDE DEF e
<1>5. C!TypeOK
  BY Zenon DEF PipelineInvariant, TypeOK
<1>6. ASSUME NEW u \in Topics PROVE Place(u)'
  <2>1. Place(u)
    BY DEF PlaceOK
  <2>2. next'[u] \in Nat /\ next[u] <= next'[u] /\ (dirty'[u] => dirty[u] \/ next'[u] # 1)
    BY <1>2, <1>4, <1>5, DoneGrows
  <2>3. next[u] \in Nat /\ next[u] >= 1 /\ Offset(u) \in Nat /\ stored[u] \in Nat
    BY TopicFacts
  <2>4. seq[u] # 0 => stored[u] <= Offset(u) + (next'[u] - 1)
    <3>1. seq[u] # 0 => stored[u] <= Offset(u) + (next[u] - 1)
      BY <2>1 DEF Place
    <3> QED
      BY <2>2, <2>3, <3>1
  <2>5. dirty'[u] => next'[u] # 1
    <3>1. dirty[u] => next[u] # 1
      BY <2>1 DEF Place
    <3> QED
      BY <2>2, <2>3, <3>1
  <2> QED
    BY <1>2, <1>3, <2>1, <2>4, <2>5, Zenon DEF Place, Offset
<1>7. base[e.topic] < e.pos /\ e.pos <= published[e.topic]
  <2>1. Place(e.topic)
    BY <1>4 DEF PlaceOK
  <2>2. /\ seq[e.topic] \in Nat /\ Offset(e.topic) \in Nat /\ base[e.topic] \in Nat
        /\ published[e.topic] \in Nat /\ lastReplayID[e.topic] \in Nat
        /\ Offset(e.topic) + seq[e.topic] = lastReplayID[e.topic]
    BY <1>4, TopicFacts
  <2>3. /\ lastReplayID[e.topic] <= published[e.topic]
        /\ seq[e.topic] # 0 => base[e.topic] <= Offset(e.topic)
    BY <2>1 DEF Place
  <2>4. e.seq \in Nat /\ e.seq >= 1
    BY <1>4
  <2> QED
    BY <1>4, <2>2, <2>3, <2>4
<1> QED
  BY <1>2, <1>4, <1>6, <1>7 DEF PlaceOK

(* Every step keeps the positions in their order. *)
LEMMA NextPlace == PipelineInvariant /\ FlushOK /\ PlaceOK /\ [Next]_vars => PlaceOK'
<1> SUFFICES ASSUME PipelineInvariant, FlushOK, PlaceOK, [Next]_vars PROVE PlaceOK'
  OBVIOUS
<1>1. CASE UNCHANGED vars \/ Cancel \/ Start
  BY <1>1, StillPlace, Zenon DEF vars, Cancel, Start, streams, cursors, history
<1>2. ASSUME NEW t \in Topics, TopicStep(t) PROVE PlaceOK'
  <2>1. CASE Disconnect(t) \/ FanIn(t) \/ FanInStops(t)
    BY <2>1, StillPlace, Zenon DEF Disconnect, FanIn, FanInStops, streams, cursors, history
  <2> QED
    BY <1>2, <2>1, PublishPlace, ConnectPlace, ReceivePlace DEF TopicStep
<1>3. ASSUME NEW w \in Workers, WorkerStep(w) PROVE PlaceOK'
  <2>1. CASE Take(w) \/ Abandon(w) \/ WorkerStops(w)
    BY <2>1, StillPlace, Zenon DEF Take, Abandon, WorkerStops, streams, cursors, history
  <2> QED
    BY <1>3, <2>1, FinishPlace DEF WorkerStep
<1>4. CASE CommitterStep
  <2>1. "ticker" \in Flushers /\ "final" \in Flushers
    BY DEF Flushers
  <2>2. CASE TickerFlush \/ FinalFlush
    BY <2>1, <2>2, BeginFlushPlace, Zenon DEF TickerFlush, FinalFlush, rest
  <2>3. CASE TickerStops
    BY <2>3, StillPlace, Zenon DEF TickerStops, rest, streams, cursors, history
  <2>4. ASSUME NEW f \in Flushers, EndFlush(f) PROVE PlaceOK'
    BY <2>4, StillPlace, Zenon DEF EndFlush, C!EndFlush, rest, streams, history
  <2>5. ASSUME NEW f \in Flushers, NEW t \in Topics, SaveOk(f, t) \/ SaveFails(f, t)
        PROVE  PlaceOK'
    BY <2>5, SavePlace, Zenon DEF SaveOk, SaveFails, rest
  <2> QED
    BY <1>4, <2>2, <2>3, <2>4, <2>5 DEF CommitterStep
<1>5. CASE Exit \/ Crash
  <2>1. /\ UNCHANGED <<published, base, stored>>
        /\ \A t \in Topics : lastReplayID'[t] = 0 /\ seq'[t] = 0 /\ ~dirty'[t]
        /\ \A f \in Flushers, t \in Topics : pending'[f][t] = 0
    BY <1>5 DEF Exit, Crash, Dies, EveryTopic, history
  <2>2. ASSUME NEW t \in Topics PROVE Place(t)'
    <3>1. Place(t)
      BY DEF PlaceOK
    <3>2. published[t] \in Nat
      BY TopicFacts
    <3>3. 0 <= published[t]
      BY <3>2
    <3> QED
      BY <2>1, <3>1, <3>3, Zenon DEF Place
  <2> QED
    BY <2>2 DEF PlaceOK
<1> QED
  BY <1>1, <1>2, <1>3, <1>4, <1>5 DEF Next

(* Every step of the service is a step of Delivery, or none. *)
LEMMA PromiseStep ==
  PipelineInvariant /\ FlushOK /\ PlaceOK /\ [Next]_vars => [Promise!Next]_(Promise!vars)
<1> SUFFICES ASSUME PipelineInvariant, FlushOK, PlaceOK, [Next]_vars
             PROVE  [Promise!Next]_(Promise!vars)
  OBVIOUS
<1> USE DEF Promise!Positions
<1>1. ASSUME UNCHANGED <<published, base, finished, stored>>
      PROVE  [Promise!Next]_(Promise!vars)
  BY <1>1, Zenon DEF Promise!vars
<1>2. ASSUME NEW t \in Topics, Publish(t) PROVE Promise!Next
  BY <1>2, Zenon DEF Publish, history, Promise!Publish, Promise!Next
<1>3. ASSUME NEW t \in Topics, Connect(t) PROVE [Promise!Next]_(Promise!vars)
  <2>1. UNCHANGED <<published, finished, stored>>
    BY <1>3, Zenon DEF Connect
  <2>2. \/ base' = base
        \/ stored[t] = 0 /\ base' = [base EXCEPT ![t] = published[t]]
    BY <1>3, ConnectPlace
  <2> QED
    BY <1>1, <2>1, <2>2, Zenon DEF Promise!Follow, Promise!Next
<1>4. ASSUME NEW w \in Workers, Finish(w) PROVE Promise!Next
  <2>1. UNCHANGED <<published, base, stored>>
    BY <1>4, Zenon DEF Finish, C!Done
  <2>2. PICK t \in Topics, p \in Positions :
          /\ base[t] < p /\ p <= published[t]
          /\ finished' = finished \union {<<t, p>>}
    BY <1>4, FinishPlace
  <2> QED
    BY <2>1, <2>2, Zenon DEF Promise!Deliver, Promise!Next
<1>5. ASSUME NEW f \in Flushers, NEW t \in Topics, SaveOk(f, t) \/ SaveFails(f, t)
      PROVE  [Promise!Next]_(Promise!vars)
  <2>1. UNCHANGED <<published, base, finished>>
    BY <1>5, Zenon DEF SaveOk, SaveFails, rest, history
  <2>2. UNCHANGED rest /\ (C!SaveOk(f, t) \/ C!SaveFails(f, t))
    BY <1>5, Zenon DEF SaveOk, SaveFails
  <2> DEFINE p == pending[f][t]
  <2>3. p # 0 /\ (stored' = stored \/ stored' = [stored EXCEPT ![t] = p])
    BY <2>2, SavePlace
  <2>4. CASE stored' = stored
    BY <1>1, <2>1, <2>4
  <2>5. CASE stored' = [stored EXCEPT ![t] = p]
    <3>1. /\ stored[t] <= p /\ p <= published[t] /\ p \in Nat
          /\ stored[t] \in Nat /\ published[t] \in 0..MaxEvents
      BY <2>3, PendingFacts, TopicFacts DEF PipelineInvariant, TypeOK
    <3>2. stored \in [Topics -> Nat]
      BY Zenon DEF PipelineInvariant, TypeOK, C!TypeOK
    <3>3. CursorNeverSkips' /\ stored'[t] = p
      <4>1. PipelineInvariant'
        BY <1>5, NextInvariant DEF Next, CommitterStep
      <4> QED
        BY <2>5, <3>2, <4>1 DEF PipelineInvariant
    <3> HIDE DEF p
    <3>4. CASE p = stored[t]
      BY <1>1, <2>1, <2>5, <3>2, <3>4
    <3>5. CASE p # stored[t]
      <4>1. stored[t] < p /\ p \in Positions
        BY <2>3, <3>1, <3>5
      <4>2. Promise!Covered(t, p)
        BY <2>1, <3>3, Zenon DEF CursorNeverSkips, Promise!Covered
      <4>3. Promise!Commit(t, p)
        BY <2>1, <2>5, <3>1, <4>1, <4>2, Zenon DEF Promise!Commit
      <4> QED
        BY <4>1, <4>3, Zenon DEF Promise!Next
    <3> QED
      BY <3>4, <3>5
  <2> QED
    BY <2>3, <2>4, <2>5
<1>6. CASE \E t \in Topics : Disconnect(t) \/ Receive(t) \/ FanIn(t) \/ FanInStops(t)
  BY <1>1, <1>6, Zenon DEF Disconnect, Receive, FanIn, FanInStops, history
<1>7. CASE \E w \in Workers : Take(w) \/ Abandon(w) \/ WorkerStops(w)
  BY <1>1, <1>7, Zenon DEF Take, Abandon, WorkerStops, history
<1>8. CASE TickerFlush \/ TickerStops \/ FinalFlush \/ \E f \in Flushers : EndFlush(f)
  BY <1>1, <1>8, Zenon
     DEF TickerFlush, TickerStops, FinalFlush, EndFlush, C!BeginFlush, C!EndFlush, rest, history
<1>9. CASE Cancel \/ Start \/ Exit \/ Crash \/ UNCHANGED vars
  BY <1>1, <1>9, Zenon DEF Cancel, Start, Exit, Crash, Dies, vars, history
<1> QED
  BY <1>2, <1>3, <1>4, <1>5, <1>6, <1>7, <1>8, <1>9
     DEF Next, TopicStep, WorkerStep, CommitterStep

(* The service implements Delivery: App.ack of an event maps to Deliver, the
   write of a row to Commit, opening a stream without a cursor to Follow, and
   shutdowns, crashes and restarts to nothing. *)
THEOREM PipelineImplementsDelivery == Spec => ImplementsDelivery
<1>1. Init => Promise!Init
  BY DEF Init, EveryTopic, Promise!Init
<1> QED
  BY <1>1, InitPlace, InitFlushOK, NextFlushOK, NextPlace, PromiseStep, PipelineInvariantHolds, PTL
     DEF Spec, ImplementsDelivery, Promise!Spec

(* Every step of the service is, for each topic, a step of TopicStream or none. *)
LEMMA TopicStreamStep ==
  ASSUME NEW t \in Topics
  PROVE  PipelineInvariant /\ FlushOK /\ PlaceOK /\ [Next]_vars
           => [Stream(t)!Next]_(Stream(t)!vars)
<1> SUFFICES ASSUME PipelineInvariant, FlushOK, PlaceOK, [Next]_vars
             PROVE  [Stream(t)!Next]_(Stream(t)!vars)
  OBVIOUS
<1> USE DEF Stream!Next
<1>0. /\ published \in [Topics -> 0..MaxEvents] /\ connected \in [Topics -> BOOLEAN]
      /\ streamPos \in [Topics -> 0..MaxEvents] /\ seq \in [Topics -> 0..MaxEvents]
      /\ lastReplayID \in [Topics -> 0..MaxEvents] /\ stored \in [Topics -> Nat]
  BY Zenon DEF PipelineInvariant, TypeOK, C!TypeOK
<1>1. ASSUME UNCHANGED <<published[t], stored[t], connected[t], streamPos[t], seq[t], lastReplayID[t]>>
      PROVE  [Stream(t)!Next]_(Stream(t)!vars)
  BY <1>1, Zenon DEF Stream!vars
<1>2. ASSUME NEW u \in Topics, Publish(u) PROVE [Stream(t)!Next]_(Stream(t)!vars)
  <2>1. published' = [published EXCEPT ![u] = @ + 1] /\ UNCHANGED <<streams, stored>>
    BY <1>2, Zenon DEF Publish
  <2>2. CASE u # t
    BY <1>0, <1>1, <2>1, <2>2, Zenon DEF streams
  <2>3. CASE u = t
    BY <1>0, <2>1, <2>3, Zenon DEF streams, Stream!Publish
  <2> QED
    BY <2>2, <2>3
<1>3. ASSUME NEW u \in Topics, Connect(u) PROVE [Stream(t)!Next]_(Stream(t)!vars)
  <2> DEFINE cursor == IF lastReplayID[u] # 0 THEN lastReplayID[u] ELSE stored[u]
             from == IF cursor = 0 THEN published[u] ELSE cursor
  <2>1. /\ ~connected[u] /\ connected' = [connected EXCEPT ![u] = TRUE]
        /\ streamPos' = [streamPos EXCEPT ![u] = from]
        /\ UNCHANGED <<published, lastReplayID, seq, stored>>
    BY <1>3, Zenon DEF Connect
  <2>2. CASE u # t
    BY <1>0, <1>1, <2>1, <2>2, Zenon
  <2>3. CASE u = t
    <3>1. connected'[t] = TRUE /\ streamPos'[t] = from
      BY <1>0, <2>1, <2>3, Zenon
    <3>2. from = IF lastReplayID[t] # 0 THEN lastReplayID[t]
                 ELSE IF stored[t] # 0 THEN stored[t] ELSE published[t]
      BY <2>3
    <3>3. Stream(t)!ResumeAfter = from
      BY <3>2 DEF Stream!ResumeAfter
    <3> HIDE DEF from
    <3>4. Stream(t)!Connect
      BY <2>1, <2>3, <3>1, <3>3, Zenon DEF Stream!Connect
    <3> QED
      BY <3>4, Zenon
  <2> QED
    BY <2>2, <2>3
<1>4. ASSUME NEW u \in Topics, Disconnect(u) PROVE [Stream(t)!Next]_(Stream(t)!vars)
  <2>1. /\ connected[u] /\ connected' = [connected EXCEPT ![u] = FALSE]
        /\ UNCHANGED <<published, streamPos, lastReplayID, seq, stored>>
    BY <1>4, Zenon DEF Disconnect
  <2>2. CASE u # t
    BY <1>0, <1>1, <2>1, <2>2, Zenon
  <2>3. CASE u = t
    <3>1. connected'[t] = FALSE
      BY <1>0, <2>1, <2>3, Zenon
    <3> QED
      BY <2>1, <2>3, <3>1, Zenon DEF Stream!Disconnect
  <2> QED
    BY <2>2, <2>3
<1>5. ASSUME NEW u \in Topics, Receive(u) PROVE [Stream(t)!Next]_(Stream(t)!vars)
  <2>1. /\ connected[u] /\ streamPos[u] < published[u]
        /\ streamPos' = [streamPos EXCEPT ![u] = streamPos[u] + 1]
        /\ seq' = [seq EXCEPT ![u] = seq[u] + 1]
        /\ lastReplayID' = [lastReplayID EXCEPT ![u] = streamPos[u] + 1]
        /\ UNCHANGED <<published, connected, stored>>
    BY <1>5 DEF Receive
  <2>2. CASE u # t
    BY <1>0, <1>1, <2>1, <2>2, Zenon
  <2>3. CASE u = t
    <3>1. /\ streamPos'[t] = streamPos[t] + 1 /\ seq'[t] = seq[t] + 1
          /\ lastReplayID'[t] = streamPos[t] + 1
      BY <1>0, <2>1, <2>3, Zenon
    <3>2. Stream(t)!Emit
      BY <2>1, <2>3, <3>1 DEF Stream!Emit
    <3> QED
      BY <3>2, Zenon
  <2> QED
    BY <2>2, <2>3
<1>6. ASSUME NEW f \in Flushers, NEW u \in Topics, SaveOk(f, u) \/ SaveFails(f, u)
      PROVE  [Stream(t)!Next]_(Stream(t)!vars)
  <2>1. UNCHANGED rest /\ (C!SaveOk(f, u) \/ C!SaveFails(f, u))
    BY <1>6, Zenon DEF SaveOk, SaveFails
  <2>2. UNCHANGED <<published, connected, streamPos, seq, lastReplayID>>
    BY <2>1, Zenon DEF rest, streams
  <2>3. /\ pending[f][u] # 0
        /\ stored' = stored \/ stored' = [stored EXCEPT ![u] = pending[f][u]]
    BY <2>1, SavePlace
  <2>4. CASE stored'[t] = stored[t]
    BY <1>1, <2>2, <2>4, Zenon
  <2>5. CASE stored'[t] # stored[t]
    <3>1. u = t /\ stored'[t] = pending[f][t]
      BY <1>0, <2>3, <2>5, Zenon
    <3>2. /\ stored[t] <= pending[f][t] /\ pending[f][t] <= lastReplayID[t]
          /\ stored[t] \in Nat /\ pending[f][t] \in Nat
      BY <2>3, <3>1, PendingFacts, TopicFacts
    <3>3. stored[t] < stored'[t] /\ stored'[t] <= lastReplayID[t]
      BY <2>5, <3>1, <3>2
    <3>4. Stream(t)!CursorMoves
      BY <2>2, <3>3, Zenon DEF Stream!CursorMoves
    <3> QED
      BY <3>4, Zenon
  <2> QED
    BY <2>4, <2>5
<1>7. CASE Exit \/ Crash
  <2>1. /\ UNCHANGED <<published, stored>> /\ connected'[t] = FALSE
        /\ seq'[t] = 0 /\ lastReplayID'[t] = 0
    BY <1>7 DEF Exit, Crash, Dies, EveryTopic
  <2> QED
    BY <2>1, Zenon DEF Stream!Restart, Stream!None
<1>8. CASE UNCHANGED <<published, streams, stored>>
  BY <1>1, <1>8, Zenon DEF streams
<1>9. CASE \E u \in Topics : FanIn(u) \/ FanInStops(u)
  BY <1>8, <1>9, Zenon DEF FanIn, FanInStops
<1>10. CASE \E w \in Workers : WorkerStep(w)
  BY <1>8, <1>10, Zenon DEF WorkerStep, Take, Abandon, WorkerStops, Finish, C!Done
<1>11. CASE TickerFlush \/ TickerStops \/ FinalFlush \/ \E f \in Flushers : EndFlush(f)
  BY <1>8, <1>11, Zenon
     DEF TickerFlush, TickerStops, FinalFlush, EndFlush, C!BeginFlush, C!EndFlush, rest
<1>12. CASE Cancel \/ Start \/ UNCHANGED vars
  BY <1>8, <1>12, Zenon DEF Cancel, Start, vars
<1> QED
  BY <1>2, <1>3, <1>4, <1>5, <1>6, <1>7, <1>9, <1>10, <1>11, <1>12
     DEF Next, TopicStep, CommitterStep

(* Each topic of the service, over restarts, is followed as TopicStream says,
   and so as module Subscriber follows it. *)
THEOREM PipelineImplementsTopicStream == Spec => ImplementsTopicStream
<1> SUFFICES ASSUME NEW t \in Topics PROVE Spec => Stream(t)!Spec
  BY DEF ImplementsTopicStream
<1>1. Init => Stream(t)!Init
  BY DEF Init, EveryTopic, Stream!Init, Stream!None
<1> QED
  BY <1>1, InitPlace, InitFlushOK, NextFlushOK, NextPlace, TopicStreamStep, PipelineInvariantHolds, PTL
     DEF Spec, Stream!Spec

(* Every variable keeps its type. *)
THEOREM PipelineTypeOK == Spec => []TypeOK
  BY PipelineInvariantHolds, PTL DEF PipelineInvariant
=============================================================================
