------------------------------ MODULE Pipeline ------------------------------
(***************************************************************************)
(* The whole service, end to end, over any number of starts, shutdowns and *)
(* crashes: App.Run of internal/app/app.go composes one subscriber per     *)
(* topic, the fan-in goroutines, the worker pool, the replay committer and *)
(* the final flush.                                                        *)
(*                                                                         *)
(* The committer is module Committer, instantiated.  The subscriber is     *)
(* reduced to what module Subscriber shows of it: a stream resumes after   *)
(* lastReplayID, after the stored cursor or at the tip, and emits events   *)
(* in order; the flow-control window is left to that module.  A worker     *)
(* finishes an event (handled, or skipped because it does not decode) or   *)
(* abandons it when the context is canceled; the stages in between are     *)
(* module WorkerPool.                                                      *)
(*                                                                         *)
(* An event is [topic, seq, pos]: its number in this process and its       *)
(* position in the topic, which stands for the opaque replay ID.           *)
(***************************************************************************)
EXTENDS Integers, Sequences

CONSTANTS
  Topics, Workers,
  OutCap,        \* capacity of a subscriber's channel out
  EventsCap,     \* capacity of the channel events (FlowBatchSize * 2)
  FirstCursor,   \* replay_state when the first process starts
  MaxEvents,     \* bound on the events published on a topic
  MaxStops       \* bound on shutdowns and crashes

Positions == 1..MaxEvents

ASSUME PipelineAssumption ==
  /\ OutCap \in Nat \ {0} /\ EventsCap \in Nat \ {0}
  /\ MaxEvents \in Nat /\ MaxStops \in Nat
  /\ FirstCursor \in 0..MaxEvents

VARIABLES
  published,     \* published[t]: server: events on the topic
  up,            \* the process is running
  canceled,      \* gctx of App.Run
  connected,     \* connected[t]: the subscriber has a stream
  streamPos,     \* streamPos[t]: last position read from the stream
  lastReplayID,  \* Subscriber.lastReplayID
  seq,           \* Subscriber.seq
  out,           \* the subscribers' channels
  forwarding,    \* forwarding[t]: the topic's fan-in goroutine runs
  events,        \* the channel the workers read
  worker,        \* worker[w]: what the worker is doing
  ticking,       \* Committer.Run has not returned
  final,         \* the final flush: no, running, failed (a save failed), done
  next, done, replayID, dirty, flushing, pending, stored, reported,
  stops,
  base,          \* history: position after which the topic is followed
  received,      \* history: <<t, pos>> of the events any process received
  finished       \* history: <<t, pos>> of the events any process finished

Flushers == {"ticker", "final"}
NoReplay == 0

C == INSTANCE Committer WITH MaxSeq <- MaxEvents, Origin <- 0

cursors == <<next, done, replayID, dirty, flushing, pending, reported>>
streams == <<connected, streamPos, lastReplayID, seq>>
channels == <<out, forwarding, events>>
history == <<base, received, finished>>
vars == <<published, up, canceled, streams, channels, worker, ticking, final,
          cursors, stored, stops, history>>

Event == [topic : Topics, seq : Positions, pos : Positions]

Idle == [doing |-> "idle"]
Stopped == [doing |-> "stopped"]
Busy(e) == [doing |-> "process", event |-> e]

EveryTopic(v) == [t \in Topics |-> v]

Init ==
  /\ canceled = FALSE
  /\ connected = EveryTopic(FALSE) /\ streamPos = EveryTopic(0)
  /\ lastReplayID = EveryTopic(NoReplay) /\ seq = EveryTopic(0)
  /\ out = EveryTopic(<<>>) /\ forwarding = EveryTopic(TRUE) /\ events = <<>>
  /\ worker = [w \in Workers |-> Idle]
  /\ ticking = TRUE /\ final = "no"
  /\ next = EveryTopic(1) /\ done = EveryTopic([s \in Positions |-> NoReplay])
  /\ replayID = EveryTopic(NoReplay) /\ dirty = EveryTopic(FALSE)
  /\ flushing = {} /\ pending = [f \in Flushers |-> EveryTopic(NoReplay)]
  /\ reported = EveryTopic({})
  /\ up = TRUE
  /\ published = EveryTopic(FirstCursor)
  /\ stored = EveryTopic(FirstCursor)
  /\ stops = 0
  /\ base = EveryTopic(FirstCursor)
  /\ received = {} /\ finished = {}

-----------------------------------------------------------------------------
(* The topic and its subscriber *)

Publish(t) ==
  /\ published[t] < MaxEvents
  /\ published' = [published EXCEPT ![t] = @ + 1]
  /\ UNCHANGED <<up, canceled, streams, channels, worker, ticking, final,
                 cursors, stored, stops, history>>

\* Mutant: the stream is resumed one event too late.
ConnectTooLate(t) ==
  LET cursor == IF lastReplayID[t] # NoReplay THEN lastReplayID[t] ELSE stored[t] IN
  /\ up /\ ~canceled /\ ~connected[t]
  /\ connected' = [connected EXCEPT ![t] = TRUE]
  /\ streamPos' = [streamPos EXCEPT ![t] = IF cursor = NoReplay THEN published[t] ELSE cursor + 1]
  /\ base' = [base EXCEPT ![t] = IF cursor = NoReplay THEN published[t] ELSE @]
  /\ UNCHANGED <<published, up, canceled, lastReplayID, seq, channels, worker,
                 ticking, final, cursors, stored, stops, received, finished>>

\* runOnce opens a stream, resuming as initialFetch says.
Connect(t) ==
  LET cursor == IF lastReplayID[t] # NoReplay THEN lastReplayID[t] ELSE stored[t] IN
  /\ up /\ ~canceled /\ ~connected[t]
  /\ connected' = [connected EXCEPT ![t] = TRUE]
  /\ streamPos' = [streamPos EXCEPT ![t] = IF cursor = NoReplay THEN published[t] ELSE cursor]
  /\ base' = [base EXCEPT ![t] = IF cursor = NoReplay THEN published[t] ELSE @]
  /\ UNCHANGED <<published, up, canceled, lastReplayID, seq, channels, worker,
                 ticking, final, cursors, stored, stops, received, finished>>

\* Mutant: the receiver does not watch the context while out is full.
DisconnectIfRoom(t) ==
  /\ up /\ connected[t] /\ Len(out[t]) < OutCap
  /\ connected' = [connected EXCEPT ![t] = FALSE]
  /\ UNCHANGED <<published, up, canceled, streamPos, lastReplayID, seq, channels,
                 worker, ticking, final, cursors, stored, stops, history>>

\* The stream breaks, or runOnce ends it because of the cancellation.
Disconnect(t) ==
  /\ up /\ connected[t]
  /\ connected' = [connected EXCEPT ![t] = FALSE]
  /\ UNCHANGED <<published, up, canceled, streamPos, lastReplayID, seq, channels,
                 worker, ticking, final, cursors, stored, stops, history>>

\* runReceiver sends the next event of the stream on out.
Receive(t) ==
  LET e == [topic |-> t, seq |-> seq[t] + 1, pos |-> streamPos[t] + 1] IN
  /\ up /\ connected[t] /\ streamPos[t] < published[t] /\ Len(out[t]) < OutCap
  /\ out' = [out EXCEPT ![t] = Append(@, e)]
  /\ streamPos' = [streamPos EXCEPT ![t] = e.pos]
  /\ seq' = [seq EXCEPT ![t] = e.seq]
  /\ lastReplayID' = [lastReplayID EXCEPT ![t] = e.pos]
  /\ received' = received \union {<<t, e.pos>>}
  /\ UNCHANGED <<published, up, canceled, connected, forwarding, events, worker,
                 ticking, final, cursors, stored, stops, base, finished>>

-----------------------------------------------------------------------------
(* fanIn and the worker pool *)

FanIn(t) ==
  /\ up /\ forwarding[t] /\ out[t] # <<>> /\ Len(events) < EventsCap
  /\ events' = Append(events, Head(out[t]))
  /\ out' = [out EXCEPT ![t] = Tail(@)]
  /\ UNCHANGED <<published, up, canceled, streams, forwarding, worker, ticking,
                 final, cursors, stored, stops, history>>

\* fanIn takes ctx.Done() and drops the event it holds.
FanInStops(t) ==
  /\ up /\ forwarding[t] /\ out[t] # <<>> /\ canceled
  /\ out' = [out EXCEPT ![t] = Tail(@)]
  /\ forwarding' = [forwarding EXCEPT ![t] = FALSE]
  /\ UNCHANGED <<published, up, canceled, streams, events, worker, ticking,
                 final, cursors, stored, stops, history>>

Take(w) ==
  /\ up /\ worker[w] = Idle /\ events # <<>>
  /\ worker' = [worker EXCEPT ![w] = Busy(Head(events))]
  /\ events' = Tail(events)
  /\ UNCHANGED <<published, up, canceled, streams, out, forwarding, ticking,
                 final, cursors, stored, stops, history>>

\* process ends with App.ack: the committer learns of the event.
Finish(w) ==
  /\ up /\ worker[w].doing = "process"
  /\ LET e == worker[w].event IN
       /\ C!Done(e.topic, e.seq, e.pos)
       /\ finished' = finished \union {<<e.topic, e.pos>>}
  /\ worker' = [worker EXCEPT ![w] = Idle]
  /\ UNCHANGED <<published, up, canceled, streams, channels, ticking, final,
                 stops, base, received>>

\* Mutant: an event that is given up at shutdown is acked all the same.
AbandonAcks(w) ==
  /\ up /\ worker[w].doing = "process" /\ canceled
  /\ LET e == worker[w].event IN C!Done(e.topic, e.seq, e.pos)
  /\ worker' = [worker EXCEPT ![w] = Idle]
  /\ UNCHANGED <<published, up, canceled, streams, channels, ticking, final,
                 stops, history>>

\* process returns without ack: retry saw the canceled context.
Abandon(w) ==
  /\ up /\ worker[w].doing = "process" /\ canceled
  /\ worker' = [worker EXCEPT ![w] = Idle]
  /\ UNCHANGED <<published, up, canceled, streams, channels, ticking, final,
                 cursors, stored, stops, history>>

WorkerStops(w) ==
  /\ up /\ worker[w] = Idle /\ canceled
  /\ worker' = [worker EXCEPT ![w] = Stopped]
  /\ UNCHANGED <<published, up, canceled, streams, channels, ticking, final,
                 cursors, stored, stops, history>>

-----------------------------------------------------------------------------
(* The committer: its ticker goroutine and the final flush *)

rest == <<published, up, canceled, streams, channels, worker, stops, history>>

\* Mutant: the final flush does not wait for the workers.
PoolIgnored == canceled

PoolStopped == \A w \in Workers : worker[w] = Stopped

TickerFlush ==
  /\ up /\ ticking
  /\ C!BeginFlush("ticker")
  /\ UNCHANGED <<rest, ticking, final>>

TickerStops ==
  /\ up /\ ticking /\ canceled /\ "ticker" \notin flushing
  /\ ticking' = FALSE
  /\ UNCHANGED <<rest, final, cursors, stored>>

\* pool.Run has returned and flushReplay calls Flush.
FinalFlush ==
  /\ up /\ final = "no" /\ PoolStopped
  /\ C!BeginFlush("final")
  /\ final' = "running"
  /\ UNCHANGED <<rest, ticking>>

SaveOk(f, t) ==
  /\ up /\ C!SaveOk(f, t)
  /\ UNCHANGED <<rest, ticking, final>>

SaveFails(f, t) ==
  /\ up /\ C!SaveFails(f, t)
  /\ final' = IF f = "final" THEN "failed" ELSE final
  /\ UNCHANGED <<rest, ticking>>

EndFlush(f) ==
  /\ up /\ C!EndFlush(f)
  /\ final' = IF f = "final" /\ final = "running" THEN "done" ELSE final
  /\ UNCHANGED <<rest, ticking>>

-----------------------------------------------------------------------------
(* The process *)

\* A signal arrives, or a goroutine of the group fails (the HTTP listener).
Cancel ==
  /\ up /\ ~canceled /\ stops < MaxStops
  /\ canceled' = TRUE
  /\ stops' = stops + 1
  /\ UNCHANGED <<published, up, streams, channels, worker, ticking, final,
                 cursors, stored, history>>

\* The memory of the process is gone; the next one starts as Init says.
Dies ==
  /\ up' = FALSE
  /\ canceled' = FALSE
  /\ connected' = EveryTopic(FALSE) /\ streamPos' = EveryTopic(0)
  /\ lastReplayID' = EveryTopic(NoReplay) /\ seq' = EveryTopic(0)
  /\ out' = EveryTopic(<<>>) /\ forwarding' = EveryTopic(TRUE) /\ events' = <<>>
  /\ worker' = [w \in Workers |-> Idle]
  /\ ticking' = TRUE /\ final' = "no"
  /\ next' = EveryTopic(1) /\ done' = EveryTopic([s \in Positions |-> NoReplay])
  /\ replayID' = EveryTopic(NoReplay) /\ dirty' = EveryTopic(FALSE)
  /\ flushing' = {} /\ pending' = [f \in Flushers |-> EveryTopic(NoReplay)]
  /\ reported' = EveryTopic({})
  /\ UNCHANGED <<published, stored, history>>

\* g.Wait returns: subscribers, pool with its final flush, and ticker are done.
Exit ==
  /\ up /\ ~ticking /\ PoolStopped /\ final \in {"failed", "done"} /\ flushing = {}
  /\ \A t \in Topics : ~connected[t]
  /\ Dies
  /\ UNCHANGED stops

\* The process is killed; a save may be on its way.
Crash ==
  /\ up /\ stops < MaxStops
  /\ stops' = stops + 1
  /\ Dies

Start ==
  /\ ~up
  /\ up' = TRUE
  /\ UNCHANGED <<published, canceled, streams, channels, worker, ticking, final,
                 cursors, stored, stops, history>>

-----------------------------------------------------------------------------

TopicStep(t) ==
  Publish(t) \/ Connect(t) \/ Disconnect(t) \/ Receive(t) \/ FanIn(t) \/ FanInStops(t)
WorkerStep(w) == Take(w) \/ Finish(w) \/ Abandon(w) \/ WorkerStops(w)
CommitterStep ==
  \/ TickerFlush \/ TickerStops \/ FinalFlush
  \/ \E f \in Flushers :
       EndFlush(f) \/ \E t \in Topics : SaveOk(f, t) \/ SaveFails(f, t)

Next ==
  \/ \E t \in Topics : TopicStep(t)
  \/ \E w \in Workers : WorkerStep(w)
  \/ CommitterStep
  \/ Cancel \/ Exit \/ Crash \/ Start

Spec == Init /\ [][Next]_vars

\* Goroutines take the steps they can; the orchestrator starts a stopped
\* process again; a stream that is opened again and again delivers at last; an
\* event that is retried again and again is finished at last; and so is a save.
Fairness ==
  /\ WF_vars(Start) /\ WF_vars(Exit)
  /\ WF_vars(TickerFlush) /\ SF_vars(TickerStops) /\ SF_vars(FinalFlush)
  /\ \A f \in Flushers :
       /\ WF_vars(EndFlush(f))
       /\ \A t \in Topics :
            WF_vars(SaveOk(f, t) \/ SaveFails(f, t)) /\ SF_vars(SaveOk(f, t))
  /\ \A t \in Topics :
       /\ WF_vars(Connect(t)) /\ SF_vars(Receive(t))
       /\ WF_vars(FanIn(t)) /\ WF_vars(canceled /\ Disconnect(t))
  /\ \A w \in Workers :
       WF_vars(Take(w)) /\ WF_vars(Finish(w) \/ Abandon(w)) /\ SF_vars(WorkerStops(w))

FairSpec == Spec /\ Fairness

-----------------------------------------------------------------------------
(* Properties *)

\* Every variable keeps its type.
TypeOK ==
  /\ published \in [Topics -> 0..MaxEvents]
  /\ up \in BOOLEAN /\ canceled \in BOOLEAN
  /\ connected \in [Topics -> BOOLEAN] /\ forwarding \in [Topics -> BOOLEAN]
  /\ streamPos \in [Topics -> 0..MaxEvents] /\ seq \in [Topics -> 0..MaxEvents]
  /\ lastReplayID \in [Topics -> 0..MaxEvents]
  /\ out \in [Topics -> Seq(Event)] /\ events \in Seq(Event)
  /\ worker \in [Workers -> {Idle, Stopped} \union {Busy(e) : e \in Event}]
  /\ ticking \in BOOLEAN /\ final \in {"no", "running", "failed", "done"}
  /\ stops \in 0..MaxStops
  /\ base \in [Topics -> 0..MaxEvents]
  /\ received \subseteq Topics \X Positions /\ finished \subseteq Topics \X Positions
  /\ C!TypeOK

\* The stored cursor never skips an event: since the topic is followed, every
\* event up to the cursor was finished by this process or an earlier one,
\* whatever was reordered, abandoned, dropped at shutdown or lost in a crash.
CursorNeverSkips ==
  \A t \in Topics, p \in Positions :
    base[t] < p /\ p <= stored[t] => <<t, p>> \in finished

\* The event is in a channel or with a worker of the running process.
InProcess(t, p) ==
  LET is(e) == e.topic = t /\ e.pos = p IN
  \/ \E i \in 1..Len(out[t]) : is(out[t][i])
  \/ \E i \in 1..Len(events) : is(events[i])
  \/ \E w \in Workers : worker[w].doing = "process" /\ is(worker[w].event)

\* The event would be delivered again by the next start.
Redelivered(t, p) == stored[t] # NoReplay /\ stored[t] < p

\* Until it is canceled, the process has every event that its stream is past:
\* since the topic is followed, an event up to the stream's position was finished
\* or is in a channel or with a worker, over reconnections, crashes and restarts.
NothingSkipped ==
  ~canceled =>
    \A t \in Topics, p \in Positions :
      connected[t] /\ base[t] < p /\ p <= streamPos[t] =>
        <<t, p>> \in finished \/ InProcess(t, p)

\* "An abandoned event is not acked, so the replay cursor stays below it and a
\* restart redelivers it": the same for every topic, in an orderly shutdown.
AbandonedIsRedelivered ==
  canceled => \A t \in Topics, p \in Positions :
    <<t, p>> \in received \ finished => InProcess(t, p) \/ Redelivered(t, p)

\* "No completion can arrive after this flush and the persisted cursor reflects
\* everything finished": after a final flush without errors the database has
\* every cursor the process moved, whatever the ticker's flush did meanwhile.
CleanShutdownCommitsAll ==
  final = "done" =>
    \A t \in Topics : replayID[t] # NoReplay => stored[t] = replayID[t]

\* On a topic with a committed cursor every event published is finished in the
\* end, over any shutdowns, crashes, disconnections and failed saves.
CommittedTopicLosesNothing ==
  \A t \in Topics, p \in Positions :
    (stored[t] # NoReplay /\ base[t] < p /\ p <= published[t]) ~> (<<t, p>> \in finished)

\* A canceled process exits: nothing waits for something that never comes.
ShutdownCompletes == canceled ~> ~canceled

Promise == INSTANCE Delivery WITH delivered <- finished, cursor <- stored

\* The service as a whole keeps the promise of at-least-once delivery: over
\* shutdowns, crashes and restarts a stored cursor never moves back, and it
\* moves only over events that were finished.
ImplementsDelivery == Promise!Spec

Stream(t) == INSTANCE TopicStream WITH
  published <- published[t], cursor <- stored[t], connected <- connected[t],
  at <- IF connected[t] THEN streamPos[t] ELSE 0,
  latest <- [seq |-> seq[t], pos |-> lastReplayID[t]]

\* Each topic is followed by the stream that module Subscriber implements; its
\* cursor moves only over events the running process received.
ImplementsTopicStream == \A t \in Topics : Stream(t)!Spec
=============================================================================
