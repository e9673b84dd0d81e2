----------------------------- MODULE Subscriber -----------------------------
(***************************************************************************)
(* One topic's Subscriber (internal/pubsub/subscriber.go): Run reconnects  *)
(* for ever, runOnce drives one stream with a sender and a receiver        *)
(* goroutine, and Ack, called by the workers, returns slots of the         *)
(* flow-control window that the sender asks the server to refill.          *)
(*                                                                         *)
(* The server, the network and what happens to an event between Out and    *)
(* Ack are external.  The server keeps the topic's events at positions 1,  *)
(* 2, ..., published and sends them in order while the client has credit;  *)
(* a replay ID is a position.  A broken stream loses what is on the wire,  *)
(* but a response already returned by Recv is still emitted.               *)
(***************************************************************************)
EXTENDS Backoff, Sequences

CONSTANTS
  BatchSize,   \* NumRequested of the request that opens a stream
  OutCap,      \* capacity of the channel out (1024 in the code)
  Cursors,     \* what LoadReplay may return: a committed cursor, or NoReplay
  Tip,         \* number of events on the topic when the process starts
  MaxEvents,   \* bound on the events ever published
  MaxBreaks    \* bound on the streams the network or the server breaks

ASSUME SubscriberAssumption ==
  /\ BatchSize \in Nat \ {0} /\ OutCap \in Nat \ {0} /\ MaxBreaks \in Nat
  /\ Tip \in Nat /\ MaxEvents \in Nat /\ Tip <= MaxEvents
  /\ Cursors \subseteq 0..Tip

NoReplay == 0

VARIABLES
  cursor,      \* the row of replay_state when the process starts
  published,   \* server: events on the topic
  sent,        \* server: last position sent on the current stream
  credit,      \* server: requested events not sent yet
  broken,      \* the current stream has failed, the client may not know yet
  breaks,      \* streams broken so far
  wire,        \* positions sent and not yet returned by Recv
  batch,       \* the rest of the response that the receiver is emitting
  out,         \* the channel out: positions
  working,     \* events taken from out and not acked yet
  waking,      \* Ack calls between pendingAck.Add and the send on ackWake
  pendingAck, ackWake,
  run,         \* Run and runOnce: fetch, streaming, joining, backoff, returned
  sender,      \* runSender: select, woken, sending, returned
  ask,         \* runSender: the acks swapped out of pendingAck, to be sent
  receiver,    \* runReceiver: running, returned
  canceled,    \* Run's ctx
  streamDone,  \* streamCtx was canceled by runOnce
  lastReplayID,
  emitted,     \* history: [seq, pos] of every event sent on out
  opens        \* history: streams opened

server == <<cursor, published, sent, credit, broken, breaks, wire>>
acks == <<working, waking, pendingAck, ackWake>>
loop == <<run, canceled, streamDone, opens>>
vars == <<cursor, published, sent, credit, broken, breaks, wire, batch, out, working,
          waking, pendingAck, ackWake, run, sender, ask, receiver, canceled,
          streamDone, lastReplayID, emitted, opens>>

Init ==
  /\ cursor \in Cursors
  /\ published = Tip /\ sent = 0 /\ credit = 0
  /\ broken = FALSE /\ breaks = 0 /\ wire = <<>>
  /\ batch = <<>> /\ out = <<>>
  /\ working = 0 /\ waking = 0 /\ pendingAck = 0 /\ ackWake = FALSE
  /\ run = "fetch" /\ sender = "returned" /\ ask = 0 /\ receiver = "returned"
  /\ canceled = FALSE /\ streamDone = FALSE
  /\ lastReplayID = NoReplay /\ emitted = <<>> /\ opens = 0

\* ctx.Done() of the context the sender and the receiver are given.
StreamCtxDone == canceled \/ streamDone

-----------------------------------------------------------------------------
(* External: the server and the network *)

Publish ==
  /\ published < MaxEvents
  /\ published' = published + 1
  /\ UNCHANGED <<cursor, sent, credit, broken, breaks, wire, batch, out, acks,
                 loop, sender, ask, receiver, lastReplayID, emitted>>

\* Only a stream in use is served; the one runOnce gave up is gone.
ServerSends ==
  /\ run = "streaming" /\ ~broken
  /\ credit > 0 /\ sent < published
  /\ sent' = sent + 1
  /\ credit' = credit - 1
  /\ wire' = Append(wire, sent + 1)
  /\ UNCHANGED <<cursor, published, broken, breaks, batch, out, acks, loop, sender,
                 ask, receiver, lastReplayID, emitted>>

StreamBreaks ==
  /\ run = "streaming" /\ ~broken /\ breaks < MaxBreaks
  /\ broken' = TRUE
  /\ breaks' = breaks + 1
  /\ UNCHANGED <<cursor, published, sent, credit, wire, batch, out, acks, loop, sender,
                 ask, receiver, lastReplayID, emitted>>

-----------------------------------------------------------------------------
(* Run and runOnce *)

\* Mutant: every stream, not only the first, resumes from the committed cursor.
ResumeAfterCommitted == IF cursor = NoReplay THEN published ELSE cursor

\* initialFetch: the position after which the new stream starts.
ResumeAfter ==
  LET replayID == IF lastReplayID # NoReplay THEN lastReplayID ELSE cursor IN
  IF replayID = NoReplay THEN published ELSE replayID

\* The stream is opened, the initial request is sent, both goroutines start.
OpenStream ==
  /\ run = "fetch" /\ ~canceled
  /\ sent' = ResumeAfter
  /\ credit' = BatchSize
  /\ broken' = FALSE /\ wire' = <<>>
  /\ run' = "streaming" /\ streamDone' = FALSE /\ opens' = opens + 1
  /\ sender' = "select" /\ receiver' = "running"
  /\ UNCHANGED <<cursor, published, breaks, batch, out, acks, ask, canceled,
                 lastReplayID, emitted>>

\* LoadReplay, Subscribe or the first Send returns an error.
OpenFails ==
  /\ run = "fetch"
  /\ run' = IF canceled THEN "returned" ELSE "backoff"
  /\ UNCHANGED <<server, batch, out, acks, sender, ask, receiver, canceled,
                 streamDone, lastReplayID, emitted, opens>>

\* One goroutine has returned: cancel the stream.
CancelStream ==
  /\ run = "streaming"
  /\ sender = "returned" \/ receiver = "returned"
  /\ run' = "joining" /\ streamDone' = TRUE
  /\ UNCHANGED <<server, batch, out, acks, sender, ask, receiver, canceled,
                 lastReplayID, emitted, opens>>

\* Mutant: runOnce returns without waiting for the other goroutine.
FirstReturned == TRUE

BothReturned == sender = "returned" /\ receiver = "returned"

\* runOnce returns; Run closes out when ctx is canceled.
RunOnceReturns ==
  /\ run = "joining" /\ BothReturned
  /\ run' = IF canceled THEN "returned" ELSE "backoff"
  /\ UNCHANGED <<server, batch, out, acks, sender, ask, receiver, canceled,
                 streamDone, lastReplayID, emitted, opens>>

\* The delay is ReconnectDelay of module Backoff, with jitter.
BackoffEnds ==
  /\ run = "backoff"
  /\ \/ run' = "fetch"
     \/ canceled /\ run' = "returned"
  /\ UNCHANGED <<server, batch, out, acks, sender, ask, receiver, canceled,
                 streamDone, lastReplayID, emitted, opens>>

Cancel ==
  /\ ~canceled
  /\ canceled' = TRUE
  /\ UNCHANGED <<server, batch, out, acks, run, sender, ask, receiver,
                 streamDone, lastReplayID, emitted, opens>>

-----------------------------------------------------------------------------
(* runSender *)

SenderWakes ==
  /\ sender = "select" /\ ackWake
  /\ ackWake' = FALSE
  /\ sender' = "woken"
  /\ UNCHANGED <<server, batch, out, working, waking, pendingAck, loop, ask,
                 receiver, lastReplayID, emitted>>

\* Mutant: the acks are read, and reset only after the request was sent.
SenderReads ==
  /\ sender = "woken"
  /\ ask' = pendingAck
  /\ sender' = IF pendingAck > 0 THEN "sending" ELSE "select"
  /\ UNCHANGED <<server, batch, out, acks, loop, receiver, lastReplayID, emitted>>

\* n := pendingAck.Swap(0); nothing to ask for when n is 0.
SenderSwaps ==
  /\ sender = "woken"
  /\ ask' = pendingAck
  /\ pendingAck' = 0
  /\ sender' = IF pendingAck > 0 THEN "sending" ELSE "select"
  /\ UNCHANGED <<server, batch, out, working, waking, ackWake, loop, receiver,
                 lastReplayID, emitted>>

\* Send succeeds.  On a stream that is already broken the request is lost.
SenderSends ==
  /\ sender = "sending"
  /\ credit' = IF broken THEN credit ELSE credit + ask
  /\ ask' = 0
  /\ sender' = "select"
  /\ UNCHANGED <<cursor, published, sent, broken, breaks, wire, batch, out, acks, loop,
                 receiver, lastReplayID, emitted>>

\* Send fails, and the acks swapped out for it are gone.
SenderFails ==
  /\ sender = "sending" /\ (broken \/ StreamCtxDone)
  /\ ask' = 0
  /\ sender' = "returned"
  /\ UNCHANGED <<server, batch, out, acks, loop, receiver, lastReplayID, emitted>>

SenderStops ==
  /\ sender = "select" /\ StreamCtxDone
  /\ sender' = "returned"
  /\ UNCHANGED <<server, batch, out, acks, loop, ask, receiver, lastReplayID, emitted>>

-----------------------------------------------------------------------------
(* runReceiver *)

\* Recv returns a response of one or more events.
ReceiverRecvs ==
  /\ receiver = "running" /\ batch = <<>> /\ wire # <<>>
  /\ \E k \in 1..Len(wire) :
       /\ batch' = SubSeq(wire, 1, k)
       /\ wire' = SubSeq(wire, k + 1, Len(wire))
  /\ UNCHANGED <<cursor, published, sent, credit, broken, breaks, out, acks, loop,
                 sender, ask, receiver, lastReplayID, emitted>>

ReceiverFails ==
  /\ receiver = "running" /\ batch = <<>> /\ (broken \/ StreamCtxDone)
  /\ receiver' = "returned"
  /\ UNCHANGED <<server, batch, out, acks, loop, sender, ask, lastReplayID, emitted>>

\* Mutant: the resume position is the end of the response being emitted.
EmitBatchEnd ==
  /\ receiver = "running" /\ batch # <<>> /\ Len(out) < OutCap
  /\ out' = Append(out, Head(batch))
  /\ emitted' = Append(emitted, [seq |-> Len(emitted) + 1, pos |-> Head(batch)])
  /\ lastReplayID' = batch[Len(batch)]
  /\ batch' = Tail(batch)
  /\ UNCHANGED <<server, acks, loop, sender, ask, receiver>>

\* The select of runReceiver sends the event on out; s.seq counts emissions.
Emit ==
  /\ receiver = "running" /\ batch # <<>> /\ Len(out) < OutCap
  /\ out' = Append(out, Head(batch))
  /\ emitted' = Append(emitted, [seq |-> Len(emitted) + 1, pos |-> Head(batch)])
  /\ lastReplayID' = Head(batch)
  /\ batch' = Tail(batch)
  /\ UNCHANGED <<server, acks, loop, sender, ask, receiver>>

\* Mutant: the receiver notices the cancellation only when out has room.
ReceiverStopsIfRoom ==
  /\ receiver = "running" /\ batch # <<>> /\ StreamCtxDone /\ Len(out) < OutCap
  /\ receiver' = "returned"
  /\ batch' = <<>>
  /\ UNCHANGED <<server, out, acks, loop, sender, ask, lastReplayID, emitted>>

\* The select of runReceiver takes ctx.Done(): the rest of the response is dropped.
ReceiverStops ==
  /\ receiver = "running" /\ batch # <<>> /\ StreamCtxDone
  /\ receiver' = "returned"
  /\ batch' = <<>>
  /\ UNCHANGED <<server, out, acks, loop, sender, ask, lastReplayID, emitted>>

-----------------------------------------------------------------------------
(* The consumer of Out, and Ack(1) when it has finished an event *)

Take ==
  /\ out # <<>>
  /\ out' = Tail(out)
  /\ working' = working + 1
  /\ UNCHANGED <<server, batch, waking, pendingAck, ackWake, loop, sender, ask,
                 receiver, lastReplayID, emitted>>

AckAdds ==
  /\ working > 0
  /\ working' = working - 1
  /\ pendingAck' = pendingAck + 1
  /\ waking' = waking + 1
  /\ UNCHANGED <<server, batch, out, ackWake, loop, sender, ask, receiver,
                 lastReplayID, emitted>>

\* Mutant: the wake-up is sent only when the sender is waiting for it.
AckWakesIfWaiting ==
  /\ waking > 0
  /\ waking' = waking - 1
  /\ ackWake' = (ackWake \/ sender = "select")
  /\ UNCHANGED <<server, batch, out, working, pendingAck, loop, sender, ask,
                 receiver, lastReplayID, emitted>>

\* The send on ackWake (capacity 1) never blocks.
AckWakes ==
  /\ waking > 0
  /\ waking' = waking - 1
  /\ ackWake' = TRUE
  /\ UNCHANGED <<server, batch, out, working, pendingAck, loop, sender, ask,
                 receiver, lastReplayID, emitted>>

-----------------------------------------------------------------------------

Environment == Publish \/ ServerSends \/ StreamBreaks \/ Cancel
RunSteps == OpenStream \/ OpenFails \/ CancelStream \/ RunOnceReturns \/ BackoffEnds
SenderSteps == SenderWakes \/ SenderSwaps \/ SenderSends \/ SenderFails \/ SenderStops
ReceiverSteps == ReceiverRecvs \/ ReceiverFails \/ Emit \/ ReceiverStops
ConsumerSteps == Take \/ AckAdds \/ AckWakes

\* Run has returned, nothing is left to do but to finish taken events.
Terminated == run = "returned" /\ UNCHANGED vars

Next ==
  Environment \/ RunSteps \/ SenderSteps \/ ReceiverSteps \/ ConsumerSteps \/ Terminated

Spec == Init /\ [][Next]_vars

\* Goroutines that can take a step take one; the server uses the credit it has;
\* the workers finish what they take, while the process is not shutting down.
\* A connection that is tried again and again is established at last.
Fairness ==
  /\ WF_vars(RunSteps) /\ SF_vars(OpenStream)
  /\ WF_vars(SenderSteps) /\ WF_vars(ReceiverSteps)
  /\ WF_vars(ServerSends)
  /\ WF_vars(~canceled /\ Take)
  /\ WF_vars(~canceled /\ AckAdds)
  /\ WF_vars(~canceled /\ AckWakes)

FairSpec == Spec /\ Fairness

-----------------------------------------------------------------------------
(* Properties *)

\* Every variable keeps its type, and outside of a stream the receiver is gone:
\* "The next stream must not start while it can still emit events".
TypeOK ==
  /\ cursor \in Cursors
  /\ published \in 0..MaxEvents /\ sent \in 0..MaxEvents
  /\ credit \in Nat /\ broken \in BOOLEAN /\ breaks \in 0..MaxBreaks
  /\ wire \in Seq(1..MaxEvents) /\ batch \in Seq(1..MaxEvents) /\ out \in Seq(1..MaxEvents)
  /\ working \in Nat /\ waking \in Nat /\ pendingAck \in Nat /\ ackWake \in BOOLEAN
  /\ run \in {"fetch", "streaming", "joining", "backoff", "returned"}
  /\ sender \in {"select", "woken", "sending", "returned"} /\ ask \in Nat
  /\ receiver \in {"running", "returned"}
  /\ canceled \in BOOLEAN /\ streamDone \in BOOLEAN
  /\ lastReplayID \in 0..MaxEvents /\ emitted \in Seq([seq : Nat, pos : Nat])
  /\ opens \in 0..(MaxBreaks + 1)
  /\ run \in {"fetch", "backoff", "returned"} => receiver = "returned" /\ batch = <<>>

\* Over any number of broken streams, interrupted responses and resumes, the
\* events on out are numbered from 1 in stream order, and each follows its
\* predecessor: none is skipped, repeated or reordered.  The committer's Done
\* relies on it.
StreamOrder ==
  \A i \in 1..Len(emitted) :
    /\ emitted[i].seq = i
    /\ i > 1 => emitted[i].pos = emitted[i - 1].pos + 1
    /\ i = 1 /\ cursor # NoReplay => emitted[i].pos = cursor + 1

\* Whenever Run waits, and however often it has waited before (its counter is
\* never reset, and left out here), the delays are in order: reconnectDelay does
\* not fall back to nothing when its shift overflows.
DelaysInOrder ==
  run = "backoff" => DelaysGrowToTheMaximum

\* No wake-up is lost: while acks wait in pendingAck, a token is in ackWake, or
\* an Ack is about to put one there, or the sender is about to swap.
NoLostWakeup ==
  pendingAck > 0 => ackWake \/ waking > 0 \/ sender = "woken"

\* Events asked for on the current stream or somewhere between Recv and Ack,
\* and slots on their way back to the server.
Window == credit + Len(wire) + Len(batch) + Len(out) + working + pendingAck + ask

\* While a stream works its window never falls below BatchSize, so that no
\* sequence of broken streams and lost requests starves the topic; and every
\* stream opened adds BatchSize at most.
WindowBounds ==
  run = "streaming" /\ ~broken /\ ~StreamCtxDone =>
    BatchSize <= Window /\ Window <= BatchSize * opens

\* With a committed cursor every event published after it reaches out, unless
\* the service is stopped, whatever streams break.
EverythingEmitted ==
  \A p \in 1..MaxEvents :
    (cursor # NoReplay /\ cursor < p /\ p <= published) ~>
      (canceled \/ \E i \in 1..Len(emitted) : emitted[i].pos = p)

\* Run returns when its context is canceled, also when out is full.
RunReturns == canceled ~> (run = "returned")

\* The position after which the receiver has not emitted anything yet.
Front == sent - Len(wire) - Len(batch)

Stream == INSTANCE TopicStream WITH
  connected <- receiver = "running",
  at <- IF receiver = "running" THEN Front ELSE 0,
  latest <- IF emitted = <<>> THEN [seq |-> 0, pos |-> 0] ELSE emitted[Len(emitted)]

\* A subscriber, with its window, its responses and its two goroutines, is the
\* stream that Pipeline takes it for: whatever breaks, it resumes exactly after
\* the last event it emitted and emits what the topic has, one by one.
ImplementsTopicStream == Stream!Spec
=============================================================================
