-------------------------- MODULE SubscriberProofs --------------------------
(***************************************************************************)
(* Proofs about Subscriber, for any batch size, capacity of out, cursor,   *)
(* number of events and number of broken streams.                          *)
(***************************************************************************)
EXTENDS Subscriber, SequenceTheorems, TLAPS

\* The provers to try, with time for a busy machine; a leaf that needs no
\* arithmetic may cite Zenon alone.
USE SMTT(10), Zenon, SMTT(30), SMTT(60)

USE SubscriberAssumption DEF NoReplay

\* The goroutines of a stream do not outlive runOnce, a stream ends because it
\* broke or because Run is canceled, and so every stream but one is a break.
Control ==
  /\ run \in {"fetch", "backoff", "returned"} => sender = "returned" /\ receiver = "returned"
  /\ receiver = "returned" => batch = <<>>
  /\ sender # "sending" => ask = 0
  /\ run = "streaming" => ~streamDone
  /\ run \in {"streaming", "joining"} /\
       (sender = "returned" \/ receiver = "returned" \/ streamDone) => broken \/ canceled
  /\ opens <= breaks + 1
  /\ run \in {"streaming", "joining"} /\ broken => opens <= breaks
  /\ run \in {"fetch", "backoff"} /\ ~canceled => opens <= breaks

ControlInvariant == TypeOK /\ Control

(* Run starts without a stream. *)
LEMMA InitControl == Init => ControlInvariant
<1> SUFFICES ASSUME Init PROVE ControlInvariant
  OBVIOUS
<1>1. TypeOK
  <2>1. /\ cursor \in Cursors /\ published \in 0..MaxEvents /\ sent \in 0..MaxEvents
        /\ credit \in Nat /\ breaks \in 0..MaxBreaks /\ working \in Nat /\ waking \in Nat
        /\ pendingAck \in Nat /\ ask \in Nat /\ lastReplayID \in 0..MaxEvents
        /\ opens \in 0..(MaxBreaks + 1)
    BY DEF Init
  <2>2. /\ wire \in Seq(1..MaxEvents) /\ batch \in Seq(1..MaxEvents) /\ out \in Seq(1..MaxEvents)
        /\ emitted \in Seq([seq : Nat, pos : Nat]) /\ batch = <<>>
    BY DEF Init
  <2>3. /\ broken \in BOOLEAN /\ ackWake \in BOOLEAN /\ canceled \in BOOLEAN
        /\ streamDone \in BOOLEAN /\ run = "fetch" /\ sender = "returned" /\ receiver = "returned"
    BY Zenon DEF Init
  <2> QED
    BY <2>1, <2>2, <2>3 DEF TypeOK
<1> QED
  BY <1>1 DEF Init, ControlInvariant, Control

LEMMA EnvironmentControl ==
  ASSUME ControlInvariant, Environment
  PROVE  ControlInvariant'
<1> USE DEF ControlInvariant, TypeOK, Control
<1>1. CASE Publish
  BY <1>1 DEF Publish, acks, loop
<1>2. CASE ServerSends
  BY <1>2 DEF ServerSends, acks, loop
<1>3. CASE StreamBreaks
  BY <1>3 DEF StreamBreaks, acks, loop
<1>4. CASE Cancel
  BY <1>4 DEF Cancel, acks, server
<1> QED
  BY <1>1, <1>2, <1>3, <1>4 DEF Environment

LEMMA RunControl ==
  ASSUME ControlInvariant, RunSteps
  PROVE  ControlInvariant'
<1> USE DEF ControlInvariant, TypeOK, Control
<1>1. CASE OpenStream
  <2>1. ResumeAfter \in 0..MaxEvents
    <3>1. cursor \in 0..MaxEvents
      OBVIOUS
    <3> QED
      BY <3>1 DEF ResumeAfter
  <2>2. /\ opens' \in 0..(MaxBreaks + 1) /\ opens' <= breaks' + 1
        /\ sent' \in 0..MaxEvents /\ credit' \in Nat /\ wire' \in Seq(1..MaxEvents)
    BY <1>1, <2>1 DEF OpenStream
  <2> QED
    BY Zenon, <1>1, <2>2 DEF OpenStream, acks
<1>2. CASE OpenFails
  BY <1>2 DEF OpenFails, acks, server
<1>3. CASE CancelStream
  BY <1>3 DEF CancelStream, acks, server
<1>4. CASE RunOnceReturns
  BY <1>4 DEF RunOnceReturns, BothReturned, acks, server
<1>5. CASE BackoffEnds
  BY <1>5 DEF BackoffEnds, acks, server
<1> QED
  BY <1>1, <1>2, <1>3, <1>4, <1>5 DEF RunSteps

LEMMA SenderControl ==
  ASSUME ControlInvariant, SenderSteps
  PROVE  ControlInvariant'
<1> USE DEF ControlInvariant, TypeOK, Control
<1>1. CASE SenderWakes
  BY Zenon, <1>1 DEF SenderWakes, server, loop
<1>2. CASE SenderSwaps
  BY <1>2 DEF SenderSwaps, server, loop
<1>3. CASE SenderSends
  BY <1>3 DEF SenderSends, acks, loop
<1>4. CASE SenderFails
  BY <1>4 DEF SenderFails, StreamCtxDone, acks, server, loop
<1>5. CASE SenderStops
  BY <1>5 DEF SenderStops, StreamCtxDone, acks, server, loop
<1> QED
  BY <1>1, <1>2, <1>3, <1>4, <1>5 DEF SenderSteps

LEMMA ReceiverControl ==
  ASSUME ControlInvariant, ReceiverSteps
  PROVE  ControlInvariant'
<1> USE DEF ControlInvariant, TypeOK, Control
<1>1. CASE ReceiverRecvs
  BY <1>1 DEF ReceiverRecvs, acks, loop
<1>2. CASE ReceiverFails
  BY <1>2 DEF ReceiverFails, StreamCtxDone, acks, server, loop
<1>3. CASE Emit
  BY <1>3 DEF Emit, acks, server, loop
<1>4. CASE ReceiverStops
  BY <1>4 DEF ReceiverStops, StreamCtxDone, acks, server, loop
<1> QED
  BY <1>1, <1>2, <1>3, <1>4 DEF ReceiverSteps

LEMMA ConsumerControl ==
  ASSUME ControlInvariant, ConsumerSteps
  PROVE  ControlInvariant'
<1> USE DEF ControlInvariant, TypeOK, Control
<1>1. CASE Take
  BY <1>1 DEF Take, server, loop
<1>2. CASE AckAdds
  BY <1>2 DEF AckAdds, server, loop
<1>3. CASE AckWakes
  BY <1>3 DEF AckWakes, server, loop
<1> QED
  BY <1>1, <1>2, <1>3 DEF ConsumerSteps

(* Every step preserves the control invariant. *)
LEMMA NextControl == ControlInvariant /\ [Next]_vars => ControlInvariant'
<1> SUFFICES ASSUME ControlInvariant, [Next]_vars PROVE ControlInvariant'
  OBVIOUS
<1>1. CASE UNCHANGED vars
  BY <1>1 DEF vars, ControlInvariant, TypeOK, Control
<1> QED
  BY <1>1, EnvironmentControl, RunControl, SenderControl, ReceiverControl, ConsumerControl
     DEF Next, Terminated

(* The types, and that neither goroutine of a stream outlives runOnce. *)
THEOREM ControlInvariantHolds == Spec => []ControlInvariant
  BY InitControl, NextControl, PTL DEF Spec

(* No wake-up is lost between Ack and the sender, over any number of streams. *)
THEOREM NoLostWakeupHolds == Spec => []NoLostWakeup
<1>1. Init => NoLostWakeup
  BY DEF Init, NoLostWakeup
<1>2. ControlInvariant /\ NoLostWakeup /\ [Next]_vars => NoLostWakeup'
  <2> SUFFICES ASSUME ControlInvariant, NoLostWakeup, [Next]_vars PROVE NoLostWakeup'
    OBVIOUS
  <2> USE DEF NoLostWakeup
  <2>1. CASE Environment \/ ReceiverSteps \/ UNCHANGED vars
    BY <2>1 DEF Environment, Publish, ServerSends, StreamBreaks, Cancel, ReceiverSteps,
                ReceiverRecvs, ReceiverFails, Emit, ReceiverStops, vars, acks
  <2>2. CASE RunSteps
    BY <2>2 DEF RunSteps, OpenStream, OpenFails, CancelStream, RunOnceReturns, BackoffEnds,
                acks, ControlInvariant, Control
  <2>3. CASE SenderSteps
    BY <2>3 DEF SenderSteps, SenderWakes, SenderSwaps, SenderSends, SenderFails, SenderStops, acks
  <2>4. CASE ConsumerSteps
    <3>1. waking \in Nat
      BY DEF ControlInvariant, TypeOK
    <3> QED
      BY <2>4, <3>1 DEF ConsumerSteps, Take, AckAdds, AckWakes
  <2> QED
    BY <2>1, <2>2, <2>3, <2>4 DEF Next, Terminated
<1> QED
  BY <1>1, <1>2, ControlInvariantHolds, PTL DEF Spec

-----------------------------------------------------------------------------
(* The window *)

\* A stream adds BatchSize at most, whatever became of the earlier ones; and a
\* stream that works has BatchSize at least.
WindowOK ==
  /\ Window <= BatchSize * opens
  /\ run = "streaming" /\ ~broken /\ ~StreamCtxDone => BatchSize <= Window

(* The parts of the window are numbers. *)
LEMMA WindowParts ==
  ASSUME ControlInvariant
  PROVE  /\ credit \in Nat /\ Len(wire) \in Nat /\ Len(batch) \in Nat /\ Len(out) \in Nat
         /\ working \in Nat /\ pendingAck \in Nat /\ ask \in Nat /\ opens \in Nat
         /\ Window \in Nat
<1>1. Len(wire) \in Nat /\ Len(batch) \in Nat /\ Len(out) \in Nat
  BY DEF ControlInvariant, TypeOK
<1> QED
  BY <1>1 DEF ControlInvariant, TypeOK, Window

(* A step that hands a slot on keeps the window; a lost request or response
   shrinks it, which only happens when the stream is lost as well. *)
LEMMA SlotsKept ==
  ASSUME ControlInvariant, WindowOK, UNCHANGED opens,
         run' = "streaming" => run = "streaming",
         broken => broken', StreamCtxDone => StreamCtxDone',
         \/ Window' = Window
         \/ Window' \in Nat /\ Window' <= Window /\ (broken' \/ StreamCtxDone')
  PROVE  WindowOK'
<1>1. Window \in Nat /\ opens \in Nat
  BY WindowParts
<1> DEFINE most == BatchSize * opens
<1>2. Window <= most /\ most \in Nat
  BY <1>1 DEF WindowOK
<1> HIDE DEF most
<1>3. Window' <= most
  BY <1>1, <1>2
<1> QED
  BY <1>3 DEF WindowOK, most

(* Every step preserves the bounds of the window. *)
LEMMA NextWindow == ControlInvariant /\ WindowOK /\ [Next]_vars => WindowOK'
<1> SUFFICES ASSUME ControlInvariant, WindowOK, [Next]_vars PROVE WindowOK'
  OBVIOUS
<1>0. /\ credit \in Nat /\ Len(wire) \in Nat /\ Len(batch) \in Nat /\ Len(out) \in Nat
      /\ working \in Nat /\ pendingAck \in Nat /\ ask \in Nat /\ opens \in Nat
      /\ Window \in Nat
      /\ wire \in Seq(1..MaxEvents) /\ batch \in Seq(1..MaxEvents) /\ out \in Seq(1..MaxEvents)
  BY WindowParts DEF ControlInvariant, TypeOK
<1>1. ASSUME Window' = Window, UNCHANGED <<run, broken, canceled, streamDone, opens>>
      PROVE  WindowOK'
  BY <1>1, SlotsKept DEF StreamCtxDone
<1>2. CASE UNCHANGED vars
  BY <1>1, <1>2 DEF vars, Window
<1>3. CASE Environment
  <2>1. CASE Publish
    BY <1>1, <2>1 DEF Publish, acks, loop, Window
  <2>2. CASE ServerSends
    <3>1. Len(wire') = Len(wire) + 1 /\ credit' = credit - 1
      BY <1>0, <2>2 DEF ServerSends
    <3>2. Window' = Window
      BY <1>0, <2>2, <3>1 DEF ServerSends, acks, Window
    <3> QED
      BY <1>1, <2>2, <3>2 DEF ServerSends, loop
  <2>3. CASE StreamBreaks \/ Cancel
    <3>1. Window' = Window
      BY <2>3 DEF StreamBreaks, Cancel, acks, server, Window
    <3> QED
      BY <2>3, <3>1, SlotsKept DEF StreamBreaks, Cancel, StreamCtxDone, loop, server
  <2> QED
    BY <1>3, <2>1, <2>2, <2>3 DEF Environment
<1>4. CASE RunSteps
  <2>1. CASE OpenStream
    <3>1. /\ credit' = BatchSize /\ Len(wire') = 0 /\ opens' = opens + 1
          /\ UNCHANGED <<batch, out, working, pendingAck, ask>>
      BY <2>1 DEF OpenStream, acks
    <3>2. Window' <= BatchSize + Window /\ BatchSize <= Window'
      BY <1>0, <3>1 DEF Window
    <3>3. BatchSize * (opens + 1) = BatchSize * opens + BatchSize /\ BatchSize * opens \in Nat
      BY <1>0
    <3>4. Window' \in Nat
      BY <1>0, <3>1 DEF Window
    <3> DEFINE most == BatchSize * opens
               more == BatchSize * (opens + 1)
    <3>5. Window <= most /\ more = most + BatchSize /\ most \in Nat
      BY <3>3 DEF WindowOK
    <3> HIDE DEF most, more
    <3>6. Window' <= more
      BY <1>0, <3>2, <3>4, <3>5
    <3>7. Window' <= BatchSize * opens'
      BY <3>1, <3>6 DEF more
    <3> QED
      BY <3>2, <3>7 DEF WindowOK
  <2>2. CASE OpenFails \/ CancelStream \/ RunOnceReturns \/ BackoffEnds
    <3>1. Window' = Window /\ UNCHANGED <<broken, canceled, opens>>
      BY <2>2 DEF OpenFails, CancelStream, RunOnceReturns, BackoffEnds, acks, server, Window
    <3>2. run' # "streaming" /\ (streamDone => streamDone')
      BY <2>2 DEF OpenFails, CancelStream, RunOnceReturns, BackoffEnds
    <3> QED
      BY <3>1, <3>2, SlotsKept DEF StreamCtxDone
  <2> QED
    BY <1>4, <2>1, <2>2 DEF RunSteps
<1>5. CASE SenderSteps
  <2>1. CASE SenderWakes \/ SenderStops
    BY <1>1, <2>1 DEF SenderWakes, SenderStops, acks, server, loop, Window
  <2>2. CASE SenderSwaps
    <3>1. ask = 0
      BY <2>2 DEF SenderSwaps, ControlInvariant, Control
    <3>2. Window' = Window
      BY <1>0, <2>2, <3>1 DEF SenderSwaps, server, Window
    <3> QED
      BY <1>1, <2>2, <3>2 DEF SenderSwaps, server, loop
  <2>3. CASE SenderSends \/ SenderFails
    <3>1. /\ ask' = 0 /\ (credit' = credit \/ (credit' = credit + ask /\ ~broken))
          /\ credit' = credit => broken \/ StreamCtxDone \/ ask = 0
          /\ UNCHANGED <<wire, batch, out, working, pendingAck, broken, run, canceled,
                         streamDone, opens>>
      BY <1>0, <2>3 DEF SenderSends, SenderFails, acks, server, loop
    <3>2. CASE credit' = credit + ask
      <4>1. Window' = Window
        BY <1>0, <3>1, <3>2 DEF Window
      <4> QED
        BY <1>1, <3>1, <4>1
    <3>3. CASE credit' = credit /\ ask # 0
      <4>1. Window' \in Nat /\ Window' <= Window
        BY <1>0, <3>1, <3>3 DEF Window
      <4> QED
        BY <3>1, <3>3, <4>1, SlotsKept DEF StreamCtxDone
    <3> QED
      BY <1>0, <3>1, <3>2, <3>3
  <2> QED
    BY <1>5, <2>1, <2>2, <2>3 DEF SenderSteps
<1>6. CASE ReceiverSteps
  <2>1. CASE ReceiverRecvs
    <3>1. PICK k \in 1..Len(wire) :
            batch' = SubSeq(wire, 1, k) /\ wire' = SubSeq(wire, k + 1, Len(wire))
      BY <2>1 DEF ReceiverRecvs
    <3>2. Len(batch') = k
      BY <1>0, <3>1, SubSeqProperties
    <3>3. Len(wire') = Len(wire) - k
      BY <1>0, <3>1, SubSeqProperties
    <3>4. Len(batch) = 0 /\ k \in Nat
      BY <1>0, <2>1 DEF ReceiverRecvs
    <3>5. UNCHANGED <<credit, out, working, pendingAck, ask>>
      BY <2>1 DEF ReceiverRecvs, acks
    <3>6. Window' = Window
      BY <1>0, <3>2, <3>3, <3>4, <3>5 DEF Window
    <3> QED
      BY <1>1, <2>1, <3>6 DEF ReceiverRecvs, loop
  <2>2. CASE ReceiverFails
    BY <1>1, <2>2 DEF ReceiverFails, acks, server, loop, Window
  <2>3. CASE Emit
    <3>1. Len(out') = Len(out) + 1 /\ Len(batch') = Len(batch) - 1
      BY <1>0, <2>3 DEF Emit
    <3>2. Window' = Window
      BY <1>0, <2>3, <3>1 DEF Emit, acks, server, Window
    <3> QED
      BY <1>1, <2>3, <3>2 DEF Emit, server, loop
  <2>4. CASE ReceiverStops
    <3>1. Len(batch') = 0
      BY <2>4 DEF ReceiverStops
    <3>2. Window' \in Nat /\ Window' <= Window
      BY <1>0, <2>4, <3>1 DEF ReceiverStops, acks, server, Window
    <3> QED
      BY <2>4, <3>2, SlotsKept DEF ReceiverStops, StreamCtxDone, server, loop
  <2> QED
    BY <1>6, <2>1, <2>2, <2>3, <2>4 DEF ReceiverSteps
<1>7. CASE ConsumerSteps
  <2>1. CASE Take
    <3>1. Len(out') = Len(out) - 1
      BY <1>0, <2>1 DEF Take
    <3>2. Window' = Window
      BY <1>0, <2>1, <3>1 DEF Take, server, Window
    <3> QED
      BY <1>1, <2>1, <3>2 DEF Take, server, loop
  <2>2. CASE AckAdds
    <3>1. Window' = Window
      BY <1>0, <2>2 DEF AckAdds, server, Window
    <3> QED
      BY <1>1, <2>2, <3>1 DEF AckAdds, server, loop
  <2>3. CASE AckWakes
    BY <1>1, <2>3 DEF AckWakes, server, loop, Window
  <2> QED
    BY <1>7, <2>1, <2>2, <2>3 DEF ConsumerSteps
<1> QED
  BY <1>2, <1>3, <1>4, <1>5, <1>6, <1>7 DEF Next, Terminated

(* A working stream has BatchSize events in its window at least, whatever was
   lost with earlier streams, and BatchSize times the streams opened at most. *)
THEOREM WindowBoundsHolds == Spec => []WindowBounds
<1>1. Init => WindowOK
  BY DEF Init, WindowOK, Window
<1>2. WindowOK => WindowBounds
  BY DEF WindowOK, WindowBounds
<1> QED
  BY <1>1, <1>2, NextWindow, ControlInvariantHolds, PTL DEF Spec

-----------------------------------------------------------------------------
(* The order of the events *)

\* What is left of a response and what is on the wire are the events from there
\* up to the last one sent.
StreamOK ==
  /\ Front >= 0
  /\ \A i \in 1..Len(wire) : wire[i] = sent - Len(wire) + i
  /\ \A i \in 1..Len(batch) : batch[i] = Front + i
  /\ Len(emitted) # 0 => Front = lastReplayID
  /\ Len(emitted) = 0 /\ cursor # NoReplay => Front = cursor

OrderOK ==
  /\ StreamOrder
  /\ IF Len(emitted) = 0 THEN lastReplayID = NoReplay
     ELSE lastReplayID = emitted[Len(emitted)].pos /\ lastReplayID # NoReplay
  /\ receiver = "running" => StreamOK

(* Steps that touch neither the stream nor what was emitted. *)
LEMMA OrderKept ==
  ASSUME OrderOK, UNCHANGED <<cursor, sent, wire, batch, emitted, lastReplayID>>,
         receiver' = "running" => receiver = "running"
  PROVE  OrderOK'
  BY DEF OrderOK, StreamOrder, StreamOK, Front

(* Every step preserves the order. *)
LEMMA NextOrder == ControlInvariant /\ OrderOK /\ [Next]_vars => OrderOK'
<1> SUFFICES ASSUME ControlInvariant, OrderOK, [Next]_vars PROVE OrderOK'
  OBVIOUS
<1>0. /\ wire \in Seq(1..MaxEvents) /\ batch \in Seq(1..MaxEvents)
      /\ Len(wire) \in Nat /\ Len(batch) \in Nat /\ sent \in Nat /\ lastReplayID \in Nat
      /\ emitted \in Seq([seq : Nat, pos : Nat]) /\ Len(emitted) \in Nat
      /\ cursor \in Nat /\ published \in Nat
  <2>1. /\ wire \in Seq(1..MaxEvents) /\ batch \in Seq(1..MaxEvents)
        /\ emitted \in Seq([seq : Nat, pos : Nat])
    BY DEF ControlInvariant, TypeOK
  <2> QED
    BY <2>1 DEF ControlInvariant, TypeOK
<1>1. CASE UNCHANGED vars
  BY <1>1, OrderKept DEF vars
<1>2. CASE Environment
  <2>1. CASE Publish \/ StreamBreaks \/ Cancel
    BY <2>1, OrderKept DEF Publish, StreamBreaks, Cancel, server
  <2>2. CASE ServerSends
    <3>1. /\ sent' = sent + 1 /\ wire' = Append(wire, sent + 1)
          /\ UNCHANGED <<cursor, batch, emitted, lastReplayID, receiver>>
      BY <2>2 DEF ServerSends
    <3>2. /\ Len(wire') = Len(wire) + 1 /\ wire'[Len(wire) + 1] = sent + 1
          /\ \A i \in 1..Len(wire) : wire'[i] = wire[i]
      BY <1>0, <3>1
    <3>3. Front' = Front
      BY <1>0, <3>1, <3>2 DEF Front
    <3>4. ASSUME receiver = "running"
          PROVE  \A i \in 1..Len(wire') : wire'[i] = sent' - Len(wire') + i
      <4> SUFFICES ASSUME NEW i \in 1..Len(wire') PROVE wire'[i] = sent' - Len(wire') + i
        OBVIOUS
      <4>1. Len(wire) \in Nat /\ sent \in Nat /\ sent' = sent + 1 /\ Len(wire') = Len(wire) + 1
        BY <1>0, <3>1, <3>2
      <4>2. i \in 1..(Len(wire) + 1)
        BY <4>1
      <4>3. CASE i \in 1..Len(wire)
        <5>1. wire'[i] = sent - Len(wire) + i
          BY <3>2, <3>4, <4>3 DEF OrderOK, StreamOK
        <5> QED
          BY <4>1, <4>2, <5>1
      <4>4. CASE i = Len(wire) + 1
        <5>1. wire'[i] = sent + 1
          BY <3>2, <4>4
        <5> QED
          BY <4>1, <4>4, <5>1
      <4> QED
        BY <4>1, <4>2, <4>3, <4>4
    <3> QED
      BY <3>1, <3>3, <3>4 DEF OrderOK, StreamOrder, StreamOK
  <2> QED
    BY <1>2, <2>1, <2>2 DEF Environment
<1>3. CASE RunSteps
  <2>1. CASE OpenStream
    <3>1. /\ sent' = ResumeAfter /\ wire' = <<>>
          /\ UNCHANGED <<cursor, published, batch, emitted, lastReplayID>>
          /\ batch = <<>>
      BY <2>1 DEF OpenStream, ControlInvariant, Control
    <3>2. Len(wire') = 0 /\ Len(batch') = 0
      BY <3>1
    <3>3. Front' = ResumeAfter
      BY <1>0, <3>1, <3>2 DEF Front, ResumeAfter
    <3>4. /\ ResumeAfter >= 0
          /\ Len(emitted) # 0 => ResumeAfter = lastReplayID
          /\ Len(emitted) = 0 /\ cursor # NoReplay => ResumeAfter = cursor
      BY <1>0 DEF ResumeAfter, OrderOK
    <3>5. StreamOK'
      BY <3>1, <3>2, <3>3, <3>4 DEF StreamOK
    <3> QED
      BY <3>1, <3>5 DEF OrderOK, StreamOrder
  <2>2. CASE OpenFails \/ CancelStream \/ RunOnceReturns \/ BackoffEnds
    BY <2>2, OrderKept DEF OpenFails, CancelStream, RunOnceReturns, BackoffEnds, server
  <2> QED
    BY <1>3, <2>1, <2>2 DEF RunSteps
<1>4. CASE SenderSteps
  BY <1>4, OrderKept DEF SenderSteps, SenderWakes, SenderSwaps, SenderSends, SenderFails,
                         SenderStops, server
<1>5. CASE ReceiverSteps
  <2>1. CASE ReceiverRecvs
    <3>1. PICK k \in 1..Len(wire) :
            batch' = SubSeq(wire, 1, k) /\ wire' = SubSeq(wire, k + 1, Len(wire))
      BY <2>1 DEF ReceiverRecvs
    <3>2. /\ UNCHANGED <<cursor, sent, emitted, lastReplayID, receiver>>
          /\ receiver = "running" /\ Len(batch) = 0 /\ StreamOK
      BY <1>0, <2>1 DEF ReceiverRecvs, OrderOK
    <3>3. Len(batch') = k /\ \A i \in 1..k : batch'[i] = wire[i]
      <4>1. \A i \in 1..k : wire[i] \in 1..MaxEvents
        BY <1>0, <3>1
      <4>2. /\ Len(SubSeq(wire, 1, k)) = IF 1 <= k THEN k - 1 + 1 ELSE 0
            /\ \A i \in 1..(k - 1 + 1) : SubSeq(wire, 1, k)[i] = wire[1 + i - 1]
        BY <4>1, SubSeqProperties
      <4> QED
        BY <1>0, <3>1, <4>2
    <3>4. /\ Len(wire') = Len(wire) - k
          /\ \A i \in 1..(Len(wire) - k) : wire'[i] = wire[k + i]
      <4>1. \A i \in (k + 1)..Len(wire) : wire[i] \in 1..MaxEvents
        BY <1>0, <3>1
      <4>2. /\ Len(wire') = IF k + 1 <= Len(wire) THEN Len(wire) - (k + 1) + 1 ELSE 0
            /\ \A i \in 1..(Len(wire) - (k + 1) + 1) : wire'[i] = wire[(k + 1) + i - 1]
        BY <1>0, <3>1, <4>1, SubSeqProperties
      <4>3. Len(wire) \in Nat /\ k \in Nat /\ 1 <= k /\ k <= Len(wire)
        BY WindowParts, <3>1
      <4>4. Len(wire') = Len(wire) - k
        BY <4>2, <4>3
      <4>5. ASSUME NEW i \in 1..(Len(wire) - k) PROVE wire'[i] = wire[k + i]
        <5>1. i \in 1..(Len(wire) - (k + 1) + 1) /\ (k + 1) + i - 1 = k + i
          BY <4>3
        <5> QED
          BY Zenon, <4>2, <5>1
      <4> QED
        BY Zenon, <4>4, <4>5
    <3>5. Front' = Front /\ Front = sent - Len(wire)
      BY <1>0, <3>2, <3>3, <3>4 DEF Front
    <3>6. \A i \in 1..Len(batch') : batch'[i] = Front' + i
      BY <1>0, <3>1, <3>2, <3>3, <3>5 DEF StreamOK
    <3>7. \A i \in 1..Len(wire') : wire'[i] = sent' - Len(wire') + i
      <4> SUFFICES ASSUME NEW i \in 1..Len(wire') PROVE wire'[i] = sent' - Len(wire') + i
        OBVIOUS
      <4>1. Len(wire) \in Nat /\ sent \in Nat /\ sent' = sent /\ Len(wire') = Len(wire) - k
        BY <1>0, <3>2, <3>4
      <4>2. i \in 1..(Len(wire) - k) /\ k \in 1..Len(wire)
        BY <4>1
      <4>3. k + i \in 1..Len(wire)
        BY <4>1, <4>2
      <4>4. wire'[i] = sent - Len(wire) + (k + i)
        BY <3>2, <3>4, <4>2, <4>3 DEF StreamOK
      <4> QED
        BY <4>1, <4>2, <4>4
    <3> QED
      BY <3>2, <3>5, <3>6, <3>7 DEF OrderOK, StreamOrder, StreamOK
  <2>2. CASE ReceiverFails
    BY <2>2, OrderKept DEF ReceiverFails, server
  <2>3. CASE ReceiverStops
    <3>1. UNCHANGED <<emitted, cursor, lastReplayID>> /\ receiver' = "returned"
      BY <2>3 DEF ReceiverStops, server
    <3> QED
      BY <3>1 DEF OrderOK, StreamOrder
  <2>4. CASE Emit
    <3> DEFINE e == [seq |-> Len(emitted) + 1, pos |-> batch[1]]
    <3>1. /\ batch # <<>> /\ batch' = Tail(batch) /\ emitted' = Append(emitted, e)
          /\ lastReplayID' = batch[1] /\ StreamOK
          /\ UNCHANGED <<cursor, sent, wire, receiver>>
      BY <1>0, <2>4 DEF Emit, server, OrderOK
    <3>2. /\ Len(batch') = Len(batch) - 1 /\ Len(batch) > 0
          /\ \A i \in 1..Len(batch') : batch'[i] = batch[i + 1]
      BY <1>0, <3>1
    <3>3. batch[1] = Front + 1 /\ Front' = Front + 1 /\ Front \in Nat
      BY <1>0, <3>1, <3>2 DEF StreamOK, Front
    <3>4. e.seq = Len(emitted) + 1 /\ e.pos = Front + 1 /\ e \in [seq : Nat, pos : Nat]
      BY <1>0, <3>3
    <3> HIDE DEF e
    <3>5. /\ Len(emitted') = Len(emitted) + 1 /\ emitted'[Len(emitted) + 1] = e
          /\ \A i \in 1..Len(emitted) : emitted'[i] = emitted[i]
      BY <1>0, <3>1, <3>4
    <3>6. StreamOK'
      <4>1. \A i \in 1..Len(batch') : batch'[i] = Front' + i
        <5> SUFFICES ASSUME NEW i \in 1..Len(batch') PROVE batch'[i] = Front' + i
          OBVIOUS
        <5>1. i + 1 \in 1..Len(batch) /\ batch'[i] = batch[i + 1]
          BY <1>0, <3>2
        <5>2. batch[i + 1] = Front + (i + 1)
          BY <3>1, <5>1 DEF StreamOK
        <5> QED
          BY <1>0, <3>2, <3>3, <5>1, <5>2
      <4> QED
        BY <1>0, <3>1, <3>3, <3>5, <4>1 DEF StreamOK
    <3>7. StreamOrder'
      <4> SUFFICES ASSUME NEW i \in 1..Len(emitted')
                   PROVE  /\ emitted'[i].seq = i
                          /\ i > 1 => emitted'[i].pos = emitted'[i - 1].pos + 1
                          /\ i = 1 /\ cursor # NoReplay => emitted'[i].pos = cursor + 1
        BY <3>1 DEF StreamOrder
      <4>1. CASE i \in 1..Len(emitted)
        <5>1. i > 1 => i - 1 \in 1..Len(emitted)
          BY <1>0, <4>1
        <5> QED
          BY <3>5, <4>1, <5>1 DEF OrderOK, StreamOrder
      <4>2. CASE i = Len(emitted) + 1
        <5>1. i > 1 => /\ Len(emitted) # 0 /\ i - 1 = Len(emitted) /\ i - 1 \in 1..Len(emitted)
          BY <1>0, <4>2
        <5>2. i > 1 => emitted'[i - 1].pos = lastReplayID /\ Front = lastReplayID
          BY <3>1, <3>5, <5>1 DEF OrderOK, StreamOK
        <5>3. i = 1 /\ cursor # NoReplay => Front = cursor
          BY <1>0, <3>1, <4>2 DEF StreamOK
        <5> QED
          BY <3>4, <3>5, <4>2, <5>2, <5>3
      <4> QED
        BY <1>0, <3>5, <4>1, <4>2
    <3> QED
      BY <1>0, <3>1, <3>3, <3>4, <3>5, <3>6, <3>7 DEF OrderOK
  <2> QED
    BY <1>5, <2>1, <2>2, <2>3, <2>4 DEF ReceiverSteps
<1>6. CASE ConsumerSteps
  BY <1>6, OrderKept DEF ConsumerSteps, Take, AckAdds, AckWakes, server
<1> QED
  BY <1>1, <1>2, <1>3, <1>4, <1>5, <1>6 DEF Next, Terminated

(* What a subscriber puts on out is numbered from 1 and skips, repeats and
   reorders nothing, over any number of broken streams and resumes. *)
THEOREM StreamOrderHolds == Spec => []StreamOrder
<1>1. Init => OrderOK
  BY DEF Init, OrderOK, StreamOrder
<1>2. OrderOK => StreamOrder
  BY DEF OrderOK
<1> QED
  BY <1>1, <1>2, NextOrder, ControlInvariantHolds, PTL DEF Spec

-----------------------------------------------------------------------------
(* The stream that the rest of the service sees *)

\* The server sends what was published, and so no position is ahead of it.
PublishedOK ==
  /\ Tip <= published /\ sent <= published /\ lastReplayID <= published
  /\ cursor \in Nat /\ cursor <= published

(* A response moves events from the wire to the receiver. *)
LEMMA RecvKeepsFront ==
  ASSUME ControlInvariant, ReceiverRecvs
  PROVE  Front' = Front
<1>0. Len(wire) \in Nat /\ wire \in Seq(1..MaxEvents) /\ sent \in Nat
  BY WindowParts DEF ControlInvariant, TypeOK
<1>1. PICK k \in 1..Len(wire) :
        batch' = SubSeq(wire, 1, k) /\ wire' = SubSeq(wire, k + 1, Len(wire))
  BY DEF ReceiverRecvs
<1>2. Len(batch') = k
  BY <1>0, <1>1, SubSeqProperties
<1>3. Len(wire') = Len(wire) - k
  BY <1>0, <1>1, SubSeqProperties
<1>4. Len(batch) = 0 /\ sent' = sent
  BY DEF ReceiverRecvs
<1> QED
  BY <1>0, <1>2, <1>3, <1>4 DEF Front

(* The event that is emitted is the one after the front. *)
LEMMA EmitMovesFront ==
  ASSUME ControlInvariant, OrderOK, Emit
  PROVE  /\ Front \in Nat /\ Front' = Front + 1 /\ Front + 1 <= sent
         /\ Head(batch) = Front + 1
<1>0. /\ Len(wire) \in Nat /\ Len(batch) \in Nat /\ sent \in Nat
      /\ batch \in Seq(1..MaxEvents)
  BY WindowParts DEF ControlInvariant, TypeOK
<1>1. /\ batch # <<>> /\ batch' = Tail(batch) /\ UNCHANGED <<sent, wire>> /\ StreamOK
  BY DEF Emit, server, OrderOK
<1>2. Len(batch') = Len(batch) - 1 /\ Len(batch) > 0 /\ Head(batch) = batch[1]
  BY <1>0, <1>1
<1>3. batch[1] = Front + 1 /\ Front >= 0
  BY <1>0, <1>1, <1>2 DEF StreamOK
<1> QED
  BY <1>0, <1>1, <1>2, <1>3 DEF Front

(* Every step keeps the positions below what was published. *)
LEMMA NextPublished ==
  ControlInvariant /\ OrderOK /\ PublishedOK /\ [Next]_vars => PublishedOK'
<1> SUFFICES ASSUME ControlInvariant, OrderOK, PublishedOK, [Next]_vars PROVE PublishedOK'
  OBVIOUS
<1>0. /\ sent \in Nat /\ published \in Nat /\ lastReplayID \in Nat /\ Tip \in Nat
      /\ cursor \in Nat /\ cursor <= Tip
  BY DEF ControlInvariant, TypeOK
<1>1. ASSUME UNCHANGED <<cursor, published, sent, lastReplayID>> PROVE PublishedOK'
  BY <1>1 DEF PublishedOK
<1>2. CASE Publish
  BY <1>0, <1>2 DEF Publish, PublishedOK
<1>3. CASE ServerSends
  BY <1>0, <1>3 DEF ServerSends, PublishedOK
<1>4. CASE OpenStream
  <2>1. ResumeAfter <= published
    BY <1>0 DEF ResumeAfter, PublishedOK
  <2> QED
    BY <1>0, <1>4, <2>1 DEF OpenStream, PublishedOK
<1>5. CASE Emit
  <2>1. lastReplayID' = Front + 1 /\ Front + 1 <= sent /\ Front \in Nat
    BY <1>5, EmitMovesFront DEF Emit
  <2>2. UNCHANGED <<cursor, published, sent>>
    BY <1>5 DEF Emit, server
  <2> QED
    BY <1>0, <2>1, <2>2 DEF PublishedOK
<1>6. CASE StreamBreaks \/ Cancel
  BY <1>1, <1>6 DEF StreamBreaks, Cancel, server
<1>7. CASE OpenFails \/ CancelStream \/ RunOnceReturns \/ BackoffEnds
  BY <1>1, <1>7 DEF OpenFails, CancelStream, RunOnceReturns, BackoffEnds, server
<1>8. CASE SenderSteps
  BY <1>1, <1>8 DEF SenderSteps, SenderWakes, SenderSwaps, SenderSends, SenderFails,
                    SenderStops, server
<1>9. CASE ReceiverRecvs \/ ReceiverFails \/ ReceiverStops
  BY <1>1, <1>9 DEF ReceiverRecvs, ReceiverFails, ReceiverStops, server
<1>10. CASE ConsumerSteps
  BY <1>1, <1>10 DEF ConsumerSteps, Take, AckAdds, AckWakes, server
<1>11. CASE UNCHANGED vars
  BY <1>1, <1>11 DEF vars
<1> QED
  BY <1>2, <1>3, <1>4, <1>5, <1>6, <1>7, <1>8, <1>9, <1>10, <1>11
     DEF Next, Environment, RunSteps, ReceiverSteps, Terminated

\* The last event emitted, as TopicStream shows it.
Latest == IF emitted = <<>> THEN [seq |-> 0, pos |-> 0] ELSE emitted[Len(emitted)]

(* The resume position is the last event emitted. *)
LEMMA LatestIsLastReplayID ==
  ASSUME ControlInvariant, OrderOK
  PROVE  Latest.pos = lastReplayID /\ Latest.seq = Len(emitted)
<1>1. emitted \in Seq([seq : Nat, pos : Nat]) /\ Len(emitted) \in Nat
  <2>1. emitted \in Seq([seq : Nat, pos : Nat])
    BY DEF ControlInvariant, TypeOK
  <2> QED
    BY <2>1
<1>2. CASE emitted = <<>>
  BY <1>2 DEF Latest, OrderOK
<1>3. CASE emitted # <<>>
  <2>1. Len(emitted) # 0 /\ Len(emitted) \in 1..Len(emitted)
    BY <1>1, <1>3
  <2> QED
    BY <1>3, <2>1 DEF Latest, OrderOK, StreamOrder
<1> QED
  BY <1>2, <1>3

(* Every step of the subscriber is a step of the stream, or none. *)
LEMMA StreamStep ==
  ControlInvariant /\ OrderOK /\ PublishedOK /\ [Next]_vars => [Stream!Next]_(Stream!vars)
<1> SUFFICES ASSUME ControlInvariant, OrderOK, PublishedOK, [Next]_vars
             PROVE  [Stream!Next]_(Stream!vars)
  OBVIOUS
<1> USE DEF Latest
<1>0. /\ sent \in Nat /\ published \in Nat /\ cursor \in Nat
      /\ receiver \in {"running", "returned"}
  BY DEF ControlInvariant, TypeOK
<1>1. ASSUME UNCHANGED <<cursor, published, sent, wire, batch, receiver, emitted>>
      PROVE  [Stream!Next]_(Stream!vars)
  BY <1>1, Zenon DEF Stream!vars, Front
<1>2. CASE Publish
  <2>1. /\ published' = published + 1
        /\ UNCHANGED <<cursor, sent, wire, batch, receiver, emitted>>
    BY <1>2 DEF Publish
  <2> QED
    BY <2>1, Zenon DEF Stream!Next, Stream!Publish, Front
<1>3. CASE ServerSends
  <2>1. sent' = sent + 1 /\ wire' = Append(wire, sent + 1) /\ wire \in Seq(1..MaxEvents)
    BY <1>3 DEF ServerSends, ControlInvariant, TypeOK
  <2>2. Len(wire') = Len(wire) + 1 /\ Len(wire) \in Nat /\ Len(batch) \in Nat /\ batch' = batch
    BY <1>3, <2>1, WindowParts DEF ServerSends
  <2>3. Front' = Front
    BY <1>0, <2>1, <2>2 DEF Front
  <2>4. UNCHANGED <<cursor, published, receiver, emitted>>
    BY <1>3 DEF ServerSends
  <2> QED
    BY <2>3, <2>4, Zenon DEF Stream!vars
<1>4. CASE OpenStream
  <2>1. /\ receiver = "returned" /\ receiver' = "running" /\ batch = <<>>
        /\ sent' = ResumeAfter /\ wire' = <<>>
        /\ UNCHANGED <<cursor, published, batch, emitted>>
    BY <1>4 DEF OpenStream, ControlInvariant, Control
  <2>2. Front' = ResumeAfter
    <3>1. Len(wire') = 0 /\ Len(batch') = 0 /\ ResumeAfter \in Nat
      BY <1>0, <2>1 DEF ResumeAfter, ControlInvariant, TypeOK
    <3> QED
      BY <2>1, <3>1 DEF Front
  <2>3. ResumeAfter = Stream!ResumeAfter
    BY LatestIsLastReplayID DEF ResumeAfter, Stream!ResumeAfter
  <2> QED
    BY <2>1, <2>2, <2>3, Zenon DEF Stream!Next, Stream!Connect
<1>5. CASE Emit
  <2> DEFINE e == [seq |-> Len(emitted) + 1, pos |-> Front + 1]
  <2>1. /\ receiver = "running" /\ UNCHANGED <<cursor, published, receiver>>
        /\ emitted' = Append(emitted, e)
    BY <1>5, EmitMovesFront DEF Emit, server
  <2>2. Front' = Front + 1 /\ Front < published
    BY <1>0, <1>5, EmitMovesFront DEF PublishedOK
  <2>3. emitted \in Seq([seq : Nat, pos : Nat]) /\ e \in [seq : Nat, pos : Nat]
    <3>1. emitted \in Seq([seq : Nat, pos : Nat]) /\ Front \in Nat
      BY <1>5, EmitMovesFront DEF ControlInvariant, TypeOK
    <3> QED
      BY <3>1
  <2>4. e = [seq |-> Latest.seq + 1, pos |-> Front + 1]
    BY LatestIsLastReplayID
  <2> HIDE DEF e, Latest
  <2>5. Latest' = e
    <3>1. Len(emitted') = Len(emitted) + 1 /\ emitted'[Len(emitted) + 1] = e /\ emitted' # <<>>
      BY <2>1, <2>3
    <3> QED
      BY <3>1 DEF Latest
  <2>6. Stream!Emit
    BY <2>1, <2>2, <2>4, <2>5, Zenon DEF Stream!Emit, Latest
  <2> QED
    BY <2>6 DEF Stream!Next
<1>6. CASE ReceiverRecvs
  <2>1. Front' = Front /\ UNCHANGED <<cursor, published, receiver, emitted>>
    BY <1>6, RecvKeepsFront DEF ReceiverRecvs
  <2> QED
    BY <2>1, Zenon DEF Stream!vars
<1>7. CASE ReceiverFails \/ ReceiverStops
  <2>1. /\ receiver = "running" /\ receiver' = "returned"
        /\ UNCHANGED <<cursor, published, emitted>>
    BY <1>7 DEF ReceiverFails, ReceiverStops, server
  <2> QED
    BY <2>1, Zenon DEF Stream!Next, Stream!Disconnect
<1>8. CASE StreamBreaks \/ Cancel \/ UNCHANGED vars
  BY <1>1, <1>8 DEF StreamBreaks, Cancel, server, vars
<1>9. CASE OpenFails \/ CancelStream \/ RunOnceReturns \/ BackoffEnds
  BY <1>1, <1>9 DEF OpenFails, CancelStream, RunOnceReturns, BackoffEnds, server
<1>10. CASE SenderSteps
  BY <1>1, <1>10 DEF SenderSteps, SenderWakes, SenderSwaps, SenderSends, SenderFails,
                     SenderStops, server
<1>11. CASE ConsumerSteps
  BY <1>1, <1>11 DEF ConsumerSteps, Take, AckAdds, AckWakes, server
<1> QED
  BY <1>2, <1>3, <1>4, <1>5, <1>6, <1>7, <1>8, <1>9, <1>10, <1>11
     DEF Next, Environment, RunSteps, ReceiverSteps, Terminated

(* A subscriber is the stream that Pipeline takes it for: emitting maps to Emit,
   the start and the end of the receiver to Connect and Disconnect. *)
THEOREM SubscriberImplementsTopicStream == Spec => ImplementsTopicStream
<1>1. Init => OrderOK /\ PublishedOK /\ Stream!Init
  <2> SUFFICES ASSUME Init PROVE OrderOK /\ PublishedOK /\ Stream!Init
    OBVIOUS
  <2>1. cursor \in 0..Tip /\ published = Tip /\ sent = 0 /\ lastReplayID = 0 /\ emitted = <<>>
    BY DEF Init
  <2>2. OrderOK
    BY DEF Init, OrderOK, StreamOrder
  <2>3. PublishedOK
    BY <2>1 DEF PublishedOK
  <2>4. Stream!Init
    BY <2>1 DEF Init, Stream!Init, Stream!None
  <2> QED
    BY <2>2, <2>3, <2>4
<1> QED
  BY <1>1, NextOrder, NextPublished, StreamStep, ControlInvariantHolds, PTL
     DEF Spec, ImplementsTopicStream, Stream!Spec

-----------------------------------------------------------------------------
(* The delays of module Backoff *)

(* A number with a digit above all digits of another is not the smaller one. *)
LEMMA HigherDigit ==
  ASSUME NEW x \in SUBSET Int, NEW y \in SUBSET Int, NEW m \in y, \A i \in x : i < m
  PROVE  ~Exceeds(x, y)
<1> SUFFICES ASSUME NEW i \in x \ y, \A j \in y \ x : j < i PROVE FALSE
  BY DEF Exceeds
<1>1. m \notin x /\ i < m /\ i \in Int /\ m \in Int
  OBVIOUS
<1>2. m < i
  BY <1>1
<1> QED
  BY <1>1, <1>2

(* A number does not exceed itself. *)
LEMMA NotAboveItself == ASSUME NEW x PROVE ~Exceeds(x, x)
BY DEF Exceeds

(* A shift moves every digit up, and loses those above the sign. *)
LEMMA ShiftedDigits ==
  ASSUME NEW x \in SUBSET Nat, NEW k \in Nat
  PROVE  /\ Shifted(x, k) \in SUBSET (0..54)
         /\ \A i \in x : i + k <= 54 => i + k \in Shifted(x, k)
         /\ \A n : n \in Shifted(x, k) => n - k \in x
<1>1. Shifted(x, k) \in SUBSET (0..54)
  BY DEF Shifted, SignBit
<1>2. \A i \in x : i + k <= 54 => i + k \in Shifted(x, k)
  BY DEF Shifted, SignBit
<1>3. \A n : n \in Shifted(x, k) => n - k \in x
  <2> SUFFICES ASSUME NEW n \in Shifted(x, k) PROVE n - k \in x
    OBVIOUS
  <2>1. PICK i \in x : n = i + k
    BY DEF Shifted
  <2>2. i \in Nat /\ n - k = i
    BY <2>1
  <2> QED
    BY <2>2
<1> QED
  BY <1>1, <1>2, <1>3

(* A shift by nothing changes nothing. *)
LEMMA ShiftedByZero == ASSUME NEW x \in SUBSET (0..54) PROVE Shifted(x, 0) = x
<1>1. x \in SUBSET Nat /\ 0 \in Nat
  OBVIOUS
<1>2. /\ Shifted(x, 0) \in SUBSET (0..54)
      /\ \A i \in x : i + 0 <= 54 => i + 0 \in Shifted(x, 0)
      /\ \A n : n \in Shifted(x, 0) => n - 0 \in x
  BY <1>1, ShiftedDigits
<1> DEFINE d == Shifted(x, 0)
<1> HIDE DEF d
<1>3. d \in SUBSET (0..54) /\ (\A i \in x : i + 0 <= 54 => i + 0 \in d) /\ \A n : n \in d => n - 0 \in x
  BY <1>2 DEF d
<1>4. \A i \in x : i \in d
  BY <1>3
<1>5. \A i \in d : i \in x
  BY <1>3
<1> QED
  BY <1>4, <1>5 DEF d

(* The lowest and highest digits of the constants. *)
LEMMA DelayDigits ==
  /\ Second \in SUBSET (0..20) /\ 0 \in Second /\ 20 \in Second /\ 18 \in Second
  /\ HalfMinute \in SUBSET (0..25) /\ 25 \in HalfMinute
  /\ TenthSecond \in SUBSET (0..6) /\ 6 \in TenthSecond
  /\ FiveSeconds \in SUBSET (0..12) /\ 12 \in FiveSeconds
BY DEF Second, HalfMinute, TenthSecond, FiveSeconds

(* The first five delays are the shifted second. *)
LEMMA EarlyDelay ==
  ASSUME NEW a \in 0..4
  PROVE  /\ ReconnectDelay(a) = Shifted(Second, a)
         /\ Shifted(Second, a) \in SUBSET (0..(20 + a)) /\ 20 + a \in Shifted(Second, a)
<1> DEFINE d == Shifted(Second, a)
<1>0. /\ d \in SUBSET (0..54)
      /\ \A i \in Second : i + a <= 54 => i + a \in d
      /\ \A n : n \in d => n - a \in Second
  <2>1. Second \in SUBSET Nat /\ a \in Nat
    BY DelayDigits
  <2> QED
    BY <2>1, ShiftedDigits
<1> HIDE DEF d
<1>1. 20 + a \in d
  BY <1>0, DelayDigits
<1>2. d \in SUBSET (0..(20 + a))
  BY <1>0, DelayDigits
<1>3. ~Exceeds(d, HalfMinute)
  <2>1. d \in SUBSET Int /\ HalfMinute \in SUBSET Int /\ 25 \in HalfMinute /\ \A i \in d : i < 25
    BY <1>2, DelayDigits
  <2> QED
    BY <2>1, HigherDigit
<1>4. ~Negative(d)
  BY <1>2 DEF Negative, SignBit
<1>5. d # {}
  BY <1>1
<1>6. ReconnectDelay(a) = d
  BY <1>3, <1>4, <1>5, Zenon DEF ReconnectDelay, d
<1> QED
  BY <1>1, <1>2, <1>6 DEF d

(* From the fifth attempt on the shifted second is too long, negative or lost. *)
LEMMA LateDelay ==
  ASSUME NEW a \in Nat, a >= 5
  PROVE  ReconnectDelay(a) = HalfMinute
<1> DEFINE d == Shifted(Second, a)
<1>1. /\ d \in SUBSET (0..54)
      /\ \A i \in Second : i + a <= 54 => i + a \in d
      /\ \A n : n \in d => n - a \in Second
  <2>1. Second \in SUBSET Nat
    BY DelayDigits
  <2> QED
    BY <2>1, ShiftedDigits
<1> HIDE DEF d
<1>2. CASE a >= 55
  <2>1. d = {}
    BY <1>1, <1>2, DelayDigits
  <2> QED
    BY <2>1, Zenon DEF ReconnectDelay, d
<1>3. ASSUME NEW i \in d \ HalfMinute, \A j \in HalfMinute \ d : j < i
      PROVE  ReconnectDelay(a) = HalfMinute
  BY <1>3, Zenon DEF ReconnectDelay, Exceeds, d
<1>4. CASE a \in 26..54
  <2>1. a \in d
    <3>1. 0 + a <= 54 /\ 0 + a = a /\ 0 \in Second
      BY <1>4, DelayDigits
    <3> QED
      BY <1>1, <3>1
  <2>2. a \in d \ HalfMinute /\ \A j \in HalfMinute \ d : j < a
    BY <2>1, <1>4, DelayDigits
  <2> QED
    BY <2>2, <1>3
<1>5. CASE a \in 6..25
  <2>1. 20 + a \in d
    BY <1>1, <1>5, DelayDigits
  <2>2. 20 + a \in d \ HalfMinute /\ \A j \in HalfMinute \ d : j < 20 + a
    BY <2>1, <1>5, DelayDigits
  <2> QED
    BY <2>2, <1>3
<1>6. CASE a = 5
  <2>1. 24 \in d /\ 25 \in d /\ 23 \in d
    <3>1. 18 \in Second /\ 19 \in Second /\ 20 \in Second
      BY DEF Second
    <3>2. 18 + a = 23 /\ 19 + a = 24 /\ 20 + a = 25
      BY <1>6
    <3> QED
      BY <1>1, <3>1, <3>2
  <2>2. 23 \in d \ HalfMinute
    BY <2>1 DEF HalfMinute
  <2>3. \A j \in HalfMinute \ d : j < 23
    BY <2>1 DEF HalfMinute
  <2> QED
    BY <2>2, <2>3, <1>3
<1> QED
  BY <1>2, <1>4, <1>5, <1>6

(* The delays of reconnectDelay grow, however large the attempt. *)
LEMMA ReconnectDelaysGrow == Grow(ReconnectDelay, MaxAttempt, Second, HalfMinute)
<1>1. ASSUME NEW a \in Nat
      PROVE  /\ ~Negative(ReconnectDelay(a)) /\ ~Exceeds(ReconnectDelay(a), HalfMinute)
             /\ ~Exceeds(ReconnectDelay(a), ReconnectDelay(a + 1))
  <2>1. CASE a \in 0..3
    <3>1. /\ ReconnectDelay(a) \in SUBSET (0..(20 + a))
          /\ ReconnectDelay(a + 1) \in SUBSET (0..(21 + a))
          /\ 21 + a \in ReconnectDelay(a + 1)
      BY <2>1, EarlyDelay, a + 1 \in 0..4, 20 + (a + 1) = 21 + a
    <3> QED
      BY <2>1, <3>1, HigherDigit, DelayDigits DEF Negative, SignBit
  <2>2. CASE a = 4
    <3>1. ReconnectDelay(a) \in SUBSET (0..24) /\ ReconnectDelay(a + 1) = HalfMinute
      BY <2>2, EarlyDelay, LateDelay
    <3> QED
      BY <3>1, HigherDigit, DelayDigits DEF Negative, SignBit
  <2>3. CASE a >= 5
    <3>1. ReconnectDelay(a) = HalfMinute /\ ReconnectDelay(a + 1) = HalfMinute
      BY <2>3, LateDelay
    <3> QED
      BY <3>1, NotAboveItself, DelayDigits DEF Negative, SignBit
  <2> QED
    BY <2>1, <2>2, <2>3
<1>2. ReconnectDelay(0) = Second
  <2>1. Shifted(Second, 0) = Second
    <3>1. Second \in SUBSET (0..54)
      BY DelayDigits
    <3> QED
      BY <3>1, ShiftedByZero
  <2> QED
    BY <2>1, EarlyDelay
<1> QED
  BY <1>1, <1>2, BackoffAssumption DEF Grow

(* The delays of backoffDelay grow, over the attempts the interceptor makes. *)
LEMMA BackoffDelaysGrow == Grow(BackoffDelay, 3, TenthSecond, FiveSeconds)
<1>1. ASSUME NEW a \in 0..3
      PROVE  /\ BackoffDelay(a) = Shifted(TenthSecond, a)
             /\ BackoffDelay(a) \in SUBSET (0..(6 + a)) /\ 6 + a \in BackoffDelay(a)
             /\ ~Exceeds(BackoffDelay(a), FiveSeconds) /\ ~Negative(BackoffDelay(a))
  <2> DEFINE d == Shifted(TenthSecond, a)
  <2>1. /\ d \in SUBSET (0..54)
        /\ \A i \in TenthSecond : i + a <= 54 => i + a \in d
        /\ \A n : n \in d => n - a \in TenthSecond
    <3>1. TenthSecond \in SUBSET Nat /\ a \in Nat
      BY DelayDigits
    <3> QED
      BY <3>1, ShiftedDigits
  <2> HIDE DEF d
  <2>2. d \in SUBSET (0..(6 + a)) /\ 6 + a \in d
    BY <2>1, DelayDigits
  <2>3. ~Exceeds(d, FiveSeconds)
    <3>1. d \in SUBSET Int /\ FiveSeconds \in SUBSET Int /\ 12 \in FiveSeconds /\ \A i \in d : i < 12
      BY <2>2, DelayDigits
    <3> QED
      BY <3>1, HigherDigit
  <2>4. BackoffDelay(a) = d
    BY <2>3, Zenon DEF BackoffDelay, d
  <2> QED
    BY <2>2, <2>3, <2>4 DEF d, Negative, SignBit
<1>2. ASSUME NEW a \in 0..2
      PROVE  ~Exceeds(BackoffDelay(a), BackoffDelay(a + 1))
  <2>1. /\ BackoffDelay(a) \in SUBSET (0..(6 + a)) /\ BackoffDelay(a + 1) \in SUBSET (0..(7 + a))
        /\ 7 + a \in BackoffDelay(a + 1)
    BY <1>1, a + 1 \in 0..3, 6 + (a + 1) = 7 + a
  <2> QED
    BY <2>1, HigherDigit
<1>3. BackoffDelay(0) = TenthSecond
  <2>1. Shifted(TenthSecond, 0) = TenthSecond
    <3>1. TenthSecond \in SUBSET (0..54)
      BY DelayDigits
    <3> QED
      BY <3>1, ShiftedByZero
  <2> QED
    BY <2>1, <1>1
<1> QED
  BY <1>1, <1>2, <1>3 DEF Grow

(* The delays of all three loops are in order. *)
LEMMA DelaysGrow == DelaysGrowToTheMaximum
<1>1. RetryMinDelay \in Nat /\ RetryMaxDelay \in Nat
  BY DEF RetryMinDelay, RetryMaxDelay
<1>2. \A d \in RetryMinDelay..RetryMaxDelay : NextRetryDelay(d) \in d..RetryMaxDelay
  BY <1>1 DEF NextRetryDelay
<1> QED
  BY <1>2, ReconnectDelaysGrow, BackoffDelaysGrow, Zenon DEF DelaysGrowToTheMaximum

(* Whenever Run waits, after any number of attempts, the delays are in order. *)
THEOREM DelaysInOrderHolds == Spec => []DelaysInOrder
<1>1. DelaysInOrder
  BY DelaysGrow DEF DelaysInOrder
<1> QED
  BY <1>1, PTL

(* Every variable keeps its type, and between streams the receiver is gone. *)
THEOREM SubscriberTypeOK == Spec => []TypeOK
<1>1. ControlInvariant => TypeOK
  BY DEF ControlInvariant
<1> QED
  BY <1>1, ControlInvariantHolds, PTL
=============================================================================
