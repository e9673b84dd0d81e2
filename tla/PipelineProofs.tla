--------------------------- MODULE PipelineProofs ---------------------------
(***************************************************************************)
(* Proofs about Pipeline, for any topics, workers, channel capacities,     *)
(* number of events and number of stops.                                   *)
(*                                                                         *)
(* Sequence numbers start again with every process, replay positions do    *)
(* not.  What ties them together is that a process receives a topic        *)
(* without holes after the position it resumed from, so that sequence      *)
(* number s is position Offset(t) + s wherever it appears.                 *)
(***************************************************************************)
EXTENDS Pipeline, TLAPS

\* The provers to try, with time for a busy machine; a leaf that needs no
\* arithmetic may cite Zenon alone.
USE SMTT(10), Zenon, SMTT(30), SMTT(60)

USE PipelineAssumption DEF Positions, NoReplay, C!NoReplay, C!Seqs

\* The position after which this process receives topic t.
Offset(t) == lastReplayID[t] - seq[t]

\* What the process received on topic t.
Known == {e \in Event : e.seq <= seq[e.topic] /\ e.pos = Offset(e.topic) + e.seq}

\* Only such events are in the channels and with the workers.
InFlight ==
  /\ out \in [Topics -> Seq(Known)] /\ events \in Seq(Known)
  /\ worker \in [Workers -> {Idle, Stopped} \union {Busy(e) : e \in Known}]

\* A stream resumes after what was received or stored, and the process resumed
\* where nothing below was left unfinished.
StreamOK(t) ==
  /\ seq[t] <= lastReplayID[t] /\ (seq[t] = 0 => lastReplayID[t] = 0)
  /\ stored[t] <= MaxEvents
  /\ connected[t] /\ seq[t] # 0 => streamPos[t] = lastReplayID[t]
  /\ connected[t] /\ seq[t] = 0 =>
       streamPos[t] = IF stored[t] # 0 THEN stored[t] ELSE base[t]
  /\ seq[t] # 0 => \A p \in Positions : base[t] < p /\ p <= Offset(t) => <<t, p>> \in finished

\* The committer knows finished events only, and its cursor and the values on
\* their way to the database cover nothing else.
MarkOK(t) ==
  /\ \A s \in reported[t] : s <= seq[t] /\ <<t, Offset(t) + s>> \in finished
  /\ \A s \in Positions : s < next[t] => s \in reported[t]
  /\ \A s \in Positions :
       done[t][s] # 0 => s \in reported[t] /\ done[t][s] = Offset(t) + s
  /\ replayID[t] = IF next[t] = 1 THEN 0 ELSE Offset(t) + (next[t] - 1)
  /\ \A f \in Flushers : pending[f][t] <= replayID[t]

PipelineInvariant ==
  /\ TypeOK /\ InFlight
  /\ \A t \in Topics : StreamOK(t) /\ MarkOK(t)
  /\ CursorNeverSkips

(* The first process starts with an empty memory and a row nobody followed. *)
LEMMA InitInvariant == Init => PipelineInvariant
<1> SUFFICES ASSUME Init PROVE PipelineInvariant
  OBVIOUS
<1> USE DEF Init, EveryTopic
<1>1. InFlight
  <2>1. <<>> \in Seq(Known)
    OBVIOUS
  <2> QED
    BY <2>1 DEF InFlight
<1>2. TypeOK
  <2>1. <<>> \in Seq(Event)
    OBVIOUS
  <2>2. C!TypeOK
    BY DEF C!TypeOK
  <2>3. out \in [Topics -> Seq(Event)] /\ events \in Seq(Event)
    BY <2>1
  <2>4. worker \in [Workers -> {Idle, Stopped} \union {Busy(e) : e \in Event}]
    OBVIOUS
  <2>5. published \in [Topics -> 0..MaxEvents] /\ base \in [Topics -> 0..MaxEvents]
    OBVIOUS
  <2>6. /\ streamPos \in [Topics -> 0..MaxEvents] /\ seq \in [Topics -> 0..MaxEvents]
        /\ lastReplayID \in [Topics -> 0..MaxEvents] /\ stops \in 0..MaxStops
    OBVIOUS
  <2>7. /\ up \in BOOLEAN /\ canceled \in BOOLEAN /\ ticking \in BOOLEAN
        /\ connected \in [Topics -> BOOLEAN] /\ forwarding \in [Topics -> BOOLEAN]
        /\ final \in {"no", "running", "failed", "done"}
    BY Zenon
  <2>8. /\ received \subseteq Topics \X Positions
        /\ finished \subseteq Topics \X Positions
    OBVIOUS
  <2> QED
    BY <2>2, <2>3, <2>4, <2>5, <2>6, <2>7, <2>8 DEF TypeOK
<1>3. ASSUME NEW t \in Topics PROVE StreamOK(t) /\ MarkOK(t)
  BY DEF StreamOK, MarkOK
<1>4. CursorNeverSkips
  BY DEF CursorNeverSkips
<1> QED
  BY <1>1, <1>2, <1>3, <1>4 DEF PipelineInvariant

(* A process dies: what remains are the rows and the history. *)
LEMMA DiesInvariant ==
  ASSUME PipelineInvariant, Dies, stops' \in 0..MaxStops
  PROVE  PipelineInvariant'
<1> USE DEF Dies, EveryTopic
<1>1. InFlight'
  <2>1. <<>> \in Seq(Known')
    OBVIOUS
  <2> QED
    BY <2>1 DEF InFlight
<1>2. TypeOK /\ UNCHANGED <<published, stored, base, received, finished>>
  BY DEF PipelineInvariant, history
<1>3. TypeOK'
  <2>1. <<>> \in Seq(Event)
    OBVIOUS
  <2>2. C!TypeOK'
    BY <1>2 DEF TypeOK, C!TypeOK
  <2>3. out' \in [Topics -> Seq(Event)] /\ events' \in Seq(Event)
    BY <2>1
  <2>4. worker' \in [Workers -> {Idle, Stopped} \union {Busy(e) : e \in Event}]
    OBVIOUS
  <2>5. published' \in [Topics -> 0..MaxEvents] /\ base' \in [Topics -> 0..MaxEvents]
    BY <1>2 DEF TypeOK
  <2>6. /\ streamPos' \in [Topics -> 0..MaxEvents] /\ seq' \in [Topics -> 0..MaxEvents]
        /\ lastReplayID' \in [Topics -> 0..MaxEvents] /\ stops' \in 0..MaxStops
    OBVIOUS
  <2>7. /\ up' \in BOOLEAN /\ canceled' \in BOOLEAN /\ ticking' \in BOOLEAN
        /\ connected' \in [Topics -> BOOLEAN] /\ forwarding' \in [Topics -> BOOLEAN]
        /\ final' \in {"no", "running", "failed", "done"}
    BY Zenon
  <2>8. /\ received' \subseteq Topics \X Positions
        /\ finished' \subseteq Topics \X Positions
    BY <1>2 DEF TypeOK
  <2> QED
    BY <2>2, <2>3, <2>4, <2>5, <2>6, <2>7, <2>8 DEF TypeOK
<1>4. ASSUME NEW t \in Topics PROVE StreamOK(t)' /\ MarkOK(t)'
  <2>1. stored'[t] <= MaxEvents
    BY <1>2 DEF PipelineInvariant, StreamOK
  <2> QED
    BY <2>1 DEF StreamOK, MarkOK
<1>5. CursorNeverSkips'
  BY <1>2 DEF PipelineInvariant, CursorNeverSkips
<1> QED
  BY <1>1, <1>3, <1>4, <1>5 DEF PipelineInvariant

(* Steps that move events between channels and workers, or drop them. *)
LEMMA HandOverInvariant ==
  ASSUME PipelineInvariant, InFlight',
         forwarding' \in [Topics -> BOOLEAN],
         UNCHANGED <<published, up, canceled, streams, ticking, final, cursors,
                     stored, stops, history>>
  PROVE  PipelineInvariant'
<1>1. UNCHANGED <<published, up, canceled, connected, streamPos, lastReplayID, seq,
                  ticking, final, next, done, replayID, dirty, flushing, pending,
                  reported, stored, stops, base, received, finished>>
  BY DEF streams, cursors, history
<1>2. TypeOK'
  <2>1. Known' \subseteq Event
    BY DEF Known
  <2>2. out' \in [Topics -> Seq(Event)] /\ events' \in Seq(Event)
    <3>1. \A s \in Seq(Known') : s \in Seq(Event)
      BY <2>1
    <3> QED
      BY <3>1 DEF InFlight
  <2>3. worker' \in [Workers -> {Idle, Stopped} \union {Busy(e) : e \in Event}]
    BY <2>1 DEF InFlight
  <2>4. C!TypeOK'
    BY <1>1 DEF PipelineInvariant, TypeOK, C!TypeOK
  <2> QED
    BY <1>1, <2>2, <2>3, <2>4 DEF PipelineInvariant, TypeOK
<1>3. ASSUME NEW t \in Topics PROVE StreamOK(t)' /\ MarkOK(t)'
  BY <1>1 DEF PipelineInvariant, StreamOK, MarkOK, Offset
<1>4. CursorNeverSkips'
  BY <1>1 DEF PipelineInvariant, CursorNeverSkips
<1> QED
  BY <1>2, <1>3, <1>4 DEF PipelineInvariant

(* Steps of the server, of the process as a whole, and the end of a stream. *)
LEMMA QuietInvariant ==
  ASSUME PipelineInvariant,
         UNCHANGED <<streamPos, lastReplayID, seq, channels, worker, cursors, stored, history>>,
         published' \in [Topics -> 0..MaxEvents], stops' \in 0..MaxStops,
         up' \in BOOLEAN, canceled' \in BOOLEAN, ticking' \in BOOLEAN,
         final' \in {"no", "running", "failed", "done"},
         connected' \in [Topics -> BOOLEAN],
         \A t \in Topics : connected'[t] => connected[t]
  PROVE  PipelineInvariant'
<1>1. UNCHANGED <<streamPos, lastReplayID, seq, out, forwarding, events, worker,
                  next, done, replayID, dirty, flushing, pending, reported, stored,
                  base, received, finished>>
  BY DEF channels, cursors, history
<1>2. TypeOK'
  <2>1. C!TypeOK'
    BY Zenon, <1>1 DEF PipelineInvariant, TypeOK, C!TypeOK
  <2> QED
    BY <1>1, <2>1 DEF PipelineInvariant, TypeOK
<1>3. InFlight'
  BY <1>1 DEF PipelineInvariant, InFlight, Known, Offset
<1>4. ASSUME NEW t \in Topics PROVE StreamOK(t)' /\ MarkOK(t)'
  BY <1>1 DEF PipelineInvariant, StreamOK, MarkOK, Offset
<1>5. CursorNeverSkips'
  BY <1>1 DEF PipelineInvariant, CursorNeverSkips
<1> QED
  BY <1>2, <1>3, <1>4, <1>5 DEF PipelineInvariant

(* A stream is opened where initialFetch says: after the last event received,
   after the stored cursor, or at the tip, where the topic is followed anew. *)
LEMMA ConnectInvariant ==
  ASSUME PipelineInvariant, NEW t \in Topics, Connect(t)
  PROVE  PipelineInvariant'
<1> DEFINE cursor == IF lastReplayID[t] # NoReplay THEN lastReplayID[t] ELSE stored[t]
           at == IF cursor = NoReplay THEN published[t] ELSE cursor
<1>1. /\ connected' = [connected EXCEPT ![t] = TRUE]
      /\ streamPos' = [streamPos EXCEPT ![t] = at]
      /\ base' = [base EXCEPT ![t] = IF cursor = NoReplay THEN published[t] ELSE @]
  BY DEF Connect
<1>2. UNCHANGED <<published, up, canceled, lastReplayID, seq, out, forwarding, events,
                  worker, ticking, final, next, done, replayID, dirty, flushing,
                  pending, reported, stored, stops, received, finished>>
  BY DEF Connect, channels, cursors
<1>3. TypeOK /\ StreamOK(t)
  BY DEF PipelineInvariant
<1>4. /\ published[t] \in 0..MaxEvents /\ base[t] \in 0..MaxEvents
      /\ lastReplayID[t] \in 0..MaxEvents /\ stored[t] \in 0..MaxEvents
      /\ seq[t] \in 0..MaxEvents
  BY <1>3 DEF TypeOK, C!TypeOK, StreamOK
<1>5. at \in 0..MaxEvents
  BY <1>4
<1>6. /\ lastReplayID[t] # 0 => at = lastReplayID[t] /\ cursor # NoReplay
      /\ lastReplayID[t] = 0 /\ stored[t] # 0 => at = stored[t] /\ cursor # NoReplay
      /\ lastReplayID[t] = 0 /\ stored[t] = 0 => at = published[t] /\ cursor = NoReplay
  BY <1>4
<1> HIDE DEF cursor, at
<1>7. TypeOK'
  <2>1. C!TypeOK'
    BY Zenon, <1>2, <1>3 DEF TypeOK, C!TypeOK
  <2>2. streamPos' \in [Topics -> 0..MaxEvents]
    BY <1>1, <1>3, <1>5 DEF TypeOK
  <2>3. base' \in [Topics -> 0..MaxEvents]
    BY <1>1, <1>3, <1>4 DEF TypeOK
  <2>4. connected' \in [Topics -> BOOLEAN]
    BY <1>1, <1>3 DEF TypeOK
  <2> QED
    BY Zenon, <1>2, <1>3, <2>1, <2>2, <2>3, <2>4 DEF TypeOK
<1>8. InFlight'
  BY <1>2 DEF PipelineInvariant, InFlight, Known, Offset
<1>9. ASSUME NEW u \in Topics PROVE StreamOK(u)' /\ MarkOK(u)'
  <2>1. MarkOK(u)'
    BY <1>2 DEF PipelineInvariant, MarkOK, Offset
  <2>2. CASE u # t
    <3>1. UNCHANGED <<connected[u], streamPos[u], base[u]>>
      BY <1>1, <1>3, <2>2 DEF TypeOK
    <3> QED
      BY <1>2, <2>1, <3>1 DEF PipelineInvariant, StreamOK, Offset
  <2>3. CASE u = t
    <3>1. /\ streamPos'[t] = at
          /\ base'[t] = IF cursor = NoReplay THEN published[t] ELSE base[t]
      BY <1>1, <1>3 DEF TypeOK
    <3>2. seq[t] # 0 => at = lastReplayID[t] /\ base'[t] = base[t]
      BY <1>3, <1>4, <1>6, <3>1 DEF StreamOK
    <3>3. seq[t] = 0 => at = IF stored[t] # 0 THEN stored[t] ELSE base'[t]
      BY <1>3, <1>4, <1>6, <3>1 DEF StreamOK
    <3> QED
      BY Zenon, <1>2, <1>3, <2>1, <2>3, <3>1, <3>2, <3>3 DEF StreamOK, Offset
  <2> QED
    BY <2>2, <2>3
<1>10. CursorNeverSkips'
  <2> SUFFICES ASSUME NEW u \in Topics, NEW p \in Positions,
                      base'[u] < p, p <= stored[u]
               PROVE  <<u, p>> \in finished
    BY <1>2 DEF CursorNeverSkips
  <2>1. stored[u] # 0 => base'[u] = base[u]
    <3>1. stored[u] \in Nat
      BY <1>3 DEF TypeOK, C!TypeOK
    <3> QED
      BY <1>1, <1>3, <1>4, <1>6 DEF TypeOK
  <2>2. stored[u] # 0
    BY <1>3 DEF TypeOK, C!TypeOK
  <2> QED
    BY <2>1, <2>2 DEF PipelineInvariant, CursorNeverSkips
<1> QED
  BY <1>7, <1>8, <1>9, <1>10 DEF PipelineInvariant

(* The stream delivers the next event: its number and its position grow by one
   together, and the first event of a process fixes the offset. *)
LEMMA ReceiveInvariant ==
  ASSUME PipelineInvariant, NEW t \in Topics, Receive(t)
  PROVE  /\ PipelineInvariant'
         /\ seq'[t] = seq[t] + 1
         /\ \A u \in Topics : u # t => seq'[u] = seq[u]
         /\ \A u \in Topics : seq[u] # 0 => Offset(u)' = Offset(u)
         /\ lastReplayID'[t] = streamPos[t] + 1
<1> DEFINE e == [topic |-> t, seq |-> seq[t] + 1, pos |-> streamPos[t] + 1]
<1>1. /\ out' = [out EXCEPT ![t] = Append(@, e)]
      /\ streamPos' = [streamPos EXCEPT ![t] = streamPos[t] + 1]
      /\ seq' = [seq EXCEPT ![t] = seq[t] + 1]
      /\ lastReplayID' = [lastReplayID EXCEPT ![t] = streamPos[t] + 1]
      /\ received' = received \union {<<t, streamPos[t] + 1>>}
      /\ connected[t] /\ streamPos[t] < published[t]
  BY DEF Receive
<1>2. UNCHANGED <<published, up, canceled, connected, forwarding, events, worker,
                  ticking, final, next, done, replayID, dirty, flushing, pending,
                  reported, stored, stops, base, finished>>
  BY DEF Receive, cursors
<1>3. TypeOK /\ InFlight /\ StreamOK(t) /\ MarkOK(t) /\ CursorNeverSkips
  BY DEF PipelineInvariant
<1>4. /\ seq[t] \in 0..MaxEvents /\ streamPos[t] \in 0..MaxEvents
      /\ lastReplayID[t] \in 0..MaxEvents /\ published[t] \in 0..MaxEvents
      /\ base[t] \in 0..MaxEvents /\ stored[t] \in Nat
  BY <1>3 DEF TypeOK, C!TypeOK
<1>5. /\ streamPos[t] + 1 \in Positions /\ seq[t] <= streamPos[t]
      /\ seq[t] + 1 \in Positions
      /\ seq[t] # 0 => streamPos[t] = lastReplayID[t]
  BY <1>1, <1>3, <1>4 DEF StreamOK
<1>6. /\ seq'[t] = seq[t] + 1 /\ lastReplayID'[t] = streamPos[t] + 1
      /\ streamPos'[t] = streamPos[t] + 1
      /\ \A u \in Topics : u # t => UNCHANGED <<seq[u], lastReplayID[u], streamPos[u], out[u]>>
  BY <1>1, <1>3 DEF TypeOK
<1>7. \A u \in Topics : seq[u] # 0 => Offset(u)' = Offset(u)
  BY <1>4, <1>5, <1>6 DEF Offset
<1>8. TypeOK'
  <2>1. C!TypeOK'
    BY Zenon, <1>2, <1>3 DEF TypeOK, C!TypeOK
  <2>2. /\ seq' \in [Topics -> 0..MaxEvents] /\ streamPos' \in [Topics -> 0..MaxEvents]
        /\ lastReplayID' \in [Topics -> 0..MaxEvents]
    BY <1>1, <1>3, <1>5 DEF TypeOK
  <2>3. e \in Event
    BY <1>5 DEF Event
  <2>4. out' \in [Topics -> Seq(Event)]
    <3> HIDE DEF e
    <3>1. Append(out[t], e) \in Seq(Event)
      BY <1>3, <2>3 DEF TypeOK
    <3> QED
      BY <1>1, <1>3, <3>1 DEF TypeOK
  <2>5. received' \subseteq Topics \X Positions
    BY <1>1, <1>3, <1>5 DEF TypeOK
  <2> QED
    BY Zenon, <1>2, <1>3, <2>1, <2>2, <2>4, <2>5 DEF TypeOK
<1>9. InFlight'
  <2>1. Known \subseteq Known'
    <3> SUFFICES ASSUME NEW k \in Known PROVE k \in Known'
      OBVIOUS
    <3>1. /\ k \in Event /\ k.topic \in Topics /\ k.seq \in Positions
          /\ k.seq <= seq[k.topic] /\ k.pos = Offset(k.topic) + k.seq
      BY DEF Known, Event
    <3>2. seq[k.topic] \in Nat
      BY <1>3, <3>1 DEF TypeOK
    <3>3. seq[k.topic] # 0
      BY <3>1, <3>2
    <3>4. Offset(k.topic)' = Offset(k.topic) /\ seq[k.topic] <= seq'[k.topic]
      BY <1>4, <1>6, <1>7, <3>1, <3>2, <3>3
    <3>5. seq'[k.topic] \in Nat
      BY <1>8, <3>1 DEF TypeOK
    <3>6. k.seq <= seq'[k.topic] /\ k.pos = Offset(k.topic)' + k.seq
      BY <3>1, <3>2, <3>4, <3>5
    <3> QED
      BY <3>1, <3>6 DEF Known
  <2>2. e \in Known'
    <3>1. e \in Event
      BY <1>5 DEF Event
    <3>2. e.seq <= seq'[e.topic] /\ e.pos = Offset(e.topic)' + e.seq
      BY <1>4, <1>6 DEF Offset
    <3> QED
      BY <3>1, <3>2 DEF Known
  <2>3. \A s \in Seq(Known) : s \in Seq(Known')
    BY <2>1
  <2> HIDE DEF e
  <2>4. Append(out[t], e) \in Seq(Known')
    <3>1. out[t] \in Seq(Known')
      BY <1>3, <2>3 DEF InFlight
    <3> QED
      BY <2>2, <3>1
  <2>5. out' \in [Topics -> Seq(Known')]
    BY <1>1, <1>3, <2>3, <2>4 DEF InFlight
  <2>6. worker' \in [Workers -> {Idle, Stopped} \union {Busy(k) : k \in Known'}]
    BY <1>2, <1>3, <2>1 DEF InFlight
  <2>7. events' \in Seq(Known')
    BY <1>2, <1>3, <2>3 DEF InFlight
  <2> QED
    BY <2>5, <2>6, <2>7 DEF InFlight
<1>10. ASSUME NEW u \in Topics PROVE StreamOK(u)' /\ MarkOK(u)'
  <2>1. CASE u # t
    <3>1. StreamOK(u) /\ MarkOK(u)
      BY Zenon DEF PipelineInvariant
    <3>2. UNCHANGED <<seq[u], lastReplayID[u], streamPos[u]>> /\ Offset(u)' = Offset(u)
      BY <1>6, <2>1 DEF Offset
    <3> QED
      BY Zenon, <1>2, <3>1, <3>2 DEF StreamOK, MarkOK
  <2>2. CASE u = t
    <3>1. seq'[t] # 0 /\ seq'[t] <= lastReplayID'[t] /\ streamPos'[t] = lastReplayID'[t]
      BY <1>4, <1>5, <1>6
    <3>2. ASSUME NEW p \in Positions, base[t] < p, p <= Offset(t)'
          PROVE  <<t, p>> \in finished
      <4>1. CASE seq[t] # 0
        BY <1>3, <1>7, <3>2, <4>1 DEF StreamOK
      <4>2. CASE seq[t] = 0
        <5>1. Offset(t)' = streamPos[t]
          BY <1>4, <1>6, <4>2 DEF Offset
        <5>2. streamPos[t] = IF stored[t] # 0 THEN stored[t] ELSE base[t]
          BY <1>1, <1>3, <4>2 DEF StreamOK
        <5>3. p <= stored[t]
          BY <1>4, <3>2, <5>1, <5>2
        <5> QED
          BY <1>3, <3>2, <5>3 DEF CursorNeverSkips
      <4> QED
        BY <4>1, <4>2
    <3>3. StreamOK(t)'
      BY <1>2, <1>3, <3>1, <3>2 DEF StreamOK
    <3>4. MarkOK(t)'
      <4>1. CASE seq[t] # 0
        <5>1. \A s \in reported[t] : s <= seq'[t] /\ <<t, Offset(t)' + s>> \in finished
          <6>1. reported[t] \subseteq Positions
            BY <1>3 DEF TypeOK, C!TypeOK
          <6>2. \A s \in reported[t] : s <= seq[t] /\ <<t, Offset(t) + s>> \in finished
            BY Zenon, <1>3 DEF MarkOK
          <6>3. Offset(t)' = Offset(t)
            BY Zenon, <1>7, <4>1
          <6>4. \A s \in Positions : s <= seq[t] => s <= seq'[t]
            <7>1. seq[t] \in 0..MaxEvents /\ seq'[t] = seq[t] + 1
              BY Zenon, <1>4, <1>6
            <7> QED
              BY <7>1
          <6> QED
            BY Zenon, <6>1, <6>2, <6>3, <6>4
        <5> QED
          BY ZenonT(30), <1>2, <1>3, <1>7, <4>1, <5>1 DEF MarkOK
      <4>2. CASE seq[t] = 0
        <5>1. reported[t] = {} /\ next[t] \in 1..(MaxEvents + 1)
          <6>1. reported[t] \subseteq Positions /\ next[t] \in 1..(MaxEvents + 1)
            BY <1>3 DEF TypeOK, C!TypeOK
          <6>2. \A s \in reported[t] : s <= 0
            BY ZenonT(30), <1>3, <4>2 DEF MarkOK
          <6>3. reported[t] = {}
            BY <6>1, <6>2
          <6> QED
            BY Zenon, <6>1, <6>3
        <5>2. next[t] = 1
          <6>1. 1 \in Positions
            BY <1>4, <1>5
          <6> QED
            BY <1>3, <5>1, <6>1 DEF MarkOK
        <5> QED
          BY Zenon, <1>2, <1>3, <5>1, <5>2 DEF MarkOK
      <4> QED
        BY <4>1, <4>2
    <3> QED
      BY <2>2, <3>3, <3>4
  <2> QED
    BY <2>1, <2>2
<1>11. CursorNeverSkips'
  BY <1>2, <1>3 DEF CursorNeverSkips
<1> QED
  BY <1>6, <1>7, <1>8, <1>9, <1>10, <1>11 DEF PipelineInvariant

(* What the loop of Committer.Done leaves behind, when number s is position r. *)
LEMMA DoneMark ==
  ASSUME TypeOK, NEW t \in Topics, MarkOK(t), Offset(t) \in Nat,
         NEW s \in Positions, NEW r \in Positions, r = Offset(t) + s, C!Done(t, s, r)
  PROVE  /\ C!TypeOK'
         /\ \A u \in Topics : u # t => UNCHANGED <<next[u], done[u], replayID[u], dirty[u]>>
         /\ \A m \in Positions : m < next'[t] => m \in reported'[t]
         /\ \A m \in Positions :
              done'[t][m] # 0 => m \in reported'[t] /\ done'[t][m] = Offset(t) + m
         /\ replayID'[t] = IF next'[t] = 1 THEN 0 ELSE Offset(t) + (next'[t] - 1)
         /\ replayID[t] <= replayID'[t]
         /\ replayID'[t] # replayID[t] => dirty'[t]
         /\ dirty[t] => dirty'[t]
<1>1. /\ next \in [Topics -> 1..(MaxEvents + 1)] /\ next[t] \in 1..(MaxEvents + 1)
      /\ done \in [Topics -> [Positions -> Nat]] /\ done[t] \in [Positions -> Nat]
      /\ replayID \in [Topics -> Nat] /\ replayID[t] \in Nat
      /\ dirty \in [Topics -> BOOLEAN] /\ reported \in [Topics -> SUBSET Positions]
  BY Zenon DEF TypeOK, C!TypeOK
<1>2. /\ reported' = [reported EXCEPT ![t] = @ \union {s}]
      /\ UNCHANGED <<flushing, pending, stored>>
  BY DEF C!Done
<1>3. /\ reported' \in [Topics -> SUBSET Positions] /\ reported'[t] = reported[t] \union {s}
      /\ flushing' \in SUBSET Flushers /\ pending' \in [Flushers -> [Topics -> Nat]]
      /\ stored' \in [Topics -> Nat]
  <2>1. reported'[t] = reported[t] \union {s} /\ reported' \in [Topics -> SUBSET Positions]
    BY <1>1, <1>2
  <2> QED
    BY <1>2, <2>1 DEF TypeOK, C!TypeOK
<1>4. /\ \A m \in Positions : m < next[t] => m \in reported[t]
      /\ \A m \in Positions :
           done[t][m] # 0 => m \in reported[t] /\ done[t][m] = Offset(t) + m
      /\ replayID[t] = IF next[t] = 1 THEN 0 ELSE Offset(t) + (next[t] - 1)
  BY Zenon DEF MarkOK
<1>5. CASE UNCHANGED C!cursorVars
  <2>1. UNCHANGED <<next, done, replayID, dirty>>
    BY <1>5 DEF C!cursorVars
  <2>2. C!TypeOK'
    BY Zenon, <1>1, <1>3, <2>1 DEF C!TypeOK
  <2> QED
    BY <1>1, <1>3, <1>4, <2>1, <2>2
<1>6. CASE s >= next[t] /\ C!Advance(t, s, r)
  <2> DEFINE d == [done[t] EXCEPT ![s] = r]
  <2>1. PICK n \in next[t]..(MaxEvents + 1) :
          /\ C!StopsAt(d, next[t], n)
          /\ next' = [next EXCEPT ![t] = n]
          /\ done' = [done EXCEPT ![t] = [m \in Positions |-> IF m < n THEN NoReplay ELSE d[m]]]
          /\ replayID' = [replayID EXCEPT ![t] = IF n = next[t] THEN @ ELSE d[n - 1]]
          /\ dirty' = [dirty EXCEPT ![t] = @ \/ n # next[t]]
    BY Zenon, <1>6 DEF C!Advance
  <2>2. n \in 1..(MaxEvents + 1) /\ n >= next[t]
    BY <1>1
  <2>3. d \in [Positions -> Nat] /\ \A m \in Positions : d[m] = IF m = s THEN r ELSE done[t][m]
    BY <1>1
  <2> HIDE DEF d
  <2>4. ASSUME NEW m \in Positions, d[m] # 0
        PROVE  m \in reported'[t] /\ d[m] = Offset(t) + m
    BY Zenon, <1>3, <1>4, <2>3, <2>4
  <2>5. \A m \in Positions : m >= next[t] /\ m < n => d[m] # 0
    BY <1>1, <2>1, <2>2 DEF C!StopsAt
  <2>6. ASSUME n # next[t]
        PROVE  n - 1 \in Positions /\ d[n - 1] = Offset(t) + (n - 1)
    <3>1. n - 1 \in Positions /\ n - 1 >= next[t] /\ n - 1 < n
      BY <1>1, <2>2, <2>6
    <3>2. d[n - 1] # 0
      BY Zenon, <2>5, <3>1
    <3> QED
      BY Zenon, <2>4, <3>1, <3>2
  <2> DEFINE d1 == [m \in Positions |-> IF m < n THEN NoReplay ELSE d[m]]
             r1 == IF n = next[t] THEN replayID[t] ELSE d[n - 1]
  <2>7. d1 \in [Positions -> Nat] /\ r1 \in Nat
    BY Zenon, <1>1, <2>2, <2>3, <2>6
  <2>8. \A m \in Positions : d1[m] # 0 => d1[m] = d[m]
    BY <2>2, <2>3
  <2>9. r1 = IF n = 1 THEN 0 ELSE Offset(t) + (n - 1)
    BY <1>1, <1>4, <2>2, <2>6
  <2>10. /\ next' = [next EXCEPT ![t] = n] /\ done' = [done EXCEPT ![t] = d1]
         /\ replayID' = [replayID EXCEPT ![t] = r1]
    BY <2>1
  <2>11. replayID[t] <= r1 /\ (r1 # replayID[t] => n # next[t])
    BY <1>1, <1>4, <2>2, <2>9
  <2> HIDE DEF d1, r1
  <2>12. /\ next'[t] = n /\ done'[t] = d1 /\ replayID'[t] = r1
         /\ dirty' \in [Topics -> BOOLEAN] /\ (dirty[t] \/ n # next[t] => dirty'[t])
         /\ \A u \in Topics : u # t => UNCHANGED <<next[u], done[u], replayID[u], dirty[u]>>
    <3>1. next'[t] = n /\ done'[t] = d1 /\ replayID'[t] = r1
      BY <1>1, <2>10
    <3>2. dirty' \in [Topics -> BOOLEAN] /\ (dirty[t] \/ n # next[t] => dirty'[t])
      BY ZenonT(30), <1>1, <2>1
    <3>3. \A u \in Topics : u # t => UNCHANGED <<next[u], done[u], replayID[u], dirty[u]>>
      BY <1>1, <2>1, <2>10
    <3> QED
      BY <3>1, <3>2, <3>3
  <2>13. C!TypeOK'
    <3>1. next' \in [Topics -> 1..(MaxEvents + 1)]
      BY <1>1, <2>2, <2>10
    <3>2. done' \in [Topics -> [Positions -> Nat]] /\ replayID' \in [Topics -> Nat]
      BY Zenon, <1>1, <2>7, <2>10
    <3> QED
      BY Zenon, <1>3, <2>12, <3>1, <3>2 DEF C!TypeOK
  <2>14. \A m \in Positions : m < n => m \in reported'[t]
    BY <1>1, <1>3, <1>4, <2>2, <2>4, <2>5
  <2>15. \A m \in Positions :
           done'[t][m] # 0 => m \in reported'[t] /\ done'[t][m] = Offset(t) + m
    BY <2>4, <2>8, <2>12
  <2> QED
    BY <2>9, <2>11, <2>12, <2>13, <2>14, <2>15
<1> QED
  BY <1>5, <1>6 DEF C!Done

(* A worker finishes an event: App.ack, and the loop of Committer.Done. *)
LEMMA FinishInvariant ==
  ASSUME PipelineInvariant, NEW w \in Workers, Finish(w)
  PROVE  /\ PipelineInvariant'
         /\ \A u \in Topics : (replayID'[u] # replayID[u] => dirty'[u]) /\ (dirty[u] => dirty'[u])
         /\ UNCHANGED <<flushing, pending, stored>>
<1> DEFINE e == worker[w].event
           t == e.topic
           s == e.seq
<1>1. TypeOK /\ InFlight /\ CursorNeverSkips
  BY DEF PipelineInvariant
<1>2. e \in Known
  <2>1. worker[w].doing = "process"
    BY DEF Finish
  <2>2. worker[w] # Idle /\ worker[w] # Stopped
    BY <2>1 DEF Idle, Stopped
  <2>3. PICK k \in Known : worker[w] = Busy(k)
    BY <1>1, <2>2 DEF InFlight
  <2> QED
    BY <2>3 DEF Busy
<1>3. /\ t \in Topics /\ s \in Positions /\ e.pos \in Positions
      /\ s <= seq[t] /\ e.pos = Offset(t) + s
  BY <1>2 DEF Known, Event
<1>4. /\ C!Done(t, s, e.pos)
      /\ finished' = finished \union {<<t, e.pos>>}
      /\ worker' = [worker EXCEPT ![w] = Idle]
      /\ UNCHANGED <<published, up, canceled, connected, streamPos, lastReplayID, seq,
                     out, forwarding, events, ticking, final, stops, base, received>>
  BY DEF Finish, streams, channels
<1> DEFINE r == e.pos
<1> HIDE DEF e, t, s, r
<1>5. /\ reported' = [reported EXCEPT ![t] = @ \union {s}]
      /\ UNCHANGED <<flushing, pending, stored>>
  BY <1>4 DEF C!Done
<1>6. StreamOK(t) /\ MarkOK(t)
  BY <1>3 DEF PipelineInvariant
<1>7. Offset(t) \in Nat /\ \A u \in Topics : Offset(u)' = Offset(u)
  <2>1. lastReplayID[t] \in Nat /\ seq[t] \in Nat
    BY <1>1, <1>3 DEF TypeOK
  <2> QED
    BY <1>4, <1>6, <2>1 DEF StreamOK, Offset
<1>8. /\ C!TypeOK'
      /\ \A u \in Topics : u # t => UNCHANGED <<next[u], done[u], replayID[u], dirty[u]>>
      /\ \A m \in Positions : m < next'[t] => m \in reported'[t]
      /\ \A m \in Positions :
           done'[t][m] # 0 => m \in reported'[t] /\ done'[t][m] = Offset(t) + m
      /\ replayID'[t] = IF next'[t] = 1 THEN 0 ELSE Offset(t) + (next'[t] - 1)
      /\ replayID[t] <= replayID'[t]
      /\ replayID'[t] # replayID[t] => dirty'[t]
      /\ dirty[t] => dirty'[t]
  <2>1. C!Done(t, s, e.pos) /\ e.pos \in Positions
    BY <1>3, <1>4
  <2>2. /\ t \in Topics /\ s \in Positions /\ e.pos = Offset(t) + s
        /\ MarkOK(t) /\ Offset(t) \in Nat /\ TypeOK
    BY <1>1, <1>3, <1>6, <1>7
  <2> QED
    BY Zenon, <2>1, <2>2, DoneMark
<1>9. InFlight'
  <2>1. Known' = Known
    <3>1. UNCHANGED <<seq, lastReplayID>>
      BY <1>4
    <3> QED
      BY Zenon, <3>1 DEF Known, Offset
  <2>2. worker' \in [Workers -> {Idle, Stopped} \union {Busy(k) : k \in Known}]
    BY <1>1, <1>4 DEF InFlight
  <2> QED
    BY <1>1, <1>4, <2>1, <2>2 DEF InFlight
<1>10. TypeOK'
  <2>1. worker' \in [Workers -> {Idle, Stopped} \union {Busy(k) : k \in Event}]
    BY <1>1, <1>4 DEF TypeOK
  <2>2. finished' \subseteq Topics \X Positions
    BY <1>1, <1>3, <1>4 DEF TypeOK
  <2> QED
    BY <1>1, <1>4, <1>8, <2>1, <2>2 DEF TypeOK
<1>11. ASSUME NEW u \in Topics PROVE StreamOK(u)' /\ MarkOK(u)'
  <2>1. StreamOK(u) /\ MarkOK(u)
    BY DEF PipelineInvariant
  <2>2. finished \subseteq finished' /\ Offset(u)' = Offset(u)
    BY <1>4, <1>7
  <2>3. StreamOK(u)'
    BY Zenon, <1>4, <1>5, <2>1, <2>2 DEF StreamOK
  <2>4. CASE u # t
    <3>1. UNCHANGED <<next[u], done[u], replayID[u], reported[u], pending, seq>>
      BY <1>1, <1>4, <1>5, <1>8, <2>4 DEF TypeOK, C!TypeOK
    <3> QED
      BY Zenon, <2>1, <2>2, <2>3, <3>1 DEF MarkOK
  <2>5. CASE u = t
    <3>1. \A m \in reported'[u] : m <= seq'[u] /\ <<u, Offset(u) + m>> \in finished'
      <4>1. reported'[t] = reported[t] \union {s}
        BY <1>1, <1>3, <1>5 DEF TypeOK, C!TypeOK
      <4>2. <<t, Offset(t) + s>> \in finished' /\ s <= seq[t]
        BY <1>3, <1>4
      <4> QED
        BY <1>4, <2>1, <2>2, <2>5, <4>1, <4>2 DEF MarkOK
    <3>2. \A f \in Flushers : pending'[f][t] <= replayID'[t]
      <4>1. \A f \in Flushers : pending[f][t] \in Nat
        BY <1>1, <1>3 DEF TypeOK, C!TypeOK
      <4>2. replayID[t] \in Nat /\ replayID'[t] \in Nat
        BY <1>1, <1>3, <1>8 DEF TypeOK, C!TypeOK
      <4>3. \A f \in Flushers : pending[f][t] <= replayID[t]
        BY Zenon, <1>6 DEF MarkOK
      <4>4. pending' = pending /\ replayID[t] <= replayID'[t]
        BY Zenon, <1>5, <1>8
      <4> QED
        BY <4>1, <4>2, <4>3, <4>4
    <3> QED
      BY <1>8, <2>2, <2>3, <2>5, <3>1, <3>2 DEF MarkOK
  <2> QED
    BY <2>3, <2>4, <2>5
<1>12. CursorNeverSkips'
  BY Zenon, <1>1, <1>4, <1>5 DEF CursorNeverSkips
<1>13. PipelineInvariant'
  BY <1>9, <1>10, <1>11, <1>12 DEF PipelineInvariant
<1>14. ASSUME NEW u \in Topics
       PROVE  (replayID'[u] # replayID[u] => dirty'[u]) /\ (dirty[u] => dirty'[u])
  BY <1>8
<1> QED
  BY <1>5, <1>13, <1>14

(* A flush begins or ends: only what it carries to the database changes. *)
LEMMA FlushInvariant ==
  ASSUME PipelineInvariant, NEW f \in Flushers, C!BeginFlush(f) \/ C!EndFlush(f),
         final' \in {"no", "running", "failed", "done"},
         UNCHANGED <<rest, ticking>>
  PROVE  PipelineInvariant'
<1>1. UNCHANGED <<published, up, canceled, connected, streamPos, lastReplayID, seq, out,
                  forwarding, events, worker, ticking, next, done, replayID, reported,
                  stored, stops, base, received, finished>>
  BY DEF rest, streams, channels, history, C!BeginFlush, C!EndFlush
<1>2. TypeOK /\ C!TypeOK
  BY Zenon DEF PipelineInvariant, TypeOK
<1>3. /\ pending' \in [Flushers -> [Topics -> Nat]]
      /\ \A g \in Flushers, t \in Topics :
           pending'[g][t] = pending[g][t] \/ pending'[g][t] = 0 \/ pending'[g][t] = replayID[t]
  <2>1. CASE C!BeginFlush(f)
    <3> DEFINE p == [t \in Topics |-> IF dirty[t] THEN replayID[t] ELSE NoReplay]
    <3>1. p \in [Topics -> Nat] /\ \A t \in Topics : p[t] = 0 \/ p[t] = replayID[t]
      BY <1>2 DEF C!TypeOK
    <3>2. pending' = [pending EXCEPT ![f] = p]
      BY <2>1 DEF C!BeginFlush
    <3> HIDE DEF p
    <3> QED
      BY <1>2, <3>1, <3>2 DEF C!TypeOK
  <2>2. CASE C!EndFlush(f)
    BY <1>2, <2>2 DEF C!EndFlush, C!TypeOK
  <2> QED
    BY <2>1, <2>2
<1>4. flushing' \in SUBSET Flushers /\ dirty' \in [Topics -> BOOLEAN]
  BY Zenon, <1>2 DEF C!TypeOK, C!BeginFlush, C!EndFlush
<1>5. TypeOK'
  <2>1. C!TypeOK'
    BY <1>1, <1>2, <1>3, <1>4 DEF C!TypeOK
  <2> QED
    BY ZenonT(30), <1>1, <1>2, <2>1 DEF TypeOK
<1>6. InFlight'
  BY Zenon, <1>1 DEF PipelineInvariant, InFlight, Known, Offset
<1>7. ASSUME NEW t \in Topics PROVE StreamOK(t)' /\ MarkOK(t)'
  <2>1. StreamOK(t) /\ MarkOK(t)
    BY DEF PipelineInvariant
  <2>2. replayID[t] \in Nat
    BY <1>2 DEF C!TypeOK
  <2>3. \A g \in Flushers : pending'[g][t] <= replayID[t]
    <3>1. \A g \in Flushers : pending[g][t] <= replayID[t]
      BY Zenon, <2>1 DEF MarkOK
    <3> QED
      BY <1>3, <2>2, <3>1
  <2> QED
    BY Zenon, <1>1, <2>1, <2>3 DEF StreamOK, MarkOK, Offset
<1>8. CursorNeverSkips'
  BY Zenon, <1>1 DEF PipelineInvariant, CursorNeverSkips
<1> QED
  BY <1>5, <1>6, <1>7, <1>8 DEF PipelineInvariant

(* A save: the value was behind the cursor, so it covers finished events. *)
LEMMA SaveInvariant ==
  ASSUME PipelineInvariant, NEW f \in Flushers, NEW t \in Topics,
         C!SaveOk(f, t) \/ C!SaveFails(f, t),
         final' \in {"no", "running", "failed", "done"},
         UNCHANGED <<rest, ticking>>
  PROVE  PipelineInvariant'
<1>1. UNCHANGED <<published, up, canceled, connected, streamPos, lastReplayID, seq, out,
                  forwarding, events, worker, ticking, next, done, replayID, reported,
                  flushing, stops, base, received, finished>>
  BY DEF rest, streams, channels, history, C!SaveOk, C!SaveFails
<1>2. /\ TypeOK /\ C!TypeOK /\ InFlight /\ CursorNeverSkips /\ StreamOK(t) /\ MarkOK(t)
      /\ pending[f][t] # 0
  BY ZenonT(30) DEF PipelineInvariant, TypeOK, C!SaveOk, C!SaveFails
<1>3. /\ pending' = [pending EXCEPT ![f][t] = 0]
      /\ stored' \in {stored, [stored EXCEPT ![t] = pending[f][t]]}
      /\ dirty' \in {dirty, [dirty EXCEPT ![t] = TRUE]}
  BY DEF C!SaveOk, C!SaveFails
<1>4. /\ pending[f][t] \in Nat /\ replayID[t] \in Nat /\ next[t] \in 1..(MaxEvents + 1)
      /\ lastReplayID[t] \in 0..MaxEvents /\ seq[t] \in 0..MaxEvents
      /\ base[t] \in 0..MaxEvents /\ reported[t] \subseteq Positions
  BY <1>2 DEF TypeOK, C!TypeOK
<1>5. pending[f][t] <= replayID[t]
  BY <1>2 DEF MarkOK
<1>6. next[t] # 1 /\ replayID[t] = Offset(t) + (next[t] - 1)
  <2>1. replayID[t] = IF next[t] = 1 THEN 0 ELSE Offset(t) + (next[t] - 1)
    BY Zenon, <1>2 DEF MarkOK
  <2>2. replayID[t] # 0
    BY <1>2, <1>4, <1>5
  <2> QED
    BY Zenon, <2>1, <2>2
<1>7. next[t] - 1 \in reported[t] /\ next[t] - 1 <= seq[t] /\ seq[t] # 0
  <2>1. next[t] - 1 \in Positions /\ next[t] - 1 < next[t]
    BY <1>4, <1>6
  <2>2. next[t] - 1 \in reported[t]
    BY Zenon, <1>2, <2>1 DEF MarkOK
  <2>3. next[t] - 1 <= seq[t]
    BY Zenon, <1>2, <2>2 DEF MarkOK
  <2> QED
    BY <1>4, <2>1, <2>2, <2>3
<1>8. pending[f][t] <= MaxEvents
  <2>1. Offset(t) + seq[t] = lastReplayID[t] /\ Offset(t) \in Int
    BY <1>4 DEF Offset
  <2> QED
    BY <1>4, <1>5, <1>6, <1>7, <2>1
<1>9. ASSUME NEW p \in Positions, base[t] < p, p <= pending[f][t]
      PROVE  <<t, p>> \in finished
  <2>1. Offset(t) \in Int
    BY <1>4 DEF Offset
  <2>2. CASE p <= Offset(t)
    BY <1>2, <1>7, <1>9, <2>2 DEF StreamOK
  <2>3. CASE p > Offset(t)
    <3>1. Offset(t) >= 0
      BY <1>2, <1>4 DEF StreamOK, Offset
    <3>2. p - Offset(t) \in Positions /\ p - Offset(t) < next[t]
      <4>1. /\ p \in Nat /\ p <= MaxEvents /\ pending[f][t] \in Nat /\ next[t] \in Nat
            /\ p <= pending[f][t] /\ pending[f][t] <= Offset(t) + (next[t] - 1)
        BY <1>4, <1>5, <1>6, <1>9
      <4>2. p - Offset(t) < next[t]
        BY <2>1, <4>1
      <4>3. 1 <= p - Offset(t) /\ p - Offset(t) <= MaxEvents /\ p - Offset(t) \in Int
        BY <2>1, <2>3, <3>1, <4>1
      <4> QED
        BY <4>2, <4>3
    <3>3. p - Offset(t) \in reported[t]
      BY <1>2, <3>2 DEF MarkOK
    <3>4. <<t, Offset(t) + (p - Offset(t))>> \in finished
      BY <1>2, <3>3 DEF MarkOK
    <3>5. Offset(t) + (p - Offset(t)) = p
      BY <2>1
    <3> QED
      BY <3>4, <3>5
  <2> QED
    BY <2>1, <2>2, <2>3
<1>10. /\ stored' \in [Topics -> Nat]
       /\ \A u \in Topics : u # t => stored'[u] = stored[u]
       /\ stored'[t] = stored[t] \/ stored'[t] = pending[f][t]
  BY Zenon, <1>2, <1>3, <1>4 DEF C!TypeOK
<1>11. /\ pending' \in [Flushers -> [Topics -> Nat]]
       /\ \A g \in Flushers, u \in Topics : pending'[g][u] = pending[g][u] \/ pending'[g][u] = 0
  BY <1>2, <1>3 DEF C!TypeOK
<1>12. TypeOK'
  <2>1. dirty' \in [Topics -> BOOLEAN]
    BY Zenon, <1>2, <1>3 DEF C!TypeOK
  <2>2. C!TypeOK'
    BY ZenonT(30), <1>1, <1>2, <1>10, <1>11, <2>1 DEF C!TypeOK
  <2> QED
    BY Zenon, <1>1, <1>2, <2>2 DEF TypeOK
<1>13. InFlight'
  BY Zenon, <1>1, <1>2 DEF InFlight, Known, Offset
<1>14. ASSUME NEW u \in Topics PROVE StreamOK(u)' /\ MarkOK(u)'
  <2>1. StreamOK(u) /\ MarkOK(u) /\ replayID[u] \in Nat
    BY <1>2 DEF PipelineInvariant, C!TypeOK
  <2>2. \A g \in Flushers : pending'[g][u] <= replayID[u]
    BY <1>11, <2>1 DEF MarkOK
  <2>3. MarkOK(u)'
    BY ZenonT(30), <1>1, <2>1, <2>2 DEF MarkOK, Offset
  <2>4. stored'[u] <= MaxEvents
    BY ZenonT(30), <1>8, <1>10, <2>1 DEF StreamOK
  <2>5. seq[u] = 0 => stored'[u] = stored[u]
    BY ZenonT(30), <1>7, <1>10
  <2> QED
    BY Zenon, <1>1, <2>1, <2>3, <2>4, <2>5 DEF StreamOK, Offset
<1>15. CursorNeverSkips'
  <2> SUFFICES ASSUME NEW u \in Topics, NEW p \in Positions, base[u] < p, p <= stored'[u]
               PROVE  <<u, p>> \in finished
    BY ZenonT(30), <1>1 DEF CursorNeverSkips
  <2>1. CASE stored'[u] = stored[u]
    BY Zenon, <1>2, <2>1 DEF CursorNeverSkips
  <2>2. CASE u = t /\ stored'[t] = pending[f][t]
    BY <1>9, <2>2
  <2> QED
    BY <1>10, <2>1, <2>2
<1> QED
  BY <1>12, <1>13, <1>14, <1>15 DEF PipelineInvariant

(* fanIn and the workers only pass on events that the process received. *)
LEMMA FanInInvariant ==
  ASSUME PipelineInvariant, NEW t \in Topics, FanIn(t) \/ FanInStops(t)
  PROVE  PipelineInvariant'
<1>1. InFlight /\ TypeOK
  BY DEF PipelineInvariant
<1>2. Known' = Known
  BY DEF FanIn, FanInStops, streams, Known, Offset
<1>3. /\ out[t] \in Seq(Known) /\ out[t] # <<>>
      /\ out' = [out EXCEPT ![t] = Tail(out[t])]
      /\ events' = events \/ events' = Append(events, Head(out[t]))
      /\ worker' = worker
  BY <1>1 DEF FanIn, FanInStops, InFlight
<1>4. Tail(out[t]) \in Seq(Known) /\ Head(out[t]) \in Known
  BY <1>3
<1>5. out' \in [Topics -> Seq(Known)]
  BY <1>1, <1>3, <1>4 DEF InFlight
<1>6. events' \in Seq(Known)
  <2>1. events \in Seq(Known)
    BY <1>1 DEF InFlight
  <2>2. \A h \in Known : Append(events, h) \in Seq(Known)
    BY <2>1
  <2> QED
    BY <1>3, <1>4, <2>1, <2>2
<1>7. InFlight'
  BY <1>1, <1>2, <1>3, <1>5, <1>6 DEF InFlight
<1>8. forwarding' \in [Topics -> BOOLEAN]
  BY Zenon, <1>1 DEF TypeOK, FanIn, FanInStops
<1>9. UNCHANGED <<published, up, canceled, streams, ticking, final, cursors, stored,
                  stops, history>>
  BY DEF FanIn, FanInStops
<1> QED
  BY <1>7, <1>8, <1>9, HandOverInvariant

LEMMA WorkerInvariant ==
  ASSUME PipelineInvariant, NEW w \in Workers, Take(w) \/ Abandon(w) \/ WorkerStops(w)
  PROVE  PipelineInvariant'
<1>1. InFlight /\ TypeOK
  BY DEF PipelineInvariant
<1>2. UNCHANGED <<published, up, canceled, streams, out, forwarding, ticking, final,
                  cursors, stored, stops, history>>
  BY DEF Take, Abandon, WorkerStops, channels
<1>3. Known' = Known
  BY Zenon, <1>2 DEF streams, Known, Offset
<1>4. CASE Take(w)
  <2>1. /\ events \in Seq(Known) /\ events # <<>> /\ events' = Tail(events)
        /\ worker' = [worker EXCEPT ![w] = Busy(Head(events))]
    BY <1>1, <1>4 DEF Take, InFlight
  <2>2. events' \in Seq(Known) /\ Head(events) \in Known
    BY <2>1
  <2>3. worker' \in [Workers -> {Idle, Stopped} \union {Busy(k) : k \in Known}]
    BY <1>1, <2>1, <2>2 DEF InFlight
  <2> QED
    BY <1>1, <1>2, <1>3, <2>2, <2>3, HandOverInvariant DEF InFlight, TypeOK
<1>5. CASE Abandon(w) \/ WorkerStops(w)
  <2>1. events' = events
    BY <1>5 DEF Abandon, WorkerStops, channels
  <2>2. worker' \in [Workers -> {Idle, Stopped} \union {Busy(k) : k \in Known}]
    BY <1>1, <1>5 DEF InFlight, Abandon, WorkerStops
  <2> QED
    BY <1>1, <1>2, <1>3, <2>1, <2>2, HandOverInvariant DEF InFlight, TypeOK
<1> QED
  BY <1>4, <1>5

(* Every step preserves the invariant. *)
LEMMA NextInvariant == PipelineInvariant /\ [Next]_vars => PipelineInvariant'
<1> SUFFICES ASSUME PipelineInvariant, [Next]_vars PROVE PipelineInvariant'
  OBVIOUS
<1>0. TypeOK
  BY DEF PipelineInvariant
<1>1. CASE UNCHANGED vars
  <2>1. UNCHANGED <<published, up, canceled, streamPos, lastReplayID, seq, connected,
                    channels, worker, ticking, final, cursors, stored, stops, history>>
    BY <1>1 DEF vars, streams
  <2> QED
    BY <1>0, <2>1, QuietInvariant DEF TypeOK
<1>2. ASSUME NEW t \in Topics, TopicStep(t) PROVE PipelineInvariant'
  <2>1. CASE Publish(t)
    <3>1. UNCHANGED <<up, canceled, streamPos, lastReplayID, seq, connected,
                      channels, worker, ticking, final, cursors, stored, stops, history>>
      BY <2>1 DEF Publish, streams
    <3>2. published' \in [Topics -> 0..MaxEvents]
      BY <1>0, <2>1 DEF Publish, TypeOK
    <3> QED
      BY <1>0, <3>1, <3>2, QuietInvariant DEF TypeOK
  <2>2. CASE Disconnect(t)
    <3>1. UNCHANGED <<published, up, canceled, streamPos, lastReplayID, seq,
                      channels, worker, ticking, final, cursors, stored, stops, history>>
      BY <2>2 DEF Disconnect
    <3>2. /\ connected' \in [Topics -> BOOLEAN]
          /\ \A u \in Topics : connected'[u] => connected[u]
      BY <1>0, <2>2 DEF Disconnect, TypeOK
    <3> QED
      BY <1>0, <3>1, <3>2, QuietInvariant DEF TypeOK
  <2> QED
    BY Zenon, <1>2, <2>1, <2>2, ConnectInvariant, ReceiveInvariant, FanInInvariant DEF TopicStep
<1>3. ASSUME NEW w \in Workers, WorkerStep(w) PROVE PipelineInvariant'
  BY Zenon, <1>3, WorkerInvariant, FinishInvariant DEF WorkerStep
<1>4. CASE CommitterStep
  <2>1. final \in {"no", "running", "failed", "done"}
    BY <1>0 DEF TypeOK
  <2>2. "ticker" \in Flushers /\ "final" \in Flushers
    BY DEF Flushers
  <2>3. CASE TickerFlush
    BY <2>1, <2>2, <2>3, FlushInvariant DEF TickerFlush
  <2>4. CASE TickerStops
    <3>1. UNCHANGED <<published, up, canceled, streamPos, lastReplayID, seq, connected,
                      channels, worker, final, cursors, stored, stops, history>>
      BY <2>4 DEF TickerStops, rest, streams
    <3>2. ticking' \in BOOLEAN
      BY Zenon, <2>4 DEF TickerStops
    <3> QED
      BY <1>0, <3>1, <3>2, QuietInvariant DEF TypeOK
  <2>5. CASE FinalFlush
    <3>1. final' \in {"no", "running", "failed", "done"}
      BY <2>5 DEF FinalFlush
    <3> QED
      BY <2>2, <2>5, <3>1, FlushInvariant DEF FinalFlush
  <2>6. ASSUME NEW f \in Flushers, EndFlush(f) PROVE PipelineInvariant'
    <3>1. final' \in {"no", "running", "failed", "done"}
      BY <2>1, <2>6 DEF EndFlush
    <3> QED
      BY <2>6, <3>1, FlushInvariant DEF EndFlush
  <2>7. ASSUME NEW f \in Flushers, NEW t \in Topics, SaveOk(f, t) \/ SaveFails(f, t)
        PROVE  PipelineInvariant'
    <3>1. final' \in {"no", "running", "failed", "done"}
      BY <2>1, <2>7 DEF SaveOk, SaveFails
    <3> QED
      BY <2>7, <3>1, SaveInvariant DEF SaveOk, SaveFails
  <2> QED
    BY <1>4, <2>3, <2>4, <2>5, <2>6, <2>7 DEF CommitterStep
<1>5. CASE Cancel
  <2>1. UNCHANGED <<published, up, streamPos, lastReplayID, seq, connected,
                    channels, worker, ticking, final, cursors, stored, history>>
    BY <1>5 DEF Cancel, streams
  <2>2. stops' \in 0..MaxStops
    BY <1>0, <1>5 DEF Cancel, TypeOK
  <2>3. canceled' \in BOOLEAN
    BY <1>5 DEF Cancel
  <2> QED
    BY <1>0, <2>1, <2>2, <2>3, QuietInvariant DEF TypeOK
<1>6. CASE Exit \/ Crash
  <2>1. Dies
    BY <1>6 DEF Exit, Crash
  <2>2. stops' \in 0..MaxStops
    BY <1>0, <1>6 DEF Exit, Crash, TypeOK
  <2> QED
    BY <2>1, <2>2, DiesInvariant
<1>7. CASE Start
  <2>1. UNCHANGED <<published, canceled, streamPos, lastReplayID, seq, connected,
                    channels, worker, ticking, final, cursors, stored, stops, history>>
    BY <1>7 DEF Start, streams
  <2>2. up' \in BOOLEAN
    BY <1>7 DEF Start
  <2> QED
    BY <1>0, <2>1, <2>2, QuietInvariant DEF TypeOK
<1> QED
  BY <1>1, <1>2, <1>3, <1>4, <1>5, <1>6, <1>7 DEF Next

(* The inductive invariant: in every process, sequence numbers are positions
   shifted by where it resumed, and the committer's cursor follows from them. *)
THEOREM PipelineInvariantHolds == Spec => []PipelineInvariant
  BY InitInvariant, NextInvariant, PTL DEF Spec

(* The row of replay_state never skips an event of a topic since it is followed,
   over reordering, abandoned events, failed saves, shutdowns and crashes. *)
THEOREM CursorNeverSkipsHolds == Spec => []CursorNeverSkips
<1>1. PipelineInvariant => CursorNeverSkips
  BY DEF PipelineInvariant
<1> QED
  BY <1>1, PipelineInvariantHolds, PTL
=============================================================================
