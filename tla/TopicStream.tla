----------------------------- MODULE TopicStream -----------------------------
(***************************************************************************)
(* What a topic's subscriber promises to the rest of the service, without  *)
(* flow control, responses and goroutines: while it is connected it emits  *)
(* the events of the topic one by one, each numbered and positioned right  *)
(* after its predecessor; it connects after the last event it emitted, or  *)
(* after the durable cursor, or at the end of the topic.                   *)
(*                                                                         *)
(* Subscriber implements this; so does each of the reduced subscribers in  *)
(* Pipeline, over restarts of the process.                                 *)
(***************************************************************************)
EXTENDS Integers

VARIABLES
  published,   \* number of events on the topic
  cursor,      \* the durable cursor, 0 if there is none
  connected,   \* a stream is open that may still emit
  at,          \* position reached on the open stream, 0 without one
  latest       \* number and position of the last event emitted

vars == <<published, cursor, connected, at, latest>>

None == [seq |-> 0, pos |-> 0]

Init ==
  /\ published \in Nat /\ cursor \in Nat
  /\ connected = FALSE /\ at = 0 /\ latest = None

Publish ==
  /\ published' = published + 1
  /\ UNCHANGED <<cursor, connected, at, latest>>

\* The position after which a new stream starts.
ResumeAfter ==
  IF latest.pos # 0 THEN latest.pos ELSE IF cursor # 0 THEN cursor ELSE published

Connect ==
  /\ ~connected
  /\ connected' = TRUE /\ at' = ResumeAfter
  /\ UNCHANGED <<published, cursor, latest>>

Emit ==
  /\ connected /\ at < published
  /\ at' = at + 1
  /\ latest' = [seq |-> latest.seq + 1, pos |-> at + 1]
  /\ UNCHANGED <<published, cursor, connected>>

Disconnect ==
  /\ connected
  /\ connected' = FALSE /\ at' = 0
  /\ UNCHANGED <<published, cursor, latest>>

\* The committer moves the cursor, over events that were emitted.
CursorMoves ==
  /\ cursor < cursor' /\ cursor' <= latest.pos
  /\ UNCHANGED <<published, connected, at, latest>>

\* The process ends; the next one remembers the cursor only.
Restart ==
  /\ connected' = FALSE /\ at' = 0 /\ latest' = None
  /\ UNCHANGED <<published, cursor>>

Next == Publish \/ Connect \/ Emit \/ Disconnect \/ CursorMoves \/ Restart

Spec == Init /\ [][Next]_vars
=============================================================================
