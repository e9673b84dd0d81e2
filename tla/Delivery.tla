------------------------------ MODULE Delivery ------------------------------
(***************************************************************************)
(* What the service promises for its topics, without saying how: events    *)
(* are delivered at least once, in any order, and the durable replay       *)
(* cursor of a topic only moves forward, over events that were delivered.  *)
(* A topic without a cursor is followed from wherever its stream starts.   *)
(*                                                                         *)
(* Pipeline keeps the promise over restarts, with "delivered" meaning      *)
(* acked.  WorkerPool keeps it with "delivered" meaning stored in Postgres *)
(* and Kafka, or skipped because the payload does not decode.              *)
(***************************************************************************)
EXTENDS Integers

CONSTANTS
  Topics,      \* the subscribed topics
  MaxEvents    \* bound on the events published on a topic

VARIABLES
  published,   \* published[t]: number of events on the topic
  base,        \* base[t]: position after which the topic is followed
  delivered,   \* <<t, p>> of the events that were delivered
  cursor       \* cursor[t]: the durable cursor, 0 if there is none

vars == <<published, base, delivered, cursor>>

Positions == 1..MaxEvents

\* Resuming after position p skips nothing that has to be delivered.
Covered(t, p) ==
  \A q \in Positions : base[t] < q /\ q <= p => <<t, q>> \in delivered

Init ==
  /\ published \in [Topics -> 0..MaxEvents]
  /\ base \in [Topics -> 0..MaxEvents]
  /\ \A t \in Topics : base[t] <= published[t]
  /\ cursor = base
  /\ delivered = {}

Publish(t) ==
  /\ published' = [published EXCEPT ![t] = @ + 1]
  /\ UNCHANGED <<base, delivered, cursor>>

\* The topic has no cursor: a new stream starts at its end.
Follow(t) ==
  /\ cursor[t] = 0
  /\ base' = [base EXCEPT ![t] = published[t]]
  /\ UNCHANGED <<published, delivered, cursor>>

Deliver(t, p) ==
  /\ base[t] < p /\ p <= published[t]
  /\ delivered' = delivered \union {<<t, p>>}
  /\ UNCHANGED <<published, base, cursor>>

Commit(t, p) ==
  /\ cursor[t] < p /\ p <= published[t]
  /\ Covered(t, p)
  /\ cursor' = [cursor EXCEPT ![t] = p]
  /\ UNCHANGED <<published, base, delivered>>

Next ==
  \E t \in Topics :
    \/ Publish(t) \/ Follow(t)
    \/ \E p \in Positions : Deliver(t, p) \/ Commit(t, p)

Spec == Init /\ [][Next]_vars
=============================================================================
