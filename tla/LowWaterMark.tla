---------------------------- MODULE LowWaterMark ----------------------------
(***************************************************************************)
(* What the replay committer promises, without saying how it keeps the     *)
(* promise.  Events of a topic finish in any order.  Now and then a replay *)
(* cursor is made durable; it only moves forward, and only to an event     *)
(* below which nothing is unfinished, so that a subscription resumed after *)
(* the cursor skips no event.                                              *)
(*                                                                         *)
(* The events of a topic that one process receives are numbered 1, 2, ...  *)
(* in stream order.  Replay IDs are opaque to the code; only their order   *)
(* in the stream matters, so the event numbered s has the replay ID        *)
(* Origin + s, and 0 stands for "no cursor".                               *)
(***************************************************************************)
EXTENDS Integers

CONSTANTS
  Topics,     \* the subscribed topics
  Origin,     \* replay position the process resumed after
  MaxSeq      \* number of events of a topic that the process may receive

VARIABLES
  finished,   \* finished[t]: numbers of the events that finished processing
  committed   \* committed[t]: the durable cursor

vars == <<finished, committed>>

Seqs == 1..MaxSeq

\* Every event up to and including replay position c has finished.
Covers(t, c) == \A s \in Seqs : Origin + s <= c => s \in finished[t]

Init ==
  /\ finished = [t \in Topics |-> {}]
  /\ committed = [t \in Topics |-> 0]

Finish(t, s) ==
  /\ finished' = [finished EXCEPT ![t] = @ \union {s}]
  /\ UNCHANGED committed

Commit(t, s) ==
  /\ Origin + s > committed[t]
  /\ Covers(t, Origin + s)
  /\ committed' = [committed EXCEPT ![t] = Origin + s]
  /\ UNCHANGED finished

Next == \E t \in Topics, s \in Seqs : Finish(t, s) \/ Commit(t, s)

Spec == Init /\ [][Next]_vars
=============================================================================
