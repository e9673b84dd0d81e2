------------------------------ MODULE Committer ------------------------------
(***************************************************************************)
(* The replay committer (internal/replay/committer.go) and the table it    *)
(* writes (replay_state, through internal/storage/replay_repo.go).         *)
(*                                                                         *)
(* Workers report finished events through Done in any order; Flush, called *)
(* by the ticker goroutine and once more at shutdown, persists the cursors *)
(* that advanced.  c.mu makes Done, snapshot and markDirty atomic; flushMu *)
(* is held across a whole Flush, whose database writes interleave with     *)
(* further calls of Done.                                                  *)
(*                                                                         *)
(* The map c.topics is created lazily.  A topic without an entry behaves   *)
(* like a fresh topicCursor (next 1, nothing done, not dirty), so every    *)
(* topic has an entry here.  Replay IDs are stream positions (see          *)
(* LowWaterMark); NoReplay is the nil slice and also marks an absent key   *)
(* of the maps done and pending.                                           *)
(***************************************************************************)
EXTENDS Integers

CONSTANTS
  Topics,     \* the subscribed topics
  Flushers,   \* the goroutines that call Flush
  Origin,     \* replay position the process resumed after
  MaxSeq      \* bound on the events of a topic that the process receives

ASSUME CommitterAssumption == Origin \in Nat /\ MaxSeq \in Nat

NoReplay == 0

Seqs == 1..MaxSeq

\* The replay ID of the event at position s of a topic's stream.
ReplayOf(s) == Origin + s

VARIABLES
  next,       \* topicCursor.next: the lowest sequence number not yet done
  done,       \* topicCursor.done: completed events above the gap at next
  replayID,   \* topicCursor.replayID: the cursor for every event below next
  dirty,      \* topicCursor.dirty
  flushing,   \* the goroutines inside Flush, holding flushMu
  pending,    \* pending[f]: what f's snapshot returned and f has not saved yet
  stored,     \* the rows of replay_state
  reported    \* history: the sequence numbers passed to Done

cursorVars == <<next, done, replayID, dirty>>
vars == <<next, done, replayID, dirty, flushing, pending, stored, reported>>

Init ==
  /\ next = [t \in Topics |-> 1]
  /\ done = [t \in Topics |-> [s \in Seqs |-> NoReplay]]
  /\ replayID = [t \in Topics |-> NoReplay]
  /\ dirty = [t \in Topics |-> FALSE]
  /\ flushing = {}
  /\ pending = [f \in Flushers |-> [t \in Topics |-> NoReplay]]
  /\ stored = [t \in Topics |-> NoReplay]
  /\ reported = [t \in Topics |-> {}]

-----------------------------------------------------------------------------
(* Done *)

\* Mutant: the loop looks past a hole, following the latest completion.
StopsAtLatest(d, k, n) ==
  /\ \A m \in n..MaxSeq : d[m] = NoReplay
  /\ n > k => d[n - 1] # NoReplay

\* The loop of Done, started at k over the map d, stops at n.
StopsAt(d, k, n) ==
  /\ n \in Seqs => d[n] = NoReplay
  /\ \A m \in k..(n - 1) : d[m] # NoReplay

\* Done(topic, seq, replayID) of an event the cursor has not passed.
Advance(t, s, r) ==
  LET d == [done[t] EXCEPT ![s] = r] IN
  \E n \in next[t]..(MaxSeq + 1) :
    /\ StopsAt(d, next[t], n)
    /\ next' = [next EXCEPT ![t] = n]
    /\ done' = [done EXCEPT ![t] = [m \in Seqs |-> IF m < n THEN NoReplay ELSE d[m]]]
    /\ replayID' = [replayID EXCEPT ![t] = IF n = next[t] THEN @ ELSE d[n - 1]]
    /\ dirty' = [dirty EXCEPT ![t] = @ \/ n # next[t]]

Done(t, s, r) ==
  /\ \/ s < next[t] /\ UNCHANGED cursorVars
     \/ s >= next[t] /\ Advance(t, s, r)
  /\ reported' = [reported EXCEPT ![t] = @ \union {s}]
  /\ UNCHANGED <<flushing, pending, stored>>

-----------------------------------------------------------------------------
(* Flush *)

\* Mutant: Flush does not take flushMu.
FlushMuIgnored(f) == TRUE

FlushMuFree(f) == flushing = {}

\* Flush takes flushMu and the snapshot: the dirty cursors, now clean.
BeginFlush(f) ==
  /\ f \notin flushing
  /\ FlushMuFree(f)
  /\ flushing' = flushing \union {f}
  /\ pending' = [pending EXCEPT ![f] =
                   [t \in Topics |-> IF dirty[t] THEN replayID[t] ELSE NoReplay]]
  /\ dirty' = [t \in Topics |-> FALSE]
  /\ UNCHANGED <<next, done, replayID, stored, reported>>

\* SaveReplay succeeds: the upsert of ReplayRepo.Set.
SaveOk(f, t) ==
  /\ pending[f][t] # NoReplay
  /\ stored' = [stored EXCEPT ![t] = pending[f][t]]
  /\ pending' = [pending EXCEPT ![f][t] = NoReplay]
  /\ UNCHANGED <<next, done, replayID, dirty, flushing, reported>>

\* Mutant: Flush continues without calling markDirty.
SaveFailsForgets(f, t) ==
  /\ pending[f][t] # NoReplay
  /\ stored' \in {stored, [stored EXCEPT ![t] = pending[f][t]]}
  /\ pending' = [pending EXCEPT ![f][t] = NoReplay]
  /\ UNCHANGED <<next, done, replayID, dirty, flushing, reported>>

\* SaveReplay returns an error and the topic is marked dirty again.  The row
\* may have been written all the same, when only the answer was lost.
SaveFails(f, t) ==
  /\ pending[f][t] # NoReplay
  /\ stored' \in {stored, [stored EXCEPT ![t] = pending[f][t]]}
  /\ dirty' = [dirty EXCEPT ![t] = TRUE]
  /\ pending' = [pending EXCEPT ![f][t] = NoReplay]
  /\ UNCHANGED <<next, done, replayID, flushing, reported>>

EndFlush(f) ==
  /\ f \in flushing
  /\ \A t \in Topics : pending[f][t] = NoReplay
  /\ flushing' = flushing \ {f}
  /\ UNCHANGED <<next, done, replayID, dirty, pending, stored, reported>>

-----------------------------------------------------------------------------

Next ==
  \/ \E t \in Topics, s \in Seqs : Done(t, s, ReplayOf(s))
  \/ \E f \in Flushers : BeginFlush(f) \/ EndFlush(f)
  \/ \E f \in Flushers, t \in Topics : SaveOk(f, t) \/ SaveFails(f, t)

Spec == Init /\ [][Next]_vars

\* Run's ticker keeps calling Flush, and Flush saves every topic of its
\* snapshot and returns.  Strong fairness of SaveOk says that the database
\* does not fail for ever: a save tried again and again succeeds at last.
Fairness ==
  /\ WF_vars(\E f \in Flushers : BeginFlush(f))
  /\ \A f \in Flushers :
       /\ WF_vars(EndFlush(f))
       /\ WF_vars(\E t \in Topics : SaveOk(f, t) \/ SaveFails(f, t))
  /\ \A t \in Topics : SF_vars(\E f \in Flushers : SaveOk(f, t))

FairSpec == Spec /\ Fairness

-----------------------------------------------------------------------------
(* Properties *)

\* Every variable keeps its type.
TypeOK ==
  /\ next \in [Topics -> 1..(MaxSeq + 1)]
  /\ done \in [Topics -> [Seqs -> Nat]]
  /\ replayID \in [Topics -> Nat]
  /\ dirty \in [Topics -> BOOLEAN]
  /\ flushing \in SUBSET Flushers
  /\ pending \in [Flushers -> [Topics -> Nat]]
  /\ stored \in [Topics -> Nat]
  /\ reported \in [Topics -> SUBSET Seqs]

\* The cursor kept by Done is the low-water mark exactly: every event up to
\* replayID has been reported, and the event after it has not.
LowWater ==
  \A t \in Topics :
    LET mark == IF replayID[t] = NoReplay THEN Origin ELSE replayID[t] IN
    /\ \A s \in Seqs : ReplayOf(s) <= mark => s \in reported[t]
    /\ \A s \in reported[t] : ReplayOf(s) # mark + 1

\* A row of replay_state never covers an event that was not reported done, so
\* a restart resuming after it skips nothing unfinished.
StoredCoversOnlyDone ==
  \A t \in Topics, s \in Seqs : ReplayOf(s) <= stored[t] => s \in reported[t]

\* "flushMu serializes flushes so an older snapshot is never written after a
\* newer one": no step moves a row of replay_state backwards.
StoredNeverMovesBack == [][\A t \in Topics : stored'[t] >= stored[t]]_stored

\* An advance of the cursor that is not in the database yet is never
\* forgotten: the topic is dirty or a running Flush still has to save it.
NoForgottenAdvance ==
  \A t \in Topics :
    stored[t] # replayID[t] =>
      dirty[t] \/ \E f \in Flushers : pending[f][t] # NoReplay

\* Topic t's cursor summarises what was reported; the row trails it.
CursorOK(t) ==
  /\ \A s \in Seqs : s \in reported[t] <=> s < next[t] \/ done[t][s] # NoReplay
  /\ \A s \in Seqs : done[t][s] # NoReplay => s > next[t] /\ done[t][s] = ReplayOf(s)
  /\ replayID[t] = IF next[t] = 1 THEN NoReplay ELSE ReplayOf(next[t] - 1)
  /\ dirty[t] => next[t] # 1
  /\ stored[t] <= replayID[t]

\* A save that f still has to make is f's alone to make, lies between the row
\* and the cursor, and a cursor that has moved past it is dirty.
PendingOK(f, t) ==
  pending[f][t] # NoReplay =>
    /\ f \in flushing
    /\ \E s \in Seqs : pending[f][t] = ReplayOf(s)
    /\ stored[t] <= pending[f][t]
    /\ pending[f][t] <= replayID[t]
    /\ pending[f][t] # replayID[t] => dirty[t]

\* flushMu is held by one goroutine at most.
OneFlush == \A f, g \in flushing : f = g

\* The inductive invariant behind the properties above.
CursorInvariant ==
  /\ TypeOK
  /\ \A t \in Topics : CursorOK(t)
  /\ \A f \in Flushers, t \in Topics : PendingOK(f, t)
  /\ OneFlush
  /\ NoForgottenAdvance

\* Every advance of a cursor reaches the database, however many saves fail
\* before the database recovers.
AdvanceIsPersisted ==
  \A t \in Topics, s \in Seqs : (next[t] > s) ~> (stored[t] >= ReplayOf(s))

\* The committer implements the low-water mark it promises.
Promise == INSTANCE LowWaterMark WITH finished <- reported, committed <- stored
ImplementsLowWaterMark == Promise!Spec
=============================================================================
