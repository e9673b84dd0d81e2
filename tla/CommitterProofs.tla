--------------------------- MODULE CommitterProofs ---------------------------
(***************************************************************************)
(* Proofs about Committer, for any set of topics, any set of goroutines    *)
(* that call Flush and any number of events.  Everything follows from one  *)
(* inductive invariant, CursorInvariant.                                   *)
(***************************************************************************)
EXTENDS Committer, TLAPS

\* The provers to try, with time for a busy machine; a leaf that needs no
\* arithmetic may cite Zenon alone.
USE SMTT(10), Zenon, SMTT(30), SMTT(60)

USE CommitterAssumption DEF ReplayOf, Seqs, NoReplay

(* A committer that NewCommitter has just built satisfies the invariant. *)
LEMMA InitInvariant == Init => CursorInvariant
  BY DEF Init, CursorInvariant, TypeOK, CursorOK, PendingOK, OneFlush, NoForgottenAdvance

(* A report below the cursor changes nothing but the history. *)
LEMMA RepeatInvariant ==
  ASSUME CursorInvariant, NEW t \in Topics, NEW s \in Seqs,
         Done(t, s, ReplayOf(s)), s < next[t], UNCHANGED cursorVars
  PROVE  CursorInvariant'
<1> USE DEF Done, cursorVars
<1>1. TypeOK /\ TypeOK'
  BY Zenon DEF CursorInvariant, TypeOK
<1>2. reported' = [reported EXCEPT ![t] = @ \union {s}]
  OBVIOUS
<1>3. ASSUME NEW u \in Topics
      PROVE  CursorOK(u)'
  <2>1. CursorOK(u) /\ UNCHANGED <<next, done, replayID, dirty, stored>>
    BY DEF CursorInvariant
  <2>2. reported'[u] = IF u = t THEN reported[u] \union {s} ELSE reported[u]
    BY Zenon, <1>1, <1>2 DEF TypeOK
  <2>3. \A m \in Seqs : m \in reported'[u] <=> m < next[u] \/ done[u][m] # NoReplay
    BY <2>1, <2>2 DEF CursorOK
  <2> QED
    BY <2>1, <2>3 DEF CursorOK
<1>4. UNCHANGED <<next, done, replayID, dirty, flushing, pending, stored>>
  OBVIOUS
<1>5. /\ \A f \in Flushers, u \in Topics : PendingOK(f, u)'
      /\ OneFlush'
      /\ NoForgottenAdvance'
  BY <1>4 DEF CursorInvariant, PendingOK, OneFlush, NoForgottenAdvance
<1> QED
  BY <1>1, <1>3, <1>5 DEF CursorInvariant

(* Done of an event the cursor has not passed: the loop of Done. *)
LEMMA AdvanceInvariant ==
  ASSUME CursorInvariant, NEW t \in Topics, NEW s \in Seqs,
         Done(t, s, ReplayOf(s)), s >= next[t], Advance(t, s, ReplayOf(s))
  PROVE  CursorInvariant'
<1> DEFINE d == [done[t] EXCEPT ![s] = ReplayOf(s)]
<1>1. PICK n \in next[t]..(MaxSeq + 1) :
        /\ StopsAt(d, next[t], n)
        /\ next' = [next EXCEPT ![t] = n]
        /\ done' = [done EXCEPT ![t] = [m \in Seqs |-> IF m < n THEN NoReplay ELSE d[m]]]
        /\ replayID' = [replayID EXCEPT ![t] = IF n = next[t] THEN @ ELSE d[n - 1]]
        /\ dirty' = [dirty EXCEPT ![t] = @ \/ n # next[t]]
  BY Zenon DEF Advance
<1>2. TypeOK
  BY DEF CursorInvariant
<1>3. /\ reported' = [reported EXCEPT ![t] = @ \union {s}]
      /\ UNCHANGED <<flushing, pending, stored>>
  BY DEF Done
<1>4. CursorOK(t)
  BY DEF CursorInvariant
<1>5. /\ n \in 1..(MaxSeq + 1)
      /\ d \in [Seqs -> Nat]
      /\ \A m \in Seqs : d[m] = IF m = s THEN ReplayOf(s) ELSE done[t][m]
      /\ \A m \in Seqs : m >= next[t] /\ m < n => d[m] = ReplayOf(m)
      /\ n \in Seqs => d[n] = NoReplay
  <2>1. done[t] \in [Seqs -> Nat] /\ next[t] \in 1..(MaxSeq + 1)
    BY <1>2 DEF TypeOK
  <2>2. d \in [Seqs -> Nat] /\ \A m \in Seqs : d[m] = IF m = s THEN ReplayOf(s) ELSE done[t][m]
    <3>1. ReplayOf(s) \in Nat
      OBVIOUS
    <3> HIDE DEF ReplayOf
    <3>2. d \in [Seqs -> Nat]
      BY <2>1, <3>1
    <3>3. \A m \in Seqs : d[m] = IF m = s THEN ReplayOf(s) ELSE done[t][m]
      BY <2>1
    <3> QED
      BY <3>2, <3>3
  <2> HIDE DEF d
  <2>3. n \in 1..(MaxSeq + 1) /\ (n \in Seqs => d[n] = NoReplay)
    BY <1>1, <2>1 DEF StopsAt
  <2>4. ASSUME NEW m \in Seqs, m >= next[t], m < n
        PROVE  d[m] = ReplayOf(m)
    <3>1. d[m] # NoReplay
      BY <1>1, <2>1, <2>3, <2>4 DEF StopsAt
    <3> QED
      BY Zenon, <1>4, <2>2, <3>1 DEF CursorOK
  <2> QED
    BY <2>2, <2>3, <2>4
<1> HIDE DEF d
<1>6. /\ next'[t] = n
      /\ replayID'[t] = IF n = next[t] THEN replayID[t] ELSE ReplayOf(n - 1)
      /\ dirty'[t] <=> (dirty[t] \/ n # next[t])
      /\ \A m \in Seqs : done'[t][m] = IF m < n THEN NoReplay ELSE d[m]
  <2>1. ASSUME n # next[t]
        PROVE  d[n - 1] = ReplayOf(n - 1)
    <3>1. next[t] \in 1..(MaxSeq + 1) /\ n \in next[t]..(MaxSeq + 1)
      BY <1>1, <1>2 DEF TypeOK
    <3>2. n - 1 \in Seqs /\ n - 1 >= next[t] /\ n - 1 < n
      BY <2>1, <3>1
    <3> QED
      BY <1>5, <3>2
  <2>2. replayID'[t] = IF n = next[t] THEN replayID[t] ELSE ReplayOf(n - 1)
    BY <1>1, <1>2, <2>1 DEF TypeOK
  <2> QED
    BY Zenon, <1>1, <1>2, <2>2 DEF TypeOK
<1>7. TypeOK'
  <2>1. [m \in Seqs |-> IF m < n THEN NoReplay ELSE d[m]] \in [Seqs -> Nat]
    BY <1>5
  <2>2. next' \in [Topics -> 1..(MaxSeq + 1)] /\ done' \in [Topics -> [Seqs -> Nat]]
    BY Zenon, <1>1, <1>2, <1>5, <2>1 DEF TypeOK
  <2>3. replayID' \in [Topics -> Nat]
    <3>1. replayID \in [Topics -> Nat] /\ next[t] \in 1..(MaxSeq + 1)
      BY <1>2 DEF TypeOK
    <3>2. n # next[t] => n - 1 \in Seqs
      BY <1>1, <3>1
    <3>3. (IF n = next[t] THEN replayID[t] ELSE d[n - 1]) \in Nat
      BY <1>5, <3>1, <3>2
    <3> QED
      BY <1>1, <3>1, <3>3
  <2>4. dirty' \in [Topics -> BOOLEAN]
    BY <1>1, <1>2 DEF TypeOK
  <2> QED
    BY Zenon, <1>2, <1>3, <2>2, <2>3, <2>4 DEF TypeOK
<1>8. CursorOK(t)'
  <2>1. reported'[t] = reported[t] \union {s} /\ stored'[t] = stored[t]
    BY <1>2, <1>3 DEF TypeOK
  <2>2. /\ next[t] \in 1..(MaxSeq + 1) /\ n >= next[t]
        /\ \A m \in Seqs : done[t][m] \in Nat
        /\ replayID[t] \in Nat /\ stored[t] \in Nat
    BY <1>1, <1>2 DEF TypeOK
  <2>3. ASSUME NEW m \in Seqs
        PROVE  m \in reported'[t] <=> m < next'[t] \/ done'[t][m] # NoReplay
    <3>1. /\ m \in reported[t] <=> m < next[t] \/ done[t][m] # NoReplay
          /\ done'[t][m] = IF m < n THEN NoReplay ELSE d[m]
          /\ d[m] = IF m = s THEN ReplayOf(s) ELSE done[t][m]
          /\ m >= next[t] /\ m < n => d[m] = ReplayOf(m)
      BY <1>4, <1>5, <1>6 DEF CursorOK
    <3>2. CASE m < n
      BY <1>6, <2>1, <2>2, <3>1, <3>2
    <3>3. CASE m >= n
      <4>1. n \in 1..(MaxSeq + 1) /\ next'[t] = n
        BY <1>5, <1>6
      <4>2. ~(m < n) /\ ~(m < next[t])
        BY <2>2, <3>3, <4>1
      <4>3. done'[t][m] = d[m]
        BY <3>1, <4>2
      <4>4. CASE m = s
        BY <2>1, <3>1, <4>1, <4>2, <4>3, <4>4
      <4>5. CASE m # s
        BY <2>1, <3>1, <4>1, <4>2, <4>3, <4>5
      <4> QED
        BY <4>4, <4>5
    <3> QED
      BY <1>5, <3>2, <3>3
  <2>4. ASSUME NEW m \in Seqs, done'[t][m] # NoReplay
        PROVE  m > next'[t] /\ done'[t][m] = ReplayOf(m)
    <3>1. m >= n /\ d[m] # NoReplay /\ done'[t][m] = d[m]
      BY <1>5, <1>6, <2>4
    <3>2. m > n
      BY <1>5, <3>1
    <3>3. d[m] = ReplayOf(m)
      BY Zenon, <1>4, <1>5, <3>1 DEF CursorOK
    <3> QED
      BY <1>6, <3>1, <3>2, <3>3
  <2>5. /\ n \in 1..(MaxSeq + 1) /\ next'[t] = n
        /\ replayID'[t] = IF n = next[t] THEN replayID[t] ELSE ReplayOf(n - 1)
        /\ dirty'[t] <=> (dirty[t] \/ n # next[t])
    BY <1>5, <1>6
  <2>6. /\ replayID[t] = IF next[t] = 1 THEN NoReplay ELSE ReplayOf(next[t] - 1)
        /\ dirty[t] => next[t] # 1
        /\ stored[t] <= replayID[t]
    BY <1>4 DEF CursorOK
  <2>7. replayID'[t] = IF next'[t] = 1 THEN NoReplay ELSE ReplayOf(next'[t] - 1)
    BY <2>2, <2>5, <2>6
  <2>8. dirty'[t] => next'[t] # 1
    BY <2>2, <2>5, <2>6
  <2>9. stored'[t] <= replayID'[t]
    BY <2>1, <2>2, <2>5, <2>6
  <2> QED
    BY <2>3, <2>4, <2>7, <2>8, <2>9 DEF CursorOK
<1>9. \A u \in Topics \ {t} : /\ next'[u] = next[u]
                              /\ done'[u] = done[u]
                              /\ replayID'[u] = replayID[u]
                              /\ dirty'[u] = dirty[u]
                              /\ reported'[u] = reported[u]
  BY <1>1, <1>2, <1>3 DEF TypeOK
<1>10. \A u \in Topics : CursorOK(u)'
  BY <1>3, <1>8, <1>9 DEF CursorInvariant, CursorOK
<1>11. ASSUME NEW f \in Flushers, NEW u \in Topics
       PROVE  PendingOK(f, u)'
  <2>1. PendingOK(f, u) /\ UNCHANGED <<flushing, pending, stored>>
    BY <1>3 DEF CursorInvariant
  <2>2. CASE u # t
    BY <1>9, <2>1, <2>2 DEF PendingOK
  <2>3. CASE u = t
    <3>1. /\ next[t] \in 1..(MaxSeq + 1) /\ n >= next[t]
          /\ replayID[t] \in Nat /\ pending[f][t] \in Nat
      BY <1>1, <1>2 DEF TypeOK
    <3>2. replayID[t] <= replayID'[t] /\ (replayID'[t] # replayID[t] => dirty'[t])
      <4>1. /\ n \in 1..(MaxSeq + 1)
            /\ replayID'[t] = IF n = next[t] THEN replayID[t] ELSE ReplayOf(n - 1)
            /\ dirty'[t] <=> (dirty[t] \/ n # next[t])
        BY <1>5, <1>6
      <4>2. replayID[t] = IF next[t] = 1 THEN NoReplay ELSE ReplayOf(next[t] - 1)
        BY <1>4 DEF CursorOK
      <4> QED
        BY <3>1, <4>1, <4>2
    <3>3. replayID'[t] \in Nat
      BY <1>7 DEF TypeOK
    <3> QED
      BY <1>6, <2>1, <2>3, <3>1, <3>2, <3>3 DEF PendingOK
  <2> QED
    BY <2>2, <2>3
<1>12. OneFlush' /\ NoForgottenAdvance'
  BY <1>3, <1>6, <1>9 DEF CursorInvariant, OneFlush, NoForgottenAdvance
<1> QED
  BY <1>7, <1>10, <1>11, <1>12 DEF CursorInvariant

(* Done, for an event below the cursor or above it, keeps the invariant. *)
LEMMA DoneInvariant ==
  ASSUME CursorInvariant, NEW t \in Topics, NEW s \in Seqs, Done(t, s, ReplayOf(s))
  PROVE  CursorInvariant'
  BY Zenon, RepeatInvariant, AdvanceInvariant DEF Done

(* Flush takes the lock and empties the dirty flags into pending[f]. *)
LEMMA BeginFlushInvariant ==
  ASSUME CursorInvariant, NEW f \in Flushers, BeginFlush(f)
  PROVE  CursorInvariant'
<1>1. /\ flushing = {} /\ flushing' = {f}
      /\ \A t \in Topics : ~dirty'[t]
      /\ UNCHANGED <<next, done, replayID, stored, reported>>
  BY DEF BeginFlush, FlushMuFree
<1>2. TypeOK
  BY DEF CursorInvariant
<1>3. \A t \in Topics : pending'[f][t] = IF dirty[t] THEN replayID[t] ELSE NoReplay
  BY <1>2 DEF BeginFlush, TypeOK
<1>4. \A g \in Flushers \ {f}, t \in Topics :
        pending'[g][t] = pending[g][t] /\ pending[g][t] = NoReplay
  BY <1>1, <1>2 DEF BeginFlush, TypeOK, CursorInvariant, PendingOK
<1>5. TypeOK'
  <2>1. [t \in Topics |-> IF dirty[t] THEN replayID[t] ELSE NoReplay] \in [Topics -> Nat]
    BY <1>2 DEF TypeOK
  <2> QED
    BY <1>1, <1>2, <2>1 DEF BeginFlush, TypeOK
<1>6. \A t \in Topics : CursorOK(t)'
  BY <1>1 DEF CursorInvariant, CursorOK
<1>7. ASSUME NEW g \in Flushers, NEW t \in Topics, pending'[g][t] # NoReplay
      PROVE  PendingOK(g, t)'
  <2>1. g = f /\ dirty[t] /\ pending'[g][t] = replayID[t]
    BY <1>3, <1>4, <1>7
  <2>2. replayID[t] = ReplayOf(next[t] - 1) /\ next[t] - 1 \in Seqs /\ stored[t] <= replayID[t]
    BY <1>2, <2>1 DEF CursorInvariant, CursorOK, TypeOK
  <2>3. f \in flushing' /\ stored' = stored /\ replayID' = replayID
    BY <1>1
  <2> QED
    BY <2>1, <2>2, <2>3 DEF PendingOK
<1>8. NoForgottenAdvance'
  <2> SUFFICES ASSUME NEW t \in Topics, stored'[t] # replayID'[t]
               PROVE  pending'[f][t] # NoReplay
    BY DEF NoForgottenAdvance
  <2>1. dirty[t]
    BY <1>1, <1>4 DEF CursorInvariant, NoForgottenAdvance, PendingOK
  <2>2. replayID[t] # NoReplay
    BY <1>2, <2>1 DEF CursorInvariant, CursorOK, TypeOK
  <2> QED
    BY <1>3, <2>1, <2>2
<1> QED
  BY <1>1, <1>5, <1>6, <1>7, <1>8 DEF CursorInvariant, OneFlush, PendingOK

(* A save, whatever its outcome: the row stays or takes the pending value, and
   if the save is reported as failed the topic is dirty again. *)
LEMMA SaveInvariant ==
  ASSUME CursorInvariant, NEW f \in Flushers, NEW t \in Topics,
         pending[f][t] # NoReplay,
         \/ stored' = [stored EXCEPT ![t] = pending[f][t]] /\ dirty' = dirty
         \/ /\ stored' \in {stored, [stored EXCEPT ![t] = pending[f][t]]}
            /\ dirty' = [dirty EXCEPT ![t] = TRUE],
         pending' = [pending EXCEPT ![f][t] = NoReplay],
         UNCHANGED <<next, done, replayID, flushing, reported>>
  PROVE  CursorInvariant'
<1>1. TypeOK
  BY DEF CursorInvariant
<1>2. PendingOK(f, t) /\ CursorOK(t)
  BY DEF CursorInvariant
<1>3. TypeOK'
  <2>1. stored' \in [Topics -> Nat]
    <3>1. pending[f][t] \in Nat /\ stored \in [Topics -> Nat]
      BY <1>1 DEF TypeOK
    <3>2. [stored EXCEPT ![t] = pending[f][t]] \in [Topics -> Nat]
      BY <3>1
    <3> QED
      BY <3>1, <3>2
  <2>2. dirty' \in [Topics -> BOOLEAN]
    BY Zenon, <1>1 DEF TypeOK
  <2>3. pending' \in [Flushers -> [Topics -> Nat]]
    BY <1>1 DEF TypeOK
  <2> QED
    BY <1>1, <2>1, <2>2, <2>3 DEF TypeOK
<1>4. /\ \A u \in Topics \ {t} : stored'[u] = stored[u] /\ dirty'[u] = dirty[u]
      /\ stored'[t] \in {stored[t], pending[f][t]}
      /\ dirty[t] => dirty'[t]
      /\ stored'[t] # pending[f][t] => dirty'[t]
      /\ dirty'[t] /\ ~dirty[t] => replayID[t] # NoReplay
  BY <1>1, <1>2 DEF TypeOK, PendingOK
<1>5. /\ pending'[f][t] = NoReplay
      /\ \A g \in Flushers, u \in Topics :
           g # f \/ u # t => pending'[g][u] = pending[g][u]
  BY <1>1 DEF TypeOK
<1>6. \A u \in Topics : CursorOK(u)'
  <2>1. CursorOK(t)'
    BY <1>1, <1>2, <1>4 DEF CursorOK, PendingOK, TypeOK
  <2>2. ASSUME NEW u \in Topics, u # t
        PROVE  CursorOK(u)'
    BY <1>4, <2>2 DEF CursorInvariant, CursorOK
  <2> QED
    BY <2>1, <2>2
<1>7. ASSUME NEW g \in Flushers, NEW u \in Topics, pending'[g][u] # NoReplay
      PROVE  PendingOK(g, u)'
  <2>1. u # t /\ pending'[g][u] = pending[g][u]
    BY <1>2, <1>5, <1>7 DEF CursorInvariant, PendingOK, OneFlush
  <2> QED
    BY <1>4, <2>1 DEF CursorInvariant, PendingOK
<1>8. NoForgottenAdvance'
  <2> SUFFICES ASSUME NEW u \in Topics, stored'[u] # replayID'[u], ~dirty'[u]
               PROVE  \E g \in Flushers : pending'[g][u] # NoReplay
    BY DEF NoForgottenAdvance
  <2>1. u # t
    BY <1>2, <1>4 DEF PendingOK
  <2> QED
    BY <1>4, <1>5, <2>1 DEF CursorInvariant, NoForgottenAdvance
<1> QED
  BY <1>3, <1>6, <1>7, <1>8 DEF CursorInvariant, OneFlush, PendingOK

(* Flush returns and gives flushMu back: the invariant is kept. *)
LEMMA EndFlushInvariant ==
  ASSUME CursorInvariant, NEW f \in Flushers, EndFlush(f)
  PROVE  CursorInvariant'
<1>1. /\ \A t \in Topics : pending[f][t] = NoReplay
      /\ flushing' = flushing \ {f}
      /\ UNCHANGED <<next, done, replayID, dirty, pending, stored, reported>>
  BY DEF EndFlush
<1>2. TypeOK' /\ OneFlush' /\ NoForgottenAdvance'
  BY <1>1 DEF CursorInvariant, TypeOK, OneFlush, NoForgottenAdvance
<1>3. \A t \in Topics : CursorOK(t)'
  BY <1>1 DEF CursorInvariant, CursorOK
<1>4. \A g \in Flushers, t \in Topics : PendingOK(g, t)'
  BY <1>1 DEF CursorInvariant, PendingOK
<1> QED
  BY <1>2, <1>3, <1>4 DEF CursorInvariant

-----------------------------------------------------------------------------

(* Every step of the committer keeps the inductive invariant. *)
LEMMA StepInvariant == CursorInvariant /\ [Next]_vars => CursorInvariant'
<1> SUFFICES ASSUME CursorInvariant, [Next]_vars PROVE CursorInvariant'
  OBVIOUS
<1>1. ASSUME NEW t \in Topics, NEW s \in Seqs, Done(t, s, ReplayOf(s))
      PROVE  CursorInvariant'
  BY <1>1, DoneInvariant
<1>2. ASSUME NEW f \in Flushers, BeginFlush(f)
      PROVE  CursorInvariant'
  BY <1>2, BeginFlushInvariant
<1>3. ASSUME NEW f \in Flushers, EndFlush(f)
      PROVE  CursorInvariant'
  BY <1>3, EndFlushInvariant
<1>4. ASSUME NEW f \in Flushers, NEW t \in Topics, SaveOk(f, t)
      PROVE  CursorInvariant'
  BY Zenon, <1>4, SaveInvariant DEF SaveOk
<1>5. ASSUME NEW f \in Flushers, NEW t \in Topics, SaveFails(f, t)
      PROVE  CursorInvariant'
  BY Zenon, <1>5, SaveInvariant DEF SaveFails
<1>6. CASE UNCHANGED vars
  BY <1>6 DEF vars, CursorInvariant, TypeOK, CursorOK, PendingOK, OneFlush, NoForgottenAdvance
<1> QED
  BY <1>1, <1>2, <1>3, <1>4, <1>5, <1>6 DEF Next

(* Committer.go keeps its cursors, its dirty flags and flushMu consistent in
   every reachable state. *)
THEOREM CursorInvariantHolds == Spec => []CursorInvariant
<1>1. Init => CursorInvariant
  BY InitInvariant
<1>2. CursorInvariant /\ [Next]_vars => CursorInvariant'
  BY StepInvariant
<1> QED
  BY <1>1, <1>2, PTL DEF Spec

(* The cursor kept by Done is exactly the low-water mark of the events that
   were reported, in whatever order the workers report them. *)
THEOREM LowWaterHolds == Spec => []LowWater
<1>1. CursorInvariant => LowWater
  <2> SUFFICES ASSUME CursorInvariant, NEW t \in Topics
               PROVE  LET mark == IF replayID[t] = NoReplay THEN Origin ELSE replayID[t] IN
                      /\ \A s \in Seqs : ReplayOf(s) <= mark => s \in reported[t]
                      /\ \A s \in reported[t] : ReplayOf(s) # mark + 1
    BY Zenon DEF LowWater
  <2> DEFINE mark == IF replayID[t] = NoReplay THEN Origin ELSE replayID[t]
  <2>1. /\ next[t] \in 1..(MaxSeq + 1) /\ reported[t] \subseteq Seqs
        /\ replayID[t] = IF next[t] = 1 THEN NoReplay ELSE ReplayOf(next[t] - 1)
    BY DEF CursorInvariant, TypeOK, CursorOK
  <2>2. mark = Origin + next[t] - 1
    BY <2>1
  <2> HIDE DEF mark
  <2>3. \A s \in Seqs : s < next[t] => s \in reported[t]
    BY DEF CursorInvariant, CursorOK
  <2>4. \A s \in reported[t] : s # next[t]
    BY <2>1 DEF CursorInvariant, CursorOK
  <2>5. \A s \in Seqs : ReplayOf(s) <= mark => s \in reported[t]
    BY <2>1, <2>2, <2>3
  <2>6. \A s \in reported[t] : ReplayOf(s) # mark + 1
    BY <2>1, <2>2, <2>4
  <2> QED
    BY <2>5, <2>6 DEF mark
<1> QED
  BY <1>1, CursorInvariantHolds, PTL

(* A cursor in replay_state covers only events that were reported done,
   whatever saves fail or are applied without an answer. *)
THEOREM StoredCoversOnlyDoneHolds == Spec => []StoredCoversOnlyDone
<1>1. CursorInvariant => StoredCoversOnlyDone
  <2> SUFFICES ASSUME CursorInvariant, NEW t \in Topics, NEW s \in Seqs,
                      ReplayOf(s) <= stored[t]
               PROVE  s \in reported[t]
    BY DEF StoredCoversOnlyDone
  <2>1. stored[t] \in Nat /\ replayID[t] \in Nat /\ next[t] \in 1..(MaxSeq + 1)
    BY DEF CursorInvariant, TypeOK
  <2>2. s < next[t]
    BY <2>1 DEF CursorInvariant, CursorOK
  <2> QED
    BY <2>2 DEF CursorInvariant, CursorOK
<1> QED
  BY <1>1, CursorInvariantHolds, PTL

(* A cursor advance that is not yet in the database is never forgotten by
   Flush, also when the save of one topic fails and others succeed. *)
THEOREM NoForgottenAdvanceHolds == Spec => []NoForgottenAdvance
<1>1. CursorInvariant => NoForgottenAdvance
  BY DEF CursorInvariant
<1> QED
  BY <1>1, CursorInvariantHolds, PTL

(* flushMu does its work: no flush writes an older snapshot over a newer. *)
THEOREM StoredNeverMovesBackHolds == Spec => StoredNeverMovesBack
<1>1. CursorInvariant /\ [Next]_vars => [\A t \in Topics : stored'[t] >= stored[t]]_stored
  <2> SUFFICES ASSUME CursorInvariant, [Next]_vars, stored' # stored, NEW t \in Topics
               PROVE  stored'[t] >= stored[t]
    OBVIOUS
  <2>1. PICK f \in Flushers, u \in Topics :
          /\ pending[f][u] # NoReplay
          /\ stored' = [stored EXCEPT ![u] = pending[f][u]]
    BY DEF Next, Done, BeginFlush, EndFlush, SaveOk, SaveFails, vars
  <2>2. stored \in [Topics -> Nat] /\ stored[u] <= pending[f][u]
    BY <2>1 DEF CursorInvariant, TypeOK, PendingOK
  <2> QED
    BY <2>1, <2>2
<1> QED
  BY <1>1, CursorInvariantHolds, PTL DEF Spec, StoredNeverMovesBack

(* The committer implements LowWaterMark: reports map to Finish, a save that
   reaches the row maps to Commit, and every other step is a stutter. *)
THEOREM CommitterImplementsLowWaterMark == Spec => ImplementsLowWaterMark
<1> USE DEF Promise!Seqs
<1>1. Init => Promise!Init
  BY DEF Init, Promise!Init
<1>2. CursorInvariant /\ [Next]_vars => [Promise!Next]_(Promise!vars)
  <2> SUFFICES ASSUME CursorInvariant, [Next]_vars,
                      ~UNCHANGED <<reported, stored>>
               PROVE  Promise!Next
    BY DEF Promise!vars
  <2>1. ASSUME NEW t \in Topics, NEW s \in Seqs, Done(t, s, ReplayOf(s))
        PROVE  Promise!Next
    BY Zenon, <2>1 DEF Done, Promise!Next, Promise!Finish
  <2>2. ASSUME NEW f \in Flushers, NEW t \in Topics, pending[f][t] # NoReplay,
               stored' = [stored EXCEPT ![t] = pending[f][t]], reported' = reported
        PROVE  Promise!Next
    <3>1. PICK s \in Seqs : pending[f][t] = ReplayOf(s)
      BY <2>2 DEF CursorInvariant, PendingOK
    <3>2. /\ stored \in [Topics -> Nat] /\ replayID[t] \in Nat /\ next[t] \in 1..(MaxSeq + 1)
          /\ stored[t] <= ReplayOf(s) /\ ReplayOf(s) <= replayID[t]
      BY <2>2, <3>1 DEF CursorInvariant, TypeOK, PendingOK
    <3>3. Origin + s > stored[t]
      BY <2>2, <3>1, <3>2
    <3>4. s < next[t]
      BY <3>2 DEF CursorInvariant, CursorOK
    <3>5. Promise!Covers(t, Origin + s)
      BY <3>2, <3>4 DEF Promise!Covers, CursorInvariant, CursorOK
    <3> QED
      BY Zenon, <2>2, <3>1, <3>3, <3>5 DEF Promise!Next, Promise!Commit
  <2> QED
    BY <2>1, <2>2 DEF Next, BeginFlush, EndFlush, SaveOk, SaveFails, vars
<1> QED
  BY <1>1, <1>2, CursorInvariantHolds, PTL DEF Spec, ImplementsLowWaterMark, Promise!Spec

=============================================================================
