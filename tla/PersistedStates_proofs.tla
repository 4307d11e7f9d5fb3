----------------------- MODULE PersistedStates_proofs -----------------------
(***************************************************************************)
(* Proofs about PersistedStates, for every set of states, every choice of  *)
(* the synchronous ones and every number of changes.                       *)
(***************************************************************************)
EXTENDS PersistedStates, TLAPS

-----------------------------------------------------------------------------
(* The inductive invariant.                                                *)

\* A state has at most one thread, whose value its flusher waits for: no older
\* than the disk, and, if the state has changed since, the mark is set again.
ThreadInv ==
    /\ \A s \in Periodic, r \in Revs : <<s, r>> \in threads =>
          /\ flusher[s] = "writing"
          /\ disk[s] <= r /\ r <= value[s]
          /\ r # value[s] => s \in dirty
    /\ \A s \in Periodic, r, q \in Revs : <<s, r>> \in threads /\ <<s, q>> \in threads => r = q

\* A flusher outlives neither its file nor its process; every value came from a
\* change that was counted, and none is older than what is on disk.
RunInv ==
    /\ phase = "down" => \A s \in Periodic : flusher[s] = "ended"
    /\ \A s \in States : value[s] <= rev /\ disk[s] <= rev
    /\ \A s \in States : value[s] = 0 \/ disk[s] <= value[s]

IInv == TypeOK /\ NothingForgotten /\ ThreadInv /\ RunInv

\* No number of a change is larger than the last one's.
LEMMA RevsAreNat == TypeOK => rev \in Nat /\ \A s \in States : value[s] \in Nat /\ disk[s] \in Nat
  BY BoundAssumption DEF TypeOK, Revs

LEMMA InitInv == Init => IInv
<1> SUFFICES ASSUME Init PROVE IInv
  OBVIOUS
<1>1. 0 \in Revs
  BY BoundAssumption DEF Revs
<1>2. TypeOK
  BY <1>1 DEF Init, TypeOK
<1>3. NothingForgotten /\ ThreadInv /\ RunInv
  BY DEF Init, NothingForgotten, ThreadInv, RunInv
<1> QED
  BY <1>2, <1>3 DEF IInv

-----------------------------------------------------------------------------
(* What a write does.                                                      *)

LEMMA WriteEffect ==
  ASSUME TypeOK, NEW S \in SUBSET States, NEW new \in [States -> Revs], Write(S, new)
  PROVE  /\ disk' \in [States -> Revs] /\ failed' \in SUBSET States
         /\ \A s \in States \ S : disk'[s] = disk[s] /\ (s \in failed' <=> s \in failed)
         /\ \A s \in S : \/ disk'[s] = new[s]
                         \/ disk'[s] = disk[s] /\ s \in failed'
<1>1. PICK bad \in IF WritesMayFail THEN SUBSET S ELSE {{}} :
         /\ disk' = [s \in States |-> IF s \in S \ bad THEN new[s] ELSE disk[s]]
         /\ failed' = (failed \ S) \cup bad
  BY DEF Write
<1>2. bad \subseteq S
  BY <1>1
<1> QED
  BY <1>1, <1>2 DEF TypeOK

-----------------------------------------------------------------------------
(* One lemma for each kind of step.                                        *)

\* The states S change to the next number.
LEMMA ChangeStep ==
  ASSUME IInv, NEW S \in SUBSET States, phase = "running", rev < MaxRev, rev' = rev + 1,
         value' \in [States -> Revs],
         \A s \in S : value'[s] = rev + 1, \A s \in States \ S : value'[s] = value[s],
         Note(S), UNCHANGED <<phase, stop, flusher, threads, previous>>
  PROVE  IInv' /\ \A s \in States : disk'[s] >= disk[s]
<1>1. TypeOK /\ NothingForgotten /\ ThreadInv /\ RunInv
  BY DEF IInv
<1>2. dirty' = dirty \cup (S \cap Periodic) /\ Write(S \cap Synchronous, value')
  BY DEF Note
<1>3. /\ disk' \in [States -> Revs] /\ failed' \in SUBSET States
      /\ \A s \in States \ (S \cap Synchronous) : disk'[s] = disk[s] /\ (s \in failed' <=> s \in failed)
      /\ \A s \in S \cap Synchronous : \/ disk'[s] = value'[s]
                                       \/ disk'[s] = disk[s] /\ s \in failed'
  BY <1>1, <1>2, WriteEffect
<1>4. rev \in Nat /\ rev + 1 \in Revs /\ \A s \in States : value[s] \in Nat /\ disk[s] \in Nat
  BY <1>1, RevsAreNat, BoundAssumption DEF Revs
<1>5. TypeOK'
  BY <1>1, <1>2, <1>3, <1>4 DEF TypeOK, Periodic
<1>6. NothingForgotten'
  <2> SUFFICES ASSUME NEW s \in States
               PROVE  \/ disk'[s] = value'[s]
                      \/ s \in dirty' \cup failed'
                      \/ s \in Periodic /\ flusher'[s] = "writing" /\ <<s, value'[s]>> \in threads'
                      \/ value'[s] = 0
    BY DEF NothingForgotten
  <2>1. CASE s \in S \cap Synchronous
    BY <1>3, <2>1
  <2>2. CASE s \in S \ Synchronous
    BY <1>2, <2>2 DEF Periodic
  <2>3. CASE s \notin S
    BY <1>1, <1>2, <1>3, <2>3 DEF NothingForgotten
  <2> QED
    BY <2>1, <2>2, <2>3
<1>7. \A s \in States : value[s] <= rev /\ disk[s] <= rev /\ (value[s] = 0 \/ disk[s] <= value[s])
  BY <1>1 DEF RunInv
<1>8. \A s \in States : disk'[s] \in {disk[s], rev + 1}
  BY <1>3
<1>9. RunInv'
  <2>1. ASSUME NEW s \in States
        PROVE  value'[s] <= rev + 1 /\ disk'[s] <= rev + 1 /\ (value'[s] = 0 \/ disk'[s] <= value'[s])
    <3>1. CASE s \in S
      BY <1>4, <1>7, <1>8, <3>1
    <3>2. CASE s \notin S
      BY <1>3, <1>4, <1>7, <3>2
    <3> QED
      BY <3>1, <3>2
  <2> QED
    BY <1>1, <2>1 DEF RunInv
<1>10. ThreadInv'
  <2>1. ASSUME NEW s \in Periodic, NEW r \in Revs, <<s, r>> \in threads
        PROVE  /\ disk'[s] <= r /\ r <= value'[s]
               /\ r # value'[s] => s \in dirty'
    <3>1. s \in States /\ s \notin Synchronous /\ r \in Nat
      BY BoundAssumption DEF Periodic, Revs
    <3>2. disk[s] <= r /\ r <= value[s] /\ (r # value[s] => s \in dirty)
      BY <1>1, <2>1 DEF ThreadInv
    <3>3. disk'[s] = disk[s]
      BY <1>3, <3>1
    <3>4. CASE s \in S
      BY <1>2, <1>4, <1>7, <2>1, <3>1, <3>2, <3>3, <3>4
    <3>5. CASE s \notin S
      BY <1>2, <3>1, <3>2, <3>3, <3>5
    <3> QED
      BY <3>4, <3>5
  <2> QED
    BY <1>1, <2>1 DEF ThreadInv
<1>11. \A s \in States : disk'[s] >= disk[s]
  BY <1>4, <1>7, <1>8
<1> QED
  BY <1>5, <1>6, <1>9, <1>10, <1>11 DEF IInv

\* The thread of s writes.
LEMMA WrittenStep ==
  ASSUME IInv, NEW s \in Periodic, Written(s)
  PROVE  IInv' /\ \A t \in States : disk'[t] >= disk[t]
<1>1. TypeOK /\ NothingForgotten /\ ThreadInv /\ RunInv
  BY DEF IInv
<1>2. PICK r \in Revs : <<s, r>> \in threads /\ threads' = threads \ {<<s, r>>}
                        /\ Write({s}, [t \in States |-> r])
  BY DEF Written
<1>3. /\ flusher' = [flusher EXCEPT ![s] = IF @ = "writing" THEN AtLoopHead ELSE @]
      /\ UNCHANGED <<phase, rev, value, dirty, stop, previous>>
  BY DEF Written
<1>4. s \in States /\ [t \in States |-> r] \in [States -> Revs]
  BY DEF Periodic
<1>5. /\ disk' \in [States -> Revs] /\ failed' \in SUBSET States
      /\ \A t \in States \ {s} : disk'[t] = disk[t] /\ (t \in failed' <=> t \in failed)
      /\ disk'[s] = r \/ (disk'[s] = disk[s] /\ s \in failed')
  BY <1>1, <1>2, <1>4, WriteEffect
<1>6. disk[s] <= r /\ r <= value[s] /\ (r # value[s] => s \in dirty)
      /\ \A q \in Revs : <<s, q>> \in threads => q = r
  BY <1>1, <1>2 DEF ThreadInv
<1>7. rev \in Nat /\ r \in Nat /\ \A t \in States : value[t] \in Nat /\ disk[t] \in Nat
  BY <1>1, RevsAreNat, BoundAssumption DEF Revs
<1>8. \A q \in Revs : <<s, q>> \notin threads'
  BY <1>2, <1>6
<1>9. \A t \in Periodic \ {s} : flusher'[t] = flusher[t]
                             /\ \A q \in Revs : <<t, q>> \in threads' <=> <<t, q>> \in threads
  BY <1>1, <1>2, <1>3 DEF TypeOK
<1>10. flusher' \in [Periodic -> {"waiting", "writing", "ended"}]
  BY <1>1, <1>3 DEF TypeOK, AtLoopHead
<1>11. TypeOK'
  BY <1>1, <1>2, <1>3, <1>5, <1>10 DEF TypeOK
<1>12. NothingForgotten'
  <2> SUFFICES ASSUME phase # "down", NEW t \in States
               PROVE  \/ disk'[t] = value[t]
                      \/ t \in dirty \cup failed'
                      \/ t \in Periodic /\ flusher'[t] = "writing" /\ <<t, value[t]>> \in threads'
                      \/ value[t] = 0
    BY <1>3 DEF NothingForgotten
  <2>1. CASE t = s
    BY <1>5, <1>6, <2>1
  <2>2. CASE t # s
    <3>1. t \in Periodic => (<<t, value[t]>> \in threads => <<t, value[t]>> \in threads')
      BY <1>2, <2>2
    <3> QED
      BY <1>1, <1>5, <1>9, <2>2, <3>1 DEF NothingForgotten
  <2> QED
    BY <2>1, <2>2
<1>13. RunInv'
  <2>1. \A t \in States : value[t] <= rev /\ disk'[t] <= rev /\ (value[t] = 0 \/ disk'[t] <= value[t])
    BY <1>1, <1>4, <1>5, <1>6, <1>7 DEF RunInv
  <2>2. phase # "down"
    BY <1>1, <1>2 DEF RunInv, ThreadInv
  <2> QED
    BY <1>3, <2>1, <2>2 DEF RunInv
<1>14. ThreadInv'
  <2>1. \A t \in Periodic : t # s => disk'[t] = disk[t]
    BY <1>5 DEF Periodic
  <2> QED
    BY <1>1, <1>3, <1>8, <1>9, <2>1 DEF ThreadInv
<1>15. \A t \in States : disk'[t] >= disk[t]
  BY <1>5, <1>6, <1>7
<1> QED
  BY <1>11, <1>12, <1>13, <1>14, <1>15 DEF IInv

\* The flusher of s wakes: it takes the mark and, if there is one, the value.
LEMMA WakeStep ==
  ASSUME IInv, NEW s \in Periodic, Wake(s)
  PROVE  IInv' /\ UNCHANGED disk
<1>1. TypeOK /\ NothingForgotten /\ ThreadInv /\ RunInv
  BY DEF IInv
<1>2. flusher[s] = "waiting" /\ dirty' = dirty \ {s}
      /\ UNCHANGED <<phase, rev, value, stop, disk, previous, failed>>
  BY DEF Wake
<1>3. s \in States /\ value[s] \in Revs /\ disk[s] \in Nat /\ value[s] \in Nat
  BY <1>1, RevsAreNat DEF TypeOK, Periodic
<1>4. \A r \in Revs : <<s, r>> \notin threads
  BY <1>1, <1>2 DEF ThreadInv
<1>5. phase # "down"
  BY <1>1, <1>2 DEF RunInv
<1>6. CASE s \in dirty /\ value[s] > 0
  <2>1. flusher' = [flusher EXCEPT ![s] = "writing"] /\ threads' = threads \cup {<<s, value[s]>>}
    BY <1>6 DEF Wake
  <2>2. flusher'[s] = "writing" /\ \A t \in Periodic \ {s} : flusher'[t] = flusher[t]
    BY <1>1, <2>1 DEF TypeOK
  <2>3. TypeOK'
    BY <1>1, <1>2, <1>3, <2>1 DEF TypeOK
  <2>4. NothingForgotten'
    BY <1>1, <1>2, <2>1, <2>2 DEF NothingForgotten
  <2>5. RunInv'
    BY <1>1, <1>2, <1>5 DEF RunInv
  <2>6. disk[s] <= value[s] /\ value[s] <= value[s]
    BY <1>1, <1>3, <1>6 DEF RunInv
  <2>7. ThreadInv'
    <3>1. \A t \in Periodic \ {s}, r \in Revs : <<t, r>> \in threads' <=> <<t, r>> \in threads
      BY <2>1
    <3>2. \A r \in Revs : <<s, r>> \in threads' <=> r = value[s]
      BY <1>3, <1>4, <2>1
    <3> QED
      BY <1>1, <1>2, <2>2, <2>6, <3>1, <3>2 DEF ThreadInv
  <2> QED
    BY <1>2, <2>3, <2>4, <2>5, <2>7 DEF IInv
<1>7. CASE ~(s \in dirty /\ value[s] > 0)
  <2>1. flusher' = [flusher EXCEPT ![s] = AtLoopHead] /\ threads' = threads
    BY <1>7 DEF Wake
  <2>2. flusher' \in [Periodic -> {"waiting", "writing", "ended"}]
    BY <1>1, <2>1 DEF TypeOK, AtLoopHead
  <2>3. \A t \in Periodic \ {s} : flusher'[t] = flusher[t]
    BY <1>1, <2>1 DEF TypeOK
  <2>4. TypeOK'
    BY <1>1, <1>2, <2>1, <2>2 DEF TypeOK
  <2>5. s \in dirty => value[s] = 0
    BY <1>3, <1>7
  <2>6. NothingForgotten'
    BY <1>1, <1>2, <1>3, <1>4, <2>1, <2>3, <2>5 DEF NothingForgotten
  <2>7. RunInv'
    BY <1>1, <1>2, <1>5 DEF RunInv
  <2>8. ThreadInv'
    BY <1>1, <1>2, <1>4, <2>1, <2>3 DEF ThreadInv
  <2> QED
    BY <1>2, <2>4, <2>6, <2>7, <2>8 DEF IInv
<1> QED
  BY <1>6, <1>7

LEMMA IInvStep == IInv /\ [Next]_vars => IInv' /\ \A s \in States : disk'[s] >= disk[s]
<1> SUFFICES ASSUME IInv, [Next]_vars
             PROVE  IInv' /\ \A s \in States : disk'[s] >= disk[s]
  OBVIOUS
<1>1. TypeOK /\ NothingForgotten /\ ThreadInv /\ RunInv
  BY DEF IInv
<1>2. rev \in Nat /\ \A s \in States : value[s] \in Nat /\ disk[s] \in Nat
  BY <1>1, RevsAreNat
<1>3. UNCHANGED disk => \A s \in States : disk'[s] >= disk[s]
  BY <1>2
<1>4. 0 \in Revs /\ (rev < MaxRev => rev + 1 \in Revs)
  BY <1>2, BoundAssumption DEF Revs
<1>5. phase = "down" => \A s \in Periodic, r \in Revs : <<s, r>> \notin threads
  BY <1>1 DEF RunInv, ThreadInv
<1>6. CASE Open
  <2>1. /\ phase = "down" /\ value' = [s \in States |-> 0]
        /\ flusher' = [s \in Periodic |-> "waiting"]
        /\ UNCHANGED <<rev, dirty, threads, disk, failed>>
        /\ phase' = "running" /\ stop' = FALSE
    BY <1>6 DEF Open
  <2>2. previous' \in [States -> Revs]
    BY <1>1, <1>4, <1>6 DEF Open, TypeOK
  <2>3. TypeOK'
    BY <1>1, <1>4, <2>1, <2>2 DEF TypeOK
  <2>4. NothingForgotten' /\ ThreadInv'
    BY <1>5, <2>1 DEF NothingForgotten, ThreadInv
  <2>5. RunInv'
    BY <1>1, <1>2, <2>1 DEF RunInv
  <2> QED
    BY <1>3, <2>1, <2>3, <2>4, <2>5 DEF IInv
<1>7. CASE SessionInit
  <2>1. /\ phase = "running" /\ rev < MaxRev /\ rev' = rev + 1
        /\ value' = [s \in States |-> rev + 1] /\ Note(States)
        /\ UNCHANGED <<phase, stop, flusher, threads, previous>>
    BY <1>7 DEF SessionInit
  <2>2. value' \in [States -> Revs] /\ \A s \in States : value'[s] = rev + 1
    BY <1>4, <2>1
  <2> QED
    BY <2>1, <2>2, ChangeStep
<1>8. ASSUME NEW s \in States, Patch(s)
      PROVE  IInv' /\ \A t \in States : disk'[t] >= disk[t]
  <2>1. /\ phase = "running" /\ rev < MaxRev /\ rev' = rev + 1
        /\ value' = [value EXCEPT ![s] = rev + 1] /\ Note({s})
        /\ UNCHANGED <<phase, stop, flusher, threads, previous>>
    BY <1>8 DEF Patch
  <2>2. /\ value' \in [States -> Revs] /\ \A t \in {s} : value'[t] = rev + 1
        /\ \A t \in States \ {s} : value'[t] = value[t]
    BY <1>1, <1>4, <2>1 DEF TypeOK
  <2> QED
    BY <2>1, <2>2, ChangeStep
<1>9. ASSUME NEW s \in Periodic, Wake(s)
      PROVE  IInv' /\ \A t \in States : disk'[t] >= disk[t]
  BY <1>3, <1>9, WakeStep
<1>10. ASSUME NEW s \in Periodic, Written(s)
       PROVE  IInv' /\ \A t \in States : disk'[t] >= disk[t]
  BY <1>10, WrittenStep
<1>11. CASE Close
  <2>1. TypeOK' /\ NothingForgotten'
    BY <1>1, <1>11 DEF Close, TypeOK, NothingForgotten
  <2>2. ThreadInv' /\ RunInv'
    BY <1>1, <1>11 DEF Close, ThreadInv, RunInv
  <2> QED
    BY <1>3, <1>11, <2>1, <2>2 DEF Close, IInv
<1>12. CASE Closed
  <2>1. TypeOK' /\ NothingForgotten'
    BY <1>1, <1>12 DEF Closed, TypeOK, NothingForgotten
  <2>2. ThreadInv' /\ RunInv'
    BY <1>1, <1>12 DEF Closed, ThreadInv, RunInv
  <2> QED
    BY <1>3, <1>12, <2>1, <2>2 DEF Closed, IInv
<1>13. CASE Crash
  <2>1. TypeOK'
    BY <1>1, <1>4, <1>13 DEF Crash, TypeOK
  <2>2. NothingForgotten' /\ ThreadInv'
    BY <1>13 DEF Crash, NothingForgotten, ThreadInv
  <2>3. RunInv'
    BY <1>1, <1>2, <1>13 DEF Crash, RunInv
  <2> QED
    BY <1>3, <1>13, <2>1, <2>2, <2>3 DEF Crash, IInv
<1>14. CASE UNCHANGED vars
  <2>1. TypeOK' /\ NothingForgotten'
    BY <1>1, <1>14 DEF vars, TypeOK, NothingForgotten
  <2>2. ThreadInv' /\ RunInv'
    BY <1>1, <1>14 DEF vars, ThreadInv, RunInv
  <2> QED
    BY <1>3, <1>14, <2>1, <2>2 DEF vars, IInv
<1> QED
  BY <1>6, <1>7, <1>8, <1>9, <1>10, <1>11, <1>12, <1>13, <1>14 DEF Next

-----------------------------------------------------------------------------
(* The theorems.                                                           *)

\* Every variable keeps its range.
THEOREM TypeCorrect == Spec => []TypeOK
<1>1. IInv => TypeOK
  BY DEF IInv
<1> QED
  BY InitInv, IInvStep, <1>1, PTL DEF Spec

\* No change is dropped between the mark, the thread and the disk, in whatever
\* order changes, wake-ups and writes come.
THEOREM ChangesAreKept == Spec => []NothingForgotten
<1>1. IInv => NothingForgotten
  BY DEF IInv
<1> QED
  BY InitInv, IInvStep, <1>1, PTL DEF Spec

\* No write lands after a newer one.
THEOREM DiskGoesForward == Spec => DiskNeverGoesBack
<1>1. IInv /\ [Next]_vars => [\A s \in States : disk'[s] >= disk[s]]_vars
  BY IInvStep
<1> QED
  BY InitInv, IInvStep, <1>1, PTL DEF Spec, DiskNeverGoesBack
=============================================================================
