-------------------------- MODULE PersistedStates --------------------------
(***************************************************************************)
(* The last value of each state an app declared persist= for, kept on disk *)
(* by RekuestAgent (agents/agent.py) in PersistedStates                    *)
(* (agents/persisted_state.py).  A "synchronous" state is written with     *)
(* each change, on the event loop; any other by a flusher, one task per    *)
(* state, that writes in a thread at most once per period.  The agent may  *)
(* be opened again after a close, in the same process or in another.       *)
(*                                                                         *)
(* A value is the number of the change that made it, 0 before the first    *)
(* (Python's None), over every run of the agent.                           *)
(***************************************************************************)
EXTENDS Integers, FiniteSets

CONSTANTS
    States,         \* the states declared persist=
    Synchronous,    \* those whose policy is "synchronous"
    MaxRev,         \* bound: changes
    WritesMayFail   \* may a write to the SQLite file fail?

Periodic == States \ Synchronous

ASSUME StatesAssumption == Synchronous \subseteq States
ASSUME BoundAssumption == MaxRev \in Nat /\ WritesMayFail \in BOOLEAN

VARIABLES
    phase,     \* "down", "running", "closing" (_aclose_state_store)
    rev,       \* the number of the last change
    value,     \* _current_shrunk_states
    dirty,     \* _dirty_states
    stop,      \* _state_flush_stop is set
    flusher,   \* flusher[s]: where _aflush_state_loop is
    threads,   \* <<s, r>>: a thread is in _write_state with value r of s
    disk,      \* the table last_state, 0 where there is no row
    previous,  \* _previous_states
    failed     \* history: states whose last write failed

vars == <<phase, rev, value, dirty, stop, flusher, threads, disk, previous, failed>>

Revs == 0 .. MaxRev

TypeOK ==
    /\ phase \in {"down", "running", "closing"}
    /\ rev \in Revs
    /\ value \in [States -> Revs]
    /\ dirty \in SUBSET States
    /\ stop \in BOOLEAN
    /\ flusher \in [Periodic -> {"waiting", "writing", "ended"}]
    /\ threads \in SUBSET (Periodic \X Revs)
    /\ disk \in [States -> Revs]
    /\ previous \in [States -> Revs]
    /\ failed \in SUBSET States

Init ==
    /\ phase = "down"
    /\ rev = 0
    /\ value = [s \in States |-> 0]
    /\ dirty = {}
    /\ stop = FALSE
    /\ flusher = [s \in Periodic |-> "ended"]
    /\ threads = {}
    /\ disk = [s \in States |-> 0]
    /\ previous = [s \in States |-> 0]
    /\ failed = {}

\* (Mutant of Open: a flusher for every state, whatever its policy.)
OpenFlushesAll ==
    /\ phase = "down"
    /\ phase' = "running"
    /\ stop' = FALSE
    /\ value' = [s \in States |-> 0]
    /\ \E changed \in SUBSET States :
          previous' = [s \in States |-> IF s \in changed THEN 0 ELSE disk[s]]
    /\ flusher' = [s \in States |-> "waiting"]
    /\ UNCHANGED <<rev, dirty, threads, disk, failed>>

\* _open_state_store: read what earlier runs left, except where the ports have
\* changed since, and start a flusher for each periodic state.
Open ==
    /\ phase = "down"
    /\ phase' = "running"
    /\ stop' = FALSE
    /\ value' = [s \in States |-> 0]
    /\ \E changed \in SUBSET States :
          previous' = [s \in States |-> IF s \in changed THEN 0 ELSE disk[s]]
    /\ flusher' = [s \in Periodic |-> "waiting"]
    /\ UNCHANGED <<rev, dirty, threads, disk, failed>>

\* _write_state of the values new[s], s in S: each is put, or fails and is logged.
Write(S, new) ==
    \E bad \in IF WritesMayFail THEN SUBSET S ELSE {{}} :
        /\ disk' = [s \in States |-> IF s \in S \ bad THEN new[s] ELSE disk[s]]
        /\ failed' = (failed \ S) \cup bad

\* (Mutant of Note: a flush under way is trusted to bring the change along.)
NoteUnlessWriting(S) ==
    /\ dirty' = dirty \cup {s \in S \cap Periodic : flusher[s] # "writing"}
    /\ Write(S \cap Synchronous, value')

\* _note_state_change: write a synchronous state, leave any other to its flusher.
Note(S) ==
    /\ dirty' = dirty \cup (S \cap Periodic)
    /\ Write(S \cap Synchronous, value')

\* A STATE_PATCH.
Patch(s) ==
    /\ phase = "running" /\ ~stop
    /\ value[s] > 0 /\ rev < MaxRev
    /\ rev' = rev + 1
    /\ value' = [value EXCEPT ![s] = rev + 1]
    /\ Note({s})
    /\ UNCHANGED <<phase, stop, flusher, threads, previous>>

\* The SESSION_INIT of a run: every state has a first value.
SessionInit ==
    /\ phase = "running" /\ ~stop
    /\ \A s \in States : value[s] = 0
    /\ rev < MaxRev
    /\ rev' = rev + 1
    /\ value' = [s \in States |-> rev + 1]
    /\ Note(States)
    /\ UNCHANGED <<phase, stop, flusher, threads, previous>>

\* (Mutant of AtLoopHead: the loop does not look at stop.)
AlwaysWaiting == "waiting"

\* Where the loop goes once an iteration is over.
AtLoopHead == IF stop THEN "ended" ELSE "waiting"

\* _aflush_state_loop: the period is over, or stop is set; take the value if it
\* is dirty (_take_dirty_state), and write it in a thread.
Wake(s) ==
    /\ flusher[s] = "waiting"
    /\ dirty' = dirty \ {s}
    /\ IF s \in dirty /\ value[s] > 0
       THEN /\ flusher' = [flusher EXCEPT ![s] = "writing"]
            /\ threads' = threads \cup {<<s, value[s]>>}
       ELSE /\ flusher' = [flusher EXCEPT ![s] = AtLoopHead]
            /\ UNCHANGED threads
    /\ UNCHANGED <<phase, rev, value, stop, disk, previous, failed>>

\* A thread's write is done, and the flusher that waits for it goes on.
Written(s) ==
    /\ \E r \in Revs :
          /\ <<s, r>> \in threads
          /\ threads' = threads \ {<<s, r>>}
          /\ Write({s}, [t \in States |-> r])
    /\ flusher' = [flusher EXCEPT ![s] = IF @ = "writing" THEN AtLoopHead ELSE @]
    /\ UNCHANGED <<phase, rev, value, dirty, stop, previous>>

\* _aclose_state_store: set stop ...
Close ==
    /\ phase = "running"
    /\ phase' = "closing"
    /\ stop' = TRUE
    /\ UNCHANGED <<rev, value, dirty, flusher, threads, disk, previous, failed>>

\* (Mutant of Closed: the flushers are not waited for.)
ClosedAtOnce ==
    /\ phase = "closing"
    /\ phase' = "down"
    /\ UNCHANGED <<rev, value, dirty, stop, flusher, threads, disk, previous, failed>>

\* ... wait for the flushers to end, and close the file.
Closed ==
    /\ phase = "closing"
    /\ \A s \in Periodic : flusher[s] = "ended"
    /\ phase' = "down"
    /\ UNCHANGED <<rev, value, dirty, stop, flusher, threads, disk, previous, failed>>

\* The process dies: what it had in memory is gone.
Crash ==
    /\ phase # "down"
    /\ phase' = "down"
    /\ dirty' = {}
    /\ value' = [s \in States |-> 0]
    /\ flusher' = [s \in Periodic |-> "ended"]
    /\ threads' = {}
    /\ failed' = {}
    /\ UNCHANGED <<rev, stop, disk, previous>>

Next ==
    \/ Open \/ SessionInit \/ Close \/ Closed \/ Crash
    \/ \E s \in States : Patch(s)
    \/ \E s \in Periodic : Wake(s) \/ Written(s)

Spec == Init /\ [][Next]_vars

\* The period's timer fires, the thread writes, and gather resumes.
Fairness ==
    /\ \A s \in Periodic : WF_vars(Wake(s)) /\ WF_vars(Written(s))
    /\ WF_vars(Closed)

FairSpec == Spec /\ Fairness

-----------------------------------------------------------------------------
(* Properties.                                                             *)

\* No change is forgotten while the agent runs: it is on disk, waits for its
\* flusher, is being written, or its write failed.  (_take_dirty_state clears
\* the mark before the write, so a change during the write marks again.)
NothingForgotten ==
    phase # "down" =>
        \A s \in States :
            \/ disk[s] = value[s]
            \/ s \in dirty \cup failed
            \/ s \in Periodic /\ flusher[s] = "writing" /\ <<s, value[s]>> \in threads
            \/ value[s] = 0

\* The disk never goes back to an older value, over closes, restarts and writes
\* under way.  (_aclose_state_store gathers the flushers.)
DiskNeverGoesBack == [][\A s \in States : disk'[s] >= disk[s]]_vars

\* While the agent runs on, each change of a periodic state reaches the disk
\* (at least in a newer value), unless its write fails: _write_state logs that,
\* and does not try again.
EventuallyOnDisk ==
    \A s \in States, r \in 1 .. MaxRev :
        value[s] = r ~> disk[s] >= r \/ s \in failed \/ phase # "running"

\* _aclose_state_store returns.
CloseEnds == phase = "closing" ~> phase = "down"

\* "A clean exit keeps the exact last value." (agents/agent.py:381)
CleanExitKeepsLastValue ==
    [][Closed => \A s \in States : value[s] > 0 => disk[s] = value[s]]_vars
=============================================================================
