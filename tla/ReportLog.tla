----------------------------- MODULE ReportLog -----------------------------
(***************************************************************************)
(* What an agent promises about its reports, whatever happens to its       *)
(* socket or its process: the server's log of a session is filled in the   *)
(* order the agent numbered its reports, with nothing skipped, and the     *)
(* reports of an earlier session come before those of a later one.  A      *)
(* report is given up only where the agent's own store failed.             *)
(*                                                                         *)
(* A report is a pair <<session, pos>>.  AgentDelivery implements this.    *)
(***************************************************************************)
EXTENDS Integers

CONSTANTS
    MaxSession,    \* sessions are 1 .. MaxSession, one per process start
    MaxPos,        \* positions of a session are 1 .. MaxPos
    StoreMayFail,  \* may the agent's store lose a report?
    ClockStepsBack \* may the clock that orders the sessions step back?

VARIABLES
    numbered,      \* numbered[s]: how many reports session s has recorded
    projected,     \* the reports in the server's log
    lost           \* the reports the agent gave up

vars == <<numbered, projected, lost>>

Sessions == 1 .. MaxSession
Keys == Sessions \X (1 .. MaxPos)

Recorded == {k \in Keys : k[2] <= numbered[k[1]]}

\* k must be in the log before f is.
MustPrecede(k, f) ==
    \/ k[1] = f[1] /\ k[2] < f[2]
    \/ ~ClockStepsBack /\ k[1] < f[1]

Init ==
    /\ numbered = [s \in Sessions |-> 0]
    /\ projected = {}
    /\ lost = {}

\* The agent numbers the next report of a session that no later one follows.
Record(s) ==
    /\ numbered[s] < MaxPos
    /\ \A t \in Sessions : s < t => numbered[t] = 0
    /\ numbered' = [numbered EXCEPT ![s] = @ + 1]
    /\ UNCHANGED <<projected, lost>>

\* The server logs a report whose predecessors are logged or given up.
Project(f) ==
    /\ f \in Recorded \ projected
    /\ \A k \in Recorded : MustPrecede(k, f) => k \in projected \cup lost
    /\ projected' = projected \cup {f}
    /\ UNCHANGED <<numbered, lost>>

\* Reports the store could not keep die with the process.
Lose ==
    /\ StoreMayFail
    /\ \E gone \in SUBSET Recorded : lost' = lost \cup gone
    /\ UNCHANGED <<numbered, projected>>

Next ==
    \/ \E s \in Sessions : Record(s)
    \/ \E f \in Keys : Project(f)
    \/ Lose

Spec == Init /\ [][Next]_vars
=============================================================================
