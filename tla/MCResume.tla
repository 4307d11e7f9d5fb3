------------------------------ MODULE MCResume ------------------------------
(***************************************************************************)
(* Two workflows for TLC.  t1 takes a value, then makes the same call      *)
(* twice, at a time; t2 makes that call too, then reports.                 *)
(***************************************************************************)
EXTENDS Resume, TLC

MCTasks == {"t1", "t2"}
MCEffects == {"e1"}
MCReports == {"p2"}
MCCalls == {"c1", "d1", "c2"}
MCTaskOf == [p \in {"e1", "c1", "d1"} |-> "t1"] @@ [p \in {"c2", "p2"} |-> "t2"]
MCNeeds == [p \in {"e1", "c2"} |-> {}] @@ [p \in {"c1", "d1"} |-> {"e1"}] @@ [p \in {"p2"} |-> {"c2"}]
MCBase == [c \in MCCalls |-> "move"]
=============================================================================
