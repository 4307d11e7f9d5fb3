----------------------------- MODULE MCRegistration -----------------------------
(***************************************************************************)
(* An app with tasks and no files, and one with two files and, between     *)
(* them, an asset it only names a source for.                              *)
(***************************************************************************)
EXTENDS Registration

CONSTANTS t1, t2, a1, a2, a3

MCTasks == {t1, t2}
MCAssets == {a1, a2, a3}
MCFromSource == {a2}
MCApps == {[tasks |-> {t1, t2}, assets |-> <<>>],
           [tasks |-> {}, assets |-> <<a1, a2, a3>>]}
=============================================================================
