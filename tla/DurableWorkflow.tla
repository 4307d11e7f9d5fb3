-------------------------- MODULE DurableWorkflow --------------------------
(***************************************************************************)
(* What a workflow is promised whatever becomes of the processes that run  *)
(* it (docs/workflows.md, "Resume"): a value it took from outside is taken *)
(* once, each of its calls is one child, and it ends once, with every      *)
(* value and every child on record.  Resume implements this.               *)
(***************************************************************************)
EXTENDS Naturals, FiniteSets

CONSTANTS
    Tasks,     \* the workflows
    Effects,   \* the values they take from outside, by key
    Calls,     \* the calls they make
    TaskOf,    \* TaskOf[p]: the workflow of an effect or a call
    Base,      \* Base[c]: the target and the arguments of a call
    MaxRun     \* a value is the run (1 .. MaxRun) that took it

VARIABLES
    value,     \* value[e]: the value on record, 0 where there is none
    children,  \* how many children a workflow has of a target
    ended      \* the workflows whose end is on record

vars == <<value, children, ended>>

Bases == {Base[c] : c \in Calls}
CallsTo(t, b) == {c \in Calls : TaskOf[c] = t /\ Base[c] = b}

Init ==
    /\ value = [e \in Effects |-> 0]
    /\ children = [t \in Tasks |-> [b \in Bases |-> 0]]
    /\ ended = {}

Fix(e) ==
    /\ value[e] = 0 /\ TaskOf[e] \notin ended
    /\ \E v \in 1 .. MaxRun : value' = [value EXCEPT ![e] = v]
    /\ UNCHANGED <<children, ended>>

Create(t, b) ==
    /\ t \notin ended
    /\ children[t][b] < Cardinality(CallsTo(t, b))
    /\ children' = [children EXCEPT ![t][b] = @ + 1]
    /\ UNCHANGED <<value, ended>>

End(t) ==
    /\ t \notin ended
    /\ \A e \in Effects : TaskOf[e] = t => value[e] # 0
    /\ \A b \in Bases : children[t][b] = Cardinality(CallsTo(t, b))
    /\ ended' = ended \cup {t}
    /\ UNCHANGED <<value, children>>

Next ==
    \/ \E e \in Effects : Fix(e)
    \/ \E t \in Tasks, b \in Bases : Create(t, b)
    \/ \E t \in Tasks : End(t)

Spec == Init /\ [][Next]_vars
=============================================================================
