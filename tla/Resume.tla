------------------------------- MODULE Resume -------------------------------
(***************************************************************************)
(* Workflows that outlive the process running them: the frames             *)
(* RekuestAgent retains on disk and adds to the journal a resumed Assign   *)
(* carries (agents/agent.py), and the steps and keys AgentPostman gives    *)
(* the calls of a workflow (agents/caller.py).                             *)
(*                                                                         *)
(* A workflow is a set of points: effects (task.now, task.record, ...),    *)
(* reports and calls, each run once Needs[p] are done, otherwise in any    *)
(* order: concurrent branches of deterministic code.  The runtime that     *)
(* runs it and the server are external.  Delivery of the frames is         *)
(* AgentDelivery's; here a process only dies, and its line with it.        *)
(***************************************************************************)
EXTENDS Integers, Sequences, FiniteSets, FiniteSetsExt

CONSTANTS
    Tasks, Effects, Reports, Calls,
    TaskOf,    \* TaskOf[p]: the workflow of a point
    Needs,     \* Needs[p]: the points the code awaits before p
    Base,      \* Base[c]: the target and the arguments of a call
    MaxRun     \* bound: processes started, one after the other

Points == Effects \cup Reports \cup Calls
Bases == {Base[c] : c \in Calls}
Runs == 1 .. MaxRun

ASSUME ProgramAssumption ==
    /\ TaskOf \in [Points -> Tasks] /\ Needs \in [Points -> SUBSET Points]
    /\ Effects \cap Calls = {} /\ Reports \cap (Effects \cup Calls) = {}
    /\ IsFiniteSet(Calls)
ASSUME RunAssumption == MaxRun \in Nat

VARIABLES
    \* the agent's process
    alive, run,     \* is a process running, and the how manyth
    pos,            \* numbered frames of this process's session
    retained,       \* _retained
    running,        \* the workflows it runs
    replay,         \* replay[e]: the value the runtime replays, 0 for none
    step,           \* step[t]: the last step it handed out
    done,           \* the points passed
    given,          \* given[e]: the value the code was given, 0 for none
    calls,          \* calls[c]: a call on its way
    occurrences,    \* AgentPostman._occurrences
    \* its SQLite file
    journal,        \* the retained frames no ack covered
    \* the socket and the server
    line, inbox,    \* to the server; to the agent
    projected,      \* the frames in the server's log
    children,       \* the children it created
    assigned        \* assigned[t]: the last run it sent the Assign to

process == <<alive, run, pos, retained>>
workflow == <<running, replay, step, done, given, calls, occurrences>>
server == <<projected, children, assigned>>
vars == <<process, workflow, journal, line, inbox, server>>

PointsOf(t) == {p \in Points : TaskOf[p] = t}

\* A numbered frame: an effect's value, a report, or the report that ends a task.
Frame(t, s, what) == [session |-> run, pos |-> pos + 1, task |-> t, step |-> s, what |-> what]
What == [kind : {"EFFECT"}, key : Effects, value : Runs] \cup [kind : {"REPORT", "END"}]
Frames == [session : Runs, pos : Nat \ {0}, task : Tasks, step : Nat \ {0}, what : What]

CallKeys == Bases \X (1 .. Cardinality(Calls))
Children == [parent : Tasks, call_key : CallKeys, parent_step : Nat \ {0}]
NoCall == [stage |-> "idle", parent_step |-> 0, child |-> {}]
CallStates == [stage : {"idle", "stepped", "sent", "answered"}, parent_step : Nat,
               child : SUBSET Children]

TypeOK ==
    /\ alive \in BOOLEAN /\ run \in 0 .. MaxRun /\ pos \in Nat
    /\ retained \subseteq Frames /\ journal \subseteq Frames /\ projected \subseteq Frames
    /\ running \subseteq Tasks /\ done \subseteq Points
    /\ replay \in [Effects -> 0 .. MaxRun] /\ given \in [Effects -> 0 .. MaxRun]
    /\ step \in [Tasks -> Nat]
    /\ calls \in [Calls -> CallStates]
    /\ occurrences \in [Tasks \X Bases -> 0 .. Cardinality(Calls)]
    /\ children \subseteq Children /\ assigned \in [Tasks -> 0 .. MaxRun]

Init ==
    /\ alive = FALSE /\ run = 0 /\ pos = 0
    /\ retained = {} /\ journal = {}
    /\ projected = {} /\ children = {}
    /\ assigned = [t \in Tasks |-> 0]
    /\ running = {} /\ done = {}
    /\ replay = [e \in Effects |-> 0] /\ given = [e \in Effects |-> 0]
    /\ step = [t \in Tasks |-> 0]
    /\ calls = [c \in Calls |-> NoCall]
    /\ occurrences = [o \in Tasks \X Bases |-> 0]
    /\ line = <<>> /\ inbox = <<>>

-----------------------------------------------------------------------------
(* The process starts, and dies.                                           *)

\* _resend_order
SentBefore(f, g) == f.session < g.session \/ (f.session = g.session /\ f.pos < g.pos)

\* The frames of _retained, each once, in that order (retained).
InOrder(frames) ==
    [i \in 1 .. Cardinality(frames) |->
        CHOOSE f \in frames : Cardinality({g \in frames : SentBefore(g, f)}) = i - 1]

\* astart, then the first Init: what earlier runs left is loaded, and sent first.
Start ==
    /\ ~alive /\ run < MaxRun
    /\ alive' = TRUE /\ run' = run + 1 /\ pos' = 0
    /\ retained' = journal
    /\ line' = InOrder(journal)
    /\ UNCHANGED <<workflow, journal, inbox, server>>

\* (The last process does not die: what it leaves has no successor.)
Crash ==
    /\ alive /\ run < MaxRun
    /\ alive' = FALSE /\ retained' = {}
    /\ running' = {} /\ done' = {}
    /\ replay' = [e \in Effects |-> 0] /\ given' = [e \in Effects |-> 0]
    /\ step' = [t \in Tasks |-> 0]
    /\ calls' = [c \in Calls |-> NoCall]
    /\ occurrences' = [o \in Tasks \X Bases |-> 0]
    /\ line' = <<>> /\ inbox' = <<>>
    /\ UNCHANGED <<run, pos, journal, server>>

-----------------------------------------------------------------------------
(* A message is handled.                                                   *)

\* (Mutant of RetainedEnd: any retained frame of the task is taken for its end.)
RetainedOfTask(t) == {f \in retained : f.task = t}

\* _retained_terminal_reports
RetainedEnd(t) == {f \in retained : f.task = t /\ f.what.kind = "END"}

\* (Mutant of HeldEffects: the server's word is taken for the whole of it.)
HoldNothing(m) == {}

\* _complete_resume: the retained values of the task the server does not have ...
HeldEffects(m) == {f \in retained : f.task = m.task /\ f.what.kind = "EFFECT" /\ m.effects[f.what.key] = 0}

Replay(m) == [e \in Effects |->
    IF \E f \in HeldEffects(m) : f.what.key = e
    THEN (CHOOSE f \in HeldEffects(m) : f.what.key = e).what.value
    ELSE m.effects[e]]

\* ... and the last step any of its retained frames has.
RetainedSteps(t) == {f.step : f \in {g \in retained : g.task = t}}

\* (Mutant of LastStep: no step is taken over from the frames of a task without any.)
LastStepUnset(m) == Max(RetainedSteps(m.task) \cup {-1})

\* (Mutant of LastStep: only the steps the server counted.)
LastStepOfServer(m) == m.last_step

LastStep(m) == Max({m.last_step} \cup RetainedSteps(m.task))

\* (Mutant of HandleAssign: a finished task's Assign runs it again.)
HandleAssignAlways ==
    LET m == Head(inbox) IN
    /\ alive /\ inbox # <<>> /\ m.type = "ASSIGN"
    /\ inbox' = Tail(inbox)
    /\ running' = running \cup {m.task}
    /\ replay' = [e \in Effects |-> IF TaskOf[e] = m.task THEN Replay(m)[e] ELSE replay[e]]
    /\ step' = [step EXCEPT ![m.task] = LastStep(m)]
    /\ UNCHANGED <<process, done, given, calls, occurrences, journal, line, server>>

\* An Assign.  A finished task, whose report no ack covered, gets that report
\* again (_aresend_retained_report) and is not run; any other runs from the top,
\* with its journal completed.
HandleAssign ==
    LET m == Head(inbox) IN
    /\ alive /\ inbox # <<>> /\ m.type = "ASSIGN"
    /\ inbox' = Tail(inbox)
    /\ \/ /\ RetainedEnd(m.task) # {}
          /\ line' = line \o InOrder(RetainedEnd(m.task))
          /\ UNCHANGED <<running, replay, step>>
       \/ /\ RetainedEnd(m.task) = {}
          /\ running' = running \cup {m.task}
          /\ replay' = [e \in Effects |-> IF TaskOf[e] = m.task THEN Replay(m)[e] ELSE replay[e]]
          /\ step' = [step EXCEPT ![m.task] = LastStep(m)]
          /\ UNCHANGED line
    /\ UNCHANGED <<process, done, given, calls, occurrences, journal, server>>

\* _journal_ack: everything of a session up to a position is projected.
HandleAck ==
    LET m == Head(inbox)
        above(frames) == {f \in frames : ~(f.session = m.session /\ f.pos <= m.pos)} IN
    /\ alive /\ inbox # <<>> /\ m.type = "JOURNAL_ACK"
    /\ inbox' = Tail(inbox)
    /\ retained' = above(retained)
    /\ journal' = above(journal)
    /\ UNCHANGED <<alive, run, pos, workflow, line, server>>

\* handle_response: the call learns its child, and follows it to its result.
HandleResponse ==
    LET m == Head(inbox) IN
    /\ alive /\ inbox # <<>> /\ m.type = "ASSIGN_RESPONSE"
    /\ inbox' = Tail(inbox)
    /\ calls' = [calls EXCEPT ![m.call] = [@ EXCEPT !.stage = "answered", !.child = {m.child}]]
    /\ done' = done \cup {m.call}
    /\ UNCHANGED <<process, running, replay, step, given, occurrences, journal, line, server>>

-----------------------------------------------------------------------------
(* A workflow runs.                                                        *)

Ready(p) == alive /\ TaskOf[p] \in running /\ p \notin done /\ Needs[p] \subseteq done

\* _retain_emitted, then asend: a numbered frame is kept in memory and on disk,
\* and only then sent.
Emit(t, what) ==
    LET frame == Frame(t, step[t] + 1, what) IN
    /\ pos' = pos + 1
    /\ step' = [step EXCEPT ![t] = @ + 1]
    /\ retained' = retained \cup {frame}
    /\ journal' = journal \cup {frame}
    /\ line' = Append(line, frame)

\* A value the journal has is replayed, any other is taken, and recorded.
TakeEffect(e) ==
    /\ Ready(e)
    /\ done' = done \cup {e}
    /\ \/ /\ replay[e] # 0
          /\ given' = [given EXCEPT ![e] = replay[e]]
          /\ UNCHANGED <<pos, retained, step, journal, line>>
       \/ /\ replay[e] = 0
          /\ given' = [given EXCEPT ![e] = run]
          /\ Emit(TaskOf[e], [kind |-> "EFFECT", key |-> e, value |-> run])
    /\ UNCHANGED <<alive, run, running, replay, calls, occurrences, inbox, server>>

\* Progress, logs and yields are reported again by every run.
Report(p) ==
    /\ Ready(p)
    /\ done' = done \cup {p}
    /\ Emit(TaskOf[p], [kind |-> "REPORT"])
    /\ UNCHANGED <<alive, run, running, replay, given, calls, occurrences, inbox, server>>

\* aassign: the parent's next step is awaited ...
ReserveStep(c) ==
    LET t == TaskOf[c] IN
    /\ Ready(c) /\ calls[c].stage = "idle"
    /\ step' = [step EXCEPT ![t] = @ + 1]
    /\ calls' = [calls EXCEPT ![c] = [@ EXCEPT !.stage = "stepped", !.parent_step = step[t] + 1]]
    /\ UNCHANGED <<process, running, replay, done, given, occurrences, journal, line, inbox, server>>

\* (Mutant of Occurrence: every call of this target counts, whoever made it.)
OccurrenceOfAnyone(c) ==
    1 + FoldSet(LAMBDA t, n : n + occurrences[<<t, Base[c]>>], 0, Tasks)

\* (Mutant of Occurrence: equal calls are not told apart.)
OccurrenceUncounted(c) == 1

\* _derive_call_key: how often this parent has made this call, this one included
Occurrence(c) == occurrences[<<TaskOf[c], Base[c]>>] + 1

\* ... then the key is derived, and the AssignRequest sent, without a position.
SendCall(c) ==
    LET o == <<TaskOf[c], Base[c]>> IN
    /\ alive /\ calls[c].stage = "stepped"
    /\ occurrences' = [occurrences EXCEPT ![o] = @ + 1]
    /\ calls' = [calls EXCEPT ![c].stage = "sent"]
    /\ line' = Append(line, [call |-> c, parent |-> TaskOf[c],
                             call_key |-> <<Base[c], Occurrence(c)>>,
                             parent_step |-> calls[c].parent_step])
    /\ UNCHANGED <<process, running, replay, step, done, given, journal, inbox, server>>

\* _task_ended: forget_parent drops the task's call counters.
TaskEnded(t) ==
    occurrences' = [o \in Tasks \X Bases |-> IF o[1] = t THEN 0 ELSE occurrences[o]]

\* The workflow returns: its terminal report is the last frame it emits.
End(t) ==
    /\ alive /\ t \in running /\ PointsOf(t) \subseteq done
    /\ running' = running \ {t}
    /\ Emit(t, [kind |-> "END"])
    /\ TaskEnded(t)
    /\ UNCHANGED <<alive, run, replay, done, given, calls, inbox, server>>

-----------------------------------------------------------------------------
(* The server.  It keeps one value per effect key, the first; it answers a *)
(* call whose key, or whose parent's step, it knows with the child it has; *)
(* and it takes the journal of a resumed task in one step with sending it. *)

IsFrame(m) == "session" \in DOMAIN m

ValueAt(e) ==
    LET frames == {f \in projected : f.what.kind = "EFFECT" /\ f.what.key = e} IN
    IF frames = {} THEN 0
    ELSE (CHOOSE f \in frames : \A g \in frames : f = g \/ SentBefore(f, g)).what.value

EndedAt(t) == \E f \in projected : f.task = t /\ f.what.kind = "END"

StepsAt(t) == {f.step : f \in {g \in projected : g.task = t}}
    \cup {c.parent_step : c \in {d \in children : d.parent = t}}

ServerReadFrame ==
    /\ line # <<>> /\ IsFrame(Head(line))
    /\ line' = Tail(line)
    /\ projected' = projected \cup {Head(line)}
    /\ inbox' = Append(inbox, [type |-> "JOURNAL_ACK", session |-> Head(line).session,
                               pos |-> Head(line).pos])
    /\ UNCHANGED <<process, workflow, journal, children, assigned>>

ServerReadRequest ==
    LET m == Head(line)
        new == [parent |-> m.parent, call_key |-> m.call_key, parent_step |-> m.parent_step]
        known == {c \in children : c.parent = m.parent
                    /\ (c.call_key = m.call_key \/ c.parent_step = m.parent_step)} IN
    /\ line # <<>> /\ ~IsFrame(m)
    /\ line' = Tail(line)
    /\ \E c \in IF known = {} THEN {new} ELSE known :
          /\ children' = children \cup {c}
          /\ inbox' = Append(inbox, [type |-> "ASSIGN_RESPONSE", call |-> m.call, child |-> c])
    /\ UNCHANGED <<process, workflow, journal, projected, assigned>>

ServerAssign(t) ==
    /\ alive /\ ~EndedAt(t) /\ assigned[t] < run
    /\ assigned' = [assigned EXCEPT ![t] = run]
    /\ inbox' = Append(inbox, [type |-> "ASSIGN", task |-> t,
                               effects |-> [e \in Effects |-> IF TaskOf[e] = t THEN ValueAt(e) ELSE 0],
                               last_step |-> Max({0} \cup StepsAt(t))])
    /\ UNCHANGED <<process, workflow, journal, line, projected, children>>

-----------------------------------------------------------------------------
Handle == HandleAssign \/ HandleAck \/ HandleResponse
Server == ServerReadFrame \/ ServerReadRequest \/ \E t \in Tasks : ServerAssign(t)
Work ==
    \/ \E e \in Effects : TakeEffect(e)
    \/ \E p \in Reports : Report(p)
    \/ \E c \in Calls : ReserveStep(c) \/ SendCall(c)
    \/ \E t \in Tasks : End(t)

Next == Start \/ Crash \/ Handle \/ Server \/ Work

Spec == Init /\ [][Next]_vars

\* The event loop runs what is ready, the server reads and answers, and a dead
\* agent is started again.
FairSpec == Spec /\ WF_vars(Start) /\ WF_vars(Handle) /\ WF_vars(Server) /\ WF_vars(Work)

-----------------------------------------------------------------------------
(* Properties.                                                             *)

OnRecord == journal \cup projected
ValuesOf(e) == {f.what.value : f \in {g \in OnRecord : g.what.kind = "EFFECT" /\ g.what.key = e}}

\* Whatever dies between taking a value and the server's having it, every run
\* acts on the one value that is on record: what a dead process took and never
\* sent is replayed from its file (_complete_resume), never taken anew.
OneValue == \A e \in Effects : Cardinality(ValuesOf(e) \cup ({given[e]} \ {0})) <= 1

\* No two frames, no two children, and no frame and child of a task have the
\* same step, though the process that numbered the one is gone when the other is
\* numbered ("so no step is numbered twice", _complete_resume).
StepsOnce ==
    /\ \A f, g \in OnRecord : f.task = g.task /\ f.step = g.step => f = g
    /\ \A c, d \in children : c.parent = d.parent /\ c.parent_step = d.parent_step => c = d
    /\ \A f \in OnRecord, c \in children : f.task = c.parent => f.step # c.parent_step

\* A call is answered with a child of its own: of its workflow, of its target and
\* arguments, and of no other call of this run, whatever order concurrent calls
\* took their steps in (_derive_call_key).
CallsFindTheirOwn ==
    LET answered == {c \in Calls : calls[c].stage = "answered"} IN
    /\ \A c \in answered : \A child \in calls[c].child :
          child.parent = TaskOf[c] /\ child.call_key[1] = Base[c]
    /\ \A c, d \in answered : calls[c].child = calls[d].child => c = d

\* The report that ends a workflow stays its last frame, and its only end, also
\* when the Assign comes again before that report was acknowledged
\* (_aresend_retained_report).
NothingAfterTheEnd ==
    \A f, g \in OnRecord :
        f.task = g.task /\ f.what.kind = "END" => f = g \/ SentBefore(g, f)

\* Runs that die anywhere add up to one durable workflow: values are fixed once,
\* resumed calls create no further child, and a workflow ends with every value
\* and child on record.
Durable == INSTANCE DurableWorkflow WITH
    value <- [e \in Effects |-> Max({0} \cup ValuesOf(e))],
    children <- [t \in Tasks |-> [b \in Bases |->
        Cardinality({c \in children : c.parent = t /\ c.call_key[1] = b})]],
    ended <- {t \in Tasks : \E f \in OnRecord : f.task = t /\ f.what.kind = "END"}

ImplementsDurable == Durable!Spec

\* However often its process dies, a workflow that is resumed each time reaches its
\* end at the server.
EventuallyEnds == \A t \in Tasks : <>EndedAt(t)
=============================================================================
