------------------------------ MODULE Registration ------------------------------
(***************************************************************************)
(* What RekuestAgent (agents/agent.py) does about each Init, but for the   *)
(* frames themselves, which are AgentDelivery's: it answers the server's   *)
(* inquiries about the tasks it was assigned (_areply_to_inquiries) and    *)
(* starts what follows a registration (after_registration), the upload of  *)
(* the app's assets.                                                       *)
(*                                                                         *)
(* Of the numbered frames only those that end a task are followed.  The    *)
(* runtime that runs the tasks and keeps each task's gate, and the server, *)
(* are external.                                                           *)
(***************************************************************************)
EXTENDS AssetUpload

CONSTANTS
    Tasks,
    Apps,       \* what an app may be: [tasks : SUBSET Tasks, assets : Seq(Assets)]
    MaxRun,     \* bound: agents started, one after the other
    MaxInbox    \* bound: messages the agent has not handled, when the server sends

ASSUME AppsAssumption == Apps \subseteq [tasks : SUBSET Tasks, assets : Seq(Assets)]
ASSUME TasksAssumption == IsFiniteSet(Tasks)
ASSUME BoundAssumption == MaxRun \in Nat /\ MaxInbox \in Nat \ {0}

VARIABLES
    \* the agent's process
    alive, run,   \* is an agent running, and the how manyth
    retained,     \* the retained reports that end a task; on disk, so no crash loses them
    managed,      \* managed_assignments
    working,      \* the tasks their actor says are running
    gated,        \* the tasks whose gate is closed
    followUp,     \* is _after_registration_task set
    tearing,      \* does atear_down await the follow-up it cancelled?
    inbox,        \* the messages it has not handled
    replying,     \* is it past the resend of an Init's handling ...
    inquiries,    \* ... which tasks are left to answer for ...
    checking,     \* ... and what acheck_task said of the first
    \* the connection
    up, initSent, released,
    line,         \* to the server
    \* the server
    due,          \* the tasks it has yet to assign to this agent
    given,        \* those it assigned
    projected,    \* the ends in its log
    \* history
    ends,         \* how many ends were recorded
    overtaken     \* did an Init start an upload while atear_down awaited?

host == <<alive, run>>
registration == <<followUp, tearing, overtaken>>
work == <<managed, working>>
report == <<retained, gated, line, ends>>
handling == <<replying, inquiries, checking>>
connection == <<up, initSent, released>>
server == <<due, given, projected>>
vars == <<host, report, work, registration, inbox, handling, connection, server, uploadVars>>

End == [task : Tasks, why : {"own", "critical"}, nr : Nat \ {0}]
Messages == [type : {"INIT"}, inquiries : Seq(Tasks)] \cup [type : {"ASSIGN"}, task : Tasks]
    \cup [type : {"JOURNAL_ACK"}, frame : End]

TypeOK ==
    /\ UploadTypeOK
    /\ alive \in BOOLEAN /\ run \in 0 .. MaxRun
    /\ retained \subseteq End /\ projected \subseteq End
    /\ managed \subseteq Tasks /\ working \subseteq managed /\ gated \subseteq Tasks
    /\ followUp \in BOOLEAN /\ tearing \in BOOLEAN /\ overtaken \in BOOLEAN
    /\ inbox \in Seq(Messages) /\ line \in Seq(End)
    /\ replying \in BOOLEAN /\ inquiries \in Seq(Tasks)
    /\ checking \in {"no", "asked", "running", "not running"}
    /\ up \in BOOLEAN /\ initSent \in BOOLEAN /\ released \in BOOLEAN
    /\ due \subseteq Tasks /\ given \subseteq Tasks
    /\ ends \in Nat

Init ==
    /\ \E app \in Apps : due = app.tasks /\ UploadInit(app.assets)
    /\ alive = FALSE /\ run = 0
    /\ retained = {} /\ gated = {} /\ line = <<>> /\ ends = 0
    /\ managed = {} /\ working = {}
    /\ followUp = FALSE /\ tearing = FALSE /\ overtaken = FALSE
    /\ inbox = <<>>
    /\ replying = FALSE /\ inquiries = <<>> /\ checking = "no"
    /\ up = FALSE /\ initSent = FALSE /\ released = FALSE
    /\ given = {} /\ projected = {}

-----------------------------------------------------------------------------
(* The process and its connection.                                         *)

\* astart, in a new process or in the one whose agent was torn down: an agent knows
\* what is on disk, and none of its predecessor's tasks.
Start ==
    /\ ~alive /\ run < MaxRun
    /\ alive' = TRUE /\ run' = run + 1
    /\ logged' = {}
    /\ UNCHANGED <<report, work, registration, inbox, handling, connection, server,
                   registered, uploads, files, stored, created, adrift, late, mishaps>>

\* The agent stops.  (The last one stays: what it leaves has no successor.)
AgentEnds ==
    /\ alive /\ run < MaxRun
    /\ alive' = FALSE
    /\ managed' = {} /\ working' = {} /\ gated' = {}
    /\ followUp' = FALSE /\ tearing' = FALSE /\ UNCHANGED overtaken
    /\ inbox' = <<>>
    /\ replying' = FALSE /\ inquiries' = <<>> /\ checking' = "no"
    /\ up' = FALSE /\ initSent' = FALSE /\ released' = FALSE /\ line' = <<>>
    /\ UNCHANGED <<run, retained, ends, server, registered, files, stored, created, late, logged, mishaps>>

\* The process ends, or the program does whose agent is gone, and no upload is left.
Crash ==
    /\ \/ AgentEnds
       \/ /\ ~alive /\ uploads # <<>>
          /\ UNCHANGED <<host, report, work, registration, inbox, handling, connection, server,
                         registered, files, stored, created, late, logged, mishaps>>
    /\ uploads' = <<>>
    /\ adrift' = adrift \cup UnderWay(DOMAIN uploads)

Own(u) == uploads[u].by = run

\* The follow-up is cancelled, if there is one that is not done.
CancelFollowUp ==
    \/ \E u \in DOMAIN uploads : Own(u) /\ CutOff(u)
    \/ (\A u \in DOMAIN uploads : ~Own(u)) /\ UNCHANGED <<uploads, adrift>>

\* atear_down, up to where it awaits that the follow-up is over (and where there is none,
\* up to the awaits of the runtime's own): messages are still handled.
BeginTearDown ==
    /\ alive /\ ~tearing /\ run < MaxRun
    /\ tearing' = TRUE /\ followUp' = FALSE /\ UNCHANGED overtaken
    /\ CancelFollowUp
    /\ UNCHANGED <<host, report, work, inbox, handling, connection, server,
                   registered, files, stored, created, late, logged, mishaps>>

\* ... and from there on.  The program may go on, and start another agent.
TearDown == tearing /\ AgentEnds /\ UNCHANGED <<uploads, adrift>>

Disconnect ==
    /\ up' = FALSE /\ initSent' = FALSE /\ released' = FALSE

Connect ==
    /\ alive /\ ~up
    /\ up' = TRUE
    /\ UNCHANGED <<host, report, work, registration, inbox, handling, initSent, released, server, uploadVars>>

\* What was on the line is lost, what the agent has read is not.
Drop ==
    /\ up
    /\ Disconnect /\ line' = <<>>
    /\ UNCHANGED <<host, retained, gated, ends, work, registration, inbox, handling, server, uploadVars>>

-----------------------------------------------------------------------------
(* The runtime: a task runs, and is reported when it ends.                 *)

\* A frame is retained, and sent if the transport sends (else it is, after Init).
\* A report of a task whose gate is closed is refused, and a report that ends a
\* task closes its gate, if this process ran it.
Adispatch(t, why) ==
    \/ /\ t \in gated
       /\ UNCHANGED report
    \/ /\ t \notin gated
       /\ LET frame == [task |-> t, why |-> why, nr |-> ends + 1] IN
          /\ retained' = retained \cup {frame}
          /\ line' = IF up /\ released THEN Append(line, frame) ELSE line
       /\ ends' = ends + 1
       /\ gated' = gated \cup ({t} \cap managed)

\* The actor is done with a task ...
StopsWorking(t) ==
    /\ t \in working
    /\ working' = working \ {t}
    /\ UNCHANGED <<host, report, managed, registration, inbox, handling, connection, server, uploadVars>>

\* ... and later reports it.
ReportsEnd(t) ==
    /\ t \in managed \ working
    /\ Adispatch(t, "own")
    /\ managed' = managed \ {t}
    /\ UNCHANGED <<host, working, registration, inbox, handling, connection, server, uploadVars>>

-----------------------------------------------------------------------------
(* Messages are handled one after the other.                               *)

Receives(type) == alive /\ ~replying /\ inbox # <<>> /\ Head(inbox).type = type

\* _aafter_init: what is retained is sent again (in order, which is AgentDelivery's),
\* and sending released; then the inquiries of this Init, be it an earlier
\* connection's, are replied to.
HandleInit ==
    /\ Receives("INIT")
    /\ inbox' = Tail(inbox)
    /\ \E resent \in SetToSeqs(retained) : line' = IF up THEN line \o resent ELSE line
    /\ released' = up
    /\ replying' = TRUE /\ inquiries' = Head(inbox).inquiries
    /\ UNCHANGED <<host, retained, gated, ends, work, registration, checking, up, initSent, server, uploadVars>>

HandleAssign ==
    /\ Receives("ASSIGN")
    /\ inbox' = Tail(inbox)
    /\ managed' = managed \cup {Head(inbox).task} /\ working' = working \cup {Head(inbox).task}
    /\ UNCHANGED <<host, report, registration, handling, connection, server, uploadVars>>

HandleAck ==
    /\ Receives("JOURNAL_ACK")
    /\ inbox' = Tail(inbox)
    /\ retained' = retained \ {Head(inbox).frame}
    /\ UNCHANGED <<host, gated, line, ends, work, registration, handling, connection, server, uploadVars>>

-----------------------------------------------------------------------------
(* _areply_to_inquiries.                                                   *)

Inquired == Head(inquiries)

\* (Mutant of HasRetainedTerminalReport: the retained frames are not asked.)
AlwaysAnswer(t) == FALSE

HasRetainedTerminalReport(t) == \E f \in retained : f.task = t

\* (Mutant of InquiryOfUnknown: a task the agent does not know is none of its business.)
UnknownIsIgnored ==
    /\ Inquired \notin managed
    /\ inquiries' = Tail(inquiries)
    /\ UNCHANGED <<report, checking>>

\* A report on its way says how the task ended.
InquiryOfEnded ==
    /\ HasRetainedTerminalReport(Inquired)
    /\ inquiries' = Tail(inquiries)
    /\ UNCHANGED <<report, checking>>

InquiryOfUnknown ==
    /\ Inquired \notin managed
    /\ Adispatch(Inquired, "critical")
    /\ inquiries' = Tail(inquiries)
    /\ UNCHANGED checking

InquiryOfManaged ==
    /\ Inquired \in managed
    /\ checking' = "asked"
    /\ UNCHANGED <<report, inquiries>>

\* _areport_task_liveness, up to where it awaits the actor.
Inquire ==
    /\ replying /\ inquiries # <<>> /\ checking = "no"
    /\ \/ InquiryOfEnded
       \/ ~HasRetainedTerminalReport(Inquired) /\ (InquiryOfUnknown \/ InquiryOfManaged)
    /\ UNCHANGED <<host, work, registration, inbox, replying, connection, server, uploadVars>>

\* acheck_task
Check ==
    /\ checking = "asked"
    /\ checking' = IF Inquired \in working THEN "running" ELSE "not running"
    /\ UNCHANGED <<host, report, work, registration, inbox, replying, inquiries, connection, server, uploadVars>>

\* ... and from there on: Progress, which ends nothing, or Critical.
Answer ==
    /\ \/ checking = "running" /\ UNCHANGED report
       \/ checking = "not running" /\ Adispatch(Inquired, "critical")
    /\ checking' = "no"
    /\ inquiries' = Tail(inquiries)
    /\ UNCHANGED <<host, work, registration, inbox, replying, connection, server, uploadVars>>

\* (Mutant of StartFollowUp: each Init starts another.)
StartAnother ==
    \/ HasUpload /\ followUp' = TRUE /\ BeginUpload(run)
    \/ ~HasUpload /\ UNCHANGED <<followUp, uploads>>

\* One follow-up, unless there is one, or it is done.
StartFollowUp ==
    \/ HasUpload /\ ~followUp /\ followUp' = TRUE /\ BeginUpload(run)
    \/ (~HasUpload \/ followUp) /\ UNCHANGED <<followUp, uploads>>

\* The end of _aafter_init.
AllAnswered ==
    /\ replying /\ inquiries = <<>>
    /\ replying' = FALSE
    /\ StartFollowUp
    /\ overtaken' = (overtaken \/ (tearing /\ uploads' # uploads))
    /\ UNCHANGED <<host, report, work, tearing, inbox, inquiries, checking, connection, server,
                   registered, files, stored, created, adrift, late, logged, mishaps>>

-----------------------------------------------------------------------------
(* _arun_after_registration.                                               *)

UploadGoesOn(u) ==
    /\ Answered(u)
    /\ UNCHANGED <<host, report, work, registration, inbox, handling, connection, server>>

UploadIsRefused(u) ==
    /\ Refused(u)
    /\ UNCHANGED <<host, report, work, registration, inbox, handling, connection, server>>

\* (Mutant of FollowUpFails: a follow-up that failed counts as run.)
FollowUpFailsForGood(u) ==
    /\ Breaks(u)
    /\ UNCHANGED <<host, report, work, registration, inbox, handling, connection, server>>

\* What an upload raised is logged, and the next Init of its agent starts another.
FollowUpFails(u) ==
    /\ Breaks(u)
    /\ followUp' = (followUp /\ ~Own(u))
    /\ UNCHANGED <<host, report, work, tearing, overtaken, inbox, handling, connection, server>>

RequestIsServedLate(a) ==
    /\ ServedLate(a)
    /\ UNCHANGED <<host, report, work, registration, inbox, handling, connection, server>>

FileWritten(a) ==
    /\ FileChanges(a)
    /\ UNCHANGED <<host, report, work, registration, inbox, handling, connection, server>>

-----------------------------------------------------------------------------
(* The server.                                                             *)

Open == given \ {f.task : f \in projected}

\* A message arrives, or is lost with the connection and all that is on it.
Deliver(m, rest) ==
    \/ inbox' = Append(inbox, m) /\ line' = rest /\ UNCHANGED <<up, released>>
    \/ inbox' = inbox /\ line' = <<>> /\ up' = FALSE /\ released' = FALSE

\* A registration is answered with the tasks the server takes for running here.
ServerInit ==
    /\ up /\ ~initSent /\ Len(inbox) < MaxInbox
    /\ initSent' = TRUE
    /\ \E tasks \in SetToSeqs(Open) :
          inbox' = Append(inbox, [type |-> "INIT", inquiries |-> tasks])
    /\ UNCHANGED <<host, report, work, registration, handling, up, released, server, uploadVars>>

ServerAssign(t) ==
    /\ up /\ initSent /\ t \in due /\ Len(inbox) < MaxInbox
    /\ due' = due \ {t} /\ given' = given \cup {t}
    /\ Deliver([type |-> "ASSIGN", task |-> t], line)
    /\ initSent' = up'
    /\ UNCHANGED <<host, retained, gated, ends, work, registration, handling, projected, uploadVars>>

\* (An ack covers a session up to a position; of the ends there is one at a time.)
ServerRead ==
    /\ up /\ initSent /\ line # <<>> /\ Len(inbox) < MaxInbox
    /\ projected' = projected \cup {Head(line)}
    /\ Deliver([type |-> "JOURNAL_ACK", frame |-> Head(line)], Tail(line))
    /\ initSent' = up'
    /\ UNCHANGED <<host, retained, gated, ends, work, registration, handling, due, given, uploadVars>>

-----------------------------------------------------------------------------
Handle == HandleInit \/ HandleAssign \/ HandleAck
Reply == Inquire \/ Check \/ Answer \/ AllAnswered
Upload == \E u \in DOMAIN uploads : UploadGoesOn(u) \/ UploadIsRefused(u) \/ FollowUpFails(u)

Next ==
    \/ Start \/ Crash \/ BeginTearDown \/ TearDown \/ Connect \/ Drop
    \/ \E t \in Tasks : StopsWorking(t) \/ ReportsEnd(t)
    \/ Handle \/ Reply \/ Upload
    \/ \E a \in Assets : FileWritten(a) \/ RequestIsServedLate(a)
    \/ ServerInit \/ ServerRead \/ \E t \in Tasks : ServerAssign(t)

Spec == Init /\ [][Next]_vars

\* The event loop runs what is ready and connects again, requests are answered or
\* fail, and the server answers and reads.  No task has to end, and nothing is
\* assumed of the connections: the properties say what they need of them.
FairSpec ==
    /\ Spec
    /\ WF_vars(Start) /\ WF_vars(Connect) /\ WF_vars(Handle) /\ WF_vars(Reply) /\ WF_vars(Upload)
    /\ \A t \in Tasks : WF_vars(ReportsEnd(t))
    /\ WF_vars(ServerInit) /\ WF_vars(ServerRead)

-----------------------------------------------------------------------------
(* Properties.                                                             *)

\* A task has one outcome.  An answer to an inquiry never contradicts the report
\* of how the task ended, be that report this process's or a dead one's
\* ("Answering again here would only contradict it", _areport_task_liveness).
OneOutcome ==
    \A f, g \in retained \cup projected : f.task = g.task => f = g

\* No task the agent has lost, with a process or with the message that assigned
\* it, stays open at the server once a connection stands.  (The inquiries of an Init.)
NoTaskLeftOpen ==
    <>[]up => \A t \in Tasks : t \in Open ~> t \notin Open \/ t \in working

\* No two uploads both record an asset, however they are broken off and tried again over
\* reconnects, restarts and tear-downs: what is recorded a second time is a request that
\* was cut off and served late.  (aupload_assets; _after_registration_task.)  An Init that
\* is handled while atear_down waits for the follow-up starts another that nothing
\* cancels; from then on two may be under way.
RecordedForOne == overtaken \/ \A a \in Assets : created[a] <= 1

\* If the agent keeps registering, each asset ends up at the server or in the log:
\* a failed upload is tried again (after_registration), and what one asset meets
\* does not stop the rest (aupload_assets).
EveryAssetIsSettled == []<>replying => <>[]Settled

\* "A file that changed since it was registered is not uploaded"
\* (tests/test_asset_upload.py:117).
ChangedIsNotUploaded == \A a \in Assets : stored[a] # "changed"

-----------------------------------------------------------------------------
(* Why a task has one outcome.                                             *)

Ended == {f.task : f \in retained \cup projected}

\* The messages an agent has read keep the order the server sent them in, so one
\* says of the other what has happened when it is handled: what an Init inquires
\* about has not ended but by a report still retained, and is neither assigned nor
\* acknowledged by messages the wrong side of it.
AsksOf(i) == IF inbox[i].type = "INIT" THEN Range(inbox[i].inquiries) ELSE {}
Assigns(i, t) == inbox[i].type = "ASSIGN" /\ inbox[i].task = t
Acks(i, t) == inbox[i].type = "JOURNAL_ACK" /\ inbox[i].frame.task = t

GivenInv ==
    /\ due \cap given = {}
    /\ managed \subseteq given /\ Ended \subseteq given /\ Range(inquiries) \subseteq given
    /\ \A i \in DOMAIN inbox :
          /\ AsksOf(i) \subseteq given
          /\ \A t \in Tasks : Assigns(i, t) => t \in given
ReportInv ==
    /\ managed \cap Ended \subseteq gated
    /\ Range(line) \subseteq retained \cup projected
ReplyInv ==
    /\ replying \/ inquiries = <<>>
    /\ checking # "no" => inquiries # <<>> /\ Inquired \in managed \cup gated
    /\ \A t \in Range(inquiries) \cap Ended : HasRetainedTerminalReport(t)
AckInv == \A i \in DOMAIN inbox :
    inbox[i].type = "JOURNAL_ACK" => inbox[i].frame \in projected
InitInv == \A i \in DOMAIN inbox : \A t \in AsksOf(i) \cap Ended :
    /\ HasRetainedTerminalReport(t)
    /\ \A j \in DOMAIN inbox : j < i => ~Acks(j, t)
AssignInv == \A i \in DOMAIN inbox : \A t \in Tasks : Assigns(i, t) =>
    /\ t \notin Ended \cup managed \cup Range(inquiries)
    /\ \A j \in DOMAIN inbox : (j < i => t \notin AsksOf(j)) /\ (j # i => ~Assigns(j, t))

QueuesOK ==
    /\ retained \subseteq End /\ projected \subseteq End /\ IsFiniteSet(retained)
    /\ managed \subseteq Tasks /\ given \subseteq Tasks /\ due \subseteq Tasks
    /\ inbox \in Seq(Messages) /\ line \in Seq(End) /\ inquiries \in Seq(Tasks)
    /\ ends \in Nat

OutcomeInv ==
    /\ QueuesOK /\ OneOutcome
    /\ GivenInv /\ ReportInv /\ ReplyInv /\ AckInv /\ InitInv /\ AssignInv

-----------------------------------------------------------------------------
(* Why an asset is recorded for one upload.                                *)

\* Unless an Init overtook a tear-down there is one upload at most, the running
\* agent's, none where it would start one, and past its query it is about an asset no
\* upload has recorded.
OneUploadInv ==
    \/ uploads = <<>>
    \/ /\ alive /\ followUp /\ ~tearing
       /\ Len(uploads) = 1 /\ Own(1)
       /\ uploads[1].stage # "query" => created[At(1)] = 0
UploadInv ==
    /\ replying => alive
    /\ overtaken \/ (OneUploadInv /\ \A a \in Assets : created[a] <= 1)
=============================================================================
