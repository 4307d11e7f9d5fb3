--------------------------- MODULE AgentDelivery ---------------------------
(***************************************************************************)
(* How a distributed agent gets its numbered frames to the server: the     *)
(* frames RekuestAgent retains (agents/agent.py), the SQLite file it keeps *)
(* them in across restarts (agents/retention.py), and the transport's send *)
(* and receive queues (agents/transport/websocket.py), over a socket that  *)
(* drops and a process that dies.                                          *)
(*                                                                         *)
(* A numbered frame is its key <<session, pos>>.  Frames without a         *)
(* position (heartbeat answers, probe reports, child calls) are all Plain. *)
(* Sessions are numbered in the order the processes start.                 *)
(***************************************************************************)
EXTENDS Integers, Sequences, FiniteSets, Functions

CONSTANTS
    MaxSession,     \* bound: sessions (process starts)
    MaxPos,         \* bound: numbered frames per session
    MaxInbox,       \* bound: messages the agent has not handled yet
    MaxPlain,       \* bound: un-numbered frames waiting in the send queue
    MaxReports,     \* bound: the queue's length for a report sent once more
    Window,         \* bound: frames written and not yet read by the server
    StoreMayFail,   \* may a write to, or a read of, the SQLite file fail?
    ClockStepsBack, \* may time.time() step back between two starts?
    Plain,          \* a frame without a position
    NoFrame         \* Python's None, where a frame may be

Sessions == 1 .. MaxSession
Keys == Sessions \X (1 .. MaxPos)
Frames == Keys \cup {Plain}

ASSUME BoundsAssumption ==
    /\ MaxSession \in Nat /\ MaxPos \in Nat /\ MaxInbox \in Nat
    /\ MaxPlain \in Nat /\ MaxReports \in Nat /\ Window \in Nat
ASSUME SwitchAssumption == StoreMayFail \in BOOLEAN /\ ClockStepsBack \in BOOLEAN
ASSUME FrameAssumption == Plain \notin Keys /\ NoFrame \notin Frames

VARIABLES
    \* the agent's process
    alive,          \* is a process running?
    session,        \* the session of the last process started
    numbered,       \* numbered[s]: the last position session s handed out
    retained,       \* _retained: the keys no ack covered, in memory
    \* its SQLite file
    journal,        \* the rows of the table journal
    createdAt,      \* journal_sync.created_at, 0 where there is no row
    ackedPos,       \* journal_sync.acked_pos, 0 where there is no row
    \* its transport
    sendQueue,      \* _send_queue
    held,           \* _held: the frame whose send failed
    inFlight,       \* in_flight: the frame inside client.send
    inQueue,        \* _in_queue: server messages not handled yet
    up,             \* _client is set, the receive loop is running
    sender,         \* the connection's sending task is running
    released,       \* this connection's _released is set
    \* the socket and the server
    wire,           \* written by the agent, not read by the server
    initSent,       \* the server answered this connection's Register
    projected,      \* the keys in the server's log
    watermark,      \* watermark[s]: the last position of s in the log
    \* history
    lost            \* keys no process can send any more: the store failed

process == <<alive, session, numbered, retained>>
store == <<journal, createdAt, ackedPos>>
outbound == <<sendQueue, held, inFlight, wire>>
connection == <<up, sender, released, initSent>>
server == <<projected, watermark>>
vars == <<process, store, outbound, inQueue, connection, server, lost>>

ServerMessages ==
    [type : {"INIT"}] \cup [type : {"JOURNAL_ACK"}, session : Sessions, pos : 1 .. MaxPos]

TypeOK ==
    /\ alive \in BOOLEAN
    /\ session \in 0 .. MaxSession
    /\ numbered \in [Sessions -> 0 .. MaxPos]
    /\ retained \in SUBSET Keys
    /\ journal \in SUBSET Keys
    /\ createdAt \in [Sessions -> 0 .. MaxSession]
    /\ ackedPos \in [Sessions -> 0 .. MaxPos]
    /\ sendQueue \in Seq(Frames)
    /\ held \in Frames \cup {NoFrame}
    /\ inFlight \in Frames \cup {NoFrame}
    /\ inQueue \in Seq(ServerMessages)
    /\ up \in BOOLEAN
    /\ sender \in BOOLEAN
    /\ released \in BOOLEAN
    /\ wire \in Seq(Frames)
    /\ initSent \in BOOLEAN
    /\ projected \in SUBSET Keys
    /\ watermark \in [Sessions -> 0 .. MaxPos]
    /\ lost \in SUBSET Keys

Init ==
    /\ alive = FALSE
    /\ session = 0
    /\ numbered = [s \in Sessions |-> 0]
    /\ retained = {}
    /\ journal = {}
    /\ createdAt = [s \in Sessions |-> 0]
    /\ ackedPos = [s \in Sessions |-> 0]
    /\ sendQueue = <<>>
    /\ held = NoFrame
    /\ inFlight = NoFrame
    /\ inQueue = <<>>
    /\ up = FALSE
    /\ sender = FALSE
    /\ released = FALSE
    /\ wire = <<>>
    /\ initSent = FALSE
    /\ projected = {}
    /\ watermark = [s \in Sessions |-> 0]
    /\ lost = {}

-----------------------------------------------------------------------------
(* The process starts, records and dies.                                   *)

Recorded == {k \in Keys : k[2] <= numbered[k[1]]}

\* RetainedFrames.load: the rows above what their session acknowledged.
Loadable == {k \in journal : k[2] > ackedPos[k[1]]}

\* The creation time a new session may read off the clock.
ClockReading(s) == IF ClockStepsBack THEN 1 .. MaxSession ELSE {s}

\* astart: mint the session, load what earlier runs left.  A row that does not
\* parse is logged and passed over.
Start ==
    /\ ~alive
    /\ session < MaxSession
    /\ alive' = TRUE
    /\ session' = session + 1
    /\ \E now \in ClockReading(session + 1) :
          createdAt' = [createdAt EXCEPT ![session + 1] = now]
    /\ \E unread \in IF StoreMayFail THEN SUBSET Loadable ELSE {{}} :
          /\ retained' = Loadable \ unread
          /\ lost' = lost \cup unread
    /\ UNCHANGED <<numbered, journal, ackedPos, outbound, inQueue, connection, server>>

\* The process is gone, with everything it had in memory; the kernel closes its
\* socket.  What was never saved is lost with it.
Crash ==
    /\ alive
    /\ alive' = FALSE
    /\ lost' = lost \cup (retained \ journal)
    /\ retained' = {}
    /\ sendQueue' = <<>> /\ held' = NoFrame /\ inFlight' = NoFrame
    /\ inQueue' = <<>> /\ wire' = <<>>
    /\ up' = FALSE /\ sender' = FALSE /\ released' = FALSE /\ initSent' = FALSE
    /\ UNCHANGED <<session, numbered, store, server>>

\* _retain_emitted, then asend: a numbered frame is retained in memory, then on
\* disk (a failure is only logged), and only then queued.
Record ==
    /\ alive
    /\ numbered[session] < MaxPos
    /\ LET key == <<session, numbered[session] + 1>> IN
          /\ numbered' = [numbered EXCEPT ![session] = @ + 1]
          /\ retained' = retained \cup {key}
          /\ \/ journal' = journal \cup {key}
             \/ StoreMayFail /\ journal' = journal
          /\ sendQueue' = Append(sendQueue, key)
    /\ UNCHANGED <<alive, session, createdAt, ackedPos, held, inFlight, wire,
                   inQueue, connection, server, lost>>

PlainIn(q) == Cardinality({i \in DOMAIN q : q[i] = Plain})

\* An un-numbered frame is queued, and retained nowhere.
SendPlain ==
    /\ alive
    /\ PlainIn(sendQueue) < MaxPlain
    /\ sendQueue' = Append(sendQueue, Plain)
    /\ UNCHANGED <<process, store, held, inFlight, wire, inQueue, connection, server, lost>>

\* _aresend_retained_report: the Assign of a finished task came again, and its
\* report, if no ack covered it, is queued once more.
ResendReport ==
    /\ alive
    /\ Len(sendQueue) < MaxReports
    /\ \E key \in retained : sendQueue' = Append(sendQueue, key)
    /\ UNCHANGED <<process, store, held, inFlight, wire, inQueue, connection, server, lost>>

-----------------------------------------------------------------------------
(* The transport's socket.                                                 *)

\* (Mutant of Connect: the new connection sends without waiting for its Init.)
ConnectReleased ==
    /\ alive /\ ~up
    /\ up' = TRUE /\ sender' = TRUE
    /\ released' = TRUE /\ initSent' = FALSE
    /\ UNCHANGED <<process, store, outbound, inQueue, server, lost>>

\* Connect and send Register: a new _released, a new sending task.
Connect ==
    /\ alive /\ ~up
    /\ up' = TRUE /\ sender' = TRUE
    /\ released' = FALSE /\ initSent' = FALSE
    /\ UNCHANGED <<process, store, outbound, inQueue, server, lost>>

\* requeue: the frame inside client.send goes to the head of the line.
Requeued == IF inFlight # NoFrame THEN inFlight ELSE held

\* The connection is gone and the sending task is cancelled.  What the server
\* has not read never arrives; what it has read may be requeued all the same.
Drop ==
    /\ up
    /\ up' = FALSE /\ sender' = FALSE
    /\ released' = FALSE /\ initSent' = FALSE
    /\ held' = Requeued
    /\ inFlight' = NoFrame
    /\ wire' = <<>>
    /\ UNCHANGED <<process, store, sendQueue, inQueue, server, lost>>

MaySend == up /\ sender /\ released /\ inFlight = NoFrame /\ Len(wire) < Window

\* sending: the held frame goes out first ...
SendHeld ==
    /\ MaySend /\ held # NoFrame
    /\ inFlight' = held
    /\ held' = NoFrame
    /\ wire' = Append(wire, held)
    /\ UNCHANGED <<process, store, sendQueue, inQueue, connection, server, lost>>

\* ... then the queue, in order.
SendQueued ==
    /\ MaySend /\ held = NoFrame /\ sendQueue # <<>>
    /\ inFlight' = Head(sendQueue)
    /\ sendQueue' = Tail(sendQueue)
    /\ wire' = Append(wire, Head(sendQueue))
    /\ UNCHANGED <<process, store, held, inQueue, connection, server, lost>>

\* client.send returns.
Sent ==
    /\ inFlight # NoFrame
    /\ inFlight' = NoFrame
    /\ UNCHANGED <<process, store, sendQueue, held, wire, inQueue, connection, server, lost>>

\* client.send raises: requeue, and the sending task returns.  The frame stays on
\* the wire: the peer may have read it before the socket died.
SendFails ==
    /\ inFlight # NoFrame
    /\ held' = Requeued
    /\ inFlight' = NoFrame
    /\ sender' = FALSE
    /\ UNCHANGED <<process, store, sendQueue, wire, inQueue, up, released, initSent, server, lost>>

-----------------------------------------------------------------------------
(* The agent handles a server message.                                     *)

\* (Mutant of ResendBefore: by position alone.)
ResendByPos(k, f) == k[2] < f[2] \/ (k[2] = f[2] /\ k[1] < f[1])

\* _resend_order: by the time the session was created, the session, the position.
ResendBefore(k, f) ==
    \/ createdAt[k[1]] < createdAt[f[1]]
    \/ createdAt[k[1]] = createdAt[f[1]] /\ k[1] < f[1]
    \/ k[1] = f[1] /\ k[2] < f[2]

\* The retained keys, each once, in that order.
ResendOrders ==
    {q \in [1 .. Cardinality(retained) -> retained] :
        /\ \A k \in retained : \E i \in DOMAIN q : q[i] = k
        /\ \A i, j \in DOMAIN q : i < j => ResendBefore(q[i], q[j])}

\* (Mutant of KeptQueue: nothing is discarded.)
KeptEverything == sendQueue

\* discard_journaled: what stays of the queue, and of the held frame.
KeptQueue == [i \in 1 .. PlainIn(sendQueue) |-> Plain]
KeptHeld == IF held = Plain THEN Plain ELSE NoFrame

\* (Mutant of HandleInit: the sends stay held.)
HandleInitUnreleased ==
    /\ alive
    /\ inQueue # <<>> /\ Head(inQueue).type = "INIT"
    /\ inQueue' = Tail(inQueue)
    /\ \E q \in ResendOrders : sendQueue' = KeptQueue \o q
    /\ held' = KeptHeld
    /\ UNCHANGED <<process, store, inFlight, wire, connection, server, lost>>

\* _aafter_init: discard, resend, release.  The message may be an earlier
\* connection's: _in_queue outlives a drop.
HandleInit ==
    /\ alive
    /\ inQueue # <<>> /\ Head(inQueue).type = "INIT"
    /\ inQueue' = Tail(inQueue)
    /\ \E q \in ResendOrders : sendQueue' = KeptQueue \o q
    /\ held' = KeptHeld
    /\ released' = up
    /\ UNCHANGED <<process, store, inFlight, wire, up, sender, initSent, server, lost>>

\* (Mutant of Uncovered: one position too far.)
UncoveredTooFar(S, s, pos) == {k \in S : ~(k[1] = s /\ k[2] <= pos + 1)}

\* What a cumulative ack up to pos leaves of a set of keys.
Uncovered(S, s, pos) == {k \in S : ~(k[1] = s /\ k[2] <= pos)}

\* prune: forget the sessions, but the current one, that have no rows.
Pruned(f, rows) ==
    [t \in Sessions |-> IF t # session /\ ~\E k \in rows : k[1] = t THEN 0 ELSE f[t]]

\* RetainedFrames.ack: raises acked_pos where the session has a row.
Raised(s, pos) ==
    IF createdAt[s] # 0 /\ ackedPos[s] < pos THEN [ackedPos EXCEPT ![s] = pos] ELSE ackedPos

\* _journal_ack: forget in memory, then on disk, then prune once the session has
\* nothing left; a failure on disk is only logged.
HandleAck ==
    /\ alive
    /\ inQueue # <<>> /\ Head(inQueue).type = "JOURNAL_ACK"
    /\ inQueue' = Tail(inQueue)
    /\ LET s == Head(inQueue).session
           pos == Head(inQueue).pos
           rows == Uncovered(journal, s, pos)
       IN /\ retained' = Uncovered(retained, s, pos)
          /\ \/ /\ journal' = rows
                /\ IF \E k \in Uncovered(retained, s, pos) : k[1] = s
                   THEN /\ ackedPos' = Raised(s, pos)
                        /\ UNCHANGED createdAt
                   ELSE /\ ackedPos' = Pruned(Raised(s, pos), rows)
                        /\ createdAt' = Pruned(createdAt, rows)
             \/ StoreMayFail /\ journal' = rows /\ ackedPos' = Raised(s, pos) /\ UNCHANGED createdAt
             \/ StoreMayFail /\ UNCHANGED store
    /\ UNCHANGED <<alive, session, numbered, outbound, connection, server, lost>>

-----------------------------------------------------------------------------
(* The server, as the agent sees it.                                       *)

\* It answers Register, in its own time.
ServerInit ==
    /\ up /\ ~initSent
    /\ Len(inQueue) < MaxInbox
    /\ initSent' = TRUE
    /\ inQueue' = Append(inQueue, [type |-> "INIT"])
    /\ UNCHANGED <<process, store, outbound, up, sender, released, server, lost>>

\* It logs a frame beyond the session's watermark and skips any other.
ServerReceive ==
    /\ up /\ wire # <<>>
    /\ wire' = Tail(wire)
    /\ LET f == Head(wire) IN
          IF f \in Keys /\ watermark[f[1]] < f[2]
          THEN /\ projected' = projected \cup {f}
               /\ watermark' = [watermark EXCEPT ![f[1]] = f[2]]
          ELSE UNCHANGED server
    /\ UNCHANGED <<process, store, sendQueue, held, inFlight, inQueue, connection, lost>>

\* It acknowledges a session up to its watermark, as often as it likes.
ServerAck(s) ==
    /\ up /\ initSent
    /\ watermark[s] > 0
    /\ Len(inQueue) < MaxInbox
    /\ inQueue' = Append(inQueue, [type |-> "JOURNAL_ACK", session |-> s, pos |-> watermark[s]])
    /\ UNCHANGED <<process, store, outbound, connection, server, lost>>

-----------------------------------------------------------------------------
Next ==
    \/ Start \/ Crash \/ Record \/ SendPlain \/ ResendReport
    \/ Connect \/ Drop \/ SendHeld \/ SendQueued \/ Sent \/ SendFails
    \/ HandleInit \/ HandleAck
    \/ ServerInit \/ ServerReceive \/ \E s \in Sessions : ServerAck(s)

Spec == Init /\ [][Next]_vars

\* What the code's scheduling gives: the agent's loop runs its ready tasks, the
\* reconnect loop retries, a dead socket ends its receive loop, a process that
\* died is started again, and the server reads and answers while it is connected.
Fairness ==
    /\ WF_vars(Start) /\ WF_vars(Connect)
    /\ WF_vars(SendHeld) /\ WF_vars(SendQueued) /\ WF_vars(Sent)
    /\ WF_vars(HandleInit) /\ WF_vars(HandleAck)
    /\ SF_vars(ServerInit) /\ WF_vars(ServerReceive)
    /\ \A s \in Sessions : SF_vars(ServerAck(s))
    /\ WF_vars(Drop /\ ~sender)

FairSpec == Spec /\ Fairness

-----------------------------------------------------------------------------
(* Safety.                                                                 *)

\* What must be in the log before f: the earlier positions of its session and,
\* as long as the clock does not step back, every earlier session.
MustPrecede(k, f) ==
    \/ k[1] = f[1] /\ k[2] < f[2]
    \/ ~ClockStepsBack /\ k[1] < f[1]

\* A numbered frame is in the server's log, or the agent can still send it: from
\* memory while its process runs, from disk once it died.  Only a store that
\* failed gives a frame up.  (_retain_emitted, _journal_ack, _open_store.)
NoFrameLost ==
    /\ Recorded \subseteq projected \cup lost \cup (IF alive THEN retained ELSE journal)
    /\ ~StoreMayFail => lost = {}

\* The log has no holes: a frame is logged only after every earlier one of its
\* session and of the earlier sessions, over drops, requeues and restarts.
\* (sending, discard_journaled, _resend_order.)
LogInOrder ==
    \A f \in projected, k \in Recorded : MustPrecede(k, f) => k \in projected \cup lost

\* A frame's session keeps its row in journal_sync as long as the frame is kept,
\* so the resend order never falls back to the default time.  (prune, load.)
FramesHaveTheirSession == \A k \in retained \cup journal : createdAt[k[1]] # 0

-----------------------------------------------------------------------------
(* The inductive invariant: the safety of the line of frames towards the   *)
(* server.                                                                 *)

Owed(f) == {k \in Recorded : MustPrecede(k, f)} \ lost

\* Memory and disk hold only recorded frames; while the process runs, what an
\* earlier session left is on disk, and so is this session's if nothing failed.
RetentionInv ==
    /\ retained \cup journal \cup projected \subseteq Recorded
    /\ alive => session > 0
    /\ \A s \in Sessions : session < s => numbered[s] = 0
    /\ \A k \in retained : k[1] # session => k \in journal
    /\ ~StoreMayFail => retained \subseteq journal
    /\ ~alive => retained = {}
    /\ alive => createdAt[session] # 0
    /\ ~ClockStepsBack => \A s \in Sessions : createdAt[s] \in {0, s}

\* Every ack on its way, or on disk, is covered by the server's log.
AckInv ==
    /\ \A s \in Sessions : watermark[s] > 0 => <<s, watermark[s]>> \in projected
    /\ \A k \in projected : k[2] <= watermark[k[1]]
    /\ \A s \in Sessions : ackedPos[s] <= watermark[s]
    /\ \A m \in Range(inQueue) : m.type = "JOURNAL_ACK" => m.pos <= watermark[m.session]

\* Nothing is on the wire that was not released, and a frame inside client.send
\* has left no other behind in the held slot.
SocketInv ==
    /\ up => alive
    /\ sender => up
    /\ released => up
    /\ ~alive => sendQueue = <<>> /\ held = NoFrame /\ inQueue = <<>>
    /\ ~released => wire = <<>> /\ inFlight = NoFrame
    /\ inFlight # NoFrame => sender /\ held = NoFrame
    /\ Range(wire) \cup Range(sendQueue) \cup {held, inFlight} \subseteq Recorded \cup {Plain, NoFrame}

\* Once released, whatever is neither logged nor lost is in the line: on the wire,
\* held or queued ...
LineComplete ==
    released => Recorded \ lost \subseteq projected \cup Range(wire) \cup {held} \cup Range(sendQueue)

Ahead(q, i) == {q[j] : j \in 1 .. i - 1}

\* ... and what a frame of the line must follow is logged, or ahead of it.
WireInOrder ==
    \A i \in DOMAIN wire : wire[i] \in Keys => Owed(wire[i]) \subseteq projected \cup Ahead(wire, i)

HeldInOrder ==
    released => \A f \in {held, inFlight} \cap Keys : Owed(f) \subseteq projected \cup Range(wire)

QueueInOrder ==
    released => \A i \in DOMAIN sendQueue : sendQueue[i] \in Keys =>
        Owed(sendQueue[i]) \subseteq projected \cup Range(wire) \cup {held} \cup Ahead(sendQueue, i)

LineInv == LineComplete /\ WireInOrder /\ HeldInOrder /\ QueueInOrder

IInv ==
    /\ TypeOK
    /\ NoFrameLost /\ LogInOrder /\ FramesHaveTheirSession
    /\ RetentionInv /\ AckInv /\ SocketInv /\ LineInv

-----------------------------------------------------------------------------
(* Liveness, and the abstract specification.                               *)

\* Every recorded frame reaches the log, or was given up by a failing store, if
\* in the end a connection stays up: reconnecting resends whatever is missing.
EventuallyLogged ==
    <>[]up => \A k \in Keys : (k \in Recorded) ~> (k \in projected \cup lost)

Log == INSTANCE ReportLog WITH
    numbered <- numbered,     \* what the agent has numbered, sent or not
    projected <- projected,
    lost <- lost

\* Towards the server the agent behaves as a log of reports.
ImplementsReportLog == Log!Spec
=============================================================================
