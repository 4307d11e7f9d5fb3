------------------------- MODULE WebsocketTransport -------------------------
(***************************************************************************)
(* The life of WebsocketAgentTransport (agents/transport/websocket.py):    *)
(* its connection task (connect, register, receive, retry), the sending    *)
(* task of each connection, the receiver reading areceive(), and           *)
(* aconnect()/adisconnect() called beside them.                            *)
(*                                                                         *)
(* What is sent is kept only as to whether it carries a journal position;  *)
(* AgentDelivery says what becomes of it.                                  *)
(***************************************************************************)
EXTENDS Integers, Sequences, FiniteSets, Functions

CONSTANTS
    MaxRetries,        \* ConnectionPolicy.max_retries
    FlapLimit,         \* ConnectionPolicy.flap_limit, 0 where it is None
    CleanCloses,       \* may the server close with 1000 or 1001?
    Refuses,           \* may the connect fail without a handshake (OSError)?
    MaxRuns,           \* bound: calls of aconnect
    MaxDrops,          \* bound: drop times remembered
    MaxQueue           \* bound: frames queued, messages not read

ASSUME PolicyAssumption == MaxRetries \in Nat /\ FlapLimit \in Nat
ASSUME ServerAssumption == CleanCloses \in BOOLEAN /\ Refuses \in BOOLEAN
ASSUME BoundsAssumption == MaxRuns \in Nat /\ MaxDrops \in Nat /\ MaxQueue \in Nat

VARIABLES
    \* the connection task
    phase,        \* where it is; "off": there is none, or it is done
    retry,        \* retry
    drops,        \* how many of _drop_times are within the flap window
    closing,      \* _closing
    told,         \* what the host was last told of the link (anotify_connection_change)
    cause,        \* why the task raised: "none" while it did not
    \* the sending task
    sendQueue, held, inFlight,
    unfinished,   \* the queue's count of unfinished items (join waits for 0)
    sender,       \* the sending task runs
    released,     \* this connection's _released is set
    \* the receiver and the caller of adisconnect
    inQueue,      \* _in_queue
    receiver,     \* the consumer of areceive()
    disconnect,   \* where adisconnect is
    runs,         \* calls of aconnect
    \* history
    attempts,     \* connects tried since a connection last stood reset_after
    dated,        \* is told about a link before this run's, or before a clean close
    cleanly       \* did the server ever close with 1000 or 1001

hostVars == <<told, dated>>
policyVars == <<retry, drops, hostVars, cause, attempts>>
sendVars == <<sendQueue, held, inFlight, unfinished, sender, released>>
userVars == <<receiver, disconnect, runs>>
vars == <<phase, closing, policyVars, sendVars, inQueue, userVars, cleanly>>

Kinds == {"plain", "pos"}
Causes == {"none", "network", "spent", "flapping", "server"}

TypeOK ==
    /\ phase \in {"off", "top", "connecting", "registering", "open", "backoff"}
    /\ retry \in 0 .. MaxRetries
    /\ drops \in 0 .. MaxDrops
    /\ closing \in BOOLEAN /\ told \in BOOLEAN /\ dated \in BOOLEAN
    /\ cause \in Causes
    /\ sendQueue \in Seq(Kinds)
    /\ held \in Kinds \cup {"none"}
    /\ inFlight \in Kinds \cup {"none"}
    /\ unfinished \in Nat
    /\ sender \in BOOLEAN /\ released \in BOOLEAN
    /\ inQueue \in Seq({"message", "failure", "CLOSED"})
    /\ receiver \in {"off", "receiving", "ended", "raised"}
    /\ disconnect \in {"idle", "flushing", "closingSocket", "waiting"}
    /\ runs \in 0 .. MaxRuns
    /\ attempts \in 0 .. MaxRetries + 2
    /\ cleanly \in BOOLEAN

\* __aenter__
Init ==
    /\ phase = "off" /\ closing = FALSE
    /\ retry = 0 /\ drops = 0 /\ told = FALSE /\ dated = FALSE /\ cause = "none" /\ attempts = 0
    /\ sendQueue = <<>> /\ held = "none" /\ inFlight = "none" /\ unfinished = 0
    /\ sender = FALSE /\ released = FALSE
    /\ inQueue = <<>>
    /\ receiver = "off" /\ disconnect = "idle" /\ runs = 0
    /\ cleanly = FALSE

-----------------------------------------------------------------------------
(* The connection task.                                                    *)

\* anotify_connection_change
Tell(healthy) == told' = healthy /\ dated' = FALSE

\* (Mutant of Drained: what an earlier task left is still there.)
NotDrained == inQueue

\* aconnect empties _in_queue before it starts a task.
Drained == <<>>

\* aconnect, and the agent's loop starts reading areceive().  The host is told
\* nothing: what it believes is what an earlier run told it.
AConnect ==
    /\ phase = "off" /\ disconnect = "idle" /\ receiver # "receiving"
    /\ runs < MaxRuns
    /\ runs' = runs + 1
    /\ closing' = FALSE
    /\ phase' = "top"
    /\ retry' = 0 /\ attempts' = 0 /\ cause' = "none" /\ dated' = TRUE
    /\ inQueue' = Drained
    /\ receiver' = "receiving"
    /\ UNCHANGED <<drops, told, sendVars, disconnect>>

\* _aconnection_loop's end: CLOSED always, a failure ahead of it.
EndOfTask(why) ==
    /\ phase' = "off"
    /\ cause' = why
    /\ inQueue' = inQueue \o (IF why = "none" THEN <<"CLOSED">> ELSE <<"failure", "CLOSED">>)

LoopTop ==
    /\ phase = "top"
    /\ IF closing
       THEN /\ EndOfTask("none")
            /\ UNCHANGED attempts
       ELSE /\ phase' = "connecting"
            /\ attempts' = IF attempts < MaxRetries + 2 THEN attempts + 1 ELSE attempts
            /\ UNCHANGED <<cause, inQueue>>
    /\ UNCHANGED <<closing, retry, drops, hostVars, sendVars, userVars>>

\* The socket is open: _client is set, Register is being sent.
Opened ==
    /\ phase = "connecting"
    /\ phase' = "registering"
    /\ UNCHANGED <<closing, policyVars, sendVars, inQueue, userVars>>

\* Register is sent: a new _released, a new sending task, and the host is told.
Registered ==
    /\ phase = "registering"
    /\ phase' = "open"
    /\ Tell(TRUE)
    /\ sender' = TRUE /\ released' = FALSE
    /\ UNCHANGED <<closing, retry, drops, cause, attempts, sendQueue, held, inFlight, unfinished,
                   inQueue, userVars>>

\* requeue
RequeueInFlight ==
    /\ held' = IF inFlight # "none" THEN inFlight ELSE held
    /\ inFlight' = "none"

\* (Mutant of Finally: every connect that worked refunds the budget.)
FinallyRefunds(stood, left) ==
    /\ RequeueInFlight
    /\ sender' = FALSE /\ released' = FALSE
    /\ drops' = IF phase = "open" /\ drops < MaxDrops THEN drops + 1 ELSE drops
    /\ left = IF stood \/ phase = "open" THEN 0 ELSE retry
    /\ attempts' = IF stood THEN 0 ELSE attempts
    /\ UNCHANGED <<sendQueue, unfinished>>

\* The finally of a connection: the sending task is cancelled, a drop of a
\* healthy link is remembered, and a link that stood reset_after refunds the
\* budget.
Finally(stood, left) ==
    /\ RequeueInFlight
    /\ sender' = FALSE /\ released' = FALSE
    /\ drops' = IF phase = "open" /\ drops < MaxDrops THEN drops + 1 ELSE drops
    /\ left = IF stood THEN 0 ELSE retry
    /\ attempts' = IF stood THEN 0 ELSE attempts
    /\ UNCHANGED <<sendQueue, unfinished>>

\* _is_flapping
Flapping == FlapLimit # 0 /\ drops' >= FlapLimit

\* (Mutant of Spent: one retry too many.)
SpentLate(left) == left > MaxRetries

Spent(left) == left >= MaxRetries

\* (Mutant of Correct: the host is told only once the retries are spent.)
CorrectUntold(left) ==
    IF closing
    THEN EndOfTask("none") /\ retry' = left /\ UNCHANGED hostVars
    ELSE /\ retry' = left
         /\ \/ Spent(left) /\ Tell(FALSE) /\ EndOfTask("spent")
            \/ ~Spent(left) /\ Flapping /\ Tell(FALSE) /\ EndOfTask("flapping")
            \/ ~Spent(left) /\ ~Flapping /\ phase' = "backoff" /\ UNCHANGED <<hostVars, cause, inQueue>>

\* CorrectableConnectionFail: stop if closing; else tell the host, and give up
\* or wait.
Correct(left) ==
    IF closing
    THEN EndOfTask("none") /\ retry' = left /\ UNCHANGED hostVars
    ELSE /\ Tell(FALSE)
         /\ retry' = left
         /\ \/ Spent(left) /\ EndOfTask("spent")
            \/ ~Spent(left) /\ Flapping /\ EndOfTask("flapping")
            \/ ~Spent(left) /\ ~Flapping /\ phase' = "backoff" /\ UNCHANGED <<cause, inQueue>>

\* The handshake is denied (InvalidHandshake).
Denied ==
    /\ phase = "connecting"
    /\ \E left \in 0 .. MaxRetries : Finally(FALSE, left) /\ Correct(left)
    /\ UNCHANGED <<closing, userVars>>

\* DefiniteConnectionFail, and the exceptions of a kick or a block.  The host is not
\* told: areceive() raises.
Fail(why) ==
    /\ \E stood \in BOOLEAN, left \in 0 .. MaxRetries :
          /\ stood => phase # "connecting"
          /\ Finally(stood, left)
          /\ retry' = left
    /\ EndOfTask(why)
    /\ UNCHANGED <<closing, hostVars>>

\* The connect fails otherwise: refused, timed out, no token.  Any exception but
\* InvalidHandshake is definite.
ConnectFails == phase = "connecting" /\ Refuses /\ Fail("network") /\ UNCHANGED userVars

Live == phase \in {"registering", "open"}

\* The link breaks, or the server bounces the agent (_classify_close).
LinkBreaks ==
    /\ Live
    /\ \E stood \in BOOLEAN, left \in 0 .. MaxRetries : Finally(stood, left) /\ Correct(left)
    /\ UNCHANGED <<closing, userVars>>

\* The server kicks, blocks or rejects the agent (_classify_close, Kick).
ServerRejects == Live /\ Fail("server") /\ UNCHANGED userVars

\* A close with 1000 or 1001 ends the receive loop without an exception: the
\* task goes straight back to the top.
ReceiveEnds ==
    /\ \E stood \in BOOLEAN, left \in 0 .. MaxRetries : Finally(stood, left) /\ retry' = left
    /\ phase' = "top"
    /\ dated' = TRUE
    /\ UNCHANGED <<closing, told, cause, inQueue>>

\* Before the receive loop, the same close fails the send of Register, and
\* ConnectionClosedOK is none of the correctable exceptions.
SocketCloses ==
    \/ phase = "open" /\ ReceiveEnds
    \/ phase = "registering" /\ Fail("network")

ServerCloses == CleanCloses /\ SocketCloses /\ UNCHANGED userVars

\* The backoff is over.
Retry ==
    /\ phase = "backoff"
    /\ phase' = "top"
    /\ retry' = retry + 1
    /\ UNCHANGED <<closing, drops, hostVars, cause, attempts, sendVars, inQueue, userVars>>

\* Old drops leave the flap window.
DropsAge ==
    /\ drops > 0
    /\ drops' = drops - 1
    /\ UNCHANGED <<phase, closing, retry, hostVars, cause, attempts, sendVars, inQueue, userVars>>

\* _ahandle_inbound hands a message on.
Receive ==
    /\ phase = "open"
    /\ Len(inQueue) < MaxQueue
    /\ inQueue' = Append(inQueue, "message")
    /\ UNCHANGED <<phase, closing, policyVars, sendVars, userVars>>

-----------------------------------------------------------------------------
(* The sending task, and the host beside it.                               *)

\* delayaction
Send(kind) ==
    /\ Len(sendQueue) < MaxQueue
    /\ sendQueue' = Append(sendQueue, kind)
    /\ unfinished' = unfinished + 1
    /\ UNCHANGED <<phase, closing, policyVars, held, inFlight, sender, released, inQueue, userVars>>

\* sending: take the held frame, or the next one.
Take ==
    /\ phase = "open" /\ sender /\ released /\ inFlight = "none"
    /\ \/ held # "none" /\ inFlight' = held /\ held' = "none" /\ UNCHANGED sendQueue
       \/ /\ held = "none" /\ sendQueue # <<>>
          /\ inFlight' = Head(sendQueue) /\ sendQueue' = Tail(sendQueue) /\ UNCHANGED held
    /\ UNCHANGED <<phase, closing, policyVars, unfinished, sender, released, inQueue, userVars>>

\* client.send returned: task_done.
Sent ==
    /\ inFlight # "none"
    /\ inFlight' = "none"
    /\ unfinished' = unfinished - 1
    /\ UNCHANGED <<phase, closing, policyVars, sendQueue, held, sender, released, inQueue, userVars>>

\* client.send raised: requeue, and the task returns.
SendFails ==
    /\ inFlight # "none"
    /\ RequeueInFlight
    /\ sender' = FALSE
    /\ UNCHANGED <<phase, closing, policyVars, sendQueue, unfinished, released, inQueue, userVars>>

PosIn(q) == Cardinality({i \in DOMAIN q : q[i] = "pos"})

\* (Mutant of Discarded: the held frame is dropped, but never counted as done.)
DiscardedFromQueue == PosIn(sendQueue)

\* discard_journaled: how many frames it drops, each with its task_done.  The
\* kept ones are done too, and put again.
Discarded == PosIn(sendQueue) + (IF held = "pos" THEN 1 ELSE 0)

\* discard_journaled takes the queue empty before it puts the kept frames again: if
\* nothing else is counted, join() returns from there, whatever is queued next.
FlushOvertaken == disconnect = "flushing" /\ held # "plain" /\ inFlight = "none"

\* _aafter_init: the agent reads an Init, discards (discard_journaled), queues
\* what it retains again, and releases the sends of the connection there is.
HandleInit ==
    /\ receiver = "receiving" /\ inQueue # <<>> /\ Head(inQueue) = "message"
    /\ inQueue' = Tail(inQueue)
    /\ held' = IF held = "pos" THEN "none" ELSE held
    /\ LET kept == Len(sendQueue) - PosIn(sendQueue) IN
          \E resent \in 0 .. MaxQueue - kept :
             /\ sendQueue' = [i \in 1 .. kept + resent |-> IF i <= kept THEN "plain" ELSE "pos"]
             /\ unfinished' = unfinished - Discarded + resent
    /\ released' = (phase = "open")
    /\ disconnect' = IF FlushOvertaken THEN "closingSocket" ELSE disconnect
    /\ UNCHANGED <<phase, closing, policyVars, inFlight, sender, receiver, runs>>

-----------------------------------------------------------------------------
(* The receiver, and adisconnect.                                          *)

\* areceive: the next item.  (A message that is no Init.)
Read ==
    /\ receiver = "receiving" /\ inQueue # <<>>
    /\ receiver' = CASE Head(inQueue) = "message" -> "receiving"
                     [] Head(inQueue) = "failure" -> "raised"
                     [] Head(inQueue) = "CLOSED"  -> "ended"
    /\ inQueue' = Tail(inQueue)
    /\ UNCHANGED <<phase, closing, policyVars, sendVars, disconnect, runs>>

\* The agent's loop is cancelled; the connection stays up.
StopReading ==
    /\ receiver = "receiving"
    /\ receiver' = "off"
    /\ UNCHANGED <<phase, closing, policyVars, sendVars, inQueue, disconnect, runs>>

\* adisconnect: flush and close a live socket, or only wait for the task.
ADisconnect ==
    /\ disconnect = "idle" /\ ~closing /\ runs > 0
    /\ closing' = TRUE
    /\ disconnect' = IF Live THEN "flushing" ELSE "waiting"
    /\ UNCHANGED <<phase, policyVars, sendVars, inQueue, receiver, runs>>

\* aflush: join returns, or flush_timeout is over.
Flushed ==
    /\ disconnect = "flushing" /\ unfinished = 0
    /\ disconnect' = "closingSocket"
    /\ UNCHANGED <<phase, closing, policyVars, sendVars, inQueue, receiver, runs>>

\* (Mutant of FlushTimeout: the flush is not bounded.)
FlushUnbounded == FALSE /\ UNCHANGED vars

FlushTimeout ==
    /\ disconnect = "flushing" /\ unfinished # 0
    /\ disconnect' = "closingSocket"
    /\ UNCHANGED <<phase, closing, policyVars, sendVars, inQueue, receiver, runs>>

\* client.close(): the receive loop of that client ends, if it still runs.  (While
\* closing the task never opens another one.)
CloseSocket ==
    /\ disconnect = "closingSocket"
    /\ disconnect' = "waiting"
    /\ IF Live THEN SocketCloses
               ELSE UNCHANGED <<phase, closing, policyVars, sendVars, inQueue>>
    /\ UNCHANGED <<receiver, runs>>

\* The task is done, ...
TaskDone ==
    /\ disconnect = "waiting" /\ phase = "off"
    /\ disconnect' = "idle"
    /\ UNCHANGED <<phase, closing, policyVars, sendVars, inQueue, receiver, runs>>

\* ... or it is not within flush_timeout, and is cancelled.
CancelTask ==
    /\ disconnect = "waiting" /\ phase # "off"
    /\ disconnect' = "idle"
    /\ \E left \in 0 .. MaxRetries : Finally(FALSE, left) /\ retry' = left
    /\ EndOfTask("none")
    /\ UNCHANGED <<closing, hostVars, receiver, runs>>

-----------------------------------------------------------------------------
Step ==
    \/ AConnect \/ LoopTop \/ Opened \/ Registered
    \/ Denied \/ ConnectFails \/ LinkBreaks \/ ServerRejects
    \/ Retry \/ DropsAge \/ Receive
    \/ \E kind \in Kinds : Send(kind)
    \/ Take \/ Sent \/ SendFails \/ HandleInit
    \/ Read \/ StopReading
    \/ ADisconnect \/ Flushed \/ FlushTimeout \/ CloseSocket \/ TaskDone \/ CancelTask

Same == UNCHANGED cleanly

Next ==
    \/ Step /\ Same
    \/ ServerCloses /\ cleanly' = TRUE

Spec == Init /\ [][Next]_vars

\* The loop runs its ready tasks, and its timers fire: the sleep of a retry and
\* the timeouts of adisconnect.  Nothing is assumed of the network or the server.
Fairness ==
    /\ WF_vars(LoopTop /\ Same) /\ WF_vars(Retry /\ Same) /\ WF_vars(Read /\ Same)
    /\ WF_vars((Flushed \/ FlushTimeout) /\ Same) /\ WF_vars(CloseSocket /\ Same)
    /\ WF_vars((TaskDone \/ CancelTask) /\ Same)

FairSpec == Spec /\ Fairness

-----------------------------------------------------------------------------
(* Properties.                                                             *)

\* The host knows the state of the link: up while the socket receives, down from
\* the moment the task waits to reconnect.  Its disconnect policies count from
\* there.  (anotify_connection_change in _aconnect_and_receive.)
LinkIsTold ==
    /\ phase = "open" => told
    /\ phase \in {"top", "connecting", "registering", "backoff"} /\ ~closing => ~told

\* A link that stands is told, and a drop is from the moment the task gives up or
\* waits to reconnect.  Nobody tells the host of a clean close, nor, at the start of
\* another run, that a kick or a definite failure ended the last one: what it then
\* believes is out of date until this run's first connect stands or is lost.
DropsAreTold ==
    /\ phase = "open" => told /\ ~dated
    /\ phase = "backoff" \/ cause \in {"spent", "flapping"} => ~told
    /\ phase \in {"top", "connecting", "registering"} /\ ~closing => ~told \/ dated

\* A connection that never stands reset_after is chased max_retries times, not
\* for ever, unless the server closes it cleanly.  (retry in _aconnect_and_receive.)
RetriesAreBounded == cleanly \/ attempts <= MaxRetries + 1

\* Whoever still reads areceive() after the task ended will be woken, and by the
\* failure if there was one; and it ends or raises only because of its own task,
\* not because of what an earlier one left in the queue.  (_aconnection_loop, and
\* aconnect, which drains _in_queue.)
EndReachesReceiver ==
    /\ phase = "off" /\ receiver = "receiving" => "CLOSED" \in Range(inQueue)
    /\ phase = "off" /\ receiver = "ended" => cause = "none"
    /\ receiver \in {"ended", "raised"} => phase = "off"

\* What join() waits for is exactly what is queued, held or inside client.send,
\* over requeues and discards.  (task_done in sending and discard_journaled.)
JoinCountsEverything ==
    unfinished = Len(sendQueue) + (IF held # "none" THEN 1 ELSE 0)
                                + (IF inFlight # "none" THEN 1 ELSE 0)

\* "When the budget runs out the agent tears down" (docs/disconnect-policy.md:108):
\* once a link was up, the network never ends the task while retries are left.
NetworkFailuresAreRetried == cause = "network" /\ drops > 0 => retry >= MaxRetries

\* adisconnect returns, whatever the socket does, leaves no connection task, and a
\* receiver that kept reading is let go.
DisconnectReturns ==
    closing ~> disconnect = "idle" /\ phase = "off" /\ receiver # "receiving"
=============================================================================
