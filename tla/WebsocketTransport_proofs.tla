----------------------- MODULE WebsocketTransport_proofs -----------------------
(***************************************************************************)
(* Proofs about WebsocketTransport, for every policy, any number of calls  *)
(* of aconnect and any bound: what join() waits for, how a receiver learns *)
(* of the end of its task, what the host is told, and how often a server   *)
(* is chased.                                                              *)
(***************************************************************************)
EXTENDS WebsocketTransport, FiniteSetTheorems, TLAPS

-----------------------------------------------------------------------------
(* The queue, and the frame inside client.send.                            *)

\* A frame is taken only when none is held.
HeldIsFree == inFlight # "none" => held = "none"

\* Every variable has its type but the count, which has it by what it counts.
SendTypes ==
    /\ sendQueue \in Seq(Kinds)
    /\ held \in Kinds \cup {"none"} /\ inFlight \in Kinds \cup {"none"}

CountInv == SendTypes /\ HeldIsFree /\ JoinCountsEverything

\* As many frames of a queue carry a position as it can hold at most.
LEMMA PosInQueue ==
  ASSUME NEW q \in Seq(Kinds)
  PROVE  PosIn(q) \in Nat /\ PosIn(q) <= Len(q)
<1> DEFINE S == {i \in DOMAIN q : q[i] = "pos"}
<1>1. DOMAIN q = 1 .. Len(q) /\ Len(q) \in Nat
  OBVIOUS
<1>2. IsFiniteSet(1 .. Len(q)) /\ Cardinality(1 .. Len(q)) = Len(q)
  BY <1>1, FS_Interval
<1>3. S \subseteq 1 .. Len(q)
  BY <1>1
<1>4. IsFiniteSet(S) /\ Cardinality(S) <= Len(q)
  BY <1>2, <1>3, FS_Subset
<1>5. Cardinality(S) \in Nat
  BY <1>4, FS_CardinalityType
<1> QED
  BY <1>4, <1>5 DEF PosIn

\* A frame that is requeued stays counted.
LEMMA RequeueKeeps ==
  ASSUME CountInv, RequeueInFlight, UNCHANGED <<sendQueue, unfinished>>
  PROVE  CountInv'
<1> USE DEF CountInv, SendTypes, HeldIsFree, JoinCountsEverything, RequeueInFlight
<1>1. Len(sendQueue) \in Nat /\ sendQueue' = sendQueue /\ unfinished' = unfinished
      /\ inFlight' = "none" /\ held' = IF inFlight # "none" THEN inFlight ELSE held
  OBVIOUS
<1>2. CASE inFlight # "none"
  <2>1. held = "none" /\ held' = inFlight /\ unfinished = Len(sendQueue) + 1
    BY <1>1, <1>2
  <2> QED
    BY <1>1, <1>2, <2>1
<1>3. CASE inFlight = "none"
  <2>1. held' = held
    BY <1>1, <1>3
  <2> QED
    BY <1>1, <1>3, <2>1
<1> QED
  BY <1>2, <1>3

\* So at the end of a connection, whichever way it comes.
LEMMA FinallyKeeps ==
  ASSUME CountInv, NEW stood, NEW left, Finally(stood, left)
  PROVE  CountInv'
BY RequeueKeeps DEF Finally

\* The invariant is about the sending task's variables.
LEMMA CountSame ==
  CountInv /\ UNCHANGED <<sendQueue, held, inFlight, unfinished>> => CountInv'
BY DEF CountInv, SendTypes, HeldIsFree, JoinCountsEverything

\* Taking a frame, sending it, discarding it or queueing another keeps the count.
LEMMA SendingKeeps ==
  ASSUME CountInv, (\E kind \in Kinds : Send(kind)) \/ Take \/ Sent \/ SendFails \/ HandleInit
  PROVE  CountInv'
<1> USE DEF CountInv, SendTypes, HeldIsFree, JoinCountsEverything
<1>1. ASSUME NEW kind \in Kinds, Send(kind) PROVE CountInv'
  <2>1. Append(sendQueue, kind) \in Seq(Kinds) /\ Len(Append(sendQueue, kind)) = Len(sendQueue) + 1
    OBVIOUS
  <2>2. sendQueue' = Append(sendQueue, kind) /\ unfinished' = unfinished + 1
        /\ UNCHANGED <<held, inFlight>> /\ Len(sendQueue) \in Nat
    BY <1>1 DEF Send
  <2>3. sendQueue' \in Seq(Kinds) /\ Len(sendQueue') = Len(sendQueue) + 1
    BY <2>1, <2>2
  <2>4. CASE held = "none" /\ inFlight = "none"
    BY <2>2, <2>3, <2>4
  <2>5. CASE held # "none" /\ inFlight = "none"
    BY <2>2, <2>3, <2>5
  <2>6. CASE held = "none" /\ inFlight # "none"
    BY <2>2, <2>3, <2>6
  <2> QED
    BY <2>4, <2>5, <2>6
<1>2. CASE Take
  <2>1. CASE held # "none"
    <3>1. inFlight = "none" /\ inFlight' = held /\ held' = "none"
          /\ UNCHANGED <<sendQueue, unfinished>> /\ Len(sendQueue) \in Nat
      BY <1>2, <2>1 DEF Take
    <3>2. unfinished = Len(sendQueue) + 1
      BY <2>1, <3>1
    <3> QED
      BY <2>1, <3>1, <3>2
  <2>2. CASE held = "none"
    <3>1. sendQueue # <<>> /\ inFlight' = Head(sendQueue) /\ sendQueue' = Tail(sendQueue)
          /\ inFlight = "none" /\ UNCHANGED <<held, unfinished>>
      BY <1>2, <2>2 DEF Take
    <3>2. Head(sendQueue) \in Kinds /\ Tail(sendQueue) \in Seq(Kinds)
          /\ Len(Tail(sendQueue)) = Len(sendQueue) - 1 /\ Len(sendQueue) \in Nat
      BY <3>1
    <3>3. Head(sendQueue) # "none"
      BY <3>2 DEF Kinds
    <3>4. unfinished = Len(sendQueue)
      BY <2>2, <3>1, <3>2
    <3> QED
      BY <2>2, <3>1, <3>2, <3>3, <3>4
  <2> QED
    BY <2>1, <2>2
<1>3. CASE Sent
  <2>1. inFlight # "none" /\ inFlight' = "none" /\ unfinished' = unfinished - 1
        /\ UNCHANGED <<sendQueue, held>> /\ Len(sendQueue) \in Nat
    BY <1>3 DEF Sent
  <2>2. held = "none" /\ unfinished = Len(sendQueue) + 1
    BY <2>1
  <2> QED
    BY <2>1, <2>2
<1>4. CASE SendFails
  BY <1>4, RequeueKeeps DEF SendFails
<1>5. CASE HandleInit
  <2> DEFINE kept == Len(sendQueue) - PosIn(sendQueue)
  <2>1. PosIn(sendQueue) \in Nat /\ PosIn(sendQueue) <= Len(sendQueue) /\ Len(sendQueue) \in Nat
    BY PosInQueue
  <2>2. kept \in Nat
    BY <2>1
  <2>3. PICK resent \in 0 .. MaxQueue - kept :
           /\ sendQueue' = [i \in 1 .. kept + resent |-> IF i <= kept THEN "plain" ELSE "pos"]
           /\ unfinished' = unfinished - Discarded + resent
    BY <1>5 DEF HandleInit
  <2>4. resent \in Nat
    BY <2>2, <2>3, BoundsAssumption
  <2>5. UNCHANGED inFlight /\ held' = IF held = "pos" THEN "none" ELSE held
    BY <1>5 DEF HandleInit
  <2> HIDE DEF kept
  <2>6. kept + resent \in Nat
    BY <2>2, <2>4
  <2>7. sendQueue' \in Seq(Kinds) /\ Len(sendQueue') = kept + resent
    BY <2>3, <2>6 DEF Kinds
  <2>8. unfinished' = Len(sendQueue') + (IF held' # "none" THEN 1 ELSE 0)
                                      + (IF inFlight' # "none" THEN 1 ELSE 0)
    <3> DEFINE flying == IF inFlight # "none" THEN 1 ELSE 0
    <3>1. flying \in Nat /\ flying = IF inFlight' # "none" THEN 1 ELSE 0
      BY <2>5
    <3> HIDE DEF flying
    <3>2. unfinished = Len(sendQueue) + (IF held # "none" THEN 1 ELSE 0) + flying
      BY DEF flying
    <3>3. unfinished' = unfinished - (PosIn(sendQueue) + (IF held = "pos" THEN 1 ELSE 0)) + resent
      BY <2>3 DEF Discarded
    <3>4. Len(sendQueue') = Len(sendQueue) - PosIn(sendQueue) + resent
      BY <2>7 DEF kept
    <3>5. (IF held # "none" THEN 1 ELSE 0) - (IF held = "pos" THEN 1 ELSE 0)
             = (IF held' # "none" THEN 1 ELSE 0)
      BY <2>5
    <3>6. CASE held = "pos"
      BY <2>1, <2>4, <2>5, <3>1, <3>2, <3>3, <3>4, <3>6
    <3>7. CASE held = "none"
      BY <2>1, <2>4, <2>5, <3>1, <3>2, <3>3, <3>4, <3>7
    <3>8. CASE held = "plain"
      BY <2>1, <2>4, <2>5, <3>1, <3>2, <3>3, <3>4, <3>8
    <3> QED
      BY <3>6, <3>7, <3>8 DEF Kinds
  <2> QED
    BY <2>5, <2>7, <2>8
<1> QED
  BY <1>1, <1>2, <1>3, <1>4, <1>5

\* The count and what it counts change together.
LEMMA CountInductive == Spec => []CountInv
<1>1. Init => CountInv
  BY DEF Init, CountInv, SendTypes, HeldIsFree, JoinCountsEverything
<1>2. CountInv /\ [Next]_vars => CountInv'
  <2> SUFFICES ASSUME CountInv, [Next]_vars PROVE CountInv'
    OBVIOUS
  <2> USE DEF policyVars, hostVars, sendVars, userVars
  <2>1. CASE AConnect \/ LoopTop \/ Opened \/ Registered \/ Retry \/ DropsAge \/ Receive
    BY <2>1, CountSame DEF AConnect, LoopTop, Opened, Registered, Retry, DropsAge, Receive
  <2>2. CASE Denied \/ LinkBreaks \/ ReceiveEnds \/ CancelTask
    BY <2>2, FinallyKeeps DEF Denied, LinkBreaks, ReceiveEnds, CancelTask
  <2>3. ASSUME NEW why, Fail(why) PROVE CountInv'
    BY <2>3, FinallyKeeps DEF Fail
  <2>4. CASE ConnectFails \/ ServerRejects \/ SocketCloses
    BY <2>2, <2>3, <2>4 DEF ConnectFails, ServerRejects, SocketCloses
  <2>5. CASE (\E kind \in Kinds : Send(kind)) \/ Take \/ Sent \/ SendFails \/ HandleInit
    BY <2>5, SendingKeeps
  <2>6. CASE Read \/ StopReading \/ ADisconnect \/ Flushed \/ FlushTimeout \/ TaskDone
    BY <2>6, CountSame DEF Read, StopReading, ADisconnect, Flushed, FlushTimeout, TaskDone
  <2>7. CASE CloseSocket
    BY <2>4, <2>7, CountSame DEF CloseSocket
  <2>8. CASE UNCHANGED vars
    BY <2>8, CountSame DEF vars
  <2> QED
    BY <2>1, <2>2, <2>4, <2>5, <2>6, <2>7, <2>8 DEF Next, Step, ServerCloses
<1> QED
  BY <1>1, <1>2, PTL DEF Spec

\* What join() waits for in aflush is what is queued, held or inside client.send: no
\* requeue of a sending task and no discard_journaled loses count of a frame.
THEOREM JoinCounts == Spec => []JoinCountsEverything
<1>1. CountInv => JoinCountsEverything
  BY DEF CountInv
<1> QED
  BY <1>1, CountInductive, PTL

-----------------------------------------------------------------------------
(* What the host is told, and how often a server is chased.                *)

\* adisconnect has begun: the task does not reconnect.
Closes == disconnect # "idle" => closing

\* What is known of the link was told of this one, or is marked as dated.
ToldInv == Closes /\ DropsAreTold /\ (cause # "none" => phase = "off")

\* The host is told (anotify_connection_change) of every link that stands and of
\* every one the task gives up or chases.  It believes in a link that is gone only
\* from a clean close, or from an earlier run that was kicked or failed for good, and
\* until a connect of this run stands or is lost.
THEOREM DropsAreAlwaysTold == Spec => []DropsAreTold
<1> USE DEF ToldInv, Closes, DropsAreTold
<1>1. Init => ToldInv
  BY DEF Init
<1>2. ToldInv /\ [Next]_vars => ToldInv'
  <2> SUFFICES ASSUME ToldInv, [Next]_vars PROVE ToldInv'
    OBVIOUS
  <2> USE DEF policyVars, hostVars, sendVars, userVars, Same
  <2>1. CASE (AConnect \/ LoopTop \/ Opened \/ Registered) /\ Same
    BY <2>1 DEF AConnect, LoopTop, EndOfTask, Opened, Registered, Tell
  <2>2. CASE (Denied \/ LinkBreaks) /\ Same
    BY <2>2 DEF Denied, LinkBreaks, Live, Finally, Correct, Tell, EndOfTask
  <2>3. CASE (ConnectFails \/ ServerRejects) /\ Same
    BY <2>3 DEF ConnectFails, ServerRejects, Live, Fail, Finally, EndOfTask
  <2>4. CASE (Retry \/ DropsAge \/ Receive) /\ Same
    BY <2>4 DEF Retry, DropsAge, Receive
  <2>5. CASE ((\E kind \in Kinds : Send(kind)) \/ Take \/ Sent \/ SendFails \/ HandleInit) /\ Same
    BY <2>5 DEF Send, Take, Sent, SendFails, HandleInit, FlushOvertaken
  <2>6. CASE (Read \/ StopReading \/ ADisconnect \/ Flushed \/ FlushTimeout \/ TaskDone) /\ Same
    BY <2>6 DEF Read, StopReading, ADisconnect, Flushed, FlushTimeout, TaskDone
  <2>7. CASE CloseSocket /\ Same
    BY <2>7 DEF CloseSocket, SocketCloses, ReceiveEnds, Fail, Finally, EndOfTask
  <2>8. CASE CancelTask /\ Same
    BY <2>8 DEF CancelTask, Finally, EndOfTask
  <2>9. CASE ServerCloses /\ cleanly' = TRUE
    BY <2>9 DEF ServerCloses, SocketCloses, ReceiveEnds, Fail, Finally, EndOfTask
  <2>10. CASE UNCHANGED vars
    BY <2>10 DEF vars
  <2> QED
    BY <2>1, <2>2, <2>3, <2>4, <2>5, <2>6, <2>7, <2>8, <2>9, <2>10 DEF Next, Step
<1>3. ToldInv => DropsAreTold
  OBVIOUS
<1> QED
  BY <1>1, <1>2, <1>3, PTL DEF Spec

\* Until the server closes cleanly, each connect but the first has cost a retry.
ChaseInv ==
    /\ Closes
    /\ retry \in 0 .. MaxRetries /\ attempts \in Nat
    /\ phase = "backoff" => retry < MaxRetries
    /\ ~cleanly => attempts <= retry + 1
    /\ ~cleanly /\ ~closing /\ phase = "top" => attempts <= retry

\* The end of a connection refunds the attempts with the budget, or neither.
LEMMA FinallyRefundsBoth ==
  ASSUME ChaseInv, NEW stood, NEW left \in 0 .. MaxRetries, Finally(stood, left)
  PROVE  attempts' \in Nat /\ (~cleanly => attempts' <= left + 1)
BY PolicyAssumption DEF ChaseInv, Finally

\* What is spent of the budget bounds what was tried.
LEMMA ChaseInductive == Spec => []ChaseInv
<1> USE PolicyAssumption
<1>1. Init => ChaseInv
  BY DEF Init, ChaseInv, Closes
<1>2. ChaseInv /\ [Next]_vars => ChaseInv'
  <2> SUFFICES ASSUME ChaseInv, [Next]_vars PROVE ChaseInv'
    OBVIOUS
  <2> USE DEF policyVars, hostVars, sendVars, userVars, Same
  <2>1. CASE AConnect /\ Same
    BY <2>1 DEF AConnect, ChaseInv, Closes
  <2>2. CASE LoopTop /\ Same
    BY <2>2 DEF LoopTop, EndOfTask, ChaseInv, Closes
  <2>3. CASE (Opened \/ Registered \/ DropsAge \/ Receive) /\ Same
    BY <2>3 DEF Opened, Registered, DropsAge, Receive, ChaseInv, Closes
  <2>4. CASE Retry /\ Same
    BY <2>4 DEF Retry, ChaseInv, Closes
  <2>5. ASSUME NEW stood, NEW left \in 0 .. MaxRetries, Finally(stood, left), Correct(left),
               UNCHANGED <<closing, userVars>>, Same
        PROVE  ChaseInv'
    BY <2>5, FinallyRefundsBoth DEF Correct, Tell, EndOfTask, Spent, ChaseInv, Closes
  <2>6. CASE (Denied \/ LinkBreaks) /\ Same
    BY <2>5, <2>6 DEF Denied, LinkBreaks
  <2> DEFINE Closer == disconnect' = disconnect \/ closing
  <2>7. ASSUME NEW why, Fail(why), Closer, cleanly => cleanly' PROVE ChaseInv'
    <3>1. PICK stood \in BOOLEAN, left \in 0 .. MaxRetries : Finally(stood, left) /\ retry' = left
      BY <2>7 DEF Fail
    <3>2. attempts' \in Nat /\ (~cleanly => attempts' <= retry' + 1)
      BY <3>1, FinallyRefundsBoth
    <3> QED
      BY <2>7, <3>1, <3>2 DEF Fail, EndOfTask, ChaseInv, Closes
  <2>8. ASSUME ReceiveEnds, Closer, closing \/ cleanly', cleanly => cleanly' PROVE ChaseInv'
    <3>1. PICK stood \in BOOLEAN, left \in 0 .. MaxRetries : Finally(stood, left) /\ retry' = left
      BY <2>8 DEF ReceiveEnds
    <3>2. attempts' \in Nat /\ (~cleanly => attempts' <= retry' + 1)
      BY <3>1, FinallyRefundsBoth
    <3> QED
      BY <2>8, <3>1, <3>2 DEF ReceiveEnds, ChaseInv, Closes
  <2>9. CASE CancelTask /\ Same
    <3>1. PICK left \in 0 .. MaxRetries : Finally(FALSE, left) /\ retry' = left
      BY <2>9 DEF CancelTask
    <3>2. attempts' \in Nat /\ (~cleanly => attempts' <= retry' + 1)
      BY <3>1, FinallyRefundsBoth
    <3> QED
      BY <2>9, <3>1, <3>2 DEF CancelTask, EndOfTask, ChaseInv, Closes
  <2>10. CASE (ConnectFails \/ ServerRejects) /\ Same
    BY <2>7, <2>10 DEF ConnectFails, ServerRejects
  <2>11. CASE CloseSocket /\ Same
    <3>1. closing /\ disconnect' = "waiting"
      BY <2>11 DEF CloseSocket, ChaseInv, Closes
    <3>2. CASE Live
      BY <2>7, <2>8, <2>11, <3>1, <3>2 DEF CloseSocket, SocketCloses
    <3>3. CASE ~Live
      BY <2>11, <3>1, <3>3 DEF CloseSocket, ChaseInv, Closes
    <3> QED
      BY <3>2, <3>3
  <2>12. CASE ServerCloses /\ cleanly' = TRUE
    BY <2>7, <2>8, <2>12 DEF ServerCloses, SocketCloses
  <2>13. CASE ((\E kind \in Kinds : Send(kind)) \/ Take \/ Sent \/ SendFails \/ HandleInit) /\ Same
    BY <2>13 DEF Send, Take, Sent, SendFails, HandleInit, FlushOvertaken, ChaseInv, Closes
  <2>14. CASE (Read \/ StopReading \/ ADisconnect \/ Flushed \/ FlushTimeout \/ TaskDone) /\ Same
    BY <2>14 DEF Read, StopReading, ADisconnect, Flushed, FlushTimeout, TaskDone, ChaseInv, Closes
  <2>15. CASE UNCHANGED vars
    BY <2>15 DEF vars, ChaseInv, Closes
  <2> QED
    BY <2>1, <2>2, <2>3, <2>4, <2>6, <2>9, <2>10, <2>11, <2>12, <2>13, <2>14, <2>15 DEF Next, Step
<1> QED
  BY <1>1, <1>2, PTL DEF Spec

\* A link that never stands reset_after is tried max_retries times and once more,
\* whatever the failures of _aconnect_and_receive are (until a clean close).
THEOREM ChaseIsBounded == Spec => []RetriesAreBounded
<1>1. ChaseInv => RetriesAreBounded
  BY PolicyAssumption DEF ChaseInv, RetriesAreBounded
<1> QED
  BY <1>1, ChaseInductive, PTL

-----------------------------------------------------------------------------
(* The end of a task, and who reads it.                                    *)

Items == {"message", "failure", "CLOSED"}

Marks(why) == IF why = "none" THEN 1 ELSE 2

\* A queue that ends with the end of a task that raised why, and no other.
EndsWith(q, why) ==
    /\ q \in Seq(Items) /\ Len(q) >= Marks(why)
    /\ q[Len(q)] = "CLOSED"
    /\ why # "none" => q[Len(q) - 1] = "failure"
    /\ \A i \in 1 .. Len(q) - Marks(why) : q[i] = "message"

\* Nothing but messages is in the queue of a running task, and of a task that is
\* done nothing but its own end behind them.
EndInv ==
    /\ phase # "off" => inQueue \in Seq({"message"})
    /\ phase = "off" /\ receiver = "receiving" => EndsWith(inQueue, cause)
    /\ phase = "off" /\ receiver = "ended" => cause = "none"
    /\ receiver \in {"ended", "raised"} => phase = "off"

\* Neither does anything to the queue, the receiver or the task.
LEMMA EndSame ==
  ASSUME EndInv, inQueue' = inQueue, receiver' = receiver,
         \/ phase' = phase /\ cause' = cause
         \/ phase # "off" /\ phase' # "off"
  PROVE  EndInv'
BY DEF EndInv

\* The end is put behind what the receiver has not read.
LEMMA EndIsPut ==
  ASSUME EndInv, phase # "off", UNCHANGED receiver, NEW why, EndOfTask(why)
  PROVE  EndInv'
<1>1. inQueue \in Seq({"message"}) /\ receiver \notin {"ended", "raised"}
  BY DEF EndInv
<1>2. phase' = "off" /\ cause' = why /\ receiver' = receiver
  BY DEF EndOfTask
<1>3. EndsWith(inQueue', why)
  <2>1. CASE why = "none"
    <3>1. inQueue' = inQueue \o <<"CLOSED">>
      BY <2>1 DEF EndOfTask
    <3>2. Len(inQueue) \in Nat /\ \A i \in 1 .. Len(inQueue) : inQueue[i] = "message"
      BY <1>1
    <3>3. inQueue' = Append(inQueue, "CLOSED") /\ inQueue \in Seq(Items)
      BY <1>1, <3>1 DEF Items
    <3>4. inQueue' \in Seq(Items) /\ Len(inQueue') = Len(inQueue) + 1
          /\ inQueue'[Len(inQueue) + 1] = "CLOSED"
          /\ \A i \in 1 .. Len(inQueue) : inQueue'[i] = inQueue[i]
      BY <3>3 DEF Items
    <3> QED
      BY <2>1, <3>2, <3>4 DEF EndsWith, Marks
  <2>2. CASE why # "none"
    <3>1. inQueue' = inQueue \o <<"failure", "CLOSED">>
      BY <2>2 DEF EndOfTask
    <3>2. Len(inQueue) \in Nat /\ \A i \in 1 .. Len(inQueue) : inQueue[i] = "message"
      BY <1>1
    <3>3. inQueue' = Append(Append(inQueue, "failure"), "CLOSED") /\ inQueue \in Seq(Items)
      BY <1>1, <3>1 DEF Items
    <3>4. inQueue' \in Seq(Items) /\ Len(inQueue') = Len(inQueue) + 2
          /\ inQueue'[Len(inQueue) + 1] = "failure" /\ inQueue'[Len(inQueue) + 2] = "CLOSED"
          /\ \A i \in 1 .. Len(inQueue) : inQueue'[i] = inQueue[i]
      BY <3>3 DEF Items
    <3> QED
      BY <2>2, <3>2, <3>4 DEF EndsWith, Marks
  <2> QED
    BY <2>1, <2>2
<1> QED
  BY <1>1, <1>2, <1>3 DEF EndInv

\* What the receiver takes from the queue, it takes from the front of it.
LEMMA HeadIsRead ==
  ASSUME EndInv, receiver = "receiving", inQueue # <<>>, inQueue' = Tail(inQueue),
         UNCHANGED <<phase, cause>>,
         receiver' = CASE Head(inQueue) = "message" -> "receiving"
                       [] Head(inQueue) = "failure" -> "raised"
                       [] Head(inQueue) = "CLOSED"  -> "ended"
  PROVE  EndInv'
<1>1. CASE phase # "off"
  <2>1. inQueue \in Seq({"message"})
    BY <1>1 DEF EndInv
  <2>2. Head(inQueue) = "message" /\ Tail(inQueue) \in Seq({"message"})
    BY <2>1
  <2> QED
    BY <1>1, <2>2 DEF EndInv
<1>2. CASE phase = "off"
  <2>1. EndsWith(inQueue, cause)
    BY <1>2 DEF EndInv
  <2>2. inQueue \in Seq(Items) /\ Len(inQueue) \in Nat /\ Len(inQueue) >= Marks(cause)
        /\ Head(inQueue) = inQueue[1]
    BY <2>1 DEF EndsWith
  <2>3. Tail(inQueue) \in Seq(Items) /\ Len(Tail(inQueue)) = Len(inQueue) - 1
        /\ \A i \in 1 .. Len(inQueue) - 1 : Tail(inQueue)[i] = inQueue[i + 1]
    BY <2>2
  <2>4. CASE Len(inQueue) > Marks(cause)
    <3>1. Head(inQueue) = "message"
      BY <2>1, <2>2, <2>4 DEF EndsWith, Marks
    <3>2. EndsWith(Tail(inQueue), cause)
      BY <2>1, <2>2, <2>3, <2>4 DEF EndsWith, Marks
    <3> QED
      BY <1>2, <3>1, <3>2 DEF EndInv
  <2>5. CASE Len(inQueue) = Marks(cause)
    <3>1. Head(inQueue) = IF cause = "none" THEN "CLOSED" ELSE "failure"
      BY <2>1, <2>2, <2>5 DEF EndsWith, Marks
    <3> QED
      BY <1>2, <3>1 DEF EndInv
  <2>6. Marks(cause) \in Nat
    BY DEF Marks
  <2> QED
    BY <2>2, <2>4, <2>5, <2>6
<1> QED
  BY <1>1, <1>2

\* The consumer of areceive() is woken by the end of its own task, by the failure if
\* there was one, and by no other's: aconnect drains _in_queue, and _aconnection_loop
\* puts the end in it on every way out.
THEOREM EndIsRead == Spec => []EndReachesReceiver
<1>1. Init => EndInv
  BY DEF Init, EndInv
<1>2. EndInv /\ [Next]_vars => EndInv'
  <2> SUFFICES ASSUME EndInv, [Next]_vars PROVE EndInv'
    OBVIOUS
  <2> USE DEF policyVars, hostVars, sendVars, userVars
  <2>1. CASE AConnect
    <3>1. <<>> \in Seq({"message"})
      OBVIOUS
    <3> QED
      BY <2>1, <3>1 DEF AConnect, Drained, EndInv
  <2>2. CASE LoopTop
    BY <2>2, EndIsPut, EndSame DEF LoopTop
  <2>3. CASE Opened \/ Registered \/ Retry \/ DropsAge
    BY <2>3, EndSame DEF Opened, Registered, Retry, DropsAge
  <2>4. ASSUME NEW left, Correct(left), phase # "off", UNCHANGED receiver PROVE EndInv'
    BY <2>4, EndIsPut, EndSame DEF Correct
  <2>5. CASE Denied \/ LinkBreaks
    BY <2>4, <2>5 DEF Denied, LinkBreaks, Live
  <2>6. ASSUME NEW why, Fail(why), phase # "off", UNCHANGED receiver PROVE EndInv'
    BY <2>6, EndIsPut DEF Fail
  <2>7. CASE ConnectFails \/ ServerRejects
    BY <2>6, <2>7 DEF ConnectFails, ServerRejects, Live
  <2>8. CASE SocketCloses /\ UNCHANGED receiver
    BY <2>6, <2>8, EndSame DEF SocketCloses, ReceiveEnds
  <2>9. CASE ServerCloses \/ CloseSocket
    BY <2>8, <2>9, EndSame DEF ServerCloses, CloseSocket
  <2>10. CASE CancelTask
    BY <2>10, EndIsPut DEF CancelTask
  <2>11. CASE Receive
    <3>1. inQueue \in Seq({"message"}) /\ phase # "off"
      BY <2>11 DEF Receive, EndInv
    <3>2. Append(inQueue, "message") \in Seq({"message"})
      BY <3>1
    <3> QED
      BY <2>11, <3>1, <3>2 DEF Receive, EndInv
  <2>12. CASE Read \/ HandleInit
    BY <2>12, HeadIsRead DEF Read, HandleInit
  <2>13. CASE (\E kind \in Kinds : Send(kind)) \/ Take \/ Sent \/ SendFails
    BY <2>13, EndSame DEF Send, Take, Sent, SendFails
  <2>14. CASE StopReading
    BY <2>14 DEF StopReading, EndInv
  <2>15. CASE ADisconnect \/ Flushed \/ FlushTimeout \/ TaskDone
    BY <2>15, EndSame DEF ADisconnect, Flushed, FlushTimeout, TaskDone
  <2>16. CASE UNCHANGED vars
    BY <2>16, EndSame DEF vars
  <2> QED
    BY <2>1, <2>2, <2>3, <2>5, <2>7, <2>9, <2>10, <2>11, <2>12, <2>13, <2>14, <2>15, <2>16
       DEF Next, Step
<1>3. EndInv => EndReachesReceiver
  <2> SUFFICES ASSUME EndInv, phase = "off", receiver = "receiving"
               PROVE  "CLOSED" \in Range(inQueue)
    BY DEF EndInv, EndReachesReceiver
  <2>1. inQueue \in Seq(Items) /\ Len(inQueue) >= 1 /\ inQueue[Len(inQueue)] = "CLOSED"
    BY DEF EndInv, EndsWith, Marks
  <2>2. Len(inQueue) \in DOMAIN inQueue
    BY <2>1
  <2> QED
    BY <2>1, <2>2 DEF Range
<1> QED
  BY <1>1, <1>2, <1>3, PTL DEF Spec

-----------------------------------------------------------------------------
(* Types.                                                                  *)

\* The types the invariants above do not give.
OtherTypes ==
    /\ phase \in {"off", "top", "connecting", "registering", "open", "backoff"}
    /\ drops \in 0 .. MaxDrops
    /\ closing \in BOOLEAN /\ told \in BOOLEAN /\ dated \in BOOLEAN /\ cleanly \in BOOLEAN
    /\ cause \in Causes
    /\ sender \in BOOLEAN /\ released \in BOOLEAN
    /\ inQueue \in Seq(Items)
    /\ receiver \in {"off", "receiving", "ended", "raised"}
    /\ disconnect \in {"idle", "flushing", "closingSocket", "waiting"}
    /\ runs \in 0 .. MaxRuns
    /\ attempts \in 0 .. MaxRetries + 2

\* What the end of a connection and of a task do to them.
LEMMA FinallyTypes ==
  ASSUME OtherTypes, NEW stood, NEW left, Finally(stood, left)
  PROVE  sender' \in BOOLEAN /\ released' \in BOOLEAN /\ drops' \in 0 .. MaxDrops
         /\ attempts' \in 0 .. MaxRetries + 2
<1>1. sender' = FALSE /\ released' = FALSE
  BY DEF Finally
<1>2. drops' = (IF phase = "open" /\ drops < MaxDrops THEN drops + 1 ELSE drops)
      /\ drops \in 0 .. MaxDrops
  BY DEF Finally, OtherTypes
<1>3. drops' \in 0 .. MaxDrops
  BY <1>2, BoundsAssumption
<1>4. (attempts' = 0 \/ attempts' = attempts) /\ attempts \in 0 .. MaxRetries + 2
  BY DEF Finally, OtherTypes
<1>5. attempts' \in 0 .. MaxRetries + 2
  BY <1>4, PolicyAssumption
<1> QED
  BY <1>1, <1>3, <1>5

LEMMA EndOfTaskTypes ==
  ASSUME OtherTypes, NEW why \in Causes, EndOfTask(why)
  PROVE  inQueue' \in Seq(Items) /\ cause' \in Causes /\ phase' = "off"
<1>1. <<"CLOSED">> \in Seq(Items) /\ <<"failure", "CLOSED">> \in Seq(Items)
  BY DEF Items
<1> QED
  BY <1>1 DEF OtherTypes, EndOfTask

\* So every action keeps them.
LEMMA TypesKept == OtherTypes /\ [Next]_vars => OtherTypes'
<1> SUFFICES ASSUME OtherTypes, [Next]_vars PROVE OtherTypes'
  OBVIOUS
<1> USE PolicyAssumption, BoundsAssumption DEF policyVars, hostVars, sendVars, userVars, Same
<1>1. CASE AConnect /\ Same
  <2>1. inQueue' \in Seq(Items)
    BY <1>1 DEF AConnect, Drained
  <2>2. runs' \in 0 .. MaxRuns
    BY <1>1 DEF AConnect, OtherTypes
  <2>3. attempts' \in 0 .. MaxRetries + 2
    BY <1>1 DEF AConnect
  <2>4. phase' = "top" /\ closing' = FALSE /\ dated' = TRUE /\ cause' = "none"
        /\ receiver' = "receiving"
        /\ UNCHANGED <<drops, told, sender, released, disconnect, cleanly>>
    BY <1>1 DEF AConnect
  <2> QED
    BY <2>1, <2>2, <2>3, <2>4 DEF OtherTypes, Causes
<1>2. CASE LoopTop /\ Same
  <2>1. CASE closing
    BY <1>2, <2>1, EndOfTaskTypes DEF LoopTop, OtherTypes, Causes
  <2>2. CASE ~closing
    BY <1>2, <2>2 DEF LoopTop, OtherTypes
  <2> QED
    BY <2>1, <2>2
<1>3. CASE (Opened \/ Registered \/ Retry \/ DropsAge) /\ Same
  <2>1. CASE (Opened \/ Registered \/ Retry) /\ Same
    BY <2>1 DEF Opened, Registered, Tell, Retry, OtherTypes
  <2>2. CASE DropsAge /\ Same
    <3>1. drops' \in 0 .. MaxDrops
      BY <2>2 DEF DropsAge, OtherTypes
    <3> QED
      BY <2>2, <3>1 DEF DropsAge, OtherTypes
  <2> QED
    BY <1>3, <2>1, <2>2
<1>4. CASE (Denied \/ LinkBreaks) /\ Same
  <2>1. PICK stood \in BOOLEAN, left \in 0 .. MaxRetries : Finally(stood, left) /\ Correct(left)
    BY <1>4 DEF Denied, LinkBreaks
  <2>2. sender' \in BOOLEAN /\ released' \in BOOLEAN /\ drops' \in 0 .. MaxDrops
        /\ attempts' \in 0 .. MaxRetries + 2
    BY <2>1, FinallyTypes
  <2>3. closing' = closing /\ receiver' = receiver /\ disconnect' = disconnect /\ runs' = runs
        /\ cleanly' = cleanly
    BY <1>4 DEF Denied, LinkBreaks
  <2>4. told' \in BOOLEAN /\ dated' \in BOOLEAN
    BY <2>1 DEF Correct, Tell, OtherTypes
  <2>5. \/ inQueue' = inQueue /\ cause' = cause /\ phase' = "backoff"
        \/ \E why \in Causes : EndOfTask(why)
    BY <2>1 DEF Correct, Causes
  <2>6. inQueue' \in Seq(Items) /\ cause' \in Causes /\ phase' \in {"off", "backoff"}
    BY <2>5, EndOfTaskTypes DEF OtherTypes
  <2> QED
    BY <2>2, <2>3, <2>4, <2>6 DEF OtherTypes
<1>5. ASSUME NEW why \in Causes, Fail(why), cleanly' \in BOOLEAN, runs' = runs, receiver' = receiver,
             disconnect' \in {"idle", "flushing", "closingSocket", "waiting"}
      PROVE  OtherTypes'
  <2>1. PICK stood \in BOOLEAN, left \in 0 .. MaxRetries : Finally(stood, left)
    BY <1>5 DEF Fail
  <2>2. sender' \in BOOLEAN /\ released' \in BOOLEAN /\ drops' \in 0 .. MaxDrops
        /\ attempts' \in 0 .. MaxRetries + 2
    BY <2>1, FinallyTypes
  <2>3. inQueue' \in Seq(Items) /\ cause' \in Causes /\ phase' = "off"
    BY <1>5, EndOfTaskTypes DEF Fail
  <2> QED
    BY <1>5, <2>2, <2>3 DEF Fail, OtherTypes
<1>6. CASE (ConnectFails \/ ServerRejects) /\ Same
  BY <1>5, <1>6 DEF ConnectFails, ServerRejects, OtherTypes, Causes
<1>7. ASSUME ReceiveEnds, cleanly' \in BOOLEAN, runs' = runs, receiver' = receiver,
             disconnect' \in {"idle", "flushing", "closingSocket", "waiting"}
      PROVE  OtherTypes'
  <2>1. PICK stood \in BOOLEAN, left \in 0 .. MaxRetries : Finally(stood, left)
    BY <1>7 DEF ReceiveEnds
  <2>2. sender' \in BOOLEAN /\ released' \in BOOLEAN /\ drops' \in 0 .. MaxDrops
        /\ attempts' \in 0 .. MaxRetries + 2
    BY <2>1, FinallyTypes
  <2> QED
    BY <1>7, <2>2 DEF ReceiveEnds, OtherTypes
<1>8. CASE ServerCloses /\ cleanly' = TRUE
  BY <1>5, <1>7, <1>8 DEF ServerCloses, SocketCloses, OtherTypes, Causes
<1>9. CASE CloseSocket /\ Same
  <2>1. CASE Live
    BY <1>5, <1>7, <1>9, <2>1 DEF CloseSocket, SocketCloses, OtherTypes, Causes
  <2>2. CASE ~Live
    BY <1>9, <2>2 DEF CloseSocket, OtherTypes
  <2> QED
    BY <2>1, <2>2
<1>10. CASE CancelTask /\ Same
  <2>1. PICK left \in 0 .. MaxRetries : Finally(FALSE, left)
    BY <1>10 DEF CancelTask
  <2>2. sender' \in BOOLEAN /\ released' \in BOOLEAN /\ drops' \in 0 .. MaxDrops
        /\ attempts' \in 0 .. MaxRetries + 2
    BY <2>1, FinallyTypes
  <2>3. inQueue' \in Seq(Items) /\ cause' \in Causes /\ phase' = "off"
    BY <1>10, EndOfTaskTypes DEF CancelTask, Causes
  <2> QED
    BY <1>10, <2>2, <2>3 DEF CancelTask, OtherTypes
<1>11. CASE Receive /\ Same
  <2>1. Append(inQueue, "message") \in Seq(Items)
    BY DEF OtherTypes, Items
  <2> QED
    BY <1>11, <2>1 DEF Receive, OtherTypes
<1>12. CASE (Read \/ HandleInit) /\ Same
  <2>1. inQueue # <<>> /\ inQueue' = Tail(inQueue) /\ inQueue \in Seq(Items)
    <3>1. inQueue \in Seq(Items)
      BY DEF OtherTypes
    <3> QED
      BY <1>12, <3>1 DEF Read, HandleInit
  <2>2. Head(inQueue) \in Items /\ inQueue' \in Seq(Items)
    BY <2>1
  <2>3. receiver' \in {"off", "receiving", "ended", "raised"}
    BY <1>12, <2>2 DEF Read, HandleInit, OtherTypes, Items
  <2>4. disconnect' \in {"idle", "flushing", "closingSocket", "waiting"}
    BY <1>12 DEF Read, HandleInit, OtherTypes
  <2> QED
    BY <1>12, <2>2, <2>3, <2>4 DEF Read, HandleInit, OtherTypes
<1>13. CASE ((\E kind \in Kinds : Send(kind)) \/ Take \/ Sent \/ SendFails) /\ Same
  BY <1>13 DEF Send, Take, Sent, SendFails, OtherTypes
<1>14. CASE (StopReading \/ ADisconnect \/ Flushed \/ FlushTimeout \/ TaskDone) /\ Same
  BY <1>14 DEF StopReading, ADisconnect, Flushed, FlushTimeout, TaskDone, OtherTypes
<1>15. CASE UNCHANGED vars
  BY <1>15 DEF vars, OtherTypes
<1> QED
  BY <1>1, <1>2, <1>3, <1>4, <1>6, <1>8, <1>9, <1>10, <1>11, <1>12, <1>13, <1>14, <1>15
     DEF Next, Step

\* Every variable keeps its type: the count of unfinished frames never falls below
\* zero, the retries never exceed the policy's.
THEOREM TypesHold == Spec => []TypeOK
<1>1. Init => OtherTypes
  <2> SUFFICES ASSUME Init PROVE OtherTypes
    OBVIOUS
  <2>1. inQueue \in Seq(Items)
    BY DEF Init
  <2>2. drops \in 0 .. MaxDrops /\ runs \in 0 .. MaxRuns /\ attempts \in 0 .. MaxRetries + 2
    BY PolicyAssumption, BoundsAssumption DEF Init
  <2> QED
    BY <2>1, <2>2 DEF Init, OtherTypes, Causes
<1>2. OtherTypes /\ CountInv /\ ChaseInv => TypeOK
  <2> SUFFICES ASSUME OtherTypes, CountInv, ChaseInv PROVE TypeOK
    OBVIOUS
  <2>1. unfinished \in Nat
    <3>1. Len(sendQueue) \in Nat
      BY DEF CountInv, SendTypes
    <3>2. CASE held = "none" /\ inFlight = "none"
      BY <3>1, <3>2 DEF CountInv, JoinCountsEverything
    <3>3. CASE held # "none" /\ inFlight = "none"
      BY <3>1, <3>3 DEF CountInv, JoinCountsEverything
    <3>4. CASE inFlight # "none"
      BY <3>1, <3>4 DEF CountInv, HeldIsFree, JoinCountsEverything
    <3> QED
      BY <3>2, <3>3, <3>4
  <2> QED
    BY <2>1 DEF OtherTypes, CountInv, SendTypes, ChaseInv, TypeOK, Items
<1> QED
  BY <1>1, <1>2, TypesKept, CountInductive, ChaseInductive, PTL DEF Spec
=============================================================================
