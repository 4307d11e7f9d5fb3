---------------------------- MODULE AgentPostman ----------------------------
(***************************************************************************)
(* Calls an actor makes over the agent's socket: AgentPostman              *)
(* (agents/caller.py), which asks the server for a child task, waits for   *)
(* the answer, and streams the mirrors of the child's events to its        *)
(* consumer until a terminal one; and cancels the child when the consumer  *)
(* is cancelled.                                                           *)
(*                                                                         *)
(* A call and its child task have one name: every call has a reference of  *)
(* its own.  The socket stays up here; AgentDelivery is about its drops.   *)
(***************************************************************************)
EXTENDS Integers, Sequences, FiniteSets, SequencesExt

CONSTANTS
    Calls,      \* the calls
    Questions,  \* those that only ask for a state's revision (astate_revision)
    MaxSeq      \* bound: the events of a child

ASSUME CallsAssumption == Questions \subseteq Calls
ASSUME BoundAssumption == MaxSeq \in Nat \ {0}

VARIABLES
    \* what a behaviour is about; no step changes it
    earlier,    \* the calls whose child an earlier process of the agent started
    escalating, \* the calls with escalate_to_interrupt
    liveFirst,  \* may a live event of a child found again precede its replay?
    \* the generator of each call
    pc,         \* where it is
    outcome,    \* how it ended
    taken,      \* the events it took, in order (their set is seen)
    \* the postman
    pending,    \* _pending_responses
    answer,     \* the result of the call's future
    queues,     \* the tasks in _task_queues ...
    queue,      \* ... and their content, <<>> where there is none
    orphans,    \* _orphan_by_task
    \* the socket
    toServer, toAgent,
    \* the server's children
    owed,       \* requests it read and has not answered
    answered,   \* requests it answered with a task
    count,      \* how many events the child has
    ending,     \* the kind of its last event, "none" while it runs
    mirrored,   \* how many of them were mirrored to the caller
    \* history
    cancelSent  \* the children a CancelRequest was sent for

scenario == <<earlier, escalating, liveFirst>>
generator == <<pc, outcome, taken>>
postman == <<pending, answer, queues, queue, orphans>>
server == <<owed, answered, count, ending, mirrored>>
vars == <<scenario, generator, postman, toServer, toAgent, server, cancelSent>>

Endings == {"completed", "cancelled", "interrupted"}
Seqs == 1 .. MaxSeq
Mirrors == [call : Calls, seq : Seqs]
Responses == [call : Calls, answer : {"task", "error"}]
Requests == [call : Calls, type : {"ASSIGN_REQUEST", "CANCEL_REQUEST", "INTERRUPT_REQUEST"}]

TypeOK ==
    /\ earlier \subseteq Calls \ Questions /\ escalating \subseteq Calls /\ liveFirst \in BOOLEAN
    /\ pc \in [Calls -> {"idle", "asking", "streaming", "yielded", "cancelling", "interrupting", "done"}]
    /\ outcome \in [Calls -> {"none", "ended", "answered", "refused", "cancelled", "closed"}]
    /\ taken \in [Calls -> Seq(Seqs)]
    /\ pending \in SUBSET Calls
    /\ answer \in [Calls -> {"none", "task", "error"}]
    /\ queues \in SUBSET Calls
    /\ queue \in [Calls -> Seq(Seqs)]
    /\ orphans \in [Calls -> Seq(Seqs)]
    /\ toServer \in Seq(Requests)
    /\ toAgent \in Seq(Mirrors \cup Responses)
    /\ owed \in SUBSET Calls /\ answered \in SUBSET Calls
    /\ count \in [Calls -> 0 .. MaxSeq]
    /\ ending \in [Calls -> Endings \cup {"none"}]
    /\ mirrored \in [Calls -> 0 .. MaxSeq]
    /\ cancelSent \in SUBSET Calls

\* A new process.  The children of an earlier one have got as far as they have.
Init ==
    /\ earlier \in SUBSET (Calls \ Questions) /\ escalating \in SUBSET (Calls \ Questions)
    /\ liveFirst \in BOOLEAN /\ (liveFirst => earlier # {})
    /\ pc = [c \in Calls |-> "idle"]
    /\ outcome = [c \in Calls |-> "none"]
    /\ taken = [c \in Calls |-> <<>>]
    /\ pending = {}
    /\ answer = [c \in Calls |-> "none"]
    /\ queues = {}
    /\ queue = [c \in Calls |-> <<>>]
    /\ orphans = [c \in Calls |-> <<>>]
    /\ toServer = <<>> /\ toAgent = <<>>
    /\ owed = {} /\ answered = {}
    /\ \E n \in [earlier -> 0 .. MaxSeq], over \in SUBSET earlier, told \in [earlier -> 0 .. MaxSeq] :
          /\ \A c \in earlier : told[c] <= n[c] /\ (c \in over <=> n[c] = MaxSeq)
          /\ count = [c \in Calls |-> IF c \in earlier THEN n[c] ELSE 0]
          /\ mirrored = [c \in Calls |-> IF c \in earlier THEN told[c] ELSE 0]
          /\ ending = [c \in Calls |-> IF c \in over THEN "completed" ELSE "none"]
    /\ cancelSent = {}

Kind(c, seq) == IF seq = count[c] THEN ending[c] ELSE "none"

\* (Mutant of Request: it does not say what it asks for.)
RequestUntyped(type, c) == [call |-> c]

Request(type, c) == [call |-> c, type |-> type]

-----------------------------------------------------------------------------
(* The generator.                                                          *)

\* (Mutant of CleanUp: the task's queue is left.)
CleanUpRequest(c) == pending' = pending \ {c} /\ UNCHANGED <<queues, queue, orphans>>

\* The finally of _astream: forget the request, and the task if it is known.
CleanUp(c) ==
    /\ pending' = pending \ {c}
    /\ IF pc[c] \in {"idle", "asking"}
       THEN UNCHANGED <<queues, queue, orphans>>
       ELSE /\ queues' = queues \ {c}
            /\ queue' = [queue EXCEPT ![c] = <<>>]
            /\ orphans' = [orphans EXCEPT ![c] = <<>>]

End(c, how) ==
    /\ pc' = [pc EXCEPT ![c] = "done"]
    /\ outcome' = [outcome EXCEPT ![c] = how]
    /\ CleanUp(c)

\* aassign, aprobe, astate_revision: remember the request, and send it.
Ask(c) ==
    /\ pc[c] = "idle"
    /\ pc' = [pc EXCEPT ![c] = "asking"]
    /\ pending' = pending \cup {c}
    /\ toServer' = Append(toServer, Request("ASSIGN_REQUEST", c))
    /\ UNCHANGED <<outcome, taken, answer, queues, queue, orphans, toAgent, server, cancelSent>>

\* (Mutant of Bound: a new queue, whether or not there is one.)
BoundAnew(c) ==
    /\ queues' = queues \cup {c}
    /\ queue' = [queue EXCEPT ![c] = orphans[c]]
    /\ orphans' = [orphans EXCEPT ![c] = <<>>]

\* _ensure_queue: create the queue if there is none, and put the parked events.
Bound(c) ==
    /\ queues' = queues \cup {c}
    /\ queue' = [queue EXCEPT ![c] = @ \o orphans[c]]
    /\ orphans' = [orphans EXCEPT ![c] = <<>>]

\* The answer is in: refused, or a task to stream.
Answered(c) ==
    /\ pc[c] = "asking" /\ answer[c] # "none"
    /\ \/ answer[c] = "error" /\ End(c, "refused")
       \/ answer[c] = "task" /\ c \in Questions /\ End(c, "answered")
       \/ /\ answer[c] = "task" /\ c \notin Questions
          /\ pc' = [pc EXCEPT ![c] = "streaming"]
          /\ Bound(c)
          /\ UNCHANGED <<outcome, pending>>
    /\ UNCHANGED <<taken, answer, toServer, toAgent, server, cancelSent>>

\* (Mutant of Seen: an event that comes again is taken again.)
NeverSeen(c, seq) == FALSE

Seen(c, seq) == \E i \in DOMAIN taken[c] : taken[c][i] = seq

\* _adapt: whether an event is surfaced.  A terminal one always is, a cancellation
\* as CRITICAL; of the others some are.
Surfaced(c, seq) == IF Kind(c, seq) = "none" THEN BOOLEAN ELSE {TRUE}

\* The next event: one seen before is skipped, any other yielded if it is surfaced.
Take(c) ==
    /\ pc[c] = "streaming" /\ queue[c] # <<>>
    /\ queue' = [queue EXCEPT ![c] = Tail(@)]
    /\ LET seq == Head(queue[c]) IN
          IF Seen(c, seq)
          THEN UNCHANGED generator
          ELSE /\ taken' = [taken EXCEPT ![c] = Append(@, seq)]
               /\ \E surfaced \in Surfaced(c, seq) :
                     pc' = IF surfaced THEN [pc EXCEPT ![c] = "yielded"] ELSE pc
               /\ UNCHANGED outcome
    /\ UNCHANGED <<pending, answer, queues, orphans, toServer, toAgent, server, cancelSent>>

\* The consumer asks for more: the stream ends after a terminal event.
Resume(c) ==
    /\ pc[c] = "yielded"
    /\ IF Kind(c, Last(taken[c])) # "none"
       THEN End(c, "ended")
       ELSE /\ pc' = [pc EXCEPT ![c] = "streaming"]
            /\ UNCHANGED <<outcome, pending, queues, queue, orphans>>
    /\ UNCHANGED <<taken, answer, toServer, toAgent, server, cancelSent>>

\* The consumer is cancelled while the call waits for its answer.  There is no
\* task to cancel yet.
CancelAsking(c) ==
    /\ pc[c] = "asking"
    /\ End(c, "cancelled")
    /\ UNCHANGED <<taken, answer, toServer, toAgent, server, cancelSent>>

\* (Mutant of SendCancel: the request is not sent.)
SendNothing(c) == UNCHANGED <<toServer, cancelSent>>

SendCancel(c) ==
    /\ toServer' = Append(toServer, Request("CANCEL_REQUEST", c))
    /\ cancelSent' = cancelSent \cup {c}

\* ... while it waits for an event: cancel the child, and await the confirmation.
CancelStreaming(c) ==
    /\ pc[c] = "streaming"
    /\ pc' = [pc EXCEPT ![c] = "cancelling"]
    /\ SendCancel(c)
    /\ UNCHANGED <<outcome, taken, postman, toAgent, server>>

\* ... while it is suspended at its yield: the generator is closed (GeneratorExit).
Close(c) ==
    /\ pc[c] = "yielded"
    /\ End(c, "closed")
    /\ SendCancel(c)
    /\ UNCHANGED <<taken, answer, toAgent, server>>

\* What _await_terminal waits for.
Confirms(c) == IF pc[c] = "cancelling" THEN {"cancelled"} ELSE {"cancelled", "interrupted"}

\* _await_terminal: drain the queue until the confirmation.
Drain(c) ==
    /\ pc[c] \in {"cancelling", "interrupting"} /\ queue[c] # <<>>
    /\ IF Kind(c, Head(queue[c])) \in Confirms(c)
       THEN End(c, "cancelled")
       ELSE /\ queue' = [queue EXCEPT ![c] = Tail(@)]
            /\ UNCHANGED <<pc, outcome, pending, queues, orphans>>
    /\ UNCHANGED <<taken, answer, toServer, toAgent, server, cancelSent>>

\* (Mutant of Unconfirmed: the confirmation is awaited for ever.)
UnconfirmedNever(c) == FALSE /\ UNCHANGED vars

\* cancel_timeout is over: escalate, or give up.
Unconfirmed(c) ==
    /\ pc[c] \in {"cancelling", "interrupting"}
    /\ IF pc[c] = "cancelling" /\ c \in escalating
       THEN /\ pc' = [pc EXCEPT ![c] = "interrupting"]
            /\ toServer' = Append(toServer, Request("INTERRUPT_REQUEST", c))
            /\ UNCHANGED <<outcome, pending, queues, queue, orphans>>
       ELSE End(c, "cancelled") /\ UNCHANGED toServer
    /\ UNCHANGED <<taken, answer, toAgent, server, cancelSent>>

\* The consumer is cancelled once more, while the cancellation is confirmed.
CancelAgain(c) ==
    /\ pc[c] \in {"cancelling", "interrupting"}
    /\ End(c, "cancelled")
    /\ UNCHANGED <<taken, answer, toServer, toAgent, server, cancelSent>>

-----------------------------------------------------------------------------
(* The agent hands the postman what the socket brings.                     *)

\* handle_response: create the task's queue, whoever waits for it, and resolve the
\* future if somebody does.
HandleResponse ==
    /\ toAgent # <<>> /\ Head(toAgent) \in Responses
    /\ toAgent' = Tail(toAgent)
    /\ LET c == Head(toAgent).call IN
          /\ IF Head(toAgent).answer = "task" /\ c \notin Questions
             THEN Bound(c)
             ELSE UNCHANGED <<queues, queue, orphans>>
          /\ answer' = IF c \in pending THEN [answer EXCEPT ![c] = Head(toAgent).answer] ELSE answer
    /\ UNCHANGED <<generator, pending, toServer, server, cancelSent>>

Park(c, seq) == orphans' = [orphans EXCEPT ![c] = Append(@, seq)]

\* handle_execution_event: to the task's queue, or parked until there is one.
HandleEvent ==
    /\ toAgent # <<>> /\ Head(toAgent) \in Mirrors
    /\ toAgent' = Tail(toAgent)
    /\ LET c == Head(toAgent).call
           seq == Head(toAgent).seq
       IN IF c \in queues
          THEN queue' = [queue EXCEPT ![c] = Append(@, seq)] /\ UNCHANGED orphans
          ELSE Park(c, seq) /\ UNCHANGED queue
    /\ UNCHANGED <<generator, pending, answer, queues, toServer, server, cancelSent>>

-----------------------------------------------------------------------------
(* The server.                                                             *)

\* It reads a request.  What a cancel does to the child is in its events.
ServerReads ==
    /\ toServer # <<>>
    /\ toServer' = Tail(toServer)
    /\ owed' = IF Head(toServer).type = "ASSIGN_REQUEST" THEN owed \cup {Head(toServer).call} ELSE owed
    /\ UNCHANGED <<generator, postman, toAgent, answered, count, ending, mirrored, cancelSent>>

Replay(c) == [i \in 1 .. IF c \in earlier THEN count[c] ELSE 0 |-> [call |-> c, seq |-> i]]

\* It answers: with an error, or with the task, and the events so far of a child
\* it found again.
ServerAnswers(c) ==
    /\ c \in owed
    /\ owed' = owed \ {c}
    /\ \/ /\ c \notin earlier /\ count[c] = 0
          /\ toAgent' = Append(toAgent, [call |-> c, answer |-> "error"])
          /\ UNCHANGED answered
       \/ /\ toAgent' = Append(toAgent, [call |-> c, answer |-> "task"]) \o Replay(c)
          /\ answered' = answered \cup {c}
    /\ UNCHANGED <<generator, postman, toServer, count, ending, mirrored, cancelSent>>

\* The child goes on, or ends.  It may before its call is answered.
ChildGoesOn(c) ==
    /\ c \in (owed \cup answered \cup earlier) \ Questions
    /\ ending[c] = "none" /\ count[c] < MaxSeq
    /\ count' = [count EXCEPT ![c] = @ + 1]
    /\ \E kind \in Endings \cup {"none"} :
          /\ count[c] + 1 = MaxSeq => kind # "none"
          /\ ending' = [ending EXCEPT ![c] = kind]
    /\ UNCHANGED <<generator, postman, toServer, toAgent, owed, answered, mirrored, cancelSent>>

\* It mirrors the child's next event to the caller.
ServerMirrors(c) ==
    /\ mirrored[c] < count[c]
    /\ c \in earlier => c \in answered \/ (liveFirst /\ c \in owed)
    /\ mirrored' = [mirrored EXCEPT ![c] = @ + 1]
    /\ toAgent' = Append(toAgent, [call |-> c, seq |-> mirrored[c] + 1])
    /\ UNCHANGED <<generator, postman, toServer, owed, answered, count, ending, cancelSent>>

-----------------------------------------------------------------------------
Step ==
    \/ \E c \in Calls :
          \/ Ask(c) \/ Answered(c) \/ Take(c) \/ Resume(c)
          \/ CancelAsking(c) \/ CancelStreaming(c) \/ Close(c)
          \/ Drain(c) \/ Unconfirmed(c) \/ CancelAgain(c)
          \/ ServerAnswers(c) \/ ChildGoesOn(c) \/ ServerMirrors(c)
    \/ HandleResponse \/ HandleEvent \/ ServerReads

Same == UNCHANGED scenario

Next == Step /\ Same

Spec == Init /\ [][Next]_vars

\* The loop runs its ready tasks and its timers; the consumer asks for more; the
\* server reads, answers and mirrors; and a child comes to an end.
Fairness ==
    /\ \A c \in Calls :
          /\ WF_vars(Answered(c) /\ Same) /\ WF_vars(Take(c) /\ Same) /\ WF_vars(Resume(c) /\ Same)
          /\ WF_vars(Unconfirmed(c) /\ Same)
          /\ WF_vars(ServerAnswers(c) /\ Same) /\ WF_vars(ChildGoesOn(c) /\ Same)
          /\ WF_vars(ServerMirrors(c) /\ Same)
    /\ WF_vars(HandleResponse /\ Same) /\ WF_vars(HandleEvent /\ Same) /\ WF_vars(ServerReads /\ Same)

FairSpec == Spec /\ Fairness

-----------------------------------------------------------------------------
(* Properties.                                                             *)

\* A call takes its child's events each once, in order and without a gap, and ends
\* only with the last: whatever outruns the answer is parked, whatever comes twice
\* is skipped.  (_ensure_queue, handle_execution_event, seen in _astream.)  Where a
\* live event overtakes the replay of a child found again, still each only once.
StreamInOrder ==
    \A c \in Calls :
        /\ IsInjective(taken[c])
        /\ ~(liveFirst /\ c \in earlier) =>
              /\ \A i \in DOMAIN taken[c] : taken[c][i] = i
              /\ outcome[c] = "ended" => ending[c] # "none" /\ Len(taken[c]) = count[c]

\* What a call that is over leaves in the postman, now or later.  Never its request; a
\* queue only if it was cancelled before it learned its task; and parked events only of
\* a child it went away from, or of one found again, and then (unless a live event
\* overtook the replay) none that it has not taken.  (The finally of _astream;
\* handle_response and handle_execution_event, which serve tasks nobody waits for.)
OnlyLateEventsStay ==
    \A c \in Calls : pc[c] = "done" =>
        /\ c \notin pending
        /\ c \in queues => outcome[c] = "cancelled" /\ c \notin cancelSent
        /\ orphans[c] # <<>> =>
              \/ outcome[c] \in {"cancelled", "closed"}
              \/ /\ outcome[c] = "ended" /\ c \in earlier
                 /\ liveFirst \/ Range(orphans[c]) \subseteq Range(taken[c])

\* A child whose caller went away after it heard from it is cancelled, whatever its
\* caller was waiting for.  (_confirm_cancellation and the GeneratorExit of _astream.)
AbandonedChildIsCancelled ==
    \A c \in Calls :
        outcome[c] \in {"cancelled", "closed"} /\ taken[c] # <<>> => c \in cancelSent

\* Every call comes to an end, if the server answers it and its child does: no
\* order of the answer and the mirrors makes it wait for what it dropped.
\* (handle_response, handle_execution_event, _astream.)
CallsEnd == \A c \in Calls : pc[c] = "asking" ~> pc[c] = "done"

\* A cancelled call does, whether or not the server answers: "Every wait is bounded"
\* (_confirm_cancellation).
CancellationEnds == \A c \in Calls : pc[c] = "cancelling" ~> pc[c] = "done"
=============================================================================
